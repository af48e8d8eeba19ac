\* Documents of up to four schemas against some three hundred answers, operations with
\* every placement of a parameter, bugs with histories of up to three actions, and bugs that
\* are resolved, reopened and resolved again.
CONSTANTS
    Apis <- MCApis
    ArgumentsFor <- MCArgumentsFor
    BodiesFor <- MCBodiesFor
    Accepts <- MCAccepts
    AskedOn <- MCAskedOn
    Views <- MCViews
    FieldNames = {"f", "h", "result"}
    SchemaDepth = 6
    ValueDepth = 4
    MaxIDs = 3
    BugIDs = {1, 2, 3, 5}
    Limits = {0, 1, 2}
    PublishOutputSchema = TRUE
    RelatedLimit = 2
    MaxRelated = 2
    OverFetch = 2
    MaxHits = 2
SPECIFICATION Spec
INVARIANTS
    OutputPasses
    NumbersRestored
    ArgumentsSent
    
    RelatedAreReadable
CHECK_DEADLOCK FALSE
