\* Pages of two and budgets below, at and above one, two and three pages.
CONSTANTS
    DefaultPageSize = 2
    MaxBudget = 5
    MaxRecords = 6
    MaxDeletes = 2
SPECIFICATION Spec
INVARIANTS
    TypeOK
    DistinctWithinBudget
    CompleteUnlessTruncated
    ExactWhenQuiet
    EveryPageCounts
CHECK_DEADLOCK FALSE
