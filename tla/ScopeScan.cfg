\* Two overlapping scopes, named up to three times; a budget below their sizes together.
CONSTANTS
    Scopes = {s, t}
    Records = {r1, r2}
    MaxScan = 2
    MaxTargets = 3
    MaxChanges = 1
SPECIFICATION Spec
INVARIANTS
    TypeOK
    CompleteUnlessTold
    FailuresAreLocal
    WorklogWithinMaxScan
    CountedOnce
CHECK_DEADLOCK FALSE
