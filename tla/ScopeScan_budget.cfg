\* A search whose first scan fails after some pages: SearchWithinMaxScan fails.
CONSTANTS
    Scopes = {s, t}
    Records = {r1, r2}
    MaxScan = 2
    MaxTargets = 2
    MaxChanges = 0
SPECIFICATION Spec
INVARIANTS
    SearchWithinMaxScan
CHECK_DEADLOCK FALSE
