\* A refresh between the search and the reading of its coverage: NoGapConcealed fails.
CONSTANTS
    b1 = b1
    p1 = p1
    p2 = p2
    Bugs = {b1}
    Products = {p1, p2}
    ProductOf <- MCProductOf
    Callers = {c}
    Limit = 1
    OverFetch = 2
    MaxHits = 2
    MaxVerifyCandidate = 3
    MaxFailedScanPercent = 60
    MaxBuilds = 2
    MaxChanges = 2
SPECIFICATION Spec
INVARIANTS
    NoGapConcealed
