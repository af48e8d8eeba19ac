\* Up to four candidates in batches of two.
CONSTANTS
    b1 = b1
    p1 = p1
    p2 = p2
    Bugs = {b2, b3, b4, b5}
    Products = {p2}
    ProductOf <- MCProductOf
    Callers = {c}
    Limit = 2
    OverFetch = 2
    MaxHits = 4
    MaxVerifyCandidate = 5
    MaxFailedScanPercent = 20
    MaxBuilds = 1
    MaxChanges = 1
SPECIFICATION Spec
SYMMETRY BugSymmetry
INVARIANTS
    ReadAsCaller
    EveryCandidateAccounted
