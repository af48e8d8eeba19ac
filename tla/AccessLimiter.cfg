\* Three addresses and room for two; a request costs more than a tick adds.
CONSTANTS
    IPs = {a, b, c}
    Cost = 5
    Rate = 3
    Burst = 2
    IPRate = 2
    IPBurst = 1
    MaxEntries = 2
    IdleTTL = 3
    CleanupEvery = 2
    MaxWait = 2
    MaxTime = 8
SPECIFICATION Spec
INVARIANTS
    TypeOK
    GlobalWithinRate
    AddressWithinRate
PROPERTIES
    RetryAfterIsEnough
