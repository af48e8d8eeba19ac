\* Two accounts compete for caches of one entry; answers may be late; four calls allow two
\* concurrent refreshes.  No symmetry, because of the liveness property.
CONSTANTS
    alice = alice
    Alice = Alice
    bob = bob
    NoToken = NoToken
    Callers = {c1, c2}
    Accounts = {alice, bob}
    Passwords = {p}
    Protection <- MCProtection
    SharedPrefix <- MCHashPrefix
    FailureLimit = 2
    FailureWindow = 1
    TokenTTL = 1
    FailureTTL = 3
    MaxCacheEntries = 1
    BackoffBase = 1
    BackoffMax = 2
    LostReplies = FALSE
    PromptReplies = FALSE
    MaxTime = 2
    MaxCalls = 4
SPECIFICATION FairSpec
INVARIANTS
    ActiveBucketKept
    CachesBounded
PROPERTIES
    EveryCallReturns
