\* Two requests at once, one account with two passwords and a personal token; the session
\* lives for one unit, ZenTao may close two and its answers may be lost, one client may
\* hang up.
CONSTANTS
    alice = alice
    p = p
    q = q
    own = own
    NoToken = NoToken
    NoHeader = NoHeader
    Unfit = Unfit
    Callers = {c1, c2}
    Accounts = {alice}
    Passwords = {p, q}
    PersonalTokens = {own}
    Inputs <- MCInputs
    Protection <- MCProtection
    SharedPrefix <- MCSharedPrefix
    FailureLimit = 1
    FailureWindow = 1
    TokenTTL = 1
    FailureTTL = 1
    MaxCacheEntries = 2
    BackoffBase = 1
    BackoffMax = 1
    LostReplies = TRUE
    PromptReplies = TRUE
    MaxTime = 1
    MaxCalls = 6
    MaxRequests = 2
    MaxBusiness = 1
    MaxClosed = 2
    MaxHangUps = 1
SPECIFICATION GateSpec
SYMMETRY CallerSymmetry
INVARIANTS
    ActsAsCaller
    EffectsAtMostOnce
    ExpiryIsInvisible
    RefusalIsHonest
CHECK_DEADLOCK FALSE
