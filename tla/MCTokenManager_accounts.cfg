\* Three callers, three spellings of one account, two passwords; room for two sessions.
CONSTANTS
    alice = alice
    Alice = Alice
    bob = bob
    NoToken = NoToken
    Callers = {c1, c2, c3}
    Accounts = {alice, Alice, ALICE}
    Passwords = {p, q}
    Protection <- MCProtection
    SharedPrefix <- MCSharedPrefix
    FailureLimit = 2
    FailureWindow = 2
    TokenTTL = 2
    FailureTTL = 3
    MaxCacheEntries = 2
    BackoffBase = 1
    BackoffMax = 2
    LostReplies = FALSE
    PromptReplies = TRUE
    MaxTime = 3
    MaxCalls = 3
SPECIFICATION Spec
SYMMETRY CallerSymmetry
INVARIANTS
    TypeOK
    OneLoginPerAccount
    NoAbandonedWaiters
    WithinBudget
    BudgetAgrees
    AnswersFitTheCall
PROPERTIES
    SessionsSurvive
    ImplementsLockout
