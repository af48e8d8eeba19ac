\* An answer may arrive after the clock has moved: WithinBudget fails.
CONSTANTS
    alice = alice
    Alice = Alice
    bob = bob
    NoToken = NoToken
    Callers = {c1}
    Accounts = {alice}
    Passwords = {p, q}
    Protection <- MCProtection
    SharedPrefix <- MCSharedPrefix
    FailureLimit = 2
    FailureWindow = 2
    TokenTTL = 2
    FailureTTL = 3
    MaxCacheEntries = 2
    BackoffBase = 1
    BackoffMax = 2
    LostReplies = FALSE
    PromptReplies = FALSE
    MaxTime = 6
    MaxCalls = 6
SPECIFICATION Spec
INVARIANTS
    WithinBudget
