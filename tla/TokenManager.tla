--------------------------- MODULE TokenManager ---------------------------
(***************************************************************************)
(* ZentaoTokenManager (internal/middleware/zentao_token_manager.go): the   *)
(* one place of the server that logs in to ZenTao.  Every request that     *)
(* needs a token calls Token, TokenWithLoginGuard or Refresh; the manager  *)
(* answers from its cache, refuses, makes the caller wait for a login in   *)
(* flight, or logs in itself.  ZenTao locks an account after a handful of  *)
(* rejected logins, and the manager exists to stay below that number.      *)
(*                                                                         *)
(* A critical section of m.mu is one action.  Callers are the goroutines   *)
(* of concurrent requests.  The Go maps are functions with a finite domain *)
(* (len(m) is Cardinality(DOMAIN m)).                                      *)
(***************************************************************************)
EXTENDS Integers, FiniteSets, Functions

CONSTANTS
    Callers,          \* concurrent calls of Token / Refresh
    Accounts,         \* account names as the cache tells them apart
    Passwords,        \* stands for the SHA-256 of a password
    Protection,       \* [Accounts -> bucket]: lower case, trimmed
    SharedPrefix,     \* [Accounts -> SUBSET Accounts]: whose failure keys start with key#
    NoToken,          \* the empty string
    FailureLimit, FailureWindow, TokenTTL, FailureTTL, MaxCacheEntries,
    BackoffBase, BackoffMax,
    LostReplies,      \* may an answer of ZenTao be lost on its way back?
    PromptReplies,    \* does an answer arrive before the clock moves?
    MaxTime,          \* bound on the clock
    MaxCalls          \* bound on the calls of the exported methods

Buckets == {Protection[a] : a \in Accounts}
Token   == [account : Accounts, password : Passwords, serial : Nat]

ASSUME KeysAssumption ==
    /\ IsFiniteSet(Accounts) /\ IsFiniteSet(Passwords)
    /\ Accounts # {} /\ Passwords # {}
    /\ Protection \in [Accounts -> Buckets]
    /\ SharedPrefix \in [Accounts -> SUBSET Accounts]
    /\ \A a \in Accounts : a \in SharedPrefix[a]
    /\ NoToken \notin Token

\* ZentaoAuthOptions.normalized leaves no option at or below zero.
ASSUME OptionsAssumption ==
    /\ FailureLimit \in Nat \ {0} /\ FailureWindow \in Nat \ {0}
    /\ TokenTTL \in Nat \ {0} /\ FailureTTL \in Nat \ {0}
    /\ MaxCacheEntries \in Nat \ {0}
    /\ BackoffBase \in Nat \ {0} /\ BackoffMax \in Nat \ {0}

ASSUME EnvironmentAssumption ==
    /\ LostReplies \in BOOLEAN /\ PromptReplies \in BOOLEAN
    /\ MaxTime \in Nat /\ MaxCalls \in Nat

VARIABLES
    tokens,           \* m.tokens: session cache, by account
    failures,         \* m.failures: backoff, by account and password
    accountFailures,  \* m.accountFailures: login budget, by bucket
    inflight,         \* m.inflight: the open done channel, by bucket
    now,              \* m.now()
    pc,               \* where each caller is
    req,              \* its arguments
    cancelled,        \* ctx.Err() # nil
    chan,             \* the done channel it made or waits on
    verdict,          \* what ZenTao decided about its login, not yet received
    result,           \* what its last call returned
    upstream,         \* ZenTao's own count of rejected logins, by bucket
    logins,           \* logins begun so far: names channels and tokens
    calls             \* calls begun so far

managerVars == <<tokens, failures, accountFailures, inflight>>
callerVars  == <<pc, req, cancelled, chan, verdict, result>>
vars == <<managerVars, now, callerVars, upstream, logins, calls>>

---------------------------------------------------------------------------
(* Go maps.                                                                *)

Put(m, k, v)  == [x \in DOMAIN m \cup {k} |-> IF x = k THEN v ELSE m[x]]
Drop(m, ks)   == Restrict(m, DOMAIN m \ ks)
Size(m)       == Cardinality(DOMAIN m)
Empty         == [x \in {} |-> x]

TokenEntry   == [token : Token, password : Passwords, expiresAt : Nat, lastUsed : Nat]
FailureEntry == [err : {"rejected", "failed"}, until : Nat, count : Nat, expiresAt : Nat]
AccountFailureEntry == [count : Nat, until : Nat]

IsMap(m, K, V) == DOMAIN m \subseteq K /\ m \in [DOMAIN m -> V]

Request == [account : Accounts, password : Passwords, stale : Token \cup {NoToken}]
Outcome == {"none", "token", "rejected", "failed", "throttled", "guarded", "cancelled"}

TypeOK ==
    /\ IsMap(tokens, Accounts, TokenEntry)
    /\ IsMap(failures, Accounts \X Passwords, FailureEntry)
    /\ IsMap(accountFailures, Buckets, AccountFailureEntry)
    /\ IsMap(inflight, Buckets, Nat)
    /\ now \in Nat
    /\ pc \in [Callers -> {"idle", "lookup", "waiting", "login", "reply"}]
    /\ req \in [Callers -> Request]
    /\ cancelled \in [Callers -> BOOLEAN]
    /\ chan \in [Callers -> Nat]
    /\ verdict \in [Callers -> {"none", "accepted", "rejected", "failed"}]
    /\ result \in [Callers -> [kind : Outcome, token : Token \cup {NoToken}]]
    /\ upstream \in [Buckets -> AccountFailureEntry]
    /\ logins \in Nat
    /\ calls \in Nat

NoRequest == [account  |-> CHOOSE a \in Accounts : TRUE,
              password |-> CHOOSE p \in Passwords : TRUE,
              stale    |-> NoToken]
NoFailures == [count |-> 0, until |-> 0]   \* the zero accountFailureEntry

Init ==
    /\ tokens = Empty /\ failures = Empty /\ accountFailures = Empty /\ inflight = Empty
    /\ now = 0
    /\ pc = [c \in Callers |-> "idle"]
    /\ req = [c \in Callers |-> NoRequest]
    /\ cancelled = [c \in Callers |-> FALSE]
    /\ chan = [c \in Callers |-> 0]
    /\ verdict = [c \in Callers |-> "none"]
    /\ result = [c \in Callers |-> [kind |-> "none", token |-> NoToken]]
    /\ upstream = [b \in Buckets |-> NoFailures]
    /\ logins = 0
    /\ calls = 0

---------------------------------------------------------------------------
(* The names of the code: key, hash, protectionKey and fkey of a call.     *)

key(c)           == req[c].account
hash(c)          == req[c].password
protectionKey(c) == Protection[key(c)]
fkey(c)          == <<key(c), hash(c)>>

(* A caller enters with new credentials (Token, TokenWithLoginGuard), or   *)
(* with the credentials and the token of its last call when ZenTao         *)
(* answered 401 to that token (Refresh).                                   *)

Enter(c, r) ==
    /\ pc[c] = "idle" /\ calls < MaxCalls
    /\ pc' = [pc EXCEPT ![c] = "lookup"]
    /\ req' = [req EXCEPT ![c] = r]
    /\ result' = [result EXCEPT ![c] = [kind |-> "none", token |-> NoToken]]
    /\ calls' = calls + 1
    /\ UNCHANGED <<managerVars, now, cancelled, chan, verdict, upstream, logins>>

CallToken(c) ==
    \E a \in Accounts, p \in Passwords :
        Enter(c, [account |-> a, password |-> p, stale |-> NoToken])

CallRefresh(c) ==
    /\ result[c].kind = "token"
    /\ Enter(c, [req[c] EXCEPT !.stale = result[c].token])

(* The client of the request goes away.                                    *)
Cancel(c) ==
    /\ pc[c] # "idle" /\ ~cancelled[c]
    /\ cancelled' = [cancelled EXCEPT ![c] = TRUE]
    /\ UNCHANGED <<managerVars, now, pc, req, chan, verdict, result, upstream, logins, calls>>

Return(c, kind, t) ==
    /\ pc' = [pc EXCEPT ![c] = "idle"]
    /\ result' = [result EXCEPT ![c] = [kind |-> kind, token |-> t]]
    /\ req' = IF kind = "token" THEN req ELSE [req EXCEPT ![c] = NoRequest]
    /\ cancelled' = [cancelled EXCEPT ![c] = FALSE]
    /\ chan' = [chan EXCEPT ![c] = 0]
    /\ verdict' = [verdict EXCEPT ![c] = "none"]

---------------------------------------------------------------------------
(* cleanupLocked, which every lookup runs first.                           *)

LiveTokens   == Restrict(tokens, {a \in DOMAIN tokens : now < tokens[a].expiresAt})
LiveFailures == Restrict(failures, {k \in DOMAIN failures : now < failures[k].expiresAt})
\* Mutant: cleanup does not ask whether a login is in flight.
LiveAccounts_DropsBusy ==
    Restrict(accountFailures, {b \in DOMAIN accountFailures : now < accountFailures[b].until})

LiveAccounts == Restrict(accountFailures,
    {b \in DOMAIN accountFailures : b \in DOMAIN inflight \/ now < accountFailures[b].until})

Cleaned ==
    /\ tokens' = LiveTokens
    /\ failures' = LiveFailures
    /\ accountFailures' = LiveAccounts

Cleanup == Cleaned /\ UNCHANGED <<inflight, now, callerVars, upstream, logins, calls>>

(* What a lookup finds, in the order token() asks.                         *)

\* Mutant: the password is not compared.
HasSession_AnyPassword(c) ==
    key(c) \in DOMAIN LiveTokens /\ LiveTokens[key(c)].token # req[c].stale
\* Mutant: off by one at the limit.
OverBudget_OffByOne(c) ==
    /\ protectionKey(c) \in DOMAIN LiveAccounts
    /\ LiveAccounts[protectionKey(c)].count > FailureLimit
\* Mutant: logins are not coalesced.
Busy_Never(c) == FALSE
\* Mutant: off by one at the size limit.
NoRoom_OffByOne(c) ==
    /\ protectionKey(c) \notin DOMAIN LiveAccounts
    /\ Size(LiveAccounts) > MaxCacheEntries

HasSession(c) ==
    /\ key(c) \in DOMAIN LiveTokens
    /\ LiveTokens[key(c)].password = hash(c)
    /\ LiveTokens[key(c)].token # req[c].stale
OverBudget(c) ==
    /\ protectionKey(c) \in DOMAIN LiveAccounts
    /\ LiveAccounts[protectionKey(c)].count >= FailureLimit
BackingOff(c) ==
    /\ fkey(c) \in DOMAIN LiveFailures
    /\ now < LiveFailures[fkey(c)].until
Busy(c)   == protectionKey(c) \in DOMAIN inflight
NoRoom(c) ==
    /\ protectionKey(c) \notin DOMAIN LiveAccounts
    /\ Size(LiveAccounts) >= MaxCacheEntries

(* The context is checked before the lock is taken: nothing is cleaned.    *)
ReturnCancelled(c) ==
    /\ pc[c] = "lookup" /\ cancelled[c]
    /\ Return(c, "cancelled", NoToken)
    /\ UNCHANGED <<managerVars, now, upstream, logins, calls>>

LookingUp(c) == pc[c] = "lookup" /\ ~cancelled[c]

ReuseSession(c) ==
    /\ LookingUp(c) /\ HasSession(c)
    /\ tokens' = [LiveTokens EXCEPT ![key(c)].lastUsed = now]
    /\ failures' = LiveFailures
    /\ accountFailures' = LiveAccounts
    /\ Return(c, "token", LiveTokens[key(c)].token)
    /\ UNCHANGED <<inflight, now, upstream, logins, calls>>

(* The three local refusals.  None of them moves a deadline.               *)
Refuse(c, kind) ==
    /\ Cleaned
    /\ Return(c, kind, NoToken)
    /\ UNCHANGED <<inflight, now, upstream, logins, calls>>

ThrottleAccount(c) ==
    LookingUp(c) /\ ~HasSession(c) /\ OverBudget(c) /\ Refuse(c, "throttled")

SuppressRetry(c) ==
    /\ LookingUp(c) /\ ~HasSession(c) /\ ~OverBudget(c) /\ BackingOff(c)
    /\ Refuse(c, LiveFailures[fkey(c)].err)

MayLogin(c) == LookingUp(c) /\ ~HasSession(c) /\ ~OverBudget(c) /\ ~BackingOff(c)

WaitForLogin(c) ==
    /\ MayLogin(c) /\ Busy(c)
    /\ Cleaned
    /\ pc' = [pc EXCEPT ![c] = "waiting"]
    /\ chan' = [chan EXCEPT ![c] = inflight[protectionKey(c)]]
    /\ UNCHANGED <<inflight, now, req, cancelled, verdict, result, upstream, logins, calls>>

RefuseNewAccount(c) ==
    MayLogin(c) /\ ~Busy(c) /\ NoRoom(c) /\ Refuse(c, "throttled")

(* guard() is the login rate limiter; Refresh passes none.                 *)
GuardRefuses(c) ==
    /\ MayLogin(c) /\ ~Busy(c) /\ ~NoRoom(c)
    /\ req[c].stale = NoToken
    /\ Refuse(c, "guarded")

BeginLogin(c) ==
    /\ MayLogin(c) /\ ~Busy(c) /\ ~NoRoom(c)
    /\ tokens' = LiveTokens /\ failures' = LiveFailures
    /\ accountFailures' =
           IF protectionKey(c) \in DOMAIN LiveAccounts THEN LiveAccounts
           ELSE Put(LiveAccounts, protectionKey(c), [count |-> 0, until |-> now + FailureWindow])
    /\ inflight' = Put(inflight, protectionKey(c), logins + 1)
    /\ logins' = logins + 1
    /\ pc' = [pc EXCEPT ![c] = "login"]
    /\ chan' = [chan EXCEPT ![c] = logins + 1]
    /\ UNCHANGED <<now, req, cancelled, verdict, result, upstream, calls>>

(* A waiter sleeps until its channel is closed or its context ends.        *)
Closed(n) == \A b \in DOMAIN inflight : inflight[b] # n

Wake(c) ==
    /\ pc[c] = "waiting" /\ Closed(chan[c])
    /\ pc' = [pc EXCEPT ![c] = "lookup"]
    /\ chan' = [chan EXCEPT ![c] = 0]
    /\ UNCHANGED <<managerVars, now, req, cancelled, verdict, result, upstream, logins, calls>>

StopWaiting(c) ==
    /\ pc[c] = "waiting" /\ cancelled[c]
    /\ Return(c, "cancelled", NoToken)
    /\ UNCHANGED <<managerVars, now, upstream, logins, calls>>

---------------------------------------------------------------------------
(* ZenTao (external).  It counts the rejected logins of an account, starts *)
(* over after an accepted one or after a quiet window, and restarts the    *)
(* window at every rejection.  A failed login (outage, timeout before the  *)
(* request arrived) is not counted.                                        *)

\* Mutant: the count goes down.
RejectedOnce_CountsDown(r) == [count |-> r.count - 1, until |-> now + FailureWindow]

RejectedOnce(r) == [count |-> IF now < r.until THEN r.count + 1 ELSE 1,
                    until |-> now + FailureWindow]

Decide(c, v) ==
    /\ pc[c] = "login"
    /\ pc' = [pc EXCEPT ![c] = "reply"]
    /\ verdict' = [verdict EXCEPT ![c] = v]
    /\ LET b == protectionKey(c) IN
       upstream' = CASE v = "accepted" -> [upstream EXCEPT ![b] = NoFailures]
                     [] v = "rejected" -> [upstream EXCEPT ![b] = RejectedOnce(upstream[b])]
                     [] OTHER          -> upstream
    /\ UNCHANGED <<managerVars, now, req, cancelled, chan, result, logins, calls>>

---------------------------------------------------------------------------
(* The second critical section: the answer is recorded, the done channel   *)
(* is closed.                                                              *)

\* Mutant: a cancelled caller returns before it closes its channel.
CloseDone_UnlessCancelled(c) ==
    inflight' = IF cancelled[c] THEN inflight ELSE Drop(inflight, {protectionKey(c)})

CloseDone(c) == inflight' = Drop(inflight, {protectionKey(c)})

Smaller(m, n) == IF m < n THEN m ELSE n
Larger(m, n)  == IF m < n THEN n ELSE m

(* recordFailure: double the wait, 15s << min(count, 6), capped.           *)
Doubling   == <<1, 2, 4, 8, 16, 32, 64>>
Wait(n)    == Smaller(BackoffBase * Doubling[Smaller(n, 6) + 1], BackoffMax)
Count(k)   == IF k \in DOMAIN failures THEN failures[k].count ELSE 0

(* A full cache gives up an entry that expires first, whichever the range  *)
(* over the map meets.                                                     *)
FailureVictims(k) ==
    IF k \in DOMAIN failures \/ Size(failures) < MaxCacheEntries THEN {{}}
    ELSE {{x} : x \in {x \in DOMAIN failures :
             \A y \in DOMAIN failures : failures[x].expiresAt <= failures[y].expiresAt}}

RecordFailure(c, err) ==
    IF cancelled[c] THEN failures' = failures
    ELSE \E victims \in FailureVictims(fkey(c)) :
           failures' = Put(Drop(failures, victims), fkey(c),
               [err       |-> err,
                until     |-> now + Wait(Count(fkey(c))),
                count     |-> Count(fkey(c)) + 1,
                expiresAt |-> now + Larger(FailureTTL, Wait(Count(fkey(c))))])

(* A failed login forgets the session it was refreshing, and only when it  *)
(* used the same password.                                                 *)
\* Mutant: a wrong password evicts the working session.
ForgetOwnSession_AnyPassword(c) ==
    tokens' = IF key(c) \in DOMAIN tokens THEN Drop(tokens, {key(c)}) ELSE tokens

ForgetOwnSession(c) ==
    tokens' = IF key(c) \in DOMAIN tokens /\ tokens[key(c)].password = hash(c)
              THEN Drop(tokens, {key(c)}) ELSE tokens

(* makeTokenRoomLocked: the least recently used session goes.              *)
TokenVictims(a) ==
    IF a \in DOMAIN tokens \/ Size(tokens) < MaxCacheEntries THEN {{}}
    ELSE {{x} : x \in {x \in DOMAIN tokens :
             \A y \in DOMAIN tokens : tokens[x].lastUsed <= tokens[y].lastUsed}}

Issued(c) == [account |-> key(c), password |-> hash(c), serial |-> chan[c]]

ReceiveAccepted(c) ==
    /\ pc[c] = "reply" /\ verdict[c] = "accepted"
    /\ accountFailures' = Drop(accountFailures, {protectionKey(c)})
    /\ failures' = Restrict(failures, {k \in DOMAIN failures : k[1] \notin SharedPrefix[key(c)]})
    /\ \E victims \in TokenVictims(key(c)) :
           tokens' = Put(Drop(tokens, victims), key(c),
               [token |-> Issued(c), password |-> hash(c),
                expiresAt |-> now + TokenTTL, lastUsed |-> now])
    /\ CloseDone(c)
    /\ Return(c, "token", Issued(c))
    /\ UNCHANGED <<now, upstream, logins, calls>>

Budget(b) == IF b \in DOMAIN accountFailures THEN accountFailures[b] ELSE NoFailures

(* An attempt that was not rejected gives its unused entry back.           *)
\* Mutant: the whole entry is given back, whatever it counted.
ReleaseBudget_Always(c) == accountFailures' = Drop(accountFailures, {protectionKey(c)})

ReleaseBudget(c) ==
    accountFailures' = IF Budget(protectionKey(c)).count = 0
                       THEN Drop(accountFailures, {protectionKey(c)})
                       ELSE accountFailures

(* 400, 401 or 403: the account's budget shrinks, and the quiet period     *)
(* starts again at this moment.                                            *)
ReceiveRejected(c) ==
    /\ pc[c] = "reply" /\ verdict[c] = "rejected"
    /\ ForgetOwnSession(c)
    /\ RecordFailure(c, "rejected")
    /\ accountFailures' = Put(accountFailures, protectionKey(c),
                              RejectedOnce(Budget(protectionKey(c))))
    /\ CloseDone(c)
    /\ Return(c, "rejected", NoToken)
    /\ UNCHANGED <<now, upstream, logins, calls>>

(* Any other error: an outage, another status, a timeout, a cancelled      *)
(* context.  When answers can be lost, ZenTao may have decided otherwise.  *)
ReceiveFailed(c) ==
    /\ pc[c] = "reply" /\ (LostReplies \/ verdict[c] = "failed")
    /\ ForgetOwnSession(c)
    /\ RecordFailure(c, "failed")
    /\ ReleaseBudget(c)
    /\ CloseDone(c)
    /\ Return(c, "failed", NoToken)
    /\ UNCHANGED <<now, upstream, logins, calls>>

---------------------------------------------------------------------------

Tick ==
    /\ now < MaxTime
    /\ PromptReplies => \A c \in Callers : pc[c] # "reply"
    /\ now' = now + 1
    /\ UNCHANGED <<managerVars, callerVars, upstream, logins, calls>>

Lookup(c) ==
    \/ ReturnCancelled(c) \/ ReuseSession(c) \/ ThrottleAccount(c) \/ SuppressRetry(c)
    \/ WaitForLogin(c) \/ RefuseNewAccount(c) \/ GuardRefuses(c) \/ BeginLogin(c)

Receive(c) == ReceiveAccepted(c) \/ ReceiveRejected(c) \/ ReceiveFailed(c)

Answer(c) == \E v \in {"accepted", "rejected", "failed"} : Decide(c, v)

Next ==
    \/ \E c \in Callers :
           \/ CallToken(c) \/ CallRefresh(c) \/ Cancel(c)
           \/ Lookup(c) \/ Wake(c) \/ StopWaiting(c)
           \/ Answer(c) \/ Receive(c)
    \/ Cleanup
    \/ Tick

Spec == Init /\ [][Next]_vars

(* A goroutine that can run does, and a login ends within its 30 seconds.  *)
(* Nobody has to call, to cancel or to wait for the clock.                 *)
Fairness == \A c \in Callers :
    /\ WF_vars(Lookup(c)) /\ WF_vars(Wake(c) \/ StopWaiting(c))
    /\ WF_vars(Answer(c)) /\ WF_vars(Receive(c))

FairSpec == Spec /\ Fairness

---------------------------------------------------------------------------
(* Properties.                                                             *)

LoggingIn(c) == pc[c] \in {"login", "reply"}
Pending(b)   == \E c \in Callers : pc[c] = "reply" /\ Protection[req[c].account] = b

(* However callers spell an account and whatever passwords they send, one  *)
(* login of it is in flight at most (token(), 185-221).                    *)
OneLoginPerAccount ==
    \A c, d \in Callers :
        LoggingIn(c) /\ LoggingIn(d) /\ Protection[req[c].account] = Protection[req[d].account]
            => c = d

(* Every open done channel has a login behind it that will close it, and   *)
(* every login has its channel: no waiter sleeps on a login that is over.  *)
NoAbandonedWaiters ==
    /\ \A b \in DOMAIN inflight :
           \E c \in Callers : LoggingIn(c) /\ Protection[req[c].account] = b
    /\ \A c \in Callers : LoggingIn(c) =>
           /\ Protection[req[c].account] \in DOMAIN inflight
           /\ inflight[Protection[req[c].account]] = chan[c]

(* The server never makes ZenTao count more rejected logins of an account  *)
(* than FailureLimit: "a third rejected login can lock a ZenTao account"   *)
(* (zentao_token_manager.go:37), "after two logins that were actually      *)
(* rejected the account's new logins stop" (deploy/cloud/README.md:109).   *)
WithinBudget == \A b \in Buckets : upstream[b].count <= FailureLimit

(* The server's budget and ZenTao's count agree whenever no answer is on   *)
(* its way: cleanup, other accounts, other spellings and failed attempts   *)
(* neither make the server forget a rejection early nor hold one against   *)
(* an account that ZenTao has forgiven.                                    *)
Agree(b) ==
    /\ upstream[b].count > 0 /\ now < upstream[b].until =>
           b \in DOMAIN accountFailures /\ accountFailures[b] = upstream[b]
    /\ b \in DOMAIN accountFailures
       /\ accountFailures[b].count > 0 /\ now < accountFailures[b].until =>
           accountFailures[b] = upstream[b]

BudgetAgrees == \A b \in Buckets : ~Pending(b) => Agree(b)

(* The protection bucket of an account whose login is in flight is there:  *)
(* neither cleanup nor the size limit takes it away (196-221, 320-324).    *)
ActiveBucketKept == DOMAIN inflight \subseteq DOMAIN accountFailures

(* No cache outgrows max_cache_entries (docs/zentao-mcp-usage.md:345).     *)
CachesBounded ==
    /\ Size(tokens) <= MaxCacheEntries
    /\ Size(failures) <= MaxCacheEntries
    /\ Size(accountFailures) <= MaxCacheEntries

(* A caller is only ever given a session that ZenTao opened for exactly    *)
(* its account and password, and never the token it came to replace.       *)
AnswersFitTheCall ==
    \A c \in Callers : result[c].kind = "token" =>
        /\ result[c].token.account = req[c].account
        /\ result[c].token.password = req[c].password
        /\ result[c].token # req[c].stale

Lost(a) ==
    /\ now < tokens[a].expiresAt
    /\ a \in DOMAIN tokens' => tokens'[a].token # tokens[a].token

\* The end of c's login explains the loss of a's session.
MayLose(c, a) ==
    /\ LoggingIn(c) /\ pc'[c] = "idle"
    /\ \/ req[c].account = a /\ req[c].password # tokens[a].password /\ verdict[c] = "accepted"
       \/ req[c].account = a /\ req[c].stale = tokens[a].token
       \/ /\ req[c].account # a /\ verdict[c] = "accepted"
          /\ Size(tokens) >= MaxCacheEntries
          /\ \A x \in DOMAIN tokens : tokens[a].lastUsed <= tokens[x].lastUsed

(* A session that has not expired is lost in three ways only: another      *)
(* password of the account was accepted; the login that ended was a        *)
(* refresh of this very token (so two 401s to one token make one login);   *)
(* or it was the least recently used of a full cache.                      *)
SessionsSurvive == [][\A a \in DOMAIN tokens : Lost(a) => \E c \in Callers : MayLose(c, a)]_vars

(* Every call returns: nobody waits for ever on another caller's login.    *)
EveryCallReturns == \A c \in Callers : pc[c] # "idle" ~> pc[c] = "idle"

(* The manager keeps the promise AccountLockout states.                    *)
LoginPhase(b) ==
    IF b \notin DOMAIN inflight THEN "none" ELSE IF Pending(b) THEN "answered" ELSE "asked"

Lockout == INSTANCE AccountLockout WITH
    Names  <- Buckets,
    login  <- [b \in Buckets |-> LoginPhase(b)],
    record <- upstream

ImplementsLockout == Lockout!Spec

=============================================================================
