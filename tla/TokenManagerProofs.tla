------------------------ MODULE TokenManagerProofs ------------------------
(***************************************************************************)
(* Theorems about TokenManager, for any callers, accounts, passwords and   *)
(* options: first the budget of an account, then the caches and what       *)
(* callers are given from them.                                            *)
(***************************************************************************)
EXTENDS TokenManager, FiniteSetTheorems, TLAPS

---------------------------------------------------------------------------
(* Maps.                                                                   *)

LEMMA EmptyIsMap == ASSUME NEW K, NEW V PROVE IsMap(Empty, K, V)
  BY DEF IsMap, Empty

LEMMA PutIsMap ==
    ASSUME NEW K, NEW V, NEW m, IsMap(m, K, V), NEW k \in K, NEW v \in V
    PROVE  /\ IsMap(Put(m, k, v), K, V)
           /\ DOMAIN Put(m, k, v) = DOMAIN m \cup {k}
           /\ Put(m, k, v)[k] = v
           /\ \A x \in DOMAIN m : x # k => Put(m, k, v)[x] = m[x]
  BY DEF IsMap, Put

LEMMA RestrictIsMap ==
    ASSUME NEW K, NEW V, NEW m, IsMap(m, K, V), NEW S \in SUBSET DOMAIN m
    PROVE  /\ IsMap(Restrict(m, S), K, V)
           /\ DOMAIN Restrict(m, S) = S
           /\ \A x \in S : Restrict(m, S)[x] = m[x]
  BY DEF IsMap, Restrict

LEMMA DropIsMap ==
    ASSUME NEW K, NEW V, NEW m, IsMap(m, K, V), NEW S
    PROVE  /\ IsMap(Drop(m, S), K, V)
           /\ DOMAIN Drop(m, S) = DOMAIN m \ S
           /\ \A x \in DOMAIN m \ S : Drop(m, S)[x] = m[x]
  BY RestrictIsMap DEF Drop

(* The backoff is a number of seconds, however often a login failed.       *)
LEMMA WaitType == ASSUME NEW n \in Nat PROVE Wait(n) \in Nat
<1> DEFINE i == Smaller(n, 6) + 1
<1>1. i \in 1..7
  BY DEF Smaller
<1>2. Doubling[i] \in Nat
  <2>1. \A j \in 1..7 : Doubling[j] \in Nat
    BY DEF Doubling
  <2> QED BY <1>1, <2>1
<1>3. BackoffBase * Doubling[i] \in Nat
  BY <1>2, OptionsAssumption
<1> QED
  BY <1>3, OptionsAssumption DEF Wait, Smaller

LEMMA NoRequestType == NoRequest \in Request
  BY KeysAssumption DEF NoRequest, Request

---------------------------------------------------------------------------
(* Type correctness.                                                       *)

LEMMA CallTypes ==
    ASSUME TypeOK, NEW c \in Callers
    PROVE  /\ key(c) \in Accounts /\ hash(c) \in Passwords
           /\ protectionKey(c) \in Buckets
           /\ fkey(c) \in Accounts \X Passwords
  BY KeysAssumption DEF TypeOK, Request, key, hash, protectionKey, fkey, Buckets

LEMMA LiveTypes ==
    ASSUME TypeOK
    PROVE  /\ IsMap(LiveTokens, Accounts, TokenEntry)
           /\ IsMap(LiveFailures, Accounts \X Passwords, FailureEntry)
           /\ IsMap(LiveAccounts, Buckets, AccountFailureEntry)
  BY RestrictIsMap DEF TypeOK, LiveTokens, LiveFailures, LiveAccounts

CallerTypes ==
    /\ pc \in [Callers -> {"idle", "lookup", "waiting", "login", "reply"}]
    /\ req \in [Callers -> Request]
    /\ cancelled \in [Callers -> BOOLEAN]
    /\ chan \in [Callers -> Nat]
    /\ verdict \in [Callers -> {"none", "accepted", "rejected", "failed"}]
    /\ result \in [Callers -> [kind : Outcome, token : Token \cup {NoToken}]]

ManagerTypes ==
    /\ IsMap(tokens, Accounts, TokenEntry)
    /\ IsMap(failures, Accounts \X Passwords, FailureEntry)
    /\ IsMap(accountFailures, Buckets, AccountFailureEntry)
    /\ IsMap(inflight, Buckets, Nat)

OtherTypes ==
    /\ now \in Nat
    /\ upstream \in [Buckets -> AccountFailureEntry]
    /\ logins \in Nat
    /\ calls \in Nat

LEMMA TypeParts == TypeOK <=> ManagerTypes /\ CallerTypes /\ OtherTypes
  BY DEF TypeOK, ManagerTypes, CallerTypes, OtherTypes

LEMMA ReturnTypes ==
    ASSUME TypeOK, NEW c \in Callers, NEW kind \in Outcome, NEW t \in Token \cup {NoToken},
           Return(c, kind, t)
    PROVE  CallerTypes'
  BY NoRequestType DEF TypeOK, Return, CallerTypes

LEMMA CleanedTypes ==
    ASSUME TypeOK, Cleaned, UNCHANGED inflight
    PROVE  ManagerTypes'
  BY LiveTypes DEF TypeOK, Cleaned, ManagerTypes

LEMMA RefuseTypes ==
    ASSUME TypeOK, NEW c \in Callers, NEW kind \in Outcome, Refuse(c, kind)
    PROVE  TypeOK'
<1>1. ManagerTypes'
  BY CleanedTypes DEF Refuse
<1>2. CallerTypes'
  BY ReturnTypes DEF Refuse
<1>3. OtherTypes'
  BY DEF Refuse, TypeOK, OtherTypes
<1> QED
  BY <1>1, <1>2, <1>3 DEF TypeOK, ManagerTypes, CallerTypes, OtherTypes

(* What a failed login does to the backoff table and the session cache.    *)
LEMMA FailureTypes ==
    ASSUME TypeOK, NEW c \in Callers, NEW err \in {"rejected", "failed"}, RecordFailure(c, err)
    PROVE  IsMap(failures', Accounts \X Passwords, FailureEntry)
<1>1. CASE cancelled[c]
  BY <1>1 DEF RecordFailure, TypeOK
<1>2. CASE ~cancelled[c]
  <2> DEFINE e == [err       |-> err,
                   until     |-> now + Wait(Count(fkey(c))),
                   count     |-> Count(fkey(c)) + 1,
                   expiresAt |-> now + Larger(FailureTTL, Wait(Count(fkey(c))))]
  <2>1. PICK victims \in FailureVictims(fkey(c)) :
            failures' = Put(Drop(failures, victims), fkey(c), e)
    BY <1>2 DEF RecordFailure
  <2>2. Count(fkey(c)) \in Nat
    BY DEF TypeOK, IsMap, FailureEntry, Count
  <2>3. Wait(Count(fkey(c))) \in Nat
    BY <2>2, WaitType
  <2>4. e \in FailureEntry
    BY <2>2, <2>3, OptionsAssumption DEF TypeOK, FailureEntry, Larger
  <2>5. IsMap(Drop(failures, victims), Accounts \X Passwords, FailureEntry)
    BY DropIsMap DEF TypeOK
  <2> QED
    BY <2>1, <2>4, <2>5, CallTypes, PutIsMap
<1> QED
  BY <1>1, <1>2

LEMMA ForgetTypes ==
    ASSUME TypeOK, NEW c \in Callers, ForgetOwnSession(c)
    PROVE  IsMap(tokens', Accounts, TokenEntry)
  BY DropIsMap DEF TypeOK, ForgetOwnSession

LEMMA BudgetType ==
    ASSUME TypeOK, NEW b PROVE Budget(b) \in AccountFailureEntry
  BY DEF TypeOK, IsMap, Budget, NoFailures, AccountFailureEntry

LEMMA RejectedOnceType ==
    ASSUME TypeOK, NEW r \in AccountFailureEntry PROVE RejectedOnce(r) \in AccountFailureEntry
  BY OptionsAssumption DEF TypeOK, RejectedOnce, AccountFailureEntry

LEMMA InitTypes == Init => TypeOK
  BY EmptyIsMap, NoRequestType
     DEF Init, TypeOK, NoFailures, AccountFailureEntry, Outcome

LEMMA LookupTypes == ASSUME TypeOK, NEW c \in Callers, Lookup(c) PROVE TypeOK'
<1> USE DEF ManagerTypes, OtherTypes
<1>1. ASSUME ReturnCancelled(c) PROVE TypeOK'
  <2>1. CallerTypes'
    BY <1>1, ReturnTypes DEF ReturnCancelled, Outcome
  <2> QED
    BY <1>1, <2>1 DEF ReturnCancelled, TypeOK, managerVars, CallerTypes
<1>2. ASSUME ReuseSession(c) PROVE TypeOK'
  <2> DEFINE t == LiveTokens[key(c)]
  <2>1. key(c) \in DOMAIN LiveTokens /\ t \in TokenEntry
    BY <1>2, LiveTypes DEF ReuseSession, HasSession, IsMap
  <2>2. IsMap(tokens', Accounts, TokenEntry)
    <3>1. tokens' = [LiveTokens EXCEPT ![key(c)] = [t EXCEPT !.lastUsed = now]]
      BY <1>2 DEF ReuseSession
    <3>2. [t EXCEPT !.lastUsed = now] \in TokenEntry
      BY <2>1 DEF TokenEntry, TypeOK
    <3> QED BY <2>1, <3>1, <3>2, LiveTypes DEF IsMap
  <2>3. CallerTypes'
    <3>1. t.token \in Token
      BY <2>1 DEF TokenEntry
    <3> QED BY <1>2, <3>1, ReturnTypes DEF ReuseSession, Outcome
  <2> QED
    BY <1>2, <2>2, <2>3, LiveTypes DEF ReuseSession, TypeOK, CallerTypes
<1>3. ASSUME ThrottleAccount(c) PROVE TypeOK'
  BY <1>3, RefuseTypes DEF ThrottleAccount, Outcome
<1>4. ASSUME SuppressRetry(c) PROVE TypeOK'
  <2>1. LiveFailures[fkey(c)].err \in Outcome
    BY <1>4, LiveTypes DEF SuppressRetry, BackingOff, IsMap, FailureEntry, Outcome
  <2> QED
    BY <1>4, <2>1, RefuseTypes DEF SuppressRetry
<1>5. ASSUME WaitForLogin(c) PROVE TypeOK'
  <2>1. inflight[protectionKey(c)] \in Nat
    BY <1>5 DEF WaitForLogin, Busy, TypeOK, IsMap
  <2>2. ManagerTypes'
    BY <1>5, CleanedTypes DEF WaitForLogin
  <2>3. CallerTypes'
    BY <1>5, <2>1 DEF WaitForLogin, TypeOK, CallerTypes
  <2> QED
    BY <1>5, <2>2, <2>3 DEF WaitForLogin, TypeOK, CallerTypes
<1>6. ASSUME RefuseNewAccount(c) PROVE TypeOK'
  BY <1>6, RefuseTypes DEF RefuseNewAccount, Outcome
<1>7. ASSUME GuardRefuses(c) PROVE TypeOK'
  BY <1>7, RefuseTypes DEF GuardRefuses, Outcome
<1>8. ASSUME BeginLogin(c) PROVE TypeOK'
  <2>1. [count |-> 0, until |-> now + FailureWindow] \in AccountFailureEntry
    BY OptionsAssumption DEF TypeOK, AccountFailureEntry
  <2>2. IsMap(accountFailures', Buckets, AccountFailureEntry)
    BY <1>8, <2>1, LiveTypes, CallTypes, PutIsMap DEF BeginLogin
  <2>3. IsMap(inflight', Buckets, Nat)
    <3>1. logins + 1 \in Nat
      BY DEF TypeOK
    <3> QED BY <1>8, <3>1, CallTypes, PutIsMap DEF BeginLogin, TypeOK
  <2>4. CallerTypes'
    BY <1>8 DEF BeginLogin, TypeOK, CallerTypes
  <2> QED
    BY <1>8, <2>2, <2>3, <2>4, LiveTypes DEF BeginLogin, TypeOK, CallerTypes
<1> QED
  BY <1>1, <1>2, <1>3, <1>4, <1>5, <1>6, <1>7, <1>8 DEF Lookup

LEMMA ReceiveTypes == ASSUME TypeOK, NEW c \in Callers, Receive(c) PROVE TypeOK'
<1> USE DEF ManagerTypes, OtherTypes
<1>1. ASSUME CloseDone(c) PROVE IsMap(inflight', Buckets, Nat)
  BY <1>1, DropIsMap DEF CloseDone, TypeOK
<1>2. ASSUME ReceiveAccepted(c) PROVE TypeOK'
  <2> DEFINE e == [token |-> Issued(c), password |-> hash(c),
                   expiresAt |-> now + TokenTTL, lastUsed |-> now]
  <2>1. Issued(c) \in Token
    BY CallTypes DEF Issued, Token, TypeOK
  <2>2. e \in TokenEntry
    BY <2>1, CallTypes, OptionsAssumption DEF TypeOK, TokenEntry
  <2>3. IsMap(tokens', Accounts, TokenEntry)
    <3>1. PICK victims \in TokenVictims(key(c)) :
              tokens' = Put(Drop(tokens, victims), key(c), e)
      BY <1>2 DEF ReceiveAccepted
    <3>2. IsMap(Drop(tokens, victims), Accounts, TokenEntry)
      BY DropIsMap DEF TypeOK
    <3> QED BY <2>2, <3>1, <3>2, CallTypes, PutIsMap
  <2>4. IsMap(accountFailures', Buckets, AccountFailureEntry)
    BY <1>2, DropIsMap DEF ReceiveAccepted, TypeOK
  <2>5. IsMap(failures', Accounts \X Passwords, FailureEntry)
    BY <1>2, RestrictIsMap DEF ReceiveAccepted, TypeOK
  <2>6. CallerTypes'
    BY <1>2, <2>1, ReturnTypes DEF ReceiveAccepted, Outcome
  <2> QED
    BY <1>1, <1>2, <2>3, <2>4, <2>5, <2>6 DEF ReceiveAccepted, TypeOK, CallerTypes
<1>3. ASSUME ReceiveRejected(c) PROVE TypeOK'
  <2>1. IsMap(accountFailures', Buckets, AccountFailureEntry)
    <3>1. RejectedOnce(Budget(protectionKey(c))) \in AccountFailureEntry
      BY BudgetType, RejectedOnceType
    <3> QED BY <1>3, <3>1, CallTypes, PutIsMap DEF ReceiveRejected, TypeOK
  <2>2. CallerTypes'
    BY <1>3, ReturnTypes DEF ReceiveRejected, Outcome
  <2>3. IsMap(failures', Accounts \X Passwords, FailureEntry)
    BY <1>3, FailureTypes DEF ReceiveRejected
  <2>4. IsMap(tokens', Accounts, TokenEntry)
    BY <1>3, ForgetTypes DEF ReceiveRejected
  <2> QED
    BY <1>1, <1>3, <2>1, <2>2, <2>3, <2>4 DEF ReceiveRejected, TypeOK, CallerTypes
<1>4. ASSUME ReceiveFailed(c) PROVE TypeOK'
  <2>1. IsMap(accountFailures', Buckets, AccountFailureEntry)
    BY <1>4, DropIsMap DEF ReceiveFailed, ReleaseBudget, TypeOK
  <2>2. CallerTypes'
    BY <1>4, ReturnTypes DEF ReceiveFailed, Outcome
  <2>3. IsMap(failures', Accounts \X Passwords, FailureEntry)
    BY <1>4, FailureTypes DEF ReceiveFailed
  <2>4. IsMap(tokens', Accounts, TokenEntry)
    BY <1>4, ForgetTypes DEF ReceiveFailed
  <2> QED
    BY <1>1, <1>4, <2>1, <2>2, <2>3, <2>4 DEF ReceiveFailed, TypeOK, CallerTypes
<1> QED
  BY <1>2, <1>3, <1>4 DEF Receive

LEMMA StepTypes == TypeOK /\ [Next]_vars => TypeOK'
<1> SUFFICES ASSUME TypeOK, [Next]_vars PROVE TypeOK'
  OBVIOUS
<1> USE DEF managerVars, callerVars
<1>1. ASSUME NEW c \in Callers, NEW r \in Request, Enter(c, r) PROVE TypeOK'
  BY <1>1 DEF Enter, TypeOK, Outcome
<1>2. ASSUME NEW c \in Callers, CallToken(c) PROVE TypeOK'
  BY <1>1, <1>2 DEF CallToken, Request
<1>3. ASSUME NEW c \in Callers, CallRefresh(c) PROVE TypeOK'
  <2>1. [req[c] EXCEPT !.stale = result[c].token] \in Request
    BY DEF TypeOK, Request
  <2> QED
    BY <1>1, <1>3, <2>1 DEF CallRefresh
<1>4. ASSUME NEW c \in Callers, Cancel(c) PROVE TypeOK'
  BY <1>4 DEF Cancel, TypeOK
<1>5. ASSUME NEW c \in Callers, Wake(c) PROVE TypeOK'
  BY <1>5 DEF Wake, TypeOK
<1>6. ASSUME NEW c \in Callers, StopWaiting(c) PROVE TypeOK'
  <2>1. CallerTypes'
    BY <1>6, ReturnTypes DEF StopWaiting, Outcome
  <2> QED
    BY <1>6, <2>1 DEF StopWaiting, TypeOK, CallerTypes
<1>7. ASSUME NEW c \in Callers, NEW v \in {"accepted", "rejected", "failed"}, Decide(c, v)
      PROVE  TypeOK'
  <2>1. /\ RejectedOnce(upstream[protectionKey(c)]) \in AccountFailureEntry
        /\ NoFailures \in AccountFailureEntry
    BY CallTypes, RejectedOnceType DEF TypeOK, NoFailures, AccountFailureEntry
  <2>2. upstream' \in [Buckets -> AccountFailureEntry]
    BY <1>7, <2>1 DEF Decide, TypeOK
  <2> QED
    BY <1>7, <2>2 DEF Decide, TypeOK
<1>8. ASSUME Cleanup PROVE TypeOK'
  BY <1>8, CleanedTypes DEF Cleanup, TypeOK, ManagerTypes
<1>9. ASSUME Tick PROVE TypeOK'
  BY <1>9 DEF Tick, TypeOK
<1>10. CASE UNCHANGED vars
  BY <1>10 DEF vars, TypeOK
<1> QED
  BY <1>2, <1>3, <1>4, <1>5, <1>6, <1>7, <1>8, <1>9, <1>10, LookupTypes, ReceiveTypes
     DEF Next, Answer

(* Every variable keeps its type.                                          *)
THEOREM TypeCorrect == Spec => []TypeOK
  BY InitTypes, StepTypes, PTL DEF Spec

---------------------------------------------------------------------------
(* Mutual exclusion of logins.  The open channels and the logins in flight *)
(* determine each other, so the test of m.inflight under m.mu admits one   *)
(* login of a bucket.                                                      *)

Bucket(c) == Protection[req[c].account]

Exclusion == OneLoginPerAccount /\ NoAbandonedWaiters

(* What a step does to the logins in flight.                               *)
KeepsLogins ==
    /\ inflight' = inflight
    /\ \A c \in Callers :
           /\ LoggingIn(c)' = LoggingIn(c)
           /\ LoggingIn(c) => req'[c] = req[c] /\ chan'[c] = chan[c]
StartsLogin(c) ==
    /\ ~LoggingIn(c) /\ LoggingIn(c)' /\ Bucket(c) \notin DOMAIN inflight
    /\ req' = req
    /\ chan' = [chan EXCEPT ![c] = logins + 1]
    /\ inflight' = Put(inflight, Bucket(c), logins + 1)
    /\ \A d \in Callers \ {c} : LoggingIn(d)' = LoggingIn(d)
EndsLogin(c) ==
    /\ LoggingIn(c) /\ ~LoggingIn(c)'
    /\ inflight' = Drop(inflight, {Bucket(c)})
    /\ \A d \in Callers \ {c} : /\ LoggingIn(d)' = LoggingIn(d)
                                /\ req'[d] = req[d] /\ chan'[d] = chan[d]

LEMMA LoginSteps ==
    ASSUME TypeOK, [Next]_vars
    PROVE  KeepsLogins \/ \E c \in Callers : StartsLogin(c) \/ EndsLogin(c)
<1> USE DEF managerVars, callerVars, TypeOK
<1>1. ASSUME NEW c \in Callers, ~LoggingIn(c), UNCHANGED inflight,
             NEW kind, NEW t, Return(c, kind, t)
      PROVE  KeepsLogins
  BY <1>1 DEF Return, KeepsLogins, LoggingIn
<1>2. ASSUME NEW c \in Callers, Lookup(c) PROVE KeepsLogins \/ StartsLogin(c)
  <2>1. ~LoggingIn(c)
    BY <1>2 DEF Lookup, ReturnCancelled, ReuseSession, ThrottleAccount, SuppressRetry, WaitForLogin,
           RefuseNewAccount, GuardRefuses, BeginLogin, MayLogin, LookingUp, LoggingIn
  <2>2. CASE BeginLogin(c)
    <3>1. Bucket(c) = protectionKey(c)
      BY DEF Bucket, protectionKey, key
    <3> QED BY <2>1, <2>2, <3>1 DEF BeginLogin, Busy, StartsLogin, LoggingIn
  <2>3. CASE WaitForLogin(c)
    BY <2>1, <2>3 DEF WaitForLogin, KeepsLogins, LoggingIn
  <2> QED
    BY <1>1, <1>2, <2>1, <2>2, <2>3
       DEF Lookup, ReturnCancelled, ReuseSession, ThrottleAccount, SuppressRetry,
           RefuseNewAccount, GuardRefuses, Refuse
<1>3. ASSUME NEW c \in Callers, Receive(c) PROVE EndsLogin(c)
  <2>1. LoggingIn(c) /\ CloseDone(c)
    BY <1>3 DEF Receive, ReceiveAccepted, ReceiveRejected, ReceiveFailed, LoggingIn
  <2>2. PICK kind, t : Return(c, kind, t)
    BY <1>3 DEF Receive, ReceiveAccepted, ReceiveRejected, ReceiveFailed
  <2> QED
    BY <2>1, <2>2 DEF EndsLogin, CloseDone, Return, LoggingIn, Bucket, protectionKey, key
<1>4. ASSUME NEW c \in Callers, CallToken(c) \/ CallRefresh(c) PROVE KeepsLogins
  BY <1>4 DEF CallToken, CallRefresh, Enter, KeepsLogins, LoggingIn
<1>5. ASSUME NEW c \in Callers, Cancel(c) \/ Wake(c) PROVE KeepsLogins
  BY <1>5 DEF Cancel, Wake, KeepsLogins, LoggingIn
<1>6. ASSUME NEW c \in Callers, StopWaiting(c) PROVE KeepsLogins
  BY <1>1, <1>6 DEF StopWaiting, LoggingIn
<1>7. ASSUME NEW c \in Callers, Answer(c) PROVE KeepsLogins
  BY <1>7 DEF Answer, Decide, KeepsLogins, LoggingIn
<1>8. ASSUME Cleanup \/ Tick \/ UNCHANGED vars PROVE KeepsLogins
  BY <1>8 DEF Cleanup, Tick, vars, KeepsLogins, LoggingIn
<1> QED
  BY <1>2, <1>3, <1>4, <1>5, <1>6, <1>7, <1>8 DEF Next

LEMMA ExclusionInit == Init => Exclusion
  BY DEF Init, Exclusion, OneLoginPerAccount, NoAbandonedWaiters, LoggingIn, Empty

LEMMA ExclusionStep == TypeOK /\ Exclusion /\ [Next]_vars => Exclusion'
<1> SUFFICES ASSUME TypeOK, Exclusion, [Next]_vars PROVE Exclusion'
  OBVIOUS
<1>1. \A c \in Callers : Bucket(c) = Protection[req[c].account]
  BY DEF Bucket
<1>2. CASE KeepsLogins
  BY <1>2 DEF KeepsLogins, Exclusion, OneLoginPerAccount, NoAbandonedWaiters
<1>3. ASSUME NEW c \in Callers, StartsLogin(c) PROVE Exclusion'
  <2>1. /\ DOMAIN inflight' = DOMAIN inflight \cup {Bucket(c)}
        /\ inflight'[Bucket(c)] = logins + 1 /\ chan'[c] = logins + 1
        /\ \A b \in DOMAIN inflight : inflight'[b] = inflight[b]
    BY <1>3 DEF StartsLogin, Put, TypeOK
  <2>2. \A d \in Callers \ {c} : chan'[d] = chan[d]
    BY <1>3 DEF StartsLogin, TypeOK
  <2>3. \A d \in Callers \ {c} : LoggingIn(d) => Bucket(d) \in DOMAIN inflight
    BY <1>1 DEF Exclusion, NoAbandonedWaiters
  <2>4. \A d \in Callers \ {c} : LoggingIn(d) => Bucket(d) # Bucket(c)
    BY <1>3, <2>3 DEF StartsLogin
  <2>5. OneLoginPerAccount'
    BY <1>1, <1>3, <2>4 DEF StartsLogin, Exclusion, OneLoginPerAccount
  <2>6. \A b \in DOMAIN inflight' :
            \E d \in Callers : LoggingIn(d)' /\ Protection[req'[d].account] = b
    <3>1. LoggingIn(c)' /\ Protection[req'[c].account] = Bucket(c)
      BY <1>1, <1>3 DEF StartsLogin
    <3>2. ASSUME NEW b \in DOMAIN inflight
          PROVE  \E d \in Callers : LoggingIn(d)' /\ Protection[req'[d].account] = b
      <4>1. PICK d \in Callers : LoggingIn(d) /\ Protection[req[d].account] = b
        BY DEF Exclusion, NoAbandonedWaiters
      <4> QED BY <1>3, <4>1 DEF StartsLogin
    <3> QED BY <2>1, <3>1, <3>2
  <2>7. ASSUME NEW d \in Callers, LoggingIn(d)'
        PROVE  /\ Protection[req'[d].account] \in DOMAIN inflight'
               /\ inflight'[Protection[req'[d].account]] = chan'[d]
    <3>1. CASE d = c
      BY <1>1, <1>3, <2>1, <3>1 DEF StartsLogin
    <3>2. CASE d # c
      BY <1>1, <1>3, <2>1, <2>2, <2>7, <3>2 DEF StartsLogin, Exclusion, NoAbandonedWaiters
    <3> QED BY <3>1, <3>2
  <2> QED
    BY <2>5, <2>6, <2>7 DEF Exclusion, NoAbandonedWaiters
<1>4. ASSUME NEW c \in Callers, EndsLogin(c) PROVE Exclusion'
  <2>1. /\ DOMAIN inflight' = DOMAIN inflight \ {Bucket(c)}
        /\ \A b \in DOMAIN inflight' : inflight'[b] = inflight[b]
    BY <1>4 DEF EndsLogin, Drop, Restrict
  <2>2. \A d \in Callers \ {c} : LoggingIn(d) => Bucket(d) # Bucket(c)
    BY <1>1, <1>4 DEF EndsLogin, Exclusion, OneLoginPerAccount
  <2>3. OneLoginPerAccount'
    BY <1>4 DEF EndsLogin, Exclusion, OneLoginPerAccount
  <2>4. ASSUME NEW b \in DOMAIN inflight'
        PROVE  \E d \in Callers : LoggingIn(d)' /\ Protection[req'[d].account] = b
    <3>1. PICK d \in Callers : LoggingIn(d) /\ Protection[req[d].account] = b
      BY <2>1 DEF Exclusion, NoAbandonedWaiters
    <3>2. d # c
      BY <1>1, <2>1, <3>1
    <3> QED BY <1>4, <3>1, <3>2 DEF EndsLogin
  <2>5. ASSUME NEW d \in Callers, LoggingIn(d)'
        PROVE  /\ Protection[req'[d].account] \in DOMAIN inflight'
               /\ inflight'[Protection[req'[d].account]] = chan'[d]
    <3>1. d # c
      BY <1>4, <2>5 DEF EndsLogin
    <3>2. LoggingIn(d) /\ req'[d] = req[d] /\ chan'[d] = chan[d]
      BY <1>4, <2>5, <3>1 DEF EndsLogin
    <3> QED BY <1>1, <2>1, <2>2, <3>1, <3>2 DEF Exclusion, NoAbandonedWaiters
  <2> QED
    BY <2>3, <2>4, <2>5 DEF Exclusion, NoAbandonedWaiters
<1> QED
  BY <1>2, <1>3, <1>4, LoginSteps

LEMMA ExclusionInvariant == Spec => []Exclusion
<1>1. TypeOK /\ Exclusion /\ [Next]_vars => Exclusion'
  BY ExclusionStep
<1> QED
  BY <1>1, ExclusionInit, TypeCorrect, PTL DEF Spec

(* One login of an account at a time, however it is spelt, and with late,  *)
(* lost and cancelled answers too.                                         *)
THEOREM MutualExclusion == Spec => []OneLoginPerAccount
<1>1. Exclusion => OneLoginPerAccount
  BY DEF Exclusion
<1> QED
  BY <1>1, ExclusionInvariant, PTL

(* Every open done channel has a login behind it that will close it: no    *)
(* waiter is left behind by a login that has ended, failed or been         *)
(* cancelled.                                                              *)
THEOREM WaitersKept == Spec => []NoAbandonedWaiters
<1>1. Exclusion => NoAbandonedWaiters
  BY DEF Exclusion
<1> QED
  BY <1>1, ExclusionInvariant, PTL

---------------------------------------------------------------------------
(* The login budget, when answers are neither late nor lost.  WithinBudget *)
(* is not inductive: that a login about to be decided may still be         *)
(* rejected (NotSpent) rests on the server's budget and ZenTao's count     *)
(* agreeing when it began (BudgetAgrees), which rests on the answer in     *)
(* flight being recorded the way ZenTao counted it (AnswersOnTheWay) and   *)
(* on the bucket staying there while the login runs (ActiveBucketKept).    *)

Spent(b) == upstream[b].count >= FailureLimit /\ now < upstream[b].until

NotSpent == \A c \in Callers : pc[c] = "login" => ~Spent(Bucket(c))

AnswerOnTheWay(c) ==
    /\ verdict[c] = "accepted" => upstream[Bucket(c)] = NoFailures
    /\ verdict[c] = "rejected" => upstream[Bucket(c)] = RejectedOnce(Budget(Bucket(c)))
    /\ verdict[c] = "failed"   => Agree(Bucket(c))
    /\ verdict[c] # "none"

AnswersOnTheWay == \A c \in Callers : pc[c] = "reply" => AnswerOnTheWay(c)

BudgetInv ==
    /\ TypeOK /\ Exclusion
    /\ ActiveBucketKept /\ BudgetAgrees
    /\ NotSpent /\ AnswersOnTheWay
    /\ WithinBudget

(* The same, bucket by bucket.                                             *)
BucketInv(b) ==
    /\ b \in DOMAIN inflight => b \in DOMAIN accountFailures
    /\ ~Pending(b) => Agree(b)
    /\ \A c \in Callers : Bucket(c) = b =>
           /\ pc[c] = "login" => ~Spent(b)
           /\ pc[c] = "reply" => AnswerOnTheWay(c)
    /\ upstream[b].count <= FailureLimit

BucketsInv == \A b \in Buckets : BucketInv(b)

LEMMA BudgetInvParts == TypeOK => (BudgetInv <=> Exclusion /\ BucketsInv)
<1> SUFFICES ASSUME TypeOK PROVE BudgetInv <=> Exclusion /\ BucketsInv
  OBVIOUS
<1>1. \A c \in Callers : Bucket(c) \in Buckets
  BY CallTypes DEF Bucket, protectionKey, key
<1>2. DOMAIN inflight \subseteq Buckets
  BY DEF TypeOK, IsMap
<1> QED
  BY <1>1, <1>2 DEF BudgetInv, BucketsInv, BucketInv, ActiveBucketKept, BudgetAgrees, NotSpent,
                    AnswersOnTheWay, WithinBudget

(* A step that does not concern bucket b: its entry may be cleaned up once *)
(* it is idle and its quiet period is over, and nothing else changes.      *)
KeptAt(b) ==
    /\ b \in DOMAIN accountFailures' =>
           b \in DOMAIN accountFailures /\ accountFailures'[b] = accountFailures[b]
    /\ b \in DOMAIN accountFailures
       /\ (b \in DOMAIN inflight \/ now < accountFailures[b].until) =>
           b \in DOMAIN accountFailures'

Frame(b) ==
    /\ KeptAt(b) /\ now' = now /\ upstream'[b] = upstream[b]
    /\ b \in DOMAIN inflight' <=> b \in DOMAIN inflight
    /\ \A c \in Callers :
           (LoggingIn(c) /\ Bucket(c) = b) \/ (LoggingIn(c)' /\ Bucket(c)' = b) =>
               pc'[c] = pc[c] /\ verdict'[c] = verdict[c] /\ req'[c] = req[c]

LEMMA FramePending ==
    ASSUME NEW b, Frame(b) PROVE Pending(b)' <=> Pending(b)
<1>1. ASSUME NEW c \in Callers, pc[c] = "reply", Bucket(c) = b
      PROVE  pc'[c] = "reply" /\ Bucket(c)' = b
  BY <1>1 DEF Frame, LoggingIn, Bucket
<1>2. ASSUME NEW c \in Callers, pc'[c] = "reply", Bucket(c)' = b
      PROVE  pc[c] = "reply" /\ Bucket(c) = b
  BY <1>2 DEF Frame, LoggingIn, Bucket
<1> QED
  BY <1>1, <1>2 DEF Pending, Bucket

LEMMA FrameKeeps ==
    ASSUME TypeOK, Exclusion, NEW b \in Buckets, BucketInv(b), Frame(b)
    PROVE  BucketInv(b)'
<1>1. Agree(b) => Agree(b)'
  BY DEF Frame, KeptAt, Agree
<1>2. b \in DOMAIN inflight => Budget(b)' = Budget(b)
  BY DEF Frame, KeptAt, Budget
<1>3. Pending(b)' <=> Pending(b)
  BY FramePending
<1>4. (b \in DOMAIN inflight => b \in DOMAIN accountFailures)'
  BY DEF Frame, KeptAt, BucketInv
<1>5. ASSUME NEW c \in Callers, (pc[c] = "login")', (Bucket(c) = b)' PROVE (~Spent(b))'
  BY <1>5 DEF Frame, LoggingIn, Bucket, Spent, BucketInv
<1>6. ASSUME NEW c \in Callers, (pc[c] = "reply")', (Bucket(c) = b)' PROVE AnswerOnTheWay(c)'
  <2>1. /\ pc[c] = "reply" /\ Bucket(c) = b
        /\ verdict'[c] = verdict[c] /\ req'[c] = req[c]
    BY <1>6 DEF Frame, LoggingIn, Bucket
  <2>2. AnswerOnTheWay(c)
    BY <2>1 DEF BucketInv
  <2>3. b \in DOMAIN inflight
    BY <2>1 DEF Exclusion, NoAbandonedWaiters, LoggingIn, Bucket
  <2>4. upstream'[b] = upstream[b] /\ now' = now
    BY DEF Frame
  <2>5. Bucket(c)' = b
    BY <1>6
  <2>6. RejectedOnce(Budget(b))' = RejectedOnce(Budget(b))
    BY <1>2, <2>3, <2>4 DEF RejectedOnce
  <2>7. NoFailures' = NoFailures
    BY DEF NoFailures
  <2> QED
    BY <1>1, <2>1, <2>2, <2>4, <2>5, <2>6, <2>7 DEF AnswerOnTheWay
<1>7. (~Pending(b) => Agree(b))'
  BY <1>1, <1>3 DEF BucketInv
<1>8. (upstream[b].count <= FailureLimit)'
  BY DEF Frame, BucketInv
<1> QED
  BY <1>4, <1>5, <1>6, <1>7, <1>8 DEF BucketInv

LEMMA CleaningKeeps ==
    ASSUME accountFailures' \in {accountFailures, LiveAccounts}, NEW b
    PROVE  KeptAt(b)
  BY DEF KeptAt, LiveAccounts, Restrict

(* Steps that touch no login.                                              *)
Quiet ==
    /\ UNCHANGED <<now, upstream, inflight>>
    /\ accountFailures' \in {accountFailures, LiveAccounts}
    /\ \A c \in Callers :
           LoggingIn(c) \/ LoggingIn(c)' =>
               pc'[c] = pc[c] /\ verdict'[c] = verdict[c] /\ req'[c] = req[c]

LEMMA QuietSteps ==
    ASSUME TypeOK, [Next]_vars
    PROVE  \/ Quiet \/ Tick
           \/ \E c \in Callers : BeginLogin(c) \/ Answer(c) \/ Receive(c)
<1> USE DEF managerVars, callerVars, TypeOK
<1>1. ASSUME NEW c \in Callers, ~LoggingIn(c), UNCHANGED <<inflight, now, upstream>>,
             accountFailures' \in {accountFailures, LiveAccounts},
             NEW kind, NEW t, Return(c, kind, t)
      PROVE  Quiet
  BY <1>1 DEF Return, Quiet, LoggingIn
<1>2. ASSUME NEW c \in Callers, Lookup(c) PROVE Quiet \/ BeginLogin(c)
  <2>1. ~LoggingIn(c)
    BY <1>2 DEF Lookup, ReturnCancelled, ReuseSession, ThrottleAccount, SuppressRetry, WaitForLogin,
           RefuseNewAccount, GuardRefuses, BeginLogin, MayLogin, LookingUp, LoggingIn
  <2>2. CASE WaitForLogin(c)
    BY <2>1, <2>2 DEF WaitForLogin, Quiet, LoggingIn, Cleaned
  <2> QED
    BY <1>1, <1>2, <2>1, <2>2
       DEF Lookup, ReturnCancelled, ReuseSession, ThrottleAccount, SuppressRetry,
           RefuseNewAccount, GuardRefuses, Refuse, Cleaned
<1>3. ASSUME NEW c \in Callers, CallToken(c) \/ CallRefresh(c) PROVE Quiet
  BY <1>3 DEF CallToken, CallRefresh, Enter, Quiet, LoggingIn
<1>4. ASSUME NEW c \in Callers, Cancel(c) \/ Wake(c) PROVE Quiet
  BY <1>4 DEF Cancel, Wake, Quiet, LoggingIn
<1>5. ASSUME NEW c \in Callers, StopWaiting(c) PROVE Quiet
  BY <1>1, <1>5 DEF StopWaiting, LoggingIn
<1>6. ASSUME Cleanup \/ UNCHANGED vars PROVE Quiet
  BY <1>6 DEF Cleanup, Cleaned, vars, Quiet, LoggingIn
<1> QED
  BY <1>2, <1>3, <1>4, <1>5, <1>6 DEF Next

(* The steps that concern a bucket, with the bucket they concern.          *)

LEMMA OnlyLogin ==
    ASSUME Exclusion, NEW c \in Callers, NEW d \in Callers, LoggingIn(c), LoggingIn(d),
           Bucket(d) = Bucket(c)
    PROVE  d = c
  BY DEF Exclusion, OneLoginPerAccount, Bucket

Begins(c) ==
    /\ Bucket(c) \in Buckets /\ Bucket(c) \notin DOMAIN inflight
    /\ DOMAIN inflight' = DOMAIN inflight \cup {Bucket(c)}
    /\ \A d \in Callers : LoggingIn(d) => Bucket(d) # Bucket(c)
    /\ pc' = [pc EXCEPT ![c] = "login"]
    /\ UNCHANGED <<now, upstream, req, verdict>>
    /\ accountFailures' = IF Bucket(c) \in DOMAIN LiveAccounts THEN LiveAccounts
           ELSE Put(LiveAccounts, Bucket(c), [count |-> 0, until |-> now + FailureWindow])
    /\ Agree(Bucket(c)) /\ ~Spent(Bucket(c))
    /\ \A b \in Buckets \ {Bucket(c)} : Frame(b)

LEMMA BeginFacts ==
    ASSUME TypeOK, Exclusion, BucketsInv, NEW c \in Callers, BeginLogin(c)
    PROVE  Begins(c)
<1>1. /\ Bucket(c) = protectionKey(c) /\ Bucket(c) \in Buckets /\ Bucket(c) \notin DOMAIN inflight
      /\ ~LoggingIn(c) /\ ~OverBudget(c)
      /\ pc' = [pc EXCEPT ![c] = "login"]
      /\ UNCHANGED <<now, upstream, req, verdict>>
      /\ inflight' = Put(inflight, Bucket(c), logins + 1)
      /\ accountFailures' = IF Bucket(c) \in DOMAIN LiveAccounts THEN LiveAccounts
             ELSE Put(LiveAccounts, Bucket(c), [count |-> 0, until |-> now + FailureWindow])
  BY CallTypes DEF BeginLogin, MayLogin, LookingUp, Busy, LoggingIn, Bucket, protectionKey, key
<1>2. DOMAIN inflight' = DOMAIN inflight \cup {Bucket(c)}
  BY <1>1 DEF Put
<1>3. \A d \in Callers : LoggingIn(d) => Bucket(d) # Bucket(c)
  BY <1>1 DEF Exclusion, NoAbandonedWaiters, Bucket
<1>4. Agree(Bucket(c))
  BY <1>1, <1>3 DEF BucketsInv, BucketInv, Pending, LoggingIn, Bucket
<1>5. ~Spent(Bucket(c))
  <2> DEFINE b == Bucket(c)
  <2>1. SUFFICES ASSUME Spent(b) PROVE FALSE
    OBVIOUS
  <2>2. upstream[b].count > 0
    BY <1>1, <2>1, OptionsAssumption DEF Spent, TypeOK, AccountFailureEntry
  <2>3. b \in DOMAIN accountFailures /\ accountFailures[b] = upstream[b]
    BY <1>4, <2>1, <2>2 DEF Agree, Spent
  <2>4. b \in DOMAIN LiveAccounts /\ LiveAccounts[b] = upstream[b]
    BY <2>1, <2>3 DEF Spent, LiveAccounts, Restrict
  <2> QED
    BY <1>1, <2>1, <2>4 DEF Spent, OverBudget
<1>6. ASSUME NEW b \in Buckets \ {Bucket(c)} PROVE Frame(b)
  <2>1. KeptAt(b)
    BY <1>1, <1>6 DEF KeptAt, LiveAccounts, Put, Restrict
  <2>2. ASSUME NEW d \in Callers, (LoggingIn(d) /\ Bucket(d) = b) \/ (LoggingIn(d)' /\ Bucket(d)' = b)
        PROVE  pc'[d] = pc[d] /\ verdict'[d] = verdict[d] /\ req'[d] = req[d]
    BY <1>1, <1>6, <2>2 DEF TypeOK, Bucket
  <2> QED
    BY <1>1, <1>2, <1>6, <2>1, <2>2 DEF Frame
<1> QED
  BY <1>1, <1>2, <1>3, <1>4, <1>5, <1>6 DEF Begins

LEMMA BeginKeeps ==
    ASSUME TypeOK, Exclusion, BucketsInv, NEW c \in Callers, BeginLogin(c), NEW b \in Buckets
    PROVE  BucketInv(b)'
<1>0. Begins(c)
  BY BeginFacts
<1>1. CASE b # Bucket(c)
  BY <1>1, <1>0, FrameKeeps DEF BucketsInv, Begins
<1>2. CASE b = Bucket(c)
  <2>1. b \in DOMAIN accountFailures'
    BY <1>2, <1>0 DEF Put, Begins
  <2>2. Agree(b)'
    <3>1. CASE b \in DOMAIN LiveAccounts
      BY <1>2, <3>1, <1>0 DEF Agree, LiveAccounts, Restrict, Begins
    <3>2. CASE b \notin DOMAIN LiveAccounts
      <4>1. ~(upstream[b].count > 0 /\ now < upstream[b].until)
        BY <1>2, <3>2, <1>0 DEF Agree, LiveAccounts, Restrict, Begins
      <4>2. accountFailures'[b].count = 0
        BY <1>2, <3>2, <1>0 DEF Put, Begins
      <4> QED BY <4>1, <4>2, <1>0 DEF Agree, Begins
    <3> QED BY <3>1, <3>2
  <2>3. ASSUME NEW d \in Callers, (Bucket(d) = b)'
        PROVE  (pc[d] = "reply")' => AnswerOnTheWay(d)'
    BY <1>2, <2>3, <1>0 DEF TypeOK, LoggingIn, Bucket, Begins
  <2>4. ~Spent(b) /\ Spent(b)' = Spent(b)
    BY <1>2, <1>0 DEF Spent, Begins
  <2>5. (upstream[b].count <= FailureLimit)'
    BY <1>0 DEF BucketsInv, BucketInv, Begins
  <2> QED
    BY <2>1, <2>2, <2>3, <2>4, <2>5 DEF BucketInv
<1> QED
  BY <1>1, <1>2

Decides(c, v) ==
    /\ pc[c] = "login" /\ LoggingIn(c) /\ Bucket(c) \in Buckets
    /\ Bucket(c) \in DOMAIN inflight
    /\ pc' = [pc EXCEPT ![c] = "reply"] /\ verdict' = [verdict EXCEPT ![c] = v]
    /\ UNCHANGED <<inflight, accountFailures, now, req>>
    /\ v = "accepted" => upstream' = [upstream EXCEPT ![Bucket(c)] = NoFailures]
    /\ v = "rejected" =>
           upstream' = [upstream EXCEPT ![Bucket(c)] = RejectedOnce(upstream[Bucket(c)])]
    /\ v = "failed" => upstream' = upstream
    /\ ~Pending(Bucket(c)) /\ Pending(Bucket(c))'
    /\ \A b \in Buckets \ {Bucket(c)} : Frame(b)

LEMMA AnswerFacts ==
    ASSUME TypeOK, Exclusion, NEW c \in Callers,
           NEW v \in {"accepted", "rejected", "failed"}, Decide(c, v)
    PROVE  Decides(c, v)
<1>1. /\ pc[c] = "login" /\ LoggingIn(c)
      /\ pc' = [pc EXCEPT ![c] = "reply"] /\ verdict' = [verdict EXCEPT ![c] = v]
      /\ UNCHANGED <<inflight, accountFailures, now, req>>
      /\ Bucket(c) = protectionKey(c) /\ Bucket(c) \in Buckets
  BY CallTypes DEF Decide, managerVars, LoggingIn, Bucket, protectionKey, key
<1>2. /\ v = "accepted" => upstream' = [upstream EXCEPT ![Bucket(c)] = NoFailures]
      /\ v = "rejected" =>
             upstream' = [upstream EXCEPT ![Bucket(c)] = RejectedOnce(upstream[Bucket(c)])]
      /\ v = "failed" => upstream' = upstream
  BY <1>1 DEF Decide
<1>3. Bucket(c) \in DOMAIN inflight
  BY <1>1 DEF Exclusion, NoAbandonedWaiters, Bucket
<1>4. ~Pending(Bucket(c)) /\ Pending(Bucket(c))'
  <2>1. ~Pending(Bucket(c))
    BY <1>1, OnlyLogin DEF Pending, LoggingIn, Bucket
  <2>2. Pending(Bucket(c))'
    BY <1>1 DEF Pending, TypeOK, Bucket
  <2> QED BY <2>1, <2>2
<1>5. ASSUME NEW b \in Buckets \ {Bucket(c)} PROVE Frame(b)
  <2>1. upstream'[b] = upstream[b]
    BY <1>2, <1>5 DEF TypeOK
  <2>2. ASSUME NEW d \in Callers, (LoggingIn(d) /\ Bucket(d) = b) \/ (LoggingIn(d)' /\ Bucket(d)' = b)
        PROVE  pc'[d] = pc[d] /\ verdict'[d] = verdict[d] /\ req'[d] = req[d]
    BY <1>1, <1>5, <2>2 DEF TypeOK, Bucket
  <2> QED
    BY <1>1, <2>1, <2>2 DEF Frame, KeptAt
<1> QED
  BY <1>1, <1>2, <1>3, <1>4, <1>5 DEF Decides

LEMMA AnswerKeeps ==
    ASSUME TypeOK, Exclusion, BucketsInv, NEW c \in Callers,
           NEW v \in {"accepted", "rejected", "failed"}, Decide(c, v), NEW b \in Buckets
    PROVE  BucketInv(b)'
<1>0. Decides(c, v)
  BY AnswerFacts
<1>1. CASE b # Bucket(c)
  BY <1>1, <1>0, FrameKeeps DEF BucketsInv, Decides
<1>2. CASE b = Bucket(c)
  <2>1. ~Spent(b) /\ b \in DOMAIN accountFailures /\ Agree(b)
    BY <1>2, <1>0 DEF BucketsInv, BucketInv, Decides
  <2>2. \A d \in Callers : LoggingIn(d)' /\ Bucket(d)' = b => d = c
    <3>1. ASSUME NEW d \in Callers, LoggingIn(d)', Bucket(d)' = b, d # c PROVE FALSE
      <4>1. LoggingIn(d) /\ Bucket(d) = b
        BY <3>1, <1>0 DEF LoggingIn, Bucket, TypeOK, Decides
      <4> QED BY <1>2, <3>1, <4>1, OnlyLogin, <1>0 DEF Decides
    <3> QED BY <3>1
  <2>3. /\ v = "accepted" => upstream'[b] = NoFailures
        /\ v = "rejected" => upstream'[b] = RejectedOnce(upstream[b])
        /\ v = "failed" => upstream'[b] = upstream[b]
    BY <1>2, <1>0 DEF TypeOK, Decides
  <2>4. RejectedOnce(Budget(b)) = RejectedOnce(upstream[b])
    <3>1. Budget(b) = accountFailures[b] /\ Budget(b) \in AccountFailureEntry
      BY <2>1, BudgetType DEF Budget
    <3>2. upstream[b] \in AccountFailureEntry /\ now \in Nat
      BY DEF TypeOK
    <3> QED
      BY <2>1, <3>1, <3>2 DEF Agree, RejectedOnce, AccountFailureEntry
  <2>5. (upstream[b].count <= FailureLimit)'
    <3>1. CASE v = "rejected"
      <4>1. upstream[b] \in AccountFailureEntry /\ now \in Nat
        BY DEF TypeOK
      <4> QED
        BY <2>1, <2>3, <3>1, <4>1, OptionsAssumption DEF Spent, RejectedOnce, AccountFailureEntry
    <3>2. CASE v = "accepted"
      BY <2>3, <3>2, OptionsAssumption DEF NoFailures
    <3>3. CASE v = "failed"
      BY <2>3, <3>3 DEF BucketsInv, BucketInv
    <3> QED BY <3>1, <3>2, <3>3
  <2>6. AnswerOnTheWay(c)'
    <3>1. verdict'[c] = v /\ Bucket(c)' = b
      BY <1>2, <1>0 DEF TypeOK, Bucket, Decides
    <3>2. RejectedOnce(Budget(b))' = RejectedOnce(Budget(b)) /\ NoFailures' = NoFailures
      BY <1>0 DEF RejectedOnce, Budget, NoFailures, Decides
    <3>3. v = "failed" => Agree(b)'
      BY <2>1, <2>3, <1>0 DEF Agree, Decides
    <3> QED
      BY <2>3, <2>4, <3>1, <3>2, <3>3 DEF AnswerOnTheWay
  <2>7. ASSUME NEW d \in Callers, (Bucket(d) = b)'
        PROVE  /\ (pc[d] = "login")' => (~Spent(b))'
               /\ (pc[d] = "reply")' => AnswerOnTheWay(d)'
    <3>1. CASE d = c
      BY <2>6, <3>1, <1>0 DEF TypeOK, Decides
    <3>2. CASE d # c
      BY <2>2, <2>7, <3>2 DEF LoggingIn
    <3> QED BY <3>1, <3>2
  <2>8. (b \in DOMAIN inflight => b \in DOMAIN accountFailures)' /\ Pending(b)'
    BY <1>0, <1>2, <2>1 DEF Decides, Bucket
  <2> QED
    BY <2>5, <2>7, <2>8 DEF BucketInv
<1> QED
  BY <1>1, <1>2

Ends(c) ==
    /\ pc[c] = "reply" /\ Bucket(c) \in Buckets /\ Bucket(c) \in DOMAIN inflight
    /\ Pending(Bucket(c))
    /\ DOMAIN inflight' = DOMAIN inflight \ {Bucket(c)}
    /\ UNCHANGED <<now, upstream>>
    /\ verdict[c] \in {"accepted", "rejected", "failed"}
    /\ verdict[c] = "accepted" =>
           accountFailures' = Drop(accountFailures, {Bucket(c)})
    /\ verdict[c] = "rejected" =>
           accountFailures' = Put(accountFailures, Bucket(c), RejectedOnce(Budget(Bucket(c))))
    /\ verdict[c] = "failed" =>
           accountFailures' = IF Budget(Bucket(c)).count = 0
                              THEN Drop(accountFailures, {Bucket(c)}) ELSE accountFailures
    /\ \A d \in Callers : Bucket(d)' = Bucket(c) => ~LoggingIn(d)'
    /\ \A b \in Buckets \ {Bucket(c)} : Frame(b)

LEMMA ReceiveFacts ==
    ASSUME TypeOK, Exclusion, ~LostReplies, NEW c \in Callers, Receive(c)
    PROVE  Ends(c)
<1>1. /\ pc[c] = "reply" /\ LoggingIn(c)
      /\ pc' = [pc EXCEPT ![c] = "idle"]
      /\ UNCHANGED <<now, upstream>>
      /\ inflight' = Drop(inflight, {Bucket(c)})
      /\ Bucket(c) = protectionKey(c) /\ Bucket(c) \in Buckets
      /\ \A d \in Callers \ {c} : req'[d] = req[d] /\ verdict'[d] = verdict[d]
      /\ verdict[c] \in {"accepted", "rejected", "failed"}
  BY CallTypes DEF Receive, ReceiveAccepted, ReceiveRejected, ReceiveFailed, Return, CloseDone,
     LoggingIn, Bucket, protectionKey, key, TypeOK
<1>2. /\ DOMAIN inflight' = DOMAIN inflight \ {Bucket(c)}
      /\ ~LoggingIn(c)'
  BY <1>1 DEF Drop, Restrict, LoggingIn, TypeOK
<1>3. Bucket(c) \in DOMAIN inflight /\ Pending(Bucket(c))
  BY <1>1 DEF Exclusion, NoAbandonedWaiters, Bucket, Pending
<1>4. /\ verdict[c] = "accepted" =>
             accountFailures' = Drop(accountFailures, {Bucket(c)})
      /\ verdict[c] = "rejected" =>
             accountFailures' = Put(accountFailures, Bucket(c), RejectedOnce(Budget(Bucket(c))))
      /\ verdict[c] = "failed" =>
             accountFailures' = IF Budget(Bucket(c)).count = 0
                                THEN Drop(accountFailures, {Bucket(c)}) ELSE accountFailures
  BY <1>1 DEF Receive, ReceiveAccepted, ReceiveRejected, ReceiveFailed, ReleaseBudget
<1>5. ASSUME NEW d \in Callers, Bucket(d)' = Bucket(c), LoggingIn(d)' PROVE FALSE
  <2>1. d # c
    BY <1>2, <1>5
  <2>2. LoggingIn(d) /\ Bucket(d) = Bucket(c)
    BY <1>1, <1>5, <2>1 DEF LoggingIn, Bucket, TypeOK
  <2> QED BY <1>1, <2>1, <2>2, OnlyLogin
<1>6. ASSUME NEW b \in Buckets \ {Bucket(c)} PROVE Frame(b)
  <2>1. KeptAt(b)
    BY <1>1, <1>4, <1>6 DEF KeptAt, Put, Drop, Restrict
  <2>2. ASSUME NEW d \in Callers, (LoggingIn(d) /\ Bucket(d) = b) \/ (LoggingIn(d)' /\ Bucket(d)' = b)
        PROVE  pc'[d] = pc[d] /\ verdict'[d] = verdict[d] /\ req'[d] = req[d]
    <3>1. d # c
      BY <1>2, <1>6, <2>2
    <3> QED BY <1>1, <3>1 DEF TypeOK
  <2> QED
    BY <1>1, <1>2, <1>6, <2>1, <2>2 DEF Frame
<1> QED
  BY <1>1, <1>2, <1>3, <1>4, <1>5, <1>6 DEF Ends

LEMMA ReceiveKeeps ==
    ASSUME TypeOK, Exclusion, BucketsInv, ~LostReplies,
           NEW c \in Callers, Receive(c), NEW b \in Buckets
    PROVE  BucketInv(b)'
<1>0. Ends(c)
  BY ReceiveFacts
<1>1. CASE b # Bucket(c)
  BY <1>1, <1>0, FrameKeeps DEF BucketsInv, Ends
<1>2. CASE b = Bucket(c)
  <2>1. AnswerOnTheWay(c)
    BY <1>2, <1>0 DEF BucketsInv, BucketInv, Ends
  <2>2. Agree(b)'
    <3>1. CASE verdict[c] = "accepted"
      BY <1>2, <2>1, <3>1, <1>0 DEF AnswerOnTheWay, Agree, Drop, Restrict, NoFailures, Ends
    <3>2. CASE verdict[c] = "rejected"
      <4>1. b \in DOMAIN accountFailures' /\ accountFailures'[b] = upstream[b]
        BY <1>2, <2>1, <3>2, <1>0 DEF AnswerOnTheWay, Put, Ends
      <4> QED BY <4>1, <1>0 DEF Agree, Ends
    <3>3. CASE verdict[c] = "failed"
      <4>1. Agree(b)
        BY <1>2, <2>1, <3>3 DEF AnswerOnTheWay
      <4>2. CASE Budget(b).count = 0
        <5>1. b \notin DOMAIN accountFailures'
          BY <1>2, <3>3, <4>2, <1>0 DEF Drop, Restrict, Ends
        <5>2. ~(upstream[b].count > 0 /\ now < upstream[b].until)
          BY <4>1, <4>2 DEF Agree, Budget
        <5> QED BY <5>1, <5>2, <1>0 DEF Agree, Ends
      <4>3. CASE Budget(b).count # 0
        BY <1>2, <3>3, <4>1, <4>3, <1>0 DEF Agree, Ends
      <4> QED BY <4>2, <4>3
    <3> QED BY <3>1, <3>2, <3>3, <1>0 DEF Ends
  <2>3. (upstream[b].count <= FailureLimit)'
    BY <1>0 DEF BucketsInv, BucketInv, Ends
  <2>4. ASSUME NEW d \in Callers, (Bucket(d) = b)'
        PROVE  pc'[d] # "login" /\ pc'[d] # "reply"
    BY <1>2, <2>4, <1>0 DEF LoggingIn, Ends
  <2>5. b \notin DOMAIN inflight'
    BY <1>2, <1>0 DEF Ends
  <2> QED
    BY <2>2, <2>3, <2>4, <2>5 DEF BucketInv
<1> QED
  BY <1>1, <1>2

LEMMA TickKeeps ==
    ASSUME TypeOK, Exclusion, PromptReplies, Tick, NEW b \in Buckets, BucketInv(b)
    PROVE  BucketInv(b)'
<1>1. /\ \A c \in Callers : pc[c] # "reply"
      /\ now' = now + 1 /\ now \in Nat
      /\ UNCHANGED <<accountFailures, upstream, inflight, pc, req>>
      /\ upstream[b] \in AccountFailureEntry
  BY DEF Tick, managerVars, callerVars, TypeOK
<1>2. Agree(b)
  BY <1>1 DEF BucketInv, Pending
<1>3. b \in DOMAIN accountFailures => accountFailures[b] \in AccountFailureEntry
  BY DEF TypeOK, IsMap
<1>4. Agree(b)'
  BY <1>1, <1>2, <1>3 DEF Agree, AccountFailureEntry
<1>5. ~Spent(b) => ~Spent(b)'
  BY <1>1 DEF Spent, AccountFailureEntry
<1>6. ASSUME NEW c \in Callers, (Bucket(c) = b)', pc'[c] = "login" PROVE ~Spent(b)'
  BY <1>1, <1>5, <1>6 DEF BucketInv, Bucket
<1>7. /\ (b \in DOMAIN inflight => b \in DOMAIN accountFailures)'
      /\ (upstream[b].count <= FailureLimit)'
  BY <1>1 DEF BucketInv
<1> QED
  BY <1>1, <1>4, <1>6, <1>7 DEF BucketInv

LEMMA BudgetInit == Init => BudgetInv
<1> SUFFICES ASSUME Init PROVE BudgetInv
  OBVIOUS
<1>1. TypeOK /\ Exclusion
  BY InitTypes, ExclusionInit
<1>2. ASSUME NEW b \in Buckets PROVE BucketInv(b)
  BY OptionsAssumption DEF Init, BucketInv, Agree, Pending, Empty, NoFailures
<1> QED
  BY <1>1, <1>2, BudgetInvParts DEF BucketsInv

LEMMA BudgetStep ==
    ASSUME PromptReplies, ~LostReplies
    PROVE  BudgetInv /\ [Next]_vars => BudgetInv'
<1> SUFFICES ASSUME BudgetInv, [Next]_vars PROVE BudgetInv'
  OBVIOUS
<1>1. TypeOK /\ Exclusion /\ BucketsInv
  BY BudgetInvParts DEF BudgetInv
<1>2. TypeOK' /\ Exclusion'
  BY <1>1, StepTypes, ExclusionStep
<1>3. ASSUME NEW b \in Buckets PROVE BucketInv(b)'
  <2>1. CASE Quiet
    <3>1. KeptAt(b)
      BY <2>1, CleaningKeeps DEF Quiet
    <3>2. Frame(b)
      BY <2>1, <3>1 DEF Quiet, Frame
    <3> QED BY <1>1, <3>2, FrameKeeps DEF BucketsInv
  <2>2. CASE Tick
    BY <1>1, <2>2, TickKeeps DEF BucketsInv
  <2>3. ASSUME NEW c \in Callers, BeginLogin(c) PROVE BucketInv(b)'
    BY <1>1, <2>3, BeginKeeps
  <2>4. ASSUME NEW c \in Callers, Answer(c) PROVE BucketInv(b)'
    BY <1>1, <2>4, AnswerKeeps DEF Answer
  <2>5. ASSUME NEW c \in Callers, Receive(c) PROVE BucketInv(b)'
    BY <1>1, <2>5, ReceiveKeeps
  <2> QED
    BY <1>1, <2>1, <2>2, <2>3, <2>4, <2>5, QuietSteps
<1>4. BucketsInv'
  BY <1>3 DEF BucketsInv
<1> QED
  BY <1>2, <1>4, BudgetInvParts, PTL

LEMMA BudgetInvariant ==
    ASSUME PromptReplies, ~LostReplies
    PROVE  Spec => []BudgetInv
<1>1. BudgetInv /\ [Next]_vars => BudgetInv'
  BY BudgetStep
<1> QED
  BY <1>1, BudgetInit, PTL DEF Spec

(* Whatever its clients do, the server never brings an account to more     *)
(* than FailureLimit rejected logins, provided that ZenTao's answers reach *)
(* it and arrive before the clock moves on.                                *)
THEOREM BudgetKept ==
    ASSUME PromptReplies, ~LostReplies
    PROVE  Spec => []WithinBudget
<1>1. BudgetInv => WithinBudget
  BY DEF BudgetInv
<1> QED
  BY <1>1, BudgetInvariant, PTL

(* Under the same conditions the server's budget of an account is ZenTao's *)
(* own count whenever no answer is on its way: cleanup forgets no          *)
(* rejection early and holds none against an account ZenTao has forgiven.  *)
THEOREM BudgetsAgree ==
    ASSUME PromptReplies, ~LostReplies
    PROVE  Spec => []BudgetAgrees
<1>1. BudgetInv => BudgetAgrees
  BY DEF BudgetInv
<1> QED
  BY <1>1, BudgetInvariant, PTL

---------------------------------------------------------------------------
(* TokenManager implements AccountLockout.                                 *)

LEMMA FramePhase == ASSUME NEW b, Frame(b) PROVE LoginPhase(b)' = LoginPhase(b)
<1>1. (Pending(b)' <=> Pending(b)) /\ (b \in DOMAIN inflight' <=> b \in DOMAIN inflight)
  BY FramePending DEF Frame
<1> QED
  BY <1>1 DEF LoginPhase

LEMMA RefinesInit == Init => Lockout!Init
<1> SUFFICES ASSUME Init PROVE Lockout!Init
  OBVIOUS
<1>1. \A b \in Buckets : LoginPhase(b) = "none"
  BY DEF Init, LoginPhase, Empty
<1> QED
  BY <1>1 DEF Init, Lockout!Init, NoFailures

LEMMA RefinesStep ==
    ASSUME PromptReplies, ~LostReplies, BudgetInv, [Next]_vars
    PROVE  [Lockout!Next]_(Lockout!vars)
<1> DEFINE phases == [b \in Buckets |-> LoginPhase(b)]
<1>0. TypeOK /\ Exclusion /\ BucketsInv
  BY BudgetInvParts DEF BudgetInv
<1>1. ASSUME NEW n \in Buckets, \A b \in Buckets \ {n} : Frame(b)
      PROVE  phases' = [phases EXCEPT ![n] = LoginPhase(n)']
  BY <1>1, FramePhase
<1>2. CASE Quiet
  <2>1. \A b \in Buckets : Frame(b)
    BY <1>2, CleaningKeeps DEF Quiet, Frame
  <2>2. phases' = phases
    BY <2>1, FramePhase
  <2> QED
    BY <1>2, <2>2 DEF Quiet, Lockout!vars
<1>3. CASE Tick
  <2>1. \A b \in Buckets : LoginPhase(b) # "answered" /\ LoginPhase(b)' = LoginPhase(b)
    BY <1>3 DEF Tick, managerVars, callerVars, LoginPhase, Pending
  <2>2. phases' = phases
    BY <2>1
  <2> QED
    BY <1>3, <2>1, <2>2 DEF Tick, Lockout!Tick, Lockout!Next
<1>4. ASSUME NEW c \in Callers, BeginLogin(c), NEW n \in Buckets, n = Bucket(c)
      PROVE  Lockout!Begin(n)
  <2>0. Begins(c)
    BY <1>0, <1>4, BeginFacts
  <2>1. LoginPhase(n) = "none"
    BY <1>4, <2>0 DEF Begins, LoginPhase
  <2>2. ~Pending(n)'
    <3>1. ASSUME NEW d \in Callers, pc'[d] = "reply", Bucket(d)' = n PROVE FALSE
      BY <1>0, <1>4, <2>0, <3>1 DEF Begins, LoggingIn, Bucket, TypeOK
    <3> QED BY <3>1 DEF Pending, Bucket
  <2>3. LoginPhase(n)' = "asked"
    BY <1>4, <2>0, <2>2 DEF Begins, LoginPhase
  <2>4. phases[n] = "none" /\ phases' = [phases EXCEPT ![n] = "asked"]
    BY <1>1, <1>4, <2>0, <2>1, <2>3 DEF Begins
  <2>5. ~Lockout!Spent(n) /\ UNCHANGED <<upstream, now>>
    BY <1>4, <2>0 DEF Begins, Spent, Lockout!Spent
  <2> QED
    BY <2>4, <2>5 DEF Lockout!Begin
<1>5. ASSUME NEW c \in Callers, NEW v \in {"accepted", "rejected", "failed"}, Decide(c, v),
             NEW n \in Buckets, n = Bucket(c)
      PROVE  Lockout!Accept(n) \/ Lockout!Reject(n) \/ Lockout!Fail(n)
  <2>0. Decides(c, v)
    BY <1>0, <1>5, AnswerFacts
  <2>1. LoginPhase(n) = "asked"
    BY <1>5, <2>0 DEF Decides, LoginPhase
  <2>2. LoginPhase(n)' = "answered"
    BY <1>5, <2>0 DEF Decides, LoginPhase, Bucket
  <2>3. phases[n] = "asked" /\ phases' = [phases EXCEPT ![n] = "answered"]
    BY <1>1, <1>5, <2>0, <2>1, <2>2 DEF Decides
  <2>4. Lockout!Answered(n)
    BY <2>3 DEF Lockout!Answered
  <2>5. CASE v = "accepted"
    BY <1>5, <2>0, <2>4, <2>5 DEF Decides, Lockout!Accept, NoFailures
  <2>6. CASE v = "rejected"
    BY <1>5, <2>0, <2>4, <2>6 DEF Decides, Lockout!Reject, RejectedOnce
  <2>7. CASE v = "failed"
    BY <2>0, <2>4, <2>7 DEF Decides, Lockout!Fail
  <2> QED
    BY <2>5, <2>6, <2>7
<1>6. ASSUME NEW c \in Callers, Receive(c), NEW n \in Buckets, n = Bucket(c)
      PROVE  Lockout!End(n)
  <2>0. Ends(c)
    BY <1>0, <1>6, ReceiveFacts
  <2>1. LoginPhase(n) = "answered"
    BY <1>6, <2>0 DEF Ends, LoginPhase
  <2>2. LoginPhase(n)' = "none"
    BY <1>6, <2>0 DEF Ends, LoginPhase
  <2>3. phases[n] = "answered" /\ phases' = [phases EXCEPT ![n] = "none"]
    BY <1>1, <1>6, <2>0, <2>1, <2>2 DEF Ends
  <2> QED
    BY <2>0, <2>3 DEF Ends, Lockout!End
<1>7. \A c \in Callers : Bucket(c) \in Buckets
  BY <1>0, CallTypes DEF Bucket, protectionKey, key
<1>8. ASSUME NEW c \in Callers, Answer(c) PROVE Lockout!Next
  BY <1>5, <1>7, <1>8 DEF Answer, Lockout!Next
<1> QED
  BY <1>0, <1>2, <1>3, <1>4, <1>6, <1>7, <1>8, QuietSteps DEF Lockout!Next

(* The manager keeps the promise: every behaviour of the manager, seen     *)
(* through the logins in flight and ZenTao's count, is one of the lockout. *)
THEOREM ManagerImplementsLockout ==
    ASSUME PromptReplies, ~LostReplies
    PROVE  Spec => ImplementsLockout
<1>1. BudgetInv /\ [Next]_vars => BudgetInv'
  BY BudgetStep
<1>2. BudgetInv /\ [Next]_vars => [Lockout!Next]_(Lockout!vars)
  BY RefinesStep
<1> QED
  BY <1>1, <1>2, BudgetInit, RefinesInit, PTL DEF Spec, ImplementsLockout, Lockout!Spec

---------------------------------------------------------------------------
(* The sizes of maps.                                                      *)

Bounded(m) == IsFiniteSet(DOMAIN m) /\ Size(m) <= MaxCacheEntries

LEMMA EmptyBounded == Bounded(Empty)
  BY FS_EmptySet, OptionsAssumption DEF Bounded, Size, Empty

LEMMA FewerBounded ==
    ASSUME NEW m, Bounded(m), NEW n, DOMAIN n \subseteq DOMAIN m
    PROVE  Bounded(n)
<1>1. /\ IsFiniteSet(DOMAIN n) /\ Cardinality(DOMAIN n) <= Cardinality(DOMAIN m)
      /\ Cardinality(DOMAIN n) \in Nat /\ Cardinality(DOMAIN m) \in Nat
  BY FS_Subset, FS_CardinalityType DEF Bounded
<1> QED
  BY <1>1, OptionsAssumption DEF Bounded, Size

LEMMA PutBounded ==
    ASSUME NEW m, Bounded(m), NEW k, NEW v, k \in DOMAIN m \/ Size(m) < MaxCacheEntries
    PROVE  Bounded(Put(m, k, v))
<1>1. DOMAIN Put(m, k, v) = DOMAIN m \cup {k}
  BY DEF Put
<1>2. /\ IsFiniteSet(DOMAIN m \cup {k}) /\ Cardinality(DOMAIN m) \in Nat
      /\ Cardinality(DOMAIN m \cup {k}) =
             IF k \in DOMAIN m THEN Cardinality(DOMAIN m) ELSE Cardinality(DOMAIN m) + 1
  BY FS_AddElement, FS_CardinalityType DEF Bounded
<1> QED
  BY <1>1, <1>2, OptionsAssumption DEF Bounded, Size

\* One entry goes before another comes.
LEMMA SwapBounded ==
    ASSUME NEW m, Bounded(m), NEW x \in DOMAIN m, NEW k, NEW v
    PROVE  Bounded(Put(Drop(m, {x}), k, v))
<1>1. DOMAIN Drop(m, {x}) = DOMAIN m \ {x}
  BY DEF Drop, Restrict
<1>2. /\ IsFiniteSet(DOMAIN m \ {x}) /\ Cardinality(DOMAIN m) \in Nat
      /\ Cardinality(DOMAIN m \ {x}) = Cardinality(DOMAIN m) - 1
  BY FS_RemoveElement, FS_CardinalityType DEF Bounded
<1>3. Bounded(Drop(m, {x})) /\ Size(Drop(m, {x})) < MaxCacheEntries
  BY <1>1, <1>2, OptionsAssumption DEF Bounded, Size
<1> QED
  BY <1>3, PutBounded

LEMMA DropNothing == ASSUME NEW m PROVE DOMAIN Drop(m, {}) = DOMAIN m
  BY DEF Drop, Restrict

---------------------------------------------------------------------------
(* The caches keep their bounds, and a bucket whose login is in flight     *)
(* stays.  Each needs the other: a rejection adds no bucket only because   *)
(* the bucket of its login is still there.                                 *)

CacheInv ==
    /\ Bounded(tokens) /\ Bounded(failures) /\ Bounded(accountFailures)
    /\ ActiveBucketKept

LEMMA CleanedShrinks ==
    /\ DOMAIN LiveTokens \subseteq DOMAIN tokens
    /\ DOMAIN LiveFailures \subseteq DOMAIN failures
    /\ DOMAIN LiveAccounts \subseteq DOMAIN accountFailures
    /\ DOMAIN inflight \cap DOMAIN accountFailures \subseteq DOMAIN LiveAccounts
  BY DEF LiveTokens, LiveFailures, LiveAccounts, Restrict

LEMMA CleanedKeepsCaches ==
    ASSUME CacheInv, Cleaned, UNCHANGED inflight PROVE CacheInv'
<1>1. Bounded(tokens') /\ Bounded(failures') /\ Bounded(accountFailures')
  BY CleanedShrinks, FewerBounded DEF CacheInv, Cleaned
<1>2. ActiveBucketKept'
  BY CleanedShrinks DEF CacheInv, Cleaned, ActiveBucketKept
<1> QED
  BY <1>1, <1>2 DEF CacheInv, Bounded, Size

LEMMA SameCaches ==
    ASSUME CacheInv, UNCHANGED <<tokens, failures, accountFailures, inflight>> PROVE CacheInv'
  BY DEF CacheInv, Bounded, Size, ActiveBucketKept

LEMMA LookupKeepsCaches ==
    ASSUME CacheInv, NEW c \in Callers, Lookup(c) PROVE CacheInv'
<1>1. CASE ReturnCancelled(c)
  BY <1>1, SameCaches DEF ReturnCancelled, managerVars
<1>2. CASE ReuseSession(c)
  <2>1. DOMAIN tokens' = DOMAIN LiveTokens
    BY <1>2 DEF ReuseSession
  <2>2. Bounded(tokens') /\ Bounded(failures') /\ Bounded(accountFailures')
    BY <1>2, <2>1, CleanedShrinks, FewerBounded DEF CacheInv, ReuseSession
  <2>3. ActiveBucketKept'
    BY <1>2, CleanedShrinks DEF CacheInv, ReuseSession, ActiveBucketKept
  <2> QED
    BY <2>2, <2>3 DEF CacheInv, Bounded, Size
<1>3. CASE BeginLogin(c)
  <2> DEFINE b == protectionKey(c)
             fresh == [count |-> 0, until |-> now + FailureWindow]
  <2>1. Bounded(LiveTokens) /\ Bounded(LiveFailures) /\ Bounded(LiveAccounts)
    BY CleanedShrinks, FewerBounded DEF CacheInv
  <2>2. Bounded(accountFailures') /\ DOMAIN accountFailures' = DOMAIN LiveAccounts \cup {b}
    <3>1. CASE b \in DOMAIN LiveAccounts
      BY <1>3, <2>1, <3>1 DEF BeginLogin
    <3>2. CASE b \notin DOMAIN LiveAccounts
      <4>1. accountFailures' = Put(LiveAccounts, b, fresh)
        BY <1>3, <3>2 DEF BeginLogin
      <4>2. Size(LiveAccounts) < MaxCacheEntries
        BY <1>3, <2>1, <3>2, FS_CardinalityType, OptionsAssumption
           DEF BeginLogin, NoRoom, Bounded, Size
      <4>3. Bounded(Put(LiveAccounts, b, fresh))
        BY <2>1, <4>2, PutBounded
      <4> QED BY <4>1, <4>3 DEF Put
    <3> QED BY <3>1, <3>2
  <2>3. DOMAIN inflight' = DOMAIN inflight \cup {b}
    BY <1>3 DEF BeginLogin, Put
  <2>4. ActiveBucketKept'
    BY <2>2, <2>3, CleanedShrinks DEF CacheInv, ActiveBucketKept
  <2>5. Bounded(tokens') /\ Bounded(failures')
    BY <1>3, <2>1 DEF BeginLogin
  <2> QED
    BY <2>2, <2>4, <2>5 DEF CacheInv, Bounded, Size
<1> QED
  BY <1>1, <1>2, <1>3, CleanedKeepsCaches
     DEF Lookup, ThrottleAccount, SuppressRetry, WaitForLogin, RefuseNewAccount, GuardRefuses, Refuse

LEMMA FailureKeepsCaches ==
    ASSUME Bounded(failures), NEW c \in Callers, NEW err, RecordFailure(c, err)
    PROVE  Bounded(failures')
<1>1. CASE cancelled[c]
  BY <1>1 DEF RecordFailure
<1>2. CASE ~cancelled[c]
  <2>0. PICK victims \in FailureVictims(fkey(c)) :
            \E e : failures' = Put(Drop(failures, victims), fkey(c), e)
    BY <1>2 DEF RecordFailure
  <2>1. PICK e : failures' = Put(Drop(failures, victims), fkey(c), e)
    BY <2>0
  <2>2. CASE fkey(c) \in DOMAIN failures \/ Size(failures) < MaxCacheEntries
    <3>1. victims = {}
      BY <2>1, <2>2 DEF FailureVictims
    <3>2. Bounded(Drop(failures, {})) /\ Size(Drop(failures, {})) = Size(failures)
      BY DropNothing, FewerBounded DEF Size
    <3> QED BY <2>1, <2>2, <3>1, <3>2, DropNothing, PutBounded
  <2>3. CASE ~(fkey(c) \in DOMAIN failures \/ Size(failures) < MaxCacheEntries)
    <3>1. PICK x \in DOMAIN failures : victims = {x}
      BY <2>1, <2>3 DEF FailureVictims
    <3> QED BY <2>1, <3>1, SwapBounded
  <2> QED BY <2>2, <2>3
<1> QED BY <1>1, <1>2

LEMMA ReceiveKeepsCaches ==
    ASSUME CacheInv, Exclusion, TypeOK, NEW c \in Callers, Receive(c) PROVE CacheInv'
<1> DEFINE b == protectionKey(c)
<1>1. b \in DOMAIN inflight /\ b \in DOMAIN accountFailures
  BY DEF Receive, ReceiveAccepted, ReceiveRejected, ReceiveFailed, LoggingIn, Exclusion,
         NoAbandonedWaiters, protectionKey, key, CacheInv, ActiveBucketKept
<1>2. DOMAIN inflight' = DOMAIN inflight \ {b}
  BY DEF Receive, ReceiveAccepted, ReceiveRejected, ReceiveFailed, CloseDone, Drop, Restrict
<1>3. ASSUME ForgetOwnSession(c) PROVE Bounded(tokens')
  <2>1. DOMAIN tokens' \subseteq DOMAIN tokens
    BY <1>3 DEF ForgetOwnSession, Drop, Restrict
  <2> QED BY <2>1, FewerBounded DEF CacheInv
<1>4. CASE ReceiveAccepted(c)
  <2>1. DOMAIN accountFailures' = DOMAIN accountFailures \ {b}
    BY <1>4 DEF ReceiveAccepted, Drop, Restrict
  <2>2. DOMAIN failures' \subseteq DOMAIN failures
    BY <1>4 DEF ReceiveAccepted, Restrict
  <2>0. PICK victims \in TokenVictims(key(c)) :
            \E e : tokens' = Put(Drop(tokens, victims), key(c), e)
    BY <1>4 DEF ReceiveAccepted
  <2>3. PICK e : tokens' = Put(Drop(tokens, victims), key(c), e)
    BY <2>0
  <2>4. Bounded(tokens')
    <3>1. CASE key(c) \in DOMAIN tokens \/ Size(tokens) < MaxCacheEntries
      <4>1. victims = {}
        BY <2>3, <3>1 DEF TokenVictims
      <4>2. Bounded(Drop(tokens, {})) /\ Size(Drop(tokens, {})) = Size(tokens)
        BY DropNothing, FewerBounded DEF CacheInv, Size
      <4> QED BY <2>3, <3>1, <4>1, <4>2, DropNothing, PutBounded
    <3>2. CASE ~(key(c) \in DOMAIN tokens \/ Size(tokens) < MaxCacheEntries)
      <4>1. PICK x \in DOMAIN tokens : victims = {x}
        BY <2>3, <3>2 DEF TokenVictims
      <4> QED BY <2>3, <4>1, SwapBounded DEF CacheInv
    <3> QED BY <3>1, <3>2
  <2>5. Bounded(failures') /\ Bounded(accountFailures')
    BY <2>1, <2>2, FewerBounded DEF CacheInv
  <2> QED
    BY <1>2, <2>1, <2>4, <2>5 DEF CacheInv, Bounded, Size, ActiveBucketKept
<1>5. CASE ReceiveRejected(c)
  <2>1. Bounded(tokens') /\ Bounded(failures')
    BY <1>3, <1>5, FailureKeepsCaches DEF ReceiveRejected, CacheInv
  <2>2. Bounded(accountFailures') /\ DOMAIN accountFailures' = DOMAIN accountFailures
    BY <1>1, <1>5, PutBounded DEF ReceiveRejected, CacheInv, Put
  <2> QED
    BY <1>2, <2>1, <2>2 DEF CacheInv, Bounded, Size, ActiveBucketKept
<1>6. CASE ReceiveFailed(c)
  <2>1. Bounded(tokens') /\ Bounded(failures')
    BY <1>3, <1>6, FailureKeepsCaches DEF ReceiveFailed, CacheInv
  <2>2. /\ DOMAIN accountFailures' \subseteq DOMAIN accountFailures
        /\ DOMAIN accountFailures \ {b} \subseteq DOMAIN accountFailures'
    BY <1>6 DEF ReceiveFailed, ReleaseBudget, Drop, Restrict
  <2>3. Bounded(accountFailures')
    BY <2>2, FewerBounded DEF CacheInv
  <2> QED
    BY <1>2, <2>1, <2>2, <2>3 DEF CacheInv, Bounded, Size, ActiveBucketKept
<1> QED
  BY <1>4, <1>5, <1>6 DEF Receive

LEMMA CacheStep == TypeOK /\ Exclusion /\ CacheInv /\ [Next]_vars => CacheInv'
<1> SUFFICES ASSUME TypeOK, Exclusion, CacheInv, [Next]_vars PROVE CacheInv'
  OBVIOUS
<1>1. CASE Cleanup
  BY <1>1, CleanedKeepsCaches DEF Cleanup
<1>2. CASE Tick \/ UNCHANGED vars
  BY <1>2, SameCaches DEF Tick, vars, managerVars
<1>3. ASSUME NEW c \in Callers,
             CallToken(c) \/ CallRefresh(c) \/ Cancel(c) \/ Wake(c) \/ StopWaiting(c) \/ Answer(c)
      PROVE  CacheInv'
  BY <1>3, SameCaches
     DEF CallToken, CallRefresh, Enter, Cancel, Wake, StopWaiting, Answer, Decide, managerVars
<1> QED
  BY <1>1, <1>2, <1>3, LookupKeepsCaches, ReceiveKeepsCaches DEF Next

LEMMA CacheInit == Init => CacheInv
  BY EmptyBounded DEF Init, CacheInv, ActiveBucketKept, Empty

LEMMA CacheInvariant == Spec => [](Exclusion /\ CacheInv)
<1>1. TypeOK /\ Exclusion /\ CacheInv /\ [Next]_vars => Exclusion' /\ CacheInv'
  BY ExclusionStep, CacheStep
<1> QED
  BY <1>1, ExclusionInit, CacheInit, TypeCorrect, PTL DEF Spec

(* No cache outgrows max_cache_entries, whatever its clients send.         *)
THEOREM CachesKept == Spec => []CachesBounded
<1>1. CacheInv => CachesBounded
  BY DEF CacheInv, Bounded, CachesBounded
<1> QED
  BY <1>1, CacheInvariant, PTL

(* Neither cleanup nor the size limit takes the bucket of a login that is  *)
(* in flight, also when answers are late or lost.                          *)
THEOREM ActiveBucketsKept == Spec => []ActiveBucketKept
<1>1. CacheInv => ActiveBucketKept
  BY DEF CacheInv
<1> QED
  BY <1>1, CacheInvariant, PTL

---------------------------------------------------------------------------
(* Whose session a caller is given.  Serials tell a session from the one   *)
(* it replaces: a refresh began after the session it was asked to replace. *)

Fits(t, a, p) == t.account = a /\ t.password = p /\ t.serial <= logins

SessionFits(a) == Fits(tokens[a].token, a, tokens[a].password)

CallerFits(c) ==
    /\ result[c].kind = "token" =>
           /\ pc[c] = "idle" /\ result[c].token \in Token
           /\ Fits(result[c].token, req[c].account, req[c].password)
           /\ result[c].token # req[c].stale
    /\ req[c].stale # NoToken => req[c].stale.serial <= logins
    /\ LoggingIn(c) =>
           /\ chan[c] <= logins
           /\ req[c].stale # NoToken => req[c].stale.serial < chan[c]

SessionsFit == \A a \in DOMAIN tokens : SessionFits(a)

SessionInv == SessionsFit /\ \A c \in Callers : CallerFits(c)

\* No session is new, or changed but for the time of its last use.
OldSessions ==
    \A a \in DOMAIN tokens' :
        /\ a \in DOMAIN tokens
        /\ tokens'[a].token = tokens[a].token /\ tokens'[a].password = tokens[a].password
        /\ tokens'[a].expiresAt = tokens[a].expiresAt

SameCaller(c) ==
    pc'[c] = pc[c] /\ req'[c] = req[c] /\ result'[c] = result[c] /\ chan'[c] = chan[c]

LoginsGrow == logins' \in {logins, logins + 1}

LEMMA TokenFields == ASSUME NEW t \in Token PROVE t.serial \in Nat /\ t # NoToken
  BY KeysAssumption DEF Token

LEMMA OldSessionsFit ==
    ASSUME TypeOK, SessionsFit, OldSessions, LoginsGrow PROVE SessionsFit'
<1> SUFFICES ASSUME NEW a \in DOMAIN tokens' PROVE SessionFits(a)'
  BY DEF SessionsFit
<1>1. /\ a \in DOMAIN tokens /\ tokens[a].token \in Token
      /\ tokens'[a].token = tokens[a].token /\ tokens'[a].password = tokens[a].password
  BY DEF OldSessions, TypeOK, IsMap, TokenEntry
<1>2. SessionFits(a) /\ tokens[a].token.serial \in Nat /\ logins \in Nat
  BY <1>1, TokenFields DEF SessionsFit, TypeOK
<1> QED
  BY <1>1, <1>2 DEF SessionFits, Fits, LoginsGrow

LEMMA SameCallerFits ==
    ASSUME TypeOK, NEW c \in Callers, CallerFits(c), SameCaller(c), LoginsGrow PROVE CallerFits(c)'
<1>1. /\ logins \in Nat /\ chan[c] \in Nat
      /\ req[c].stale \in Token \cup {NoToken}
  BY DEF TypeOK, Request
<1>2. /\ req[c].stale # NoToken => req[c].stale.serial \in Nat
      /\ result[c].token \in Token => result[c].token.serial \in Nat
  BY <1>1, TokenFields
<1> QED
  BY <1>1, <1>2 DEF CallerFits, SameCaller, LoginsGrow, Fits, LoggingIn

\* A step of caller c alone.
LEMMA OneCallerFits ==
    ASSUME TypeOK, SessionInv, NEW c \in Callers, LoginsGrow,
           \A d \in Callers \ {c} : SameCaller(d), CallerFits(c)', SessionsFit'
    PROVE  SessionInv'
<1>1. ASSUME NEW d \in Callers PROVE CallerFits(d)'
  BY SameCallerFits DEF SessionInv
<1> QED
  BY <1>1 DEF SessionInv

LEMMA ReturnFits ==
    ASSUME TypeOK, NEW c \in Callers, NEW kind, NEW t, Return(c, kind, t)
    PROVE  /\ \A d \in Callers \ {c} : SameCaller(d)
           /\ pc'[c] = "idle" /\ result'[c] = [kind |-> kind, token |-> t]
           /\ req'[c] = IF kind = "token" THEN req[c] ELSE NoRequest
  BY DEF TypeOK, Return, SameCaller

\* A refusal leaves nothing to fit.
LEMMA RefusedFits ==
    ASSUME TypeOK, SessionInv, NEW c \in Callers, NEW kind, kind # "token",
           Return(c, kind, NoToken), OldSessions, UNCHANGED logins
    PROVE  SessionInv'
<1>1. LoginsGrow /\ SessionsFit'
  BY OldSessionsFit DEF SessionInv, LoginsGrow
<1>2. /\ \A d \in Callers \ {c} : SameCaller(d)
      /\ pc'[c] = "idle" /\ result'[c] = [kind |-> kind, token |-> NoToken]
      /\ req'[c] = NoRequest
  BY ReturnFits
<1>3. NoRequest.stale = NoToken
  BY DEF NoRequest
<1>4. CallerFits(c)'
  BY <1>2, <1>3 DEF CallerFits, LoggingIn
<1> QED
  BY <1>1, <1>2, <1>4, OneCallerFits

LEMMA CleanedSessions == ASSUME TypeOK, tokens' = LiveTokens PROVE OldSessions
  BY DEF OldSessions, LiveTokens, Restrict

LEMMA SameSessions == ASSUME UNCHANGED tokens PROVE OldSessions
  BY DEF OldSessions

LEMMA LookupFits ==
    ASSUME TypeOK, SessionInv, NEW c \in Callers, Lookup(c) PROVE SessionInv'
<1>1. CASE ReturnCancelled(c)
  BY <1>1, SameSessions, RefusedFits DEF ReturnCancelled, managerVars
<1>2. CASE ReuseSession(c)
  <2> DEFINE t == LiveTokens[key(c)].token
  <2>1. /\ key(c) \in DOMAIN tokens /\ LiveTokens[key(c)] = tokens[key(c)]
        /\ tokens[key(c)].password = hash(c) /\ t # req[c].stale
    BY <1>2 DEF ReuseSession, HasSession, LiveTokens, Restrict
  <2>2. OldSessions
    BY <1>2 DEF ReuseSession, OldSessions, LiveTokens, Restrict
  <2>3. t \in Token /\ Fits(t, key(c), hash(c))
    BY <2>1 DEF SessionInv, SessionsFit, SessionFits, TypeOK, IsMap, TokenEntry
  <2>4. /\ \A d \in Callers \ {c} : SameCaller(d)
        /\ pc'[c] = "idle" /\ result'[c] = [kind |-> "token", token |-> t]
        /\ req'[c] = req[c] /\ UNCHANGED logins
    BY <1>2, ReturnFits DEF ReuseSession
  <2>5. CallerFits(c)'
    BY <2>1, <2>3, <2>4 DEF CallerFits, Fits, LoggingIn, key, hash, SessionInv
  <2> QED
    BY <2>2, <2>4, <2>5, OldSessionsFit, OneCallerFits DEF SessionInv, LoginsGrow
<1>3. ASSUME NEW kind, kind # "token", Refuse(c, kind) PROVE SessionInv'
  <2>1. OldSessions
    BY <1>3, CleanedSessions DEF Refuse, Cleaned
  <2> QED
    BY <1>3, <2>1, RefusedFits DEF Refuse
<1>4. CASE SuppressRetry(c)
  <2>1. LiveFailures[fkey(c)].err # "token"
    BY <1>4, LiveTypes DEF SuppressRetry, BackingOff, IsMap, FailureEntry
  <2> QED
    BY <1>3, <1>4, <2>1 DEF SuppressRetry
<1>5. CASE WaitForLogin(c)
  <2>1. OldSessions /\ LoginsGrow /\ UNCHANGED logins
    BY <1>5, CleanedSessions DEF WaitForLogin, Cleaned, LoginsGrow
  <2>2. /\ \A d \in Callers \ {c} : SameCaller(d)
        /\ pc[c] = "lookup" /\ pc'[c] = "waiting" /\ req' = req /\ result' = result
    BY <1>5 DEF WaitForLogin, MayLogin, LookingUp, SameCaller, TypeOK
  <2>3. CallerFits(c)'
    BY <2>1, <2>2 DEF CallerFits, LoggingIn, SessionInv
  <2> QED
    BY <2>1, <2>2, <2>3, OldSessionsFit, OneCallerFits DEF SessionInv
<1>6. CASE BeginLogin(c)
  <2>1. OldSessions /\ LoginsGrow /\ logins' = logins + 1
    BY <1>6, CleanedSessions DEF BeginLogin, LoginsGrow
  <2>2. /\ \A d \in Callers \ {c} : SameCaller(d)
        /\ pc[c] = "lookup" /\ pc'[c] = "login" /\ req' = req /\ result' = result
        /\ chan'[c] = logins + 1
    BY <1>6 DEF BeginLogin, MayLogin, LookingUp, SameCaller, TypeOK
  <2>3. /\ logins \in Nat
        /\ req[c].stale # NoToken => req[c].stale.serial \in Nat
    BY TokenFields DEF TypeOK, Request
  <2>4. CallerFits(c)'
    BY <2>1, <2>2, <2>3 DEF CallerFits, LoggingIn, SessionInv
  <2> QED
    BY <2>1, <2>2, <2>4, OldSessionsFit, OneCallerFits DEF SessionInv
<1> QED
  BY <1>1, <1>2, <1>3, <1>4, <1>5, <1>6
     DEF Lookup, ThrottleAccount, RefuseNewAccount, GuardRefuses

LEMMA ReceiveFits ==
    ASSUME TypeOK, SessionInv, NEW c \in Callers, Receive(c) PROVE SessionInv'
<1>1. CASE ReceiveAccepted(c)
  <2> DEFINE t == Issued(c)
             e == [token |-> t, password |-> hash(c),
                   expiresAt |-> now + TokenTTL, lastUsed |-> now]
  <2>1. PICK victims : tokens' = Put(Drop(tokens, victims), key(c), e)
    BY <1>1 DEF ReceiveAccepted
  <2>2. /\ \A d \in Callers \ {c} : SameCaller(d)
        /\ pc'[c] = "idle" /\ result'[c] = [kind |-> "token", token |-> t]
        /\ req'[c] = req[c] /\ UNCHANGED logins /\ LoginsGrow
    BY <1>1, ReturnFits DEF ReceiveAccepted, LoginsGrow
  <2>3. /\ t \in Token /\ t.serial = chan[c] /\ Fits(t, key(c), hash(c))
        /\ req[c].stale # NoToken => req[c].stale.serial < t.serial
    BY <1>1, CallTypes
       DEF ReceiveAccepted, Issued, Token, TypeOK, Fits, SessionInv, CallerFits, LoggingIn
  <2>4. t # req[c].stale
    BY <2>3, TokenFields
  <2>5. CallerFits(c)'
    BY <2>2, <2>3, <2>4 DEF CallerFits, Fits, LoggingIn, key, hash, SessionInv
  <2>6. ASSUME NEW a \in DOMAIN tokens' PROVE SessionFits(a)'
    <3>1. CASE a = key(c)
      <4>1. tokens'[a] = e
        BY <2>1, <3>1 DEF Put
      <4> QED BY <2>2, <2>3, <3>1, <4>1 DEF SessionFits, Fits
    <3>2. CASE a # key(c)
      <4>1. a \in DOMAIN tokens /\ tokens'[a] = tokens[a]
        BY <2>1, <2>6, <3>2 DEF Put, Drop, Restrict
      <4> QED BY <2>2, <4>1 DEF SessionInv, SessionsFit, SessionFits, Fits
    <3> QED BY <3>1, <3>2
  <2> QED
    BY <2>2, <2>5, <2>6, OneCallerFits DEF SessionsFit
<1>2. ASSUME ForgetOwnSession(c) PROVE OldSessions
  BY <1>2 DEF ForgetOwnSession, OldSessions, Drop, Restrict
<1>3. CASE ReceiveRejected(c)
  BY <1>2, <1>3, RefusedFits DEF ReceiveRejected
<1>4. CASE ReceiveFailed(c)
  BY <1>2, <1>4, RefusedFits DEF ReceiveFailed
<1> QED
  BY <1>1, <1>3, <1>4 DEF Receive

LEMMA SessionStep == TypeOK /\ SessionInv /\ [Next]_vars => SessionInv'
<1> SUFFICES ASSUME TypeOK, SessionInv, [Next]_vars PROVE SessionInv'
  OBVIOUS
<1>1. ASSUME NEW c \in Callers, NEW r, Enter(c, r), r.stale # NoToken => r.stale.serial <= logins
      PROVE  SessionInv'
  <2>1. /\ \A d \in Callers \ {c} : SameCaller(d)
        /\ pc'[c] = "lookup" /\ req'[c] = r /\ result'[c].kind = "none"
        /\ UNCHANGED <<tokens, logins>>
    BY <1>1 DEF Enter, SameCaller, TypeOK, managerVars
  <2>2. CallerFits(c)'
    BY <1>1, <2>1 DEF CallerFits, LoggingIn
  <2> QED
    BY <2>1, <2>2, SameSessions, OldSessionsFit, OneCallerFits DEF SessionInv, LoginsGrow
<1>2. ASSUME NEW c \in Callers, CallToken(c) PROVE SessionInv'
  <2>1. PICK a \in Accounts, p \in Passwords :
            Enter(c, [account |-> a, password |-> p, stale |-> NoToken])
    BY <1>2 DEF CallToken
  <2> QED BY <1>1, <2>1
<1>3. ASSUME NEW c \in Callers, CallRefresh(c) PROVE SessionInv'
  <2> DEFINE r == [req[c] EXCEPT !.stale = result[c].token]
  <2>1. r.stale = result[c].token
    BY DEF TypeOK, Request
  <2>2. Enter(c, r) /\ result[c].token.serial <= logins
    BY <1>3 DEF CallRefresh, SessionInv, CallerFits, Fits
  <2> QED BY <1>1, <2>1, <2>2
<1>4. ASSUME UNCHANGED <<tokens, logins>>, \A d \in Callers : SameCaller(d) PROVE SessionInv'
  <2>1. SessionsFit'
    BY <1>4, SameSessions, OldSessionsFit DEF SessionInv, LoginsGrow
  <2>2. ASSUME NEW d \in Callers PROVE CallerFits(d)'
    BY <1>4, SameCallerFits DEF SessionInv, LoginsGrow
  <2> QED BY <2>1, <2>2 DEF SessionInv
<1>5. CASE Tick \/ UNCHANGED vars \/ \E c \in Callers : Cancel(c)
  BY <1>4, <1>5 DEF Tick, vars, Cancel, managerVars, callerVars, SameCaller
<1>6. CASE Cleanup
  <2>1. SessionsFit'
    BY <1>6, CleanedSessions, OldSessionsFit DEF Cleanup, Cleaned, SessionInv, LoginsGrow
  <2>2. ASSUME NEW d \in Callers PROVE CallerFits(d)'
    BY <1>6, SameCallerFits DEF Cleanup, callerVars, SameCaller, SessionInv, LoginsGrow
  <2> QED BY <2>1, <2>2 DEF SessionInv
<1>7. ASSUME NEW c \in Callers, StopWaiting(c) PROVE SessionInv'
  BY <1>7, SameSessions, RefusedFits DEF StopWaiting, managerVars
<1>8. ASSUME NEW c \in Callers, pc[c] # "idle", pc'[c] # "idle",
             UNCHANGED <<tokens, logins, req, result>>,
             \A d \in Callers \ {c} : SameCaller(d),
             LoggingIn(c)' => LoggingIn(c) /\ chan'[c] = chan[c]
      PROVE  SessionInv'
  <2>1. CallerFits(c)'
    BY <1>8 DEF SessionInv, CallerFits, Fits
  <2> QED
    BY <1>8, <2>1, SameSessions, OldSessionsFit, OneCallerFits DEF SessionInv, LoginsGrow
<1>9. ASSUME NEW c \in Callers, Wake(c) \/ Answer(c) PROVE SessionInv'
  <2>1. CASE Wake(c)
    BY <1>8, <2>1 DEF Wake, managerVars, SameCaller, TypeOK, LoggingIn
  <2>2. CASE Answer(c)
    BY <1>8, <2>2 DEF Answer, Decide, managerVars, SameCaller, TypeOK, LoggingIn
  <2> QED BY <1>9, <2>1, <2>2
<1> QED
  BY <1>2, <1>3, <1>5, <1>6, <1>7, <1>9, LookupFits, ReceiveFits DEF Next

LEMMA SessionInit == Init => SessionInv
  BY DEF Init, SessionInv, SessionsFit, CallerFits, LoggingIn, NoRequest, Empty

(* A caller is given a session of its own account and password, and never  *)
(* the token it came to replace, however calls, logins and expiry mix.     *)
THEOREM AnswersKept == Spec => []AnswersFitTheCall
<1>1. TypeOK /\ SessionInv /\ [Next]_vars => SessionInv'
  BY SessionStep
<1>2. SessionInv => AnswersFitTheCall
  BY DEF SessionInv, CallerFits, Fits, AnswersFitTheCall
<1> QED
  BY <1>1, <1>2, SessionInit, TypeCorrect, PTL DEF Spec

---------------------------------------------------------------------------
(* What a login may cost.  A login that is in flight was begun because the *)
(* cache held no session its caller could use, and it stays so: only a     *)
(* login of the same account could put one there, and there is no other.   *)

Unusable(c) ==
    LoggingIn(c) /\ key(c) \in DOMAIN tokens /\ now < tokens[key(c)].expiresAt =>
        tokens[key(c)].password # hash(c) \/ tokens[key(c)].token = req[c].stale

LoginsNeeded == \A c \in Callers : Unusable(c)

\* No login begins and none changes its mind.
NoNewLogin(c) == LoggingIn(c)' => LoggingIn(c) /\ req'[c] = req[c]

LEMMA OldLoginNeeded ==
    ASSUME TypeOK, OldSessions, now' \in Nat, now <= now',
           NEW c \in Callers, Unusable(c), NoNewLogin(c)
    PROVE  Unusable(c)'
<1> SUFFICES ASSUME LoggingIn(c)', key(c)' \in DOMAIN tokens', now' < tokens'[key(c)'].expiresAt
             PROVE  tokens'[key(c)'].password # hash(c)' \/ tokens'[key(c)'].token = req'[c].stale
  BY DEF Unusable
<1> DEFINE a == key(c)
<1>1. LoggingIn(c) /\ req'[c] = req[c] /\ key(c)' = a /\ hash(c)' = hash(c)
  BY DEF NoNewLogin, key, hash
<1>2. /\ a \in DOMAIN tokens /\ tokens'[a].token = tokens[a].token
      /\ tokens'[a].password = tokens[a].password /\ tokens'[a].expiresAt = tokens[a].expiresAt
  BY <1>1 DEF OldSessions
<1>3. now < tokens[a].expiresAt
  <2>1. tokens[a].expiresAt \in Nat /\ now \in Nat
    BY <1>2 DEF TypeOK, IsMap, TokenEntry
  <2> QED BY <1>1, <1>2, <2>1
<1>4. tokens[a].password # hash(c) \/ tokens[a].token = req[c].stale
  BY <1>1, <1>2, <1>3 DEF Unusable
<1> QED
  BY <1>1, <1>2, <1>4

\* Every step but the end of a login leaves the sessions alone, or drops expired ones.
LEMMA QuietSessions ==
    ASSUME TypeOK, [Next]_vars, \A c \in Callers : ~Receive(c)
    PROVE  /\ OldSessions /\ now' \in Nat /\ now <= now'
           /\ \A a \in DOMAIN tokens : now < tokens[a].expiresAt => a \in DOMAIN tokens'
<1>0. now \in Nat
  BY DEF TypeOK
<1>1. CASE UNCHANGED <<tokens, now>>
  BY <1>0, <1>1, SameSessions
<1>2. CASE tokens' = LiveTokens /\ UNCHANGED now
  BY <1>0, <1>2, CleanedSessions DEF LiveTokens, Restrict
<1>3. CASE UNCHANGED tokens /\ now' = now + 1
  BY <1>0, <1>3, SameSessions
<1>4. ASSUME NEW c \in Callers, Lookup(c)
      PROVE  \/ UNCHANGED <<tokens, now>>
             \/ tokens' = LiveTokens /\ UNCHANGED now
             \/ ReuseSession(c)
  BY <1>4 DEF Lookup, ReturnCancelled, ThrottleAccount, SuppressRetry, WaitForLogin,
              RefuseNewAccount, GuardRefuses, BeginLogin, Refuse, Cleaned, managerVars
<1>5. ASSUME NEW c \in Callers, ReuseSession(c)
      PROVE  /\ OldSessions /\ UNCHANGED now
             /\ \A a \in DOMAIN tokens : now < tokens[a].expiresAt => a \in DOMAIN tokens'
  BY <1>5 DEF ReuseSession, OldSessions, LiveTokens, Restrict
<1>6. ASSUME NEW c \in Callers,
             CallToken(c) \/ CallRefresh(c) \/ Cancel(c) \/ Wake(c) \/ StopWaiting(c) \/ Answer(c)
      PROVE  UNCHANGED <<tokens, now>>
  BY <1>6 DEF CallToken, CallRefresh, Enter, Cancel, Wake, StopWaiting, Answer, Decide, managerVars
<1>7. CASE Cleanup \/ Tick \/ UNCHANGED vars
  BY <1>1, <1>2, <1>3, <1>7 DEF Cleanup, Cleaned, Tick, vars, managerVars
<1> QED
  BY <1>0, <1>1, <1>2, <1>4, <1>5, <1>6, <1>7 DEF Next

LEMMA LoginsOnlyBegin ==
    ASSUME TypeOK, [Next]_vars, NEW c \in Callers, ~BeginLogin(c) PROVE NoNewLogin(c)
<1>1. ASSUME NEW d \in Callers, NEW r, Enter(d, r) PROVE NoNewLogin(c)
  BY <1>1 DEF Enter, NoNewLogin, LoggingIn, TypeOK
<1>2. ASSUME NEW d \in Callers, NEW kind, NEW t, Return(d, kind, t) PROVE NoNewLogin(c)
  BY <1>2 DEF Return, NoNewLogin, LoggingIn, TypeOK
<1>3. ASSUME NEW d \in Callers, Lookup(d) PROVE NoNewLogin(c)
  <2>1. CASE WaitForLogin(d)
    BY <2>1 DEF WaitForLogin, NoNewLogin, LoggingIn, TypeOK
  <2>2. CASE BeginLogin(d)
    BY <2>2 DEF BeginLogin, NoNewLogin, LoggingIn, TypeOK
  <2> QED
    BY <1>2, <1>3, <2>1, <2>2
       DEF Lookup, ReturnCancelled, ReuseSession, ThrottleAccount, SuppressRetry,
           RefuseNewAccount, GuardRefuses, Refuse
<1>4. ASSUME NEW d \in Callers, Wake(d) \/ Answer(d) \/ Cancel(d) PROVE NoNewLogin(c)
  BY <1>4 DEF Wake, Answer, Decide, Cancel, NoNewLogin, LoggingIn, TypeOK
<1>5. ASSUME NEW d \in Callers, Receive(d) \/ StopWaiting(d) PROVE NoNewLogin(c)
  BY <1>2, <1>5 DEF Receive, ReceiveAccepted, ReceiveRejected, ReceiveFailed, StopWaiting
<1>6. CASE Cleanup \/ Tick \/ UNCHANGED vars
  BY <1>6 DEF Cleanup, Tick, vars, callerVars, NoNewLogin, LoggingIn
<1> QED
  BY <1>1, <1>3, <1>4, <1>5, <1>6 DEF Next, CallToken, CallRefresh

\* A login ends: another account keeps its session, or was the least recently used.
Evicted(c, a) ==
    /\ verdict[c] = "accepted" /\ Size(tokens) >= MaxCacheEntries
    /\ \A x \in DOMAIN tokens : tokens[a].lastUsed <= tokens[x].lastUsed

LEMMA ReceiveSessions ==
    ASSUME TypeOK, CacheInv, NEW c \in Callers, Receive(c)
    PROVE  /\ \A a \in DOMAIN tokens' \ {key(c)} : a \in DOMAIN tokens /\ tokens'[a] = tokens[a]
           /\ \A a \in DOMAIN tokens \ {key(c)} : a \in DOMAIN tokens' \/ Evicted(c, a)
           /\ verdict[c] = "accepted" \/ ForgetOwnSession(c)
<1>1. CASE ReceiveAccepted(c)
  <2>0. PICK victims \in TokenVictims(key(c)) :
            \E e : tokens' = Put(Drop(tokens, victims), key(c), e)
    BY <1>1 DEF ReceiveAccepted
  <2>1. PICK e : tokens' = Put(Drop(tokens, victims), key(c), e)
    BY <2>0
  <2>2. /\ DOMAIN tokens' = (DOMAIN tokens \ victims) \cup {key(c)}
        /\ \A a \in DOMAIN tokens' \ {key(c)} : tokens'[a] = tokens[a]
    BY <2>1 DEF Put, Drop, Restrict
  <2>3. ASSUME NEW a \in DOMAIN tokens \ {key(c)}, a \notin DOMAIN tokens' PROVE Evicted(c, a)
    <3>1. a \in victims
      BY <2>2, <2>3
    <3>2. /\ ~(Size(tokens) < MaxCacheEntries)
          /\ \A x \in DOMAIN tokens : tokens[a].lastUsed <= tokens[x].lastUsed
      BY <2>0, <3>1 DEF TokenVictims
    <3>3. Size(tokens) \in Nat /\ MaxCacheEntries \in Nat
      BY FS_CardinalityType, OptionsAssumption DEF CacheInv, Bounded, Size
    <3> QED BY <1>1, <3>2, <3>3 DEF Evicted, ReceiveAccepted
  <2> QED BY <1>1, <2>2, <2>3 DEF ReceiveAccepted
<1>2. CASE ReceiveRejected(c) \/ ReceiveFailed(c)
  <2>1. ForgetOwnSession(c)
    BY <1>2 DEF ReceiveRejected, ReceiveFailed
  <2> QED BY <2>1 DEF ForgetOwnSession, Drop, Restrict
<1> QED
  BY <1>1, <1>2 DEF Receive

LEMMA LoginsNeededInit == Init => LoginsNeeded
  BY DEF Init, LoginsNeeded, Unusable, LoggingIn

LEMMA LoginsNeededStep ==
    TypeOK /\ Exclusion /\ CacheInv /\ LoginsNeeded /\ [Next]_vars => LoginsNeeded'
<1> SUFFICES ASSUME TypeOK, Exclusion, CacheInv, LoginsNeeded, [Next]_vars, NEW c \in Callers
             PROVE  Unusable(c)'
  BY DEF LoginsNeeded
<1>1. CASE BeginLogin(c)
  <2>1. /\ ~HasSession(c) /\ tokens' = LiveTokens /\ UNCHANGED <<req, now>>
    BY <1>1 DEF BeginLogin, MayLogin
  <2>2. key(c)' = key(c) /\ hash(c)' = hash(c)
    BY <2>1 DEF key, hash
  <2> QED
    BY <2>1, <2>2 DEF Unusable, HasSession
<1>2. ASSUME ~BeginLogin(c), NEW d \in Callers, Receive(d) PROVE Unusable(c)'
  <2>0. NoNewLogin(c)
    BY <1>2, LoginsOnlyBegin
  <2>1. LoggingIn(d) /\ pc'[d] = "idle" /\ now' = now
    BY <1>2 DEF Receive, ReceiveAccepted, ReceiveRejected, ReceiveFailed, Return, LoggingIn, TypeOK
  <2>2. CASE LoggingIn(c)'
    <3>1. LoggingIn(c) /\ c # d /\ key(c)' = key(c) /\ hash(c)' = hash(c) /\ req'[c] = req[c]
      BY <2>0, <2>1, <2>2 DEF NoNewLogin, LoggingIn, key, hash
    <3>2. key(c) # key(d)
      BY <2>1, <3>1 DEF Exclusion, OneLoginPerAccount, key
    <3>3. key(c) \in DOMAIN tokens' =>
              key(c) \in DOMAIN tokens /\ tokens'[key(c)] = tokens[key(c)]
      BY <1>2, <3>2, ReceiveSessions
    <3>4. Unusable(c)
      BY DEF LoginsNeeded
    <3> QED BY <2>1, <3>1, <3>3, <3>4 DEF Unusable
  <2>3. CASE ~LoggingIn(c)'
    BY <2>3 DEF Unusable
  <2> QED BY <2>2, <2>3
<1>3. ASSUME ~BeginLogin(c), \A d \in Callers : ~Receive(d) PROVE Unusable(c)'
  BY <1>3, QuietSessions, LoginsOnlyBegin, OldLoginNeeded DEF LoginsNeeded
<1> QED
  BY <1>1, <1>2, <1>3

LEMMA LossExplained ==
    ASSUME TypeOK, CacheInv, LoginsNeeded, [Next]_vars, NEW a \in DOMAIN tokens, Lost(a)
    PROVE  \E c \in Callers : MayLose(c, a)
<1>1. PICK c \in Callers : Receive(c)
  <2> SUFFICES ASSUME \A d \in Callers : ~Receive(d) PROVE FALSE
    OBVIOUS
  <2> QED BY QuietSessions DEF Lost, OldSessions
<1>2. LoggingIn(c) /\ pc'[c] = "idle"
  BY <1>1 DEF Receive, ReceiveAccepted, ReceiveRejected, ReceiveFailed, Return, LoggingIn, TypeOK
<1>3. CASE a # key(c)
  <2>1. Evicted(c, a)
    BY <1>1, <1>3, ReceiveSessions DEF Lost
  <2> QED BY <1>2, <1>3, <2>1 DEF Evicted, MayLose, key
<1>4. CASE a = key(c)
  <2>1. tokens[a].password # hash(c) \/ tokens[a].token = req[c].stale
    BY <1>2, <1>4 DEF LoginsNeeded, Unusable, Lost
  <2>2. verdict[c] = "accepted" \/ tokens[a].password = hash(c)
    <3>1. CASE ForgetOwnSession(c)
      BY <1>4, <3>1 DEF ForgetOwnSession, Lost
    <3> QED BY <1>1, <3>1, ReceiveSessions
  <2> QED BY <1>2, <1>4, <2>1, <2>2 DEF MayLose, key, hash
<1> QED
  BY <1>3, <1>4

(* A session that has not expired is lost only to a login that just ended: *)
(* to a new password of its account, to a refresh of that very token, or   *)
(* as the least recently used of a full cache.  For every number of        *)
(* callers and accounts, with late and lost answers.                       *)
THEOREM SessionsKept == Spec => SessionsSurvive
<1>1. TypeOK /\ CacheInv /\ LoginsNeeded /\ [Next]_vars =>
          [\A a \in DOMAIN tokens : Lost(a) => \E c \in Callers : MayLose(c, a)]_vars
  BY LossExplained
<1>2. Spec => []LoginsNeeded
  BY LoginsNeededStep, LoginsNeededInit, CacheInvariant, TypeCorrect, PTL DEF Spec
<1> QED
  BY <1>1, <1>2, CacheInvariant, TypeCorrect, PTL DEF Spec, SessionsSurvive
=============================================================================
