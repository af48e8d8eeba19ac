-------------------------- MODULE AccountLockout --------------------------
(***************************************************************************)
(* What ZentaoTokenManager promises towards ZenTao, whatever its clients   *)
(* do: at most one login of an account at a time, and none that could be   *)
(* the rejection after FailureLimit of them, until a whole quiet window    *)
(* has passed since the last.  ZenTao's own policy is external; here it    *)
(* counts rejections, and starts over after an accepted login or after a   *)
(* quiet window.                                                           *)
(***************************************************************************)
EXTENDS Naturals

CONSTANTS Names, FailureLimit, FailureWindow

VARIABLES
    login,    \* what ZenTao has done about the login of a name, if there is one
    record,   \* its rejections: how many, and when they are forgotten
    now

vars == <<login, record, now>>

Phases == {"none", "asked", "answered"}

TypeOK ==
    /\ login \in [Names -> Phases]
    /\ record \in [Names -> [count : Nat, until : Nat]]
    /\ now \in Nat

Init ==
    /\ login = [n \in Names |-> "none"]
    /\ record = [n \in Names |-> [count |-> 0, until |-> 0]]
    /\ now = 0

Spent(n) == record[n].count >= FailureLimit /\ now < record[n].until

Begin(n) ==
    /\ login[n] = "none" /\ ~Spent(n)
    /\ login' = [login EXCEPT ![n] = "asked"]
    /\ UNCHANGED <<record, now>>

Answered(n) == login[n] = "asked" /\ login' = [login EXCEPT ![n] = "answered"]

Accept(n) ==
    /\ Answered(n)
    /\ record' = [record EXCEPT ![n] = [count |-> 0, until |-> 0]]
    /\ UNCHANGED now

Reject(n) ==
    /\ Answered(n)
    /\ record' = [record EXCEPT ![n] =
           [count |-> IF now < record[n].until THEN record[n].count + 1 ELSE 1,
            until |-> now + FailureWindow]]
    /\ UNCHANGED now

Fail(n) == Answered(n) /\ UNCHANGED <<record, now>>

End(n) ==
    /\ login[n] = "answered"
    /\ login' = [login EXCEPT ![n] = "none"]
    /\ UNCHANGED <<record, now>>

Tick ==
    /\ \A n \in Names : login[n] # "answered"
    /\ now' = now + 1
    /\ UNCHANGED <<login, record>>

Next ==
    \/ \E n \in Names : Begin(n) \/ Accept(n) \/ Reject(n) \/ Fail(n) \/ End(n)
    \/ Tick

Spec == Init /\ [][Next]_vars

=============================================================================
