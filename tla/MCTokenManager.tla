-------------------------- MODULE MCTokenManager --------------------------
EXTENDS TokenManager, TLC

CONSTANTS alice, Alice, bob

\* Two spellings of one account, and another account.
MCProtection   == [a \in Accounts |-> IF a = bob THEN "bob" ELSE "alice"]
MCSharedPrefix == [a \in Accounts |-> {a}]
\* bob spelled alice#x: a success of alice clears bob's backoff as well.
MCHashPrefix   == [a \in Accounts |-> IF a = alice THEN {alice, bob} ELSE {a}]
CallerSymmetry == Permutations(Callers)
=============================================================================
