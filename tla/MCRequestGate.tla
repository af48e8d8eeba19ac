--------------------------- MODULE MCRequestGate ---------------------------
EXTENDS RequestGate, TLC

CONSTANTS alice, p, q, own

MCProtection   == [a \in Accounts |-> "alice"]
MCSharedPrefix == [a \in Accounts |-> {a}]

CallerSymmetry == Permutations(Callers)

Nothing == NoHeaders
\* Credentials beside a token, other credentials, a token alone, half of the credentials.
MCInputs ==
    {[Nothing EXCEPT !.account = alice, !.password = p, !.token = own],
     [Nothing EXCEPT !.account = alice, !.password = q],
     [Nothing EXCEPT !.authorization = own],
     [Nothing EXCEPT !.account = alice]}
=============================================================================
