--------------------------- MODULE AccessLimiter ---------------------------
(***************************************************************************)
(* accessLimiter (internal/middleware/zentao_access_limiter.go): a token   *)
(* bucket for everybody and one for each client address, in front of every *)
(* request, and a second pair in front of every new login to ZenTao.       *)
(*                                                                         *)
(* allow() runs under l.mu and is one action.  A tick is the resolution of *)
(* time.Duration; a request costs Cost units of a bucket, and a tick adds  *)
(* Rate units to it (the code counts the same in float64).                 *)
(***************************************************************************)
EXTENDS Integers, FiniteSets, Functions

CONSTANTS
    IPs,
    Cost,                 \* one request
    Rate, Burst,          \* of all requests: units a tick, and requests
    IPRate, IPBurst,      \* of one address
    MaxEntries, IdleTTL, CleanupEvery,
    MaxWait,              \* the hour that caps a wait
    MaxTime               \* bound on the clock

ASSUME LimiterAssumption ==
    /\ IsFiniteSet(IPs)
    /\ Cost \in Nat \ {0}
    /\ Rate \in Nat \ {0} /\ Burst \in Nat \ {0}
    /\ IPRate \in Nat \ {0} /\ IPBurst \in Nat \ {0}
    /\ MaxEntries \in Nat \ {0} /\ IdleTTL \in Nat \ {0} /\ CleanupEvery \in Nat \ {0}
    /\ MaxWait \in Nat \ {0} /\ MaxTime \in Nat

(* An idle address has a full bucket again before it is forgotten.  So it  *)
(* is with the default options (3 seconds for logins, 2 for requests,      *)
(* against 10 minutes); nothing makes configured options keep to it.       *)
IdleIsFull == IdleTTL * IPRate >= IPBurst * Cost

VARIABLES
    global,        \* l.global
    ips,           \* l.ips
    nextCleanup,   \* l.nextCleanup
    now,           \* l.now()
    window,        \* ghost: what was admitted since some moment
    promise        \* ghost: when a refused address was told to come back

limiterVars == <<global, ips, nextCleanup>>
vars == <<limiterVars, now, window, promise>>

(* The zero accessBucket: last is the zero time.                           *)
NoBucket == [tokens |-> 0, last |-> -1]
Never    == -1

Bucket == [tokens : Nat, last : Int]

TypeOK ==
    /\ now \in Nat /\ nextCleanup \in Nat
    /\ global \in Bucket /\ global.tokens <= Burst * Cost /\ global.last \in -1 .. now
    /\ DOMAIN ips \subseteq IPs
    /\ ips \in [DOMAIN ips -> Bucket]
    /\ \A ip \in DOMAIN ips : ips[ip].tokens <= IPBurst * Cost /\ ips[ip].last \in 0 .. now
    /\ window \in [since : 0 .. now, all : Nat, of : [IPs -> Nat], open : BOOLEAN]
    /\ promise \in [IPs -> Int]

Init ==
    /\ global = NoBucket /\ ips = [ip \in {} |-> NoBucket] /\ nextCleanup = 0
    /\ now = 0
    /\ window = [since |-> 0, all |-> 0, of |-> [ip \in IPs |-> 0], open |-> FALSE]
    /\ promise = [ip \in IPs |-> Never]

---------------------------------------------------------------------------
(* Buckets.                                                                *)

Smaller(m, n) == IF m < n THEN m ELSE n
Larger(m, n)  == IF m < n THEN n ELSE m

\* Mutant: a bucket may fill beyond its burst.
Refilled_NoCap(b, rate, burst) ==
    [tokens |-> IF b.last = Never THEN burst * Cost ELSE b.tokens + (now - b.last) * rate,
     last |-> now]

Refilled(b, rate, burst) ==
    [tokens |-> IF b.last = Never THEN burst * Cost
                ELSE Smaller(burst * Cost, b.tokens + (now - b.last) * rate),
     last |-> now]

\* Mutant: the division truncates, and nothing is added.
wait_Truncated(b, rate) ==
    IF b.tokens >= Cost THEN 0 ELSE Smaller((Cost - b.tokens) \div rate, MaxWait)

wait(b, rate) ==
    IF b.tokens >= Cost THEN 0 ELSE Smaller((Cost - b.tokens) \div rate, MaxWait) + 1

Spend(b) == [b EXCEPT !.tokens = @ - Cost]

\* Mutant: cleanup forgets every address.
Idle_Always(b) == TRUE

Idle(b) == now - b.last >= IdleTTL

---------------------------------------------------------------------------
(* allow.                                                                  *)

CleanupDue == now >= nextCleanup
Known == IF CleanupDue THEN Restrict(ips, {ip \in DOMAIN ips : ~Idle(ips[ip])}) ELSE ips

NextCleanup == nextCleanup' = IF CleanupDue THEN now + CleanupEvery ELSE nextCleanup

Global     == Refilled(global, Rate, Burst)
Local(ip)  == Refilled(IF ip \in DOMAIN Known THEN Known[ip] ELSE NoBucket, IPRate, IPBurst)

Full(ip)    == ip \notin DOMAIN Known /\ Cardinality(DOMAIN Known) >= MaxEntries
waitOf(ip)  == Larger(wait(Global, Rate), wait(Local(ip), IPRate))
Store(ip, b) == ips' = [x \in DOMAIN Known \cup {ip} |-> IF x = ip THEN b ELSE Known[x]]

(* A promise holds until another request is admitted.                      *)
RefuseFull(ip) ==
    /\ Full(ip)
    /\ NextCleanup
    /\ global' = Global
    /\ ips' = Known
    /\ UNCHANGED <<now, window, promise>>

RefuseRate(ip) ==
    /\ ~Full(ip) /\ waitOf(ip) > 0
    /\ NextCleanup
    /\ global' = Global
    /\ Store(ip, Local(ip))
    /\ promise' = [promise EXCEPT ![ip] = IF waitOf(ip) <= MaxWait THEN now + waitOf(ip) ELSE Never]
    /\ UNCHANGED <<now, window>>

Admit(ip) ==
    /\ ~Full(ip) /\ waitOf(ip) = 0
    /\ NextCleanup
    /\ global' = Spend(Global)
    /\ Store(ip, Spend(Local(ip)))
    /\ window' = [window EXCEPT !.all = @ + 1, !.of[ip] = @ + 1]
    /\ promise' = [x \in IPs |-> Never]
    /\ UNCHANGED now

Tick ==
    /\ now < MaxTime
    /\ now' = now + 1
    /\ UNCHANGED <<limiterVars, window, promise>>

(* Ghost: counting starts here, once.                                      *)
Observe ==
    /\ ~window.open
    /\ window' = [since |-> now, all |-> 0, of |-> [ip \in IPs |-> 0], open |-> TRUE]
    /\ UNCHANGED <<limiterVars, now, promise>>

Next ==
    \/ \E ip \in IPs : RefuseFull(ip) \/ RefuseRate(ip) \/ Admit(ip)
    \/ Tick \/ Observe

Spec == Init /\ [][Next]_vars

---------------------------------------------------------------------------
(* Properties.                                                             *)

(* In every window of time, no more is admitted than the burst and what    *)
(* the rate adds: for all addresses together, however they rotate...       *)
GlobalWithinRate ==
    window.all * Cost <= Burst * Cost + (now - window.since) * Rate

(* ... and for each address, although addresses are forgotten and come     *)
(* back ("eviction would let a flood reset its own rate budget", 73-74).   *)
AddressWithinRate == IdleIsFull =>
    \A ip \in IPs : window.of[ip] * Cost <= IPBurst * Cost + (now - window.since) * IPRate

(* The table of addresses stays bounded under any flood.                   *)
TableBounded == Cardinality(DOMAIN ips) <= MaxEntries

(* Retry-After is honest: an address that comes back when it was told is   *)
(* not refused for its rate again, unless others were admitted meanwhile   *)
(* or the wait was capped at the hour.                                     *)
RetryAfterIsEnough ==
    [][\A ip \in IPs : RefuseRate(ip) => promise[ip] = Never \/ now < promise[ip]]_vars

=============================================================================
