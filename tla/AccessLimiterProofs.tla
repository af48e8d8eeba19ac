------------------------ MODULE AccessLimiterProofs ------------------------
(***************************************************************************)
(* What AccessLimiter promises, for every value of the constants.          *)
(*                                                                         *)
(* The argument is one of potential.  What a bucket holds now, counting    *)
(* the refill the code has not written down yet (Held), falls by Cost with *)
(* every request admitted and grows by at most Rate with every tick; so it *)
(* and what a window has admitted never exceed Burst * Cost and what the   *)
(* rate has added since.  An address without a bucket holds a full one,    *)
(* which is why forgetting an idle address changes nothing.                *)
(***************************************************************************)
EXTENDS AccessLimiter, FiniteSetTheorems, TLAPS

(* What a bucket of capacity cap holds at time t.                          *)
Held(b, rate, cap, t) ==
    IF b.last = Never THEN cap ELSE Smaller(cap, b.tokens + (t - b.last) * rate)

GlobalHeld    == Held(global, Rate, Burst * Cost, now)
LocalHeld(ip) == IF ip \in DOMAIN ips THEN Held(ips[ip], IPRate, IPBurst * Cost, now)
                 ELSE IPBurst * Cost

GlobalInv == window.all * Cost + GlobalHeld <= Burst * Cost + (now - window.since) * Rate

AddressInv == IdleIsFull =>
    \A ip \in IPs :
        window.of[ip] * Cost + LocalHeld(ip) <= IPBurst * Cost + (now - window.since) * IPRate

(* At the promised time, or now if that has passed, both buckets have room.*)
PromiseInv ==
    \A ip \in IPs : promise[ip] # Never =>
        /\ promise[ip] \in Nat
        /\ GlobalHeld >= Cost \/ GlobalHeld + (promise[ip] - now) * Rate >= Cost
        /\ LocalHeld(ip) >= Cost \/ LocalHeld(ip) + (promise[ip] - now) * IPRate >= Cost

---------------------------------------------------------------------------
(* Arithmetic.                                                             *)

LEMMA Products ==
    ASSUME NEW m \in Nat, NEW n \in Nat
    PROVE  /\ m * n \in Nat
           /\ (m + 1) * n = m * n + n
  OBVIOUS

LEMMA ProductsGrow ==
    ASSUME NEW k \in Nat, NEW m \in Nat, NEW n \in Nat, k <= m
    PROVE  k * n <= m * n
  OBVIOUS

(* A quotient rounded up by one is enough.                                 *)
LEMMA Division ==
    ASSUME NEW n \in Nat, NEW r \in Nat \ {0}
    PROVE  n \div r \in Nat /\ ((n \div r) + 1) * r >= n
  OBVIOUS

---------------------------------------------------------------------------
(* Buckets.                                                                *)

BucketOf(cap, t) == {b \in Bucket : b.tokens <= cap /\ b.last \in -1 .. t}

(* A bucket holds a number of units within its capacity.                   *)
LEMMA HeldType ==
    ASSUME NEW cap \in Nat, NEW rate \in Nat, NEW t \in Nat, NEW b \in BucketOf(cap, t)
    PROVE  Held(b, rate, cap, t) \in 0 .. cap
<1>1. b.last # Never => (t - b.last) * rate \in Nat
  BY Products DEF BucketOf, Bucket, Never
<1>2. QED
  BY <1>1 DEF BucketOf, Bucket, Held, Smaller, Never

(* A tick adds the rate, up to the capacity.                               *)
LEMMA HeldGrows ==
    ASSUME NEW cap \in Nat, NEW rate \in Nat, NEW t \in Nat, NEW b \in BucketOf(cap, t)
    PROVE  Held(b, rate, cap, t + 1) = Smaller(cap, Held(b, rate, cap, t) + rate)
<1>1. CASE b.last = Never
  BY <1>1 DEF Held, Smaller
<1>2. CASE b.last # Never
  <2> DEFINE k == t - b.last
  <2>1. k \in Nat /\ t + 1 - b.last = k + 1
    BY <1>2 DEF BucketOf, Bucket, Never
  <2>2. k * rate \in Nat /\ (k + 1) * rate = k * rate + rate
    BY <2>1, Products
  <2>3. (t + 1 - b.last) * rate = k * rate + rate
    BY <2>1, <2>2
  <2> HIDE DEF k
  <2>4. Held(b, rate, cap, t) = Smaller(cap, b.tokens + k * rate)
    BY <1>2 DEF Held, k
  <2>5. QED
    BY <1>2, <2>2, <2>3, <2>4 DEF Held, Smaller, BucketOf, Bucket
<1>3. QED
  BY <1>1, <1>2

(* A bucket that was refilled just now holds what is written in it.        *)
LEMMA HeldNow ==
    ASSUME NEW cap \in Nat, NEW rate \in Nat, NEW t \in Nat, NEW n \in 0 .. cap
    PROVE  Held([tokens |-> n, last |-> t], rate, cap, t) = n
<1>1. (t - t) * rate = 0
  OBVIOUS
<1>2. QED
  BY <1>1 DEF Held, Smaller, Never

(* A bucket that has been idle for a refill is full.                       *)
LEMMA HeldIdle ==
    ASSUME NEW cap \in Nat, NEW rate \in Nat, NEW t \in Nat, NEW b \in BucketOf(cap, t),
           NEW idle \in Nat, t - b.last >= idle, idle * rate >= cap
    PROVE  Held(b, rate, cap, t) = cap
<1>1. CASE b.last = Never
  BY <1>1 DEF Held
<1>2. CASE b.last # Never
  <2>1. (t - b.last) * rate >= idle * rate
    BY <1>2, ProductsGrow DEF BucketOf, Bucket, Never
  <2>2. (t - b.last) * rate \in Nat /\ idle * rate \in Nat
    BY <1>2, Products DEF BucketOf, Bucket, Never
  <2>3. QED
    BY <1>2, <2>1, <2>2 DEF Held, Smaller, BucketOf, Bucket
<1>3. QED
  BY <1>1, <1>2

(* After the wait a bucket has room, unless the wait was capped.           *)
LEMMA WaitIsEnough ==
    ASSUME NEW n \in Nat, NEW rate \in Nat \ {0}, NEW w \in Nat, w <= MaxWait,
           NEW b, b.tokens = n, wait(b, rate) <= w
    PROVE  n >= Cost \/ n + w * rate >= Cost
<1> USE LimiterAssumption
<1>1. SUFFICES ASSUME n < Cost PROVE n + w * rate >= Cost
  OBVIOUS
<1> DEFINE q == (Cost - n) \div rate
<1>2. q \in Nat /\ (q + 1) * rate >= Cost - n
  BY <1>1, Division
<1> HIDE DEF q
<1>3. wait(b, rate) = Smaller(q, MaxWait) + 1
  BY <1>1 DEF wait, q
<1>4. q + 1 <= w
  BY <1>2, <1>3 DEF Smaller
<1>5. (q + 1) * rate <= w * rate /\ (q + 1) * rate \in Nat /\ w * rate \in Nat
  BY <1>2, <1>4, ProductsGrow, Products
<1>6. QED
  BY <1>2, <1>5

---------------------------------------------------------------------------
(* The state.                                                              *)

(* What the table holds for an address once idle ones are forgotten.       *)
KnownHeld(ip) == IF ip \in DOMAIN Known THEN Held(Known[ip], IPRate, IPBurst * Cost, now)
                 ELSE IPBurst * Cost

LEMMA Capacities ==
    /\ Burst * Cost \in Nat /\ Cost <= Burst * Cost
    /\ IPBurst * Cost \in Nat /\ Cost <= IPBurst * Cost
  BY LimiterAssumption, Products, ProductsGrow, 1 * Cost = Cost

LEMMA Contents ==
    ASSUME TypeOK
    PROVE  /\ global \in BucketOf(Burst * Cost, now)
           /\ \A ip \in DOMAIN ips : ips[ip] \in BucketOf(IPBurst * Cost, now)
           /\ GlobalHeld \in 0 .. Burst * Cost
           /\ \A ip \in IPs : LocalHeld(ip) \in 0 .. IPBurst * Cost
<1>1. global \in BucketOf(Burst * Cost, now)
  BY DEF TypeOK, BucketOf
<1>2. ASSUME NEW ip \in DOMAIN ips PROVE ips[ip] \in BucketOf(IPBurst * Cost, now)
  BY <1>2 DEF TypeOK, BucketOf, Bucket
<1>3. now \in Nat
  BY DEF TypeOK
<1>4. GlobalHeld \in 0 .. Burst * Cost
  BY <1>1, <1>3, Capacities, HeldType, LimiterAssumption DEF GlobalHeld
<1>5. ASSUME NEW ip \in IPs PROVE LocalHeld(ip) \in 0 .. IPBurst * Cost
  BY <1>2, <1>3, Capacities, HeldType, LimiterAssumption DEF LocalHeld
<1>6. QED
  BY <1>1, <1>2, <1>4, <1>5

(* Cleaning takes nothing from an address, and gives it nothing if an idle *)
(* bucket is full anyway.                                                  *)
LEMMA Cleaning ==
    ASSUME TypeOK
    PROVE  /\ DOMAIN Known \subseteq DOMAIN ips
           /\ \A ip \in DOMAIN Known : Known[ip] = ips[ip]
           /\ \A ip \in IPs :
                  /\ KnownHeld(ip) \in {LocalHeld(ip), IPBurst * Cost}
                  /\ IdleIsFull => KnownHeld(ip) = LocalHeld(ip)
<1>1. DOMAIN Known \subseteq DOMAIN ips /\ \A ip \in DOMAIN Known : Known[ip] = ips[ip]
  BY DEF Known, Restrict
<1>2. ASSUME NEW ip \in IPs PROVE KnownHeld(ip) \in {LocalHeld(ip), IPBurst * Cost}
  BY <1>1 DEF KnownHeld, LocalHeld
<1>3. ASSUME NEW ip \in IPs, IdleIsFull PROVE KnownHeld(ip) = LocalHeld(ip)
  <2>1. CASE ip \in DOMAIN ips /\ ip \notin DOMAIN Known
    <3>1. now - ips[ip].last >= IdleTTL
      BY <2>1 DEF Known, Restrict, Idle
    <3>2. Held(ips[ip], IPRate, IPBurst * Cost, now) = IPBurst * Cost
      BY <1>3, <2>1, <3>1, HeldIdle, Contents, Capacities, LimiterAssumption DEF IdleIsFull, TypeOK
    <3>3. QED
      BY <2>1, <3>2 DEF KnownHeld, LocalHeld
  <2>2. QED
    BY <1>1, <2>1 DEF KnownHeld, LocalHeld
<1>4. QED
  BY <1>1, <1>2, <1>3

(* The buckets that allow() works on.                                      *)
LEMMA Refills ==
    ASSUME TypeOK
    PROVE  /\ Global = [tokens |-> GlobalHeld, last |-> now]
           /\ \A ip \in IPs : Local(ip) = [tokens |-> KnownHeld(ip), last |-> now]
<1>1. Global = [tokens |-> GlobalHeld, last |-> now]
  BY DEF Global, GlobalHeld, Refilled, Held
<1>2. ASSUME NEW ip \in IPs PROVE Local(ip) = [tokens |-> KnownHeld(ip), last |-> now]
  BY DEF Local, KnownHeld, Refilled, Held, NoBucket, Never
<1>3. QED
  BY <1>1, <1>2

LEMMA KnownContents ==
    ASSUME TypeOK, NEW ip \in IPs
    PROVE  KnownHeld(ip) \in 0 .. IPBurst * Cost
  BY Cleaning, Contents, Capacities

(* A refused request writes the refill down and changes nothing else that  *)
(* counts.                                                                 *)
LEMMA RefuseFacts ==
    ASSUME TypeOK, NEW ip \in IPs, RefuseFull(ip) \/ RefuseRate(ip)
    PROVE  /\ UNCHANGED <<now, window>>
           /\ GlobalHeld' = GlobalHeld
           /\ \A x \in IPs : LocalHeld(x)' = KnownHeld(x)
<1>1. UNCHANGED <<now, window>> /\ global' = Global /\ now \in Nat
  BY DEF RefuseFull, RefuseRate, TypeOK
<1>2. GlobalHeld' = GlobalHeld
  BY <1>1, Refills, Contents, HeldNow, Capacities, LimiterAssumption DEF GlobalHeld
<1>3. ASSUME NEW x \in IPs PROVE LocalHeld(x)' = KnownHeld(x)
  <2>1. CASE ips' = Known
    BY <1>1, <2>1 DEF LocalHeld, KnownHeld
  <2>2. CASE Store(ip, Local(ip))
    <3>1. CASE x = ip
      <4>1. x \in DOMAIN ips' /\ ips'[x] = [tokens |-> KnownHeld(x), last |-> now]
        BY <2>2, <3>1, Refills DEF Store
      <4>2. Held([tokens |-> KnownHeld(x), last |-> now], IPRate, IPBurst * Cost, now) = KnownHeld(x)
        BY <1>1, KnownContents, HeldNow, Capacities, LimiterAssumption
      <4>3. QED
        BY <1>1, <4>1, <4>2 DEF LocalHeld
    <3>2. CASE x # ip
      BY <1>1, <2>2, <3>2 DEF Store, LocalHeld, KnownHeld
    <3>3. QED
      BY <3>1, <3>2
  <2>3. QED
    BY <2>1, <2>2 DEF RefuseFull, RefuseRate
<1>4. QED
  BY <1>1, <1>2, <1>3

(* An admitted request costs both buckets the same.                        *)
LEMMA AdmitFacts ==
    ASSUME TypeOK, NEW ip \in IPs, Admit(ip)
    PROVE  /\ UNCHANGED now
           /\ Cost <= GlobalHeld /\ Cost <= KnownHeld(ip)
           /\ GlobalHeld' = GlobalHeld - Cost
           /\ \A x \in IPs : LocalHeld(x)' = KnownHeld(x) - (IF x = ip THEN Cost ELSE 0)
<1>1. UNCHANGED now /\ now \in Nat /\ global' = Spend(Global) /\ Store(ip, Spend(Local(ip)))
  BY DEF Admit, TypeOK
<1>2. GlobalHeld \in 0 .. Burst * Cost /\ KnownHeld(ip) \in 0 .. IPBurst * Cost
  BY Contents, KnownContents
<1>3. Cost <= GlobalHeld /\ Cost <= KnownHeld(ip)
  <2>1. Larger(wait(Global, Rate), wait(Local(ip), IPRate)) = 0
    BY DEF Admit, waitOf
  <2>2. Global.tokens = GlobalHeld /\ Local(ip).tokens = KnownHeld(ip)
    BY Refills
  <2>3. Global.tokens < Cost => wait(Global, Rate) \in Nat \ {0}
    BY <1>2, <2>2, Division, LimiterAssumption DEF wait, Smaller
  <2>4. Local(ip).tokens < Cost => wait(Local(ip), IPRate) \in Nat \ {0}
    BY <1>2, <2>2, Division, LimiterAssumption DEF wait, Smaller
  <2>5. /\ Global.tokens >= Cost => wait(Global, Rate) = 0
        /\ Local(ip).tokens >= Cost => wait(Local(ip), IPRate) = 0
    BY DEF wait
  <2>6. QED
    BY <1>2, <2>1, <2>2, <2>3, <2>4, <2>5, LimiterAssumption DEF Larger
<1>4. GlobalHeld' = GlobalHeld - Cost
  <2>1. global' = [tokens |-> GlobalHeld - Cost, last |-> now]
    BY <1>1, Refills DEF Spend
  <2>2. GlobalHeld - Cost \in 0 .. Burst * Cost
    BY <1>2, <1>3, Capacities, LimiterAssumption
  <2>3. QED
    BY <1>1, <2>1, <2>2, HeldNow, Capacities, LimiterAssumption DEF GlobalHeld
<1>5. ASSUME NEW x \in IPs
      PROVE  LocalHeld(x)' = KnownHeld(x) - (IF x = ip THEN Cost ELSE 0)
  <2>1. CASE x = ip
    <3>1. x \in DOMAIN ips' /\ ips'[x] = [tokens |-> KnownHeld(x) - Cost, last |-> now]
      BY <1>1, <2>1, Refills DEF Store, Spend
    <3>2. KnownHeld(x) - Cost \in 0 .. IPBurst * Cost
      BY <1>2, <1>3, <2>1, Capacities, LimiterAssumption
    <3>3. QED
      BY <1>1, <2>1, <3>1, <3>2, HeldNow, Capacities, LimiterAssumption DEF LocalHeld
  <2>2. CASE x # ip
    <3>1. LocalHeld(x)' = KnownHeld(x)
      BY <1>1, <2>2 DEF Store, LocalHeld, KnownHeld
    <3>2. QED
      BY <2>2, <3>1, KnownContents, Capacities
  <2>3. QED
    BY <2>1, <2>2
<1>6. QED
  BY <1>1, <1>3, <1>4, <1>5

(* A tick adds the rate to what buckets hold, up to their capacity.        *)
LEMMA TickFacts ==
    ASSUME TypeOK, Tick
    PROVE  /\ now' = now + 1 /\ UNCHANGED <<limiterVars, window, promise>>
           /\ GlobalHeld' = Smaller(Burst * Cost, GlobalHeld + Rate)
           /\ \A ip \in IPs : LocalHeld(ip)' = Smaller(IPBurst * Cost, LocalHeld(ip) + IPRate)
<1>1. now' = now + 1 /\ UNCHANGED <<limiterVars, window, promise>> /\ now \in Nat
  BY DEF Tick, TypeOK
<1>2. GlobalHeld' = Smaller(Burst * Cost, GlobalHeld + Rate)
  BY <1>1, HeldGrows, Contents, Capacities, LimiterAssumption DEF GlobalHeld, limiterVars
<1>3. ASSUME NEW ip \in IPs
      PROVE  LocalHeld(ip)' = Smaller(IPBurst * Cost, LocalHeld(ip) + IPRate)
  <2>1. CASE ip \in DOMAIN ips
    BY <1>1, <2>1, HeldGrows, Contents, Capacities, LimiterAssumption DEF LocalHeld, limiterVars
  <2>2. CASE ip \notin DOMAIN ips
    BY <1>1, <2>2, Capacities, LimiterAssumption DEF LocalHeld, limiterVars, Smaller
  <2>3. QED
    BY <2>1, <2>2
<1>4. QED
  BY <1>1, <1>2, <1>3

---------------------------------------------------------------------------
(* Types.                                                                  *)

LEMMA InitTypes == Init => TypeOK
  BY LimiterAssumption, Capacities DEF Init, TypeOK, Bucket, NoBucket, Never

(* What Admit adds to the window.                                          *)
LEMMA WindowCounts ==
    ASSUME TypeOK, NEW ip \in IPs, Admit(ip)
    PROVE  /\ window' \in [since : 0 .. now, all : Nat, of : [IPs -> Nat], open : BOOLEAN]
           /\ window'.since = window.since
           /\ window'.all = window.all + 1
           /\ \A x \in IPs : window'.of[x] = window.of[x] + (IF x = ip THEN 1 ELSE 0)
<1>1. window \in [since : 0 .. now, all : Nat, of : [IPs -> Nat], open : BOOLEAN]
  BY DEF TypeOK
<1>2. window' = [since |-> window.since, all |-> window.all + 1,
                 of |-> [window.of EXCEPT ![ip] = @ + 1], open |-> window.open]
  BY <1>1 DEF Admit
<1>3. [window.of EXCEPT ![ip] = @ + 1] \in [IPs -> Nat]
  BY <1>1
<1>4. QED
  BY <1>1, <1>2, <1>3

LEMMA TableTypes ==
    ASSUME TypeOK, NEW ip \in IPs, UNCHANGED now,
           ips' = Known \/ \E n \in 0 .. IPBurst * Cost : Store(ip, [tokens |-> n, last |-> now])
    PROVE  /\ DOMAIN ips' \subseteq IPs
           /\ ips' \in [DOMAIN ips' -> Bucket]
           /\ \A x \in DOMAIN ips' : ips'[x].tokens <= IPBurst * Cost /\ ips'[x].last \in 0 .. now'
<1> DEFINE Good(b) == b \in Bucket /\ b.tokens <= IPBurst * Cost /\ b.last \in 0 .. now
<1>1. \A x \in DOMAIN Known : x \in IPs /\ Good(Known[x])
  BY Cleaning DEF TypeOK
<1>2. CASE ips' = Known
  BY <1>1, <1>2 DEF Known, Restrict, TypeOK
<1>3. ASSUME NEW n \in 0 .. IPBurst * Cost, Store(ip, [tokens |-> n, last |-> now])
      PROVE  /\ DOMAIN ips' \subseteq IPs
             /\ ips' \in [DOMAIN ips' -> Bucket]
             /\ \A x \in DOMAIN ips' : Good(ips'[x])
  <2>1. Good([tokens |-> n, last |-> now])
    BY <1>3, Capacities DEF TypeOK, Bucket
  <2>2. /\ DOMAIN ips' = DOMAIN Known \cup {ip}
        /\ \A x \in DOMAIN ips' : ips'[x] = IF x = ip THEN [tokens |-> n, last |-> now] ELSE Known[x]
        /\ ips' = [x \in DOMAIN ips' |-> ips'[x]]
    BY <1>3 DEF Store
  <2> HIDE DEF Good
  <2>3. \A x \in DOMAIN ips' : x \in IPs /\ Good(ips'[x])
    BY <1>1, <2>1, <2>2
  <2>4. QED
    BY <2>2, <2>3 DEF Good
<1>4. QED
  BY <1>2, <1>3

LEMMA GlobalTypes ==
    ASSUME TypeOK, UNCHANGED now, NEW n \in 0 .. Burst * Cost, global' = [tokens |-> n, last |-> now]
    PROVE  global' \in Bucket /\ global'.tokens <= Burst * Cost /\ global'.last \in -1 .. now'
  BY Capacities DEF TypeOK, Bucket

LEMMA CleanupTypes == ASSUME TypeOK, NextCleanup PROVE nextCleanup' \in Nat
  BY LimiterAssumption DEF TypeOK, NextCleanup

LEMMA StepTypes == TypeOK /\ [Next]_vars => TypeOK'
<1> SUFFICES ASSUME TypeOK, [Next]_vars PROVE TypeOK'
  OBVIOUS
<1>0. now \in Nat /\ \A ip \in IPs : wait(Global, Rate) \in Nat /\ waitOf(ip) \in Nat
  <2>1. ASSUME NEW b, NEW rate \in Nat \ {0}, b.tokens \in Nat PROVE wait(b, rate) \in Nat
    BY <2>1, Division, LimiterAssumption DEF wait, Smaller
  <2>2. QED
    BY <2>1, Refills, Contents, KnownContents, LimiterAssumption DEF waitOf, Larger, TypeOK
<1>1. ASSUME NEW ip \in IPs, RefuseFull(ip) PROVE TypeOK'
  <2>1. UNCHANGED now /\ ips' = Known /\ global' = [tokens |-> GlobalHeld, last |-> now]
    BY <1>1, Refills DEF RefuseFull
  <2>2. UNCHANGED <<now, window, promise>> /\ NextCleanup
    BY <1>1 DEF RefuseFull
  <2>3. QED
    BY <2>1, <2>2, TableTypes, GlobalTypes, CleanupTypes, Contents DEF TypeOK
<1>2. ASSUME NEW ip \in IPs, RefuseRate(ip) PROVE TypeOK'
  <2>1. /\ UNCHANGED now /\ global' = [tokens |-> GlobalHeld, last |-> now]
        /\ Store(ip, [tokens |-> KnownHeld(ip), last |-> now])
    BY <1>2, Refills DEF RefuseRate
  <2>2. UNCHANGED <<now, window>> /\ NextCleanup
    BY <1>2 DEF RefuseRate
  <2>3. promise' \in [IPs -> Int]
    BY <1>0, <1>2 DEF RefuseRate, TypeOK, Never
  <2>4. QED
    BY <2>1, <2>2, <2>3, TableTypes, GlobalTypes, CleanupTypes, Contents, KnownContents DEF TypeOK
<1>3. ASSUME NEW ip \in IPs, Admit(ip) PROVE TypeOK'
  <2>1. /\ UNCHANGED now /\ global' = [tokens |-> GlobalHeld - Cost, last |-> now]
        /\ Store(ip, [tokens |-> KnownHeld(ip) - Cost, last |-> now])
    BY <1>3, Refills DEF Admit, Spend
  <2>2. GlobalHeld - Cost \in 0 .. Burst * Cost /\ KnownHeld(ip) - Cost \in 0 .. IPBurst * Cost
    BY <1>3, AdmitFacts, Contents, KnownContents, Capacities, LimiterAssumption
  <2>3. NextCleanup /\ promise' \in [IPs -> Int]
    BY <1>3 DEF Admit, Never
  <2>4. QED
    BY <1>3, <2>1, <2>2, <2>3, TableTypes, GlobalTypes, CleanupTypes, WindowCounts DEF TypeOK
<1>4. CASE Tick
  BY <1>0, <1>4 DEF Tick, TypeOK, limiterVars
<1>5. CASE Observe
  BY <1>0, <1>5 DEF Observe, TypeOK, limiterVars
<1>6. CASE UNCHANGED vars
  BY <1>6 DEF vars, limiterVars, TypeOK
<1>7. QED
  BY <1>1, <1>2, <1>3, <1>4, <1>5, <1>6 DEF Next

(* Every reachable state is well typed; a bucket never holds more than its *)
(* burst, whatever the clock and the addresses do.                         *)
THEOREM LimiterTypeCorrect == Spec => []TypeOK
  BY InitTypes, StepTypes, PTL DEF Spec

---------------------------------------------------------------------------
(* Rates.                                                                  *)

(* What a window may admit: a burst, and what the rate adds to it.         *)
LEMMA AllowanceType ==
    ASSUME TypeOK, NEW rate \in Nat
    PROVE  /\ (now - window.since) * rate \in Nat
           /\ (now + 1 - window.since) * rate = (now - window.since) * rate + rate
           /\ (now - now) * rate = 0
<1> DEFINE k == now - window.since
<1>1. k \in Nat /\ now + 1 - window.since = k + 1 /\ now - now = 0
  BY DEF TypeOK
<1>2. k * rate \in Nat /\ (k + 1) * rate = k * rate + rate /\ 0 * rate = 0
  BY <1>1, Products
<1>3. QED
  BY <1>1, <1>2

LEMMA AdmittedType ==
    ASSUME TypeOK
    PROVE  /\ window.all \in Nat /\ window.all * Cost \in Nat
           /\ (window.all + 1) * Cost = window.all * Cost + Cost
           /\ \A ip \in IPs :
                  /\ window.of[ip] \in Nat /\ window.of[ip] * Cost \in Nat
                  /\ (window.of[ip] + 1) * Cost = window.of[ip] * Cost + Cost
           /\ 0 * Cost = 0
<1>1. window.all \in Nat /\ \A ip \in IPs : window.of[ip] \in Nat
  BY DEF TypeOK
<1>2. QED
  BY <1>1, Products, LimiterAssumption

LEMMA InitRates == Init => GlobalInv /\ AddressInv
<1> SUFFICES ASSUME Init PROVE GlobalInv /\ AddressInv
  OBVIOUS
<1>1. TypeOK
  BY InitTypes
<1>2. window.all = 0 /\ (\A ip \in IPs : window.of[ip] = 0)
  BY DEF Init
<1>3. QED
  BY <1>1, <1>2, Contents, AdmittedType, AllowanceType, Capacities, LimiterAssumption
     DEF GlobalInv, AddressInv

LEMMA GlobalStep == TypeOK /\ GlobalInv /\ [Next]_vars => GlobalInv'
<1> SUFFICES ASSUME TypeOK, GlobalInv, [Next]_vars PROVE GlobalInv'
  OBVIOUS
<1> DEFINE allowed == (now - window.since) * Rate
           used    == window.all * Cost
<1>1. used + GlobalHeld <= Burst * Cost + allowed
  BY DEF GlobalInv
<1>2. /\ GlobalHeld \in 0 .. Burst * Cost /\ used \in Nat /\ allowed \in Nat
      /\ Burst * Cost \in Nat /\ Rate \in Nat /\ Cost \in Nat
  BY Contents, AdmittedType, AllowanceType, Capacities, LimiterAssumption
<1>3. ASSUME NEW ip \in IPs, RefuseFull(ip) \/ RefuseRate(ip) PROVE GlobalInv'
  BY <1>1, <1>3, RefuseFacts DEF GlobalInv
<1>4. ASSUME NEW ip \in IPs, Admit(ip) PROVE GlobalInv'
  <2>1. used' = used + Cost /\ allowed' = allowed
    BY <1>4, AdmitFacts, WindowCounts, AdmittedType
  <2>2. GlobalHeld' = GlobalHeld - Cost
    BY <1>4, AdmitFacts
  <2> HIDE DEF used, allowed
  <2>3. used' + GlobalHeld' <= Burst * Cost + allowed'
    BY <1>1, <1>2, <2>1, <2>2
  <2>4. QED
    BY <2>3 DEF GlobalInv, used, allowed
<1>5. CASE Tick
  <2>0. (now + 1 - window.since) * Rate = allowed + Rate
    BY <1>2, AllowanceType
  <2>1. used' = used /\ allowed' = allowed + Rate
    <3>1. now' = now + 1 /\ window' = window
      BY <1>5, TickFacts
    <3>2. allowed' = (now + 1 - window.since) * Rate
      BY <3>1 DEF TypeOK
    <3>3. QED
      BY <2>0, <3>1, <3>2
  <2>2. GlobalHeld' <= GlobalHeld + Rate
    BY <1>2, <1>5, TickFacts DEF Smaller
  <2>3. GlobalHeld' \in Int
    BY <1>2, <1>5, TickFacts DEF Smaller
  <2> HIDE DEF used, allowed
  <2>4. used' + GlobalHeld' <= Burst * Cost + allowed'
    BY <1>1, <1>2, <2>1, <2>2, <2>3
  <2>5. QED
    BY <2>4 DEF GlobalInv, used, allowed
<1>6. CASE Observe
  <2>1. used' = 0 /\ allowed' = 0 /\ GlobalHeld' = GlobalHeld
    BY <1>6, AdmittedType, AllowanceType, LimiterAssumption DEF Observe, GlobalHeld, limiterVars
  <2> HIDE DEF used, allowed
  <2>2. used' + GlobalHeld' <= Burst * Cost + allowed'
    BY <1>2, <2>1
  <2>3. QED
    BY <2>2 DEF GlobalInv, used, allowed
<1>7. CASE UNCHANGED vars
  BY <1>1, <1>7 DEF vars, limiterVars, GlobalInv, GlobalHeld
<1>8. QED
  BY <1>3, <1>4, <1>5, <1>6, <1>7 DEF Next

LEMMA AddressStep == TypeOK /\ AddressInv /\ [Next]_vars => AddressInv'
<1> SUFFICES ASSUME TypeOK, AddressInv, [Next]_vars, IdleIsFull, NEW x \in IPs
             PROVE  (window.of[x] * Cost + LocalHeld(x)
                         <= IPBurst * Cost + (now - window.since) * IPRate)'
  BY DEF AddressInv, IdleIsFull
<1> DEFINE allowed == (now - window.since) * IPRate
           used    == window.of[x] * Cost
<1>1. used + LocalHeld(x) <= IPBurst * Cost + allowed
  BY DEF AddressInv
<1>2. /\ LocalHeld(x) \in 0 .. IPBurst * Cost /\ used \in Nat /\ allowed \in Nat
      /\ IPBurst * Cost \in Nat /\ IPRate \in Nat /\ Cost \in Nat
      /\ KnownHeld(x) = LocalHeld(x)
  BY Contents, Cleaning, AdmittedType, AllowanceType, Capacities, LimiterAssumption
<1>3. ASSUME NEW ip \in IPs, RefuseFull(ip) \/ RefuseRate(ip)
      PROVE  used' + LocalHeld(x)' <= IPBurst * Cost + allowed'
  BY <1>1, <1>2, <1>3, RefuseFacts
<1>4. ASSUME NEW ip \in IPs, Admit(ip)
      PROVE  used' + LocalHeld(x)' <= IPBurst * Cost + allowed'
  <2>1. used' = used + (IF x = ip THEN Cost ELSE 0) /\ allowed' = allowed
    BY <1>4, AdmitFacts, WindowCounts, AdmittedType
  <2>2. LocalHeld(x)' = LocalHeld(x) - (IF x = ip THEN Cost ELSE 0)
    BY <1>2, <1>4, AdmitFacts
  <2> HIDE DEF used, allowed
  <2>3. QED
    BY <1>1, <1>2, <2>1, <2>2
<1>5. CASE Tick
  <2>0. (now + 1 - window.since) * IPRate = allowed + IPRate
    BY <1>2, AllowanceType
  <2>1. used' = used /\ allowed' = allowed + IPRate
    <3>1. now' = now + 1 /\ window' = window
      BY <1>5, TickFacts
    <3>2. allowed' = (now + 1 - window.since) * IPRate
      BY <3>1 DEF TypeOK
    <3>3. QED
      BY <2>0, <3>1, <3>2
  <2>2. LocalHeld(x)' <= LocalHeld(x) + IPRate /\ LocalHeld(x)' \in Int
    BY <1>2, <1>5, TickFacts DEF Smaller
  <2> HIDE DEF used, allowed
  <2>3. used' + LocalHeld(x)' <= IPBurst * Cost + allowed'
    BY <1>1, <1>2, <2>1, <2>2
  <2>4. QED
    BY <2>3 DEF used, allowed
<1>6. CASE Observe
  <2>1. used' = 0 /\ allowed' = 0 /\ LocalHeld(x)' = LocalHeld(x)
    BY <1>6, AdmittedType, AllowanceType, LimiterAssumption DEF Observe, LocalHeld, limiterVars
  <2> HIDE DEF used, allowed
  <2>2. used' + LocalHeld(x)' <= IPBurst * Cost + allowed'
    BY <1>2, <2>1
  <2>3. QED
    BY <2>2 DEF used, allowed
<1>7. CASE UNCHANGED vars
  BY <1>1, <1>7 DEF vars, limiterVars, LocalHeld
<1>8. QED
  BY <1>3, <1>4, <1>5, <1>6, <1>7 DEF Next

LEMMA RatesInvariant == Spec => [](GlobalWithinRate /\ AddressWithinRate)
<1>1. TypeOK /\ GlobalInv /\ AddressInv => GlobalWithinRate /\ AddressWithinRate
  <2> SUFFICES ASSUME TypeOK, GlobalInv, AddressInv PROVE GlobalWithinRate /\ AddressWithinRate
    OBVIOUS
  <2>1. GlobalWithinRate
    BY Contents, AdmittedType, AllowanceType, Capacities, LimiterAssumption
       DEF GlobalInv, GlobalWithinRate
  <2>2. AddressWithinRate
    BY Contents, AdmittedType, AllowanceType, Capacities, LimiterAssumption
       DEF AddressInv, AddressWithinRate
  <2>3. QED
    BY <2>1, <2>2
<1>2. QED
  BY <1>1, InitTypes, InitRates, StepTypes, GlobalStep, AddressStep, PTL DEF Spec

(* The limit of allow() for all requests together: no window of time       *)
(* admits more than a burst and what the rate adds.                        *)
THEOREM RatesKept == Spec => []GlobalWithinRate
<1>1. QED
  BY RatesInvariant, PTL

(* The same for each address, although addresses are forgotten and come    *)
(* back, as long as one that is idle enough to be forgotten has a full     *)
(* bucket.                                                                 *)
THEOREM AddressRatesKept == Spec => []AddressWithinRate
<1>1. QED
  BY RatesInvariant, PTL

---------------------------------------------------------------------------
(* The table.                                                              *)

TableInv == DOMAIN ips \subseteq IPs /\ TableBounded

LEMMA TableStep ==
    ASSUME TableInv, NEW ip \in IPs, RefuseFull(ip) \/ RefuseRate(ip) \/ Admit(ip)
    PROVE  TableInv'
<1>1. DOMAIN Known \subseteq DOMAIN ips /\ DOMAIN Known \subseteq IPs
  BY DEF TableInv, Known, Restrict
<1>2. /\ IsFiniteSet(DOMAIN Known) /\ Cardinality(DOMAIN Known) \in Nat
      /\ Cardinality(DOMAIN Known) <= MaxEntries
  <2>1. IsFiniteSet(DOMAIN ips) /\ IsFiniteSet(DOMAIN Known)
    BY <1>1, FS_Subset, LimiterAssumption DEF TableInv
  <2>2. Cardinality(DOMAIN Known) <= Cardinality(DOMAIN ips)
    BY <1>1, <2>1, FS_Subset
  <2>3. QED
    BY <2>1, <2>2, FS_CardinalityType, LimiterAssumption DEF TableInv, TableBounded
<1>3. CASE ips' = Known
  BY <1>1, <1>2, <1>3 DEF TableInv, TableBounded
<1>4. CASE ~Full(ip) /\ DOMAIN ips' = DOMAIN Known \cup {ip}
  <2>1. CASE ip \in DOMAIN Known
    <3>1. DOMAIN ips' = DOMAIN Known
      BY <1>4, <2>1
    <3>2. QED
      BY <1>1, <1>2, <3>1 DEF TableInv, TableBounded
  <2>2. CASE ip \notin DOMAIN Known
    <3>1. Cardinality(DOMAIN ips') = Cardinality(DOMAIN Known) + 1
      BY <1>2, <1>4, <2>2, FS_AddElement
    <3>2. Cardinality(DOMAIN Known) < MaxEntries
      BY <1>2, <1>4, <2>2, LimiterAssumption DEF Full
    <3>3. QED
      BY <1>1, <1>2, <1>4, <3>1, <3>2, LimiterAssumption DEF TableInv, TableBounded
  <2>3. QED
    BY <2>1, <2>2
<1>5. QED
  BY <1>3, <1>4 DEF RefuseFull, RefuseRate, Admit, Store

(* The table of addresses never grows beyond MaxEntries, however many      *)
(* addresses send requests.                                                *)
THEOREM TableKept == Spec => []TableBounded
<1>1. Init => TableInv
  BY FS_EmptySet, LimiterAssumption DEF Init, TableInv, TableBounded
<1>2. TableInv /\ [Next]_vars => TableInv'
  <2> SUFFICES ASSUME TableInv, [Next]_vars PROVE TableInv'
    OBVIOUS
  <2>1. CASE UNCHANGED ips
    BY <2>1 DEF TableInv, TableBounded
  <2>2. QED
    BY <2>1, TableStep DEF Next, Tick, Observe, vars, limiterVars
<1>3. QED
  BY <1>1, <1>2, PTL DEF Spec, TableInv

---------------------------------------------------------------------------
(* Retry-After.                                                            *)

(* A bucket has room at a moment, or now if that has passed.               *)
LEMMA RoomStays ==
    ASSUME NEW held \in Nat, NEW rate \in Nat, NEW k \in Int, NEW cap \in Nat, Cost <= cap,
           held >= Cost \/ held + k * rate >= Cost
    PROVE  LET later == Smaller(cap, held + rate)
           IN  later >= Cost \/ later + (k - 1) * rate >= Cost
<1>1. (k - 1) * rate = k * rate - rate /\ k * rate \in Int
  OBVIOUS
<1>2. QED
  BY <1>1, LimiterAssumption DEF Smaller

LEMMA RoomAtLast ==
    ASSUME NEW held \in Nat, NEW rate \in Nat, NEW k \in Int, k <= 0,
           held >= Cost \/ held + k * rate >= Cost
    PROVE  held >= Cost
<1>1. (0 - k) * rate \in Nat /\ k * rate = 0 - (0 - k) * rate
  BY Products
<1>2. QED
  BY <1>1, LimiterAssumption

LEMMA PromiseStep == TypeOK /\ PromiseInv /\ [Next]_vars => PromiseInv'
<1> SUFFICES ASSUME TypeOK, PromiseInv, [Next]_vars, NEW x \in IPs, promise'[x] # Never
             PROVE  /\ promise'[x] \in Nat
                    /\ GlobalHeld' >= Cost \/ GlobalHeld' + (promise'[x] - now') * Rate >= Cost
                    /\ \/ LocalHeld(x)' >= Cost
                       \/ LocalHeld(x)' + (promise'[x] - now') * IPRate >= Cost
  BY DEF PromiseInv
<1>0. /\ GlobalHeld \in Nat /\ LocalHeld(x) \in Nat /\ now \in Nat
      /\ KnownHeld(x) \in Nat /\ KnownHeld(x) \in {LocalHeld(x), IPBurst * Cost}
      /\ Cost <= Burst * Cost /\ Cost <= IPBurst * Cost
      /\ promise \in [IPs -> Int]
  BY Contents, KnownContents, Cleaning, Capacities DEF TypeOK
<1>1. ASSUME NEW ip \in IPs, RefuseFull(ip) \/ RefuseRate(ip), promise'[x] = promise[x]
      PROVE  /\ promise'[x] \in Nat
             /\ GlobalHeld' >= Cost \/ GlobalHeld' + (promise'[x] - now') * Rate >= Cost
             /\ \/ LocalHeld(x)' >= Cost
                \/ LocalHeld(x)' + (promise'[x] - now') * IPRate >= Cost
  BY <1>0, <1>1, RefuseFacts DEF PromiseInv
<1>2. ASSUME RefuseRate(x), promise'[x] = now + waitOf(x), waitOf(x) <= MaxWait
      PROVE  /\ promise'[x] \in Nat
             /\ GlobalHeld' >= Cost \/ GlobalHeld' + (promise'[x] - now') * Rate >= Cost
             /\ \/ LocalHeld(x)' >= Cost
                \/ LocalHeld(x)' + (promise'[x] - now') * IPRate >= Cost
  <2> DEFINE w == waitOf(x)
  <2>1. Global.tokens = GlobalHeld /\ Local(x).tokens = KnownHeld(x)
    BY Refills
  <2>2. wait(Global, Rate) \in Nat /\ wait(Local(x), IPRate) \in Nat
    BY <1>0, <2>1, Division, LimiterAssumption DEF wait, Smaller
  <2>3. w \in Nat /\ wait(Global, Rate) <= w /\ wait(Local(x), IPRate) <= w
    BY <2>2 DEF waitOf, Larger
  <2>4. GlobalHeld >= Cost \/ GlobalHeld + w * Rate >= Cost
    BY <1>0, <1>2, <2>1, <2>3, WaitIsEnough, LimiterAssumption
  <2>5. KnownHeld(x) >= Cost \/ KnownHeld(x) + w * IPRate >= Cost
    BY <1>0, <1>2, <2>1, <2>3, WaitIsEnough, LimiterAssumption
  <2>6. promise'[x] - now' = w /\ promise'[x] \in Nat
    BY <1>0, <1>2, <2>3, RefuseFacts
  <2>7. QED
    BY <1>2, <2>4, <2>5, <2>6, RefuseFacts
<1>3. ASSUME NEW ip \in IPs, RefuseRate(ip)
      PROVE  \/ promise'[x] = promise[x]
             \/ x = ip /\ promise'[x] = now + waitOf(x) /\ waitOf(x) <= MaxWait
  BY <1>0, <1>3 DEF RefuseRate
<1>4. ASSUME NEW ip \in IPs, Admit(ip) PROVE FALSE
  BY <1>4 DEF Admit
<1>5. CASE Tick
  <2>1. promise'[x] = promise[x] /\ promise[x] \in Nat /\ now' = now + 1
    BY <1>5, TickFacts DEF PromiseInv
  <2> DEFINE k == promise[x] - now
  <2>2. k \in Int /\ promise'[x] - now' = k - 1
    BY <1>0, <2>1
  <2>3. /\ GlobalHeld >= Cost \/ GlobalHeld + k * Rate >= Cost
        /\ LocalHeld(x) >= Cost \/ LocalHeld(x) + k * IPRate >= Cost
    BY <2>1 DEF PromiseInv
  <2> HIDE DEF k
  <2>4. GlobalHeld' >= Cost \/ GlobalHeld' + (k - 1) * Rate >= Cost
    BY <1>0, <1>5, <2>2, <2>3, TickFacts, RoomStays, Capacities, LimiterAssumption
  <2>5. LocalHeld(x)' >= Cost \/ LocalHeld(x)' + (k - 1) * IPRate >= Cost
    BY <1>0, <1>5, <2>2, <2>3, TickFacts, RoomStays, Capacities, LimiterAssumption
  <2>6. QED
    BY <2>1, <2>2, <2>4, <2>5
<1>6. CASE UNCHANGED <<limiterVars, now, promise>>
  BY <1>6 DEF PromiseInv, GlobalHeld, LocalHeld, limiterVars
<1>7. QED
  BY <1>1, <1>2, <1>3, <1>4, <1>5, <1>6 DEF Next, RefuseFull, Observe, vars

(* Retry-After is honest: without another admission and without the cap of *)
(* an hour, an address that comes back when it was told is let in.         *)
THEOREM RetryAfterKept == Spec => RetryAfterIsEnough
<1>1. Init => PromiseInv
  BY DEF Init, PromiseInv
<1>2. ASSUME TypeOK, PromiseInv, NEW ip \in IPs, RefuseRate(ip)
      PROVE  promise[ip] = Never \/ now < promise[ip]
  <2> SUFFICES ASSUME promise[ip] # Never, ~(now < promise[ip]) PROVE FALSE
    OBVIOUS
  <2>1. GlobalHeld \in Nat /\ LocalHeld(ip) \in Nat /\ promise[ip] - now \in Int /\ promise[ip] - now <= 0
    BY <1>2, Contents DEF TypeOK
  <2>2. GlobalHeld >= Cost /\ LocalHeld(ip) >= Cost
    BY <1>2, <2>1, RoomAtLast, LimiterAssumption DEF PromiseInv
  <2>3. KnownHeld(ip) >= Cost
    BY <1>2, <2>1, <2>2, Cleaning, Capacities
  <2>4. wait(Global, Rate) = 0 /\ wait(Local(ip), IPRate) = 0
    BY <1>2, <2>2, <2>3, Refills DEF wait
  <2>5. QED
    BY <1>2, <2>4 DEF RefuseRate, waitOf, Larger
<1>3. TypeOK /\ PromiseInv /\ [Next]_vars =>
          [\A ip \in IPs : RefuseRate(ip) => promise[ip] = Never \/ now < promise[ip]]_vars
  BY <1>2
<1>4. QED
  BY <1>1, <1>3, InitTypes, StepTypes, PromiseStep, PTL DEF Spec, RetryAfterIsEnough

=============================================================================
