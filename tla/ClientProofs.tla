---------------------------- MODULE ClientProofs ----------------------------
(***************************************************************************)
(* Proofs about the connections to the networks' nodes.                    *)
(*                                                                         *)
(* RpcProviders, for every number of providers and callers, every limit    *)
(* and every course of the providers' conditions: no breaker stays closed  *)
(* at the limit, and the round robin passes nobody over.                   *)
(*                                                                         *)
(* HeadFeed, for all delays, widths of a duration and failures: the        *)
(* subscription dials at a bounded rate and leaves no connection open.     *)
(* No theorem is about both.                                               *)
(***************************************************************************)
EXTENDS RpcProviders, HeadFeed, FiniteSets, WellFoundedInduction, TLAPS

-----------------------------------------------------------------------------
(* The inductive invariant.                                                *)

(* A provider was passed over no more often than the index has come nearer *)
(* to it: how often, and how far it still is, stay below N together,       *)
(* whatever its breaker does.                                              *)
TurnInv == \A p \in Providers : passed[p] + Distance(p) <= N - 1

IndInv == ClosedBelowLimit /\ TurnInv

-----------------------------------------------------------------------------
(* The ring of providers.                                                  *)

(* A remainder of a number that is less than twice the divisor.            *)
LEMMA ModTwice ==
    ASSUME NEW m \in Nat \ {0}, NEW x \in 0..(2 * m - 1)
    PROVE  x % m = IF x < m THEN x ELSE x - m
<1>1. CASE x < m
  BY <1>1
<1>2. CASE x >= m
  <2>1. PICK y \in 0..(m - 1) : x = y + m
    BY <1>2
  <2>2. (y + m) % m = y
    OBVIOUS
  <2>3. QED BY <1>2, <2>1, <2>2
<1>3. QED BY <1>1, <1>2

(* The numbers of the providers.                                           *)
LEMMA RingFacts ==
    /\ N \in Nat /\ N > 0
    /\ \A p \in Providers : p \in Nat /\ p <= N - 1
    /\ \A p \in Nat : p <= N - 1 => p \in Providers
    /\ 0 \in Providers
BY PoolAssumption DEF Providers

(* How far a provider is from another: around the end of the slice if it   *)
(* comes before.                                                           *)
LEMMA RingDistance ==
    ASSUME NEW c \in Providers, NEW p \in Providers
    PROVE  /\ (p - c + N) % N = IF p < c THEN p - c + N ELSE p - c
           /\ (p - c + N) % N \in Nat
           /\ (p - c + N) % N <= N - 1
<1>1. p \in Nat /\ p <= N - 1 /\ c \in Nat /\ c <= N - 1 /\ N \in Nat \ {0}
  BY RingFacts
<1>2. PICK x \in 0..(2 * N - 1) : x = p - c + N
  BY <1>1
<1>3. x % N = IF x < N THEN x ELSE x - N
  BY <1>1, ModTwice
<1>4. QED BY <1>1, <1>2, <1>3

(* The index after a provider was picked: the first again after the last.  *)
LEMMA NextIndexIs ==
    ASSUME NEW p \in Providers
    PROVE  /\ NextIndex(p) \in Providers
           /\ NextIndex(p) = IF p + 1 < N THEN p + 1 ELSE 0
<1>1. p \in Nat /\ p <= N - 1 /\ N \in Nat \ {0}
  BY RingFacts
<1>2. PICK x \in 0..(2 * N - 1) : x = p + 1
  BY <1>1
<1>3. x % N = IF x < N THEN x ELSE x - N
  BY <1>1, ModTwice
<1>4. NextIndex(p) = IF p + 1 < N THEN p + 1 ELSE 0
  BY <1>1, <1>2, <1>3 DEF NextIndex
<1>5. QED BY <1>1, <1>4, RingFacts

(* The pick of a provider brings the index nearer to each that is farther  *)
(* away than it.                                                           *)
LEMMA Nearer ==
    ASSUME current \in Providers, NEW p \in Providers, NEW q \in Providers,
           current' = NextIndex(p), Distance(p) <= Distance(q), q # p
    PROVE  Distance(q)' <= Distance(q) - 1
<1>1. /\ p \in Nat /\ p <= N - 1 /\ q \in Nat /\ q <= N - 1
      /\ current \in Nat /\ current <= N - 1 /\ N \in Nat /\ N > 0
  BY RingFacts
<1>2. Distance(p) = IF p < current THEN p - current + N ELSE p - current
  BY RingDistance DEF Distance
<1>3. Distance(q) = IF q < current THEN q - current + N ELSE q - current
  BY RingDistance DEF Distance
<1>4. current' \in Providers /\ current' = IF p + 1 < N THEN p + 1 ELSE 0
  BY NextIndexIs
<1>5. Distance(q)' = IF q < current' THEN q - current' + N ELSE q - current'
  BY <1>4, RingDistance DEF Distance
<1>6. QED BY <1>1, <1>2, <1>3, <1>4, <1>5

-----------------------------------------------------------------------------
(* Type correctness.                                                       *)

(* Failures are counted up to their bound.                                 *)
LEMMA CountFacts ==
    ASSUME NEW f \in 0..MaxFailures
    PROVE  CountFailure(f) \in 0..MaxFailures
BY PoolAssumption DEF CountFailure

(* An outcome that is reported leaves the breakers well typed, and counted *)
(* failures open the breaker in time.                                      *)
LEMMA BreakerFacts ==
    ASSUME TypeOK, ClosedBelowLimit, NEW p \in Providers,
           Failed(p) \/ Succeeded(p)
    PROVE  /\ state' \in [Providers -> {"closed", "open", "half"}]
           /\ failures' \in [Providers -> 0..MaxFailures]
           /\ age' \in [Providers -> 0..Old]
           /\ ClosedBelowLimit'
<1>a. /\ state \in [Providers -> {"closed", "open", "half"}]
      /\ failures \in [Providers -> 0..MaxFailures]
      /\ age \in [Providers -> 0..Old]
  BY DEF TypeOK
<1>b. /\ 0 \in 0..MaxFailures /\ 0 \in 0..Old
      /\ FailureLimit \in Nat /\ 0 < FailureLimit
  BY PoolAssumption DEF Old
<1>1. CASE Failed(p)
  <2>1. CountFailure(failures[p]) \in 0..MaxFailures
    BY <1>a, CountFacts
  <2>2. /\ failures' = [failures EXCEPT ![p] = CountFailure(failures[p])]
        /\ age' = [age EXCEPT ![p] = 0]
        /\ state' = [state EXCEPT ![p] =
                        IF state[p] = "closed" /\ OpensAt(CountFailure(failures[p]))
                        THEN "open" ELSE state[p]]
    BY <1>1 DEF Failed
  <2>3. /\ state' \in [Providers -> {"closed", "open", "half"}]
        /\ failures' \in [Providers -> 0..MaxFailures]
        /\ age' \in [Providers -> 0..Old]
    BY <1>a, <1>b, <2>1, <2>2
  <2>4. ASSUME NEW q \in Providers, state'[q] = "closed"
        PROVE  failures'[q] < FailureLimit
    <3>1. CASE q = p
      <4>1. failures'[p] = CountFailure(failures[p])
        BY <1>a, <2>2
      <4>2. ~OpensAt(CountFailure(failures[p]))
        BY <1>a, <2>2, <2>4, <3>1
      <4>3. QED BY <1>b, <2>1, <3>1, <4>1, <4>2 DEF OpensAt
    <3>2. CASE q # p
      BY <1>a, <2>2, <2>4, <3>2 DEF ClosedBelowLimit
    <3>3. QED BY <3>1, <3>2
  <2>5. QED BY <2>3, <2>4 DEF ClosedBelowLimit
<1>2. CASE Succeeded(p)
  <2>1. /\ failures' = [failures EXCEPT ![p] = 0] /\ age' = age
        /\ state' = [state EXCEPT ![p] = IF state[p] = "half" THEN "closed"
                                         ELSE state[p]]
    BY <1>2 DEF Succeeded
  <2>2. /\ state' \in [Providers -> {"closed", "open", "half"}]
        /\ failures' \in [Providers -> 0..MaxFailures]
        /\ age' \in [Providers -> 0..Old]
    BY <1>a, <1>b, <2>1
  <2>3. ASSUME NEW q \in Providers, state'[q] = "closed"
        PROVE  failures'[q] < FailureLimit
    BY <1>a, <1>b, <2>1, <2>3 DEF ClosedBelowLimit
  <2>4. QED BY <2>2, <2>3 DEF ClosedBelowLimit
<1>3. QED BY <1>1, <1>2

(* A pick moves the index to another provider, and counts.                 *)
LEMMA ChooseFacts ==
    ASSUME TypeOK, TurnInv, NEW healthy \in HealthySets, NEW p \in Providers,
           Choose(p, healthy)
    PROVE  /\ current' \in Providers
           /\ passed' \in [Providers -> Nat]
           /\ TurnInv'
<1>a. current \in Providers /\ passed \in [Providers -> Nat]
  BY DEF TypeOK
<1>b. N \in Nat /\ N > 0
  BY RingFacts
<1>1. /\ current' = NextIndex(p)
      /\ passed' = [q \in Providers |->
                     IF q # p /\ state[q] = "closed" THEN passed[q] + 1 ELSE 0]
  BY DEF Choose
<1>2. current' \in Providers
  BY <1>1, NextIndexIs
<1>3. passed' \in [Providers -> Nat]
  BY <1>a, <1>1
<1>4. \A q \in Providers : state[q] = "closed" => q \in healthy
  BY DEF HealthySets
<1>5. ASSUME NEW q \in Providers
      PROVE  passed'[q] + Distance(q)' <= N - 1
  <2>1. Distance(q)' \in Nat /\ Distance(q)' <= N - 1
    BY <1>2, RingDistance DEF Distance
  <2>2. CASE q # p /\ state[q] = "closed"
    <3>1. Distance(p) <= Distance(q)
      BY <1>4, <2>2 DEF Choose
    <3>2. Distance(q)' <= Distance(q) - 1
      BY <1>a, <1>1, <2>2, <3>1, Nearer
    <3>3. passed'[q] = passed[q] + 1 /\ passed[q] \in Nat
      BY <1>a, <1>1, <2>2
    <3>4. Distance(q) \in Nat
      BY <1>a, RingDistance DEF Distance
    <3>5. passed[q] + Distance(q) <= N - 1
      BY DEF TurnInv
    <3>6. QED BY <1>b, <2>1, <3>2, <3>3, <3>4, <3>5
  <2>3. CASE ~(q # p /\ state[q] = "closed")
    <3>1. passed'[q] = 0
      BY <1>1, <2>3
    <3>2. QED BY <1>b, <2>1, <3>1
  <2>4. QED BY <2>2, <2>3
<1>6. QED BY <1>2, <1>3, <1>5 DEF TurnInv

(* The callers' variables keep their types.                                *)
LEMMA CallTypes ==
    ASSUME TypeOK, [Next]_vars
    PROVE  /\ cpc' \in [Callers -> {"idle", "pick", "call"}]
           /\ prov' \in [Callers -> Providers]
           /\ attempt' \in [Callers -> 0..(RetryAttempts - 1)]
<1>a. /\ cpc \in [Callers -> {"idle", "pick", "call"}]
      /\ prov \in [Callers -> Providers]
      /\ attempt \in [Callers -> 0..(RetryAttempts - 1)]
  BY DEF TypeOK
<1>b. 0 \in Providers /\ 0 \in 0..(RetryAttempts - 1) /\ RetryAttempts \in Nat
  BY RingFacts, PoolAssumption
<1>e. ASSUME NEW c \in Callers, EndCall(c)
      PROVE  /\ cpc' \in [Callers -> {"idle", "pick", "call"}]
             /\ prov' \in [Callers -> Providers]
             /\ attempt' \in [Callers -> 0..(RetryAttempts - 1)]
  BY <1>a, <1>b, <1>e DEF EndCall
<1>n. ASSUME NEW c \in Callers, NextAttempt(c)
      PROVE  /\ cpc' \in [Callers -> {"idle", "pick", "call"}]
             /\ prov' \in [Callers -> Providers]
             /\ attempt' \in [Callers -> 0..(RetryAttempts - 1)]
  <2>1. CASE EndCall(c)
    BY <1>e, <2>1
  <2>2. CASE /\ attempt[c] + 1 < RetryAttempts
             /\ cpc' = [cpc EXCEPT ![c] = "pick"]
             /\ attempt' = [attempt EXCEPT ![c] = @ + 1]
             /\ UNCHANGED prov
    <3>1. attempt[c] + 1 \in 0..(RetryAttempts - 1)
      BY <1>a, <1>b, <2>2
    <3>2. QED BY <1>a, <2>2, <3>1
  <2>3. QED BY <1>n, <2>1, <2>2 DEF NextAttempt
<1>1. ASSUME NEW c \in Callers, Pick(c)
      PROVE  /\ cpc' \in [Callers -> {"idle", "pick", "call"}]
             /\ prov' \in [Callers -> Providers]
             /\ attempt' \in [Callers -> 0..(RetryAttempts - 1)]
  <2>1. EndCall(c) \/ \E p \in Providers : /\ cpc' = [cpc EXCEPT ![c] = "call"]
                                           /\ prov' = [prov EXCEPT ![c] = p]
                                           /\ attempt' = attempt
    BY <1>1 DEF Pick
  <2>2. QED BY <1>a, <1>e, <2>1
<1>2. ASSUME NEW c \in Callers, StartCall(c)
      PROVE  /\ cpc' \in [Callers -> {"idle", "pick", "call"}]
             /\ prov' \in [Callers -> Providers]
             /\ attempt' \in [Callers -> 0..(RetryAttempts - 1)]
  BY <1>a, <1>2 DEF StartCall
<1>3. CASE UNCHANGED callVars
  BY <1>a, <1>3 DEF callVars
<1>4. QED
  BY <1>e, <1>n, <1>1, <1>2, <1>3
  DEF Next, CallStep, Answer, PickUnreported, HealthStep, Tick, CheckProvider,
      ProbeAnswer, Change, vars

(* So do the health check's and the providers' conditions.                 *)
LEMMA HealthTypes ==
    ASSUME TypeOK, [Next]_vars
    PROVE  /\ cond' \in [Providers -> AllConditions]
           /\ changes' \in Nat
           /\ hidx' \in 0..N
           /\ probing' \in BOOLEAN /\ delayed' \in BOOLEAN /\ expired' \in BOOLEAN
           /\ probing' => hidx' < N
<1>a. N \in Nat /\ N > 0 /\ hidx \in Nat /\ hidx <= N
  BY RingFacts DEF TypeOK
<1>1. CASE Tick
  <2>1. /\ hidx = N /\ hidx' = 0 /\ delayed' = FALSE /\ expired' = FALSE
        /\ UNCHANGED <<cond, changes, probing>>
    BY <1>1 DEF Tick
  <2>2. ~probing
    BY <1>a, <2>1 DEF TypeOK
  <2>3. hidx' \in 0..N
    BY <1>a, <2>1
  <2>4. probing' \in BOOLEAN /\ ~probing'
    BY <2>1, <2>2 DEF TypeOK
  <2>5. QED BY <2>1, <2>3, <2>4 DEF TypeOK
<1>2. CASE CheckProvider
  <2>1. /\ hidx < N /\ UNCHANGED <<cond, changes, delayed, expired>>
    BY <1>2 DEF CheckProvider
  <2>2. CASE probing' = TRUE /\ hidx' = hidx
    BY <1>a, <2>1, <2>2 DEF TypeOK
  <2>3. CASE hidx' = hidx + 1 /\ probing' = probing
    <3>1. ~probing
      BY <1>2 DEF CheckProvider
    <3>2. hidx' \in 0..N
      BY <1>a, <2>1, <2>3
    <3>3. QED BY <2>1, <2>3, <3>1, <3>2 DEF TypeOK
  <2>4. QED BY <1>2, <2>2, <2>3 DEF CheckProvider
<1>3. CASE ProbeAnswer
  <2>1. /\ probing /\ probing' = FALSE /\ delayed' = TRUE /\ hidx' = hidx + 1
        /\ expired' = expired \/ expired' = TRUE
        /\ UNCHANGED <<cond, changes>>
    BY <1>3 DEF ProbeAnswer
  <2>2. hidx < N
    BY <2>1 DEF TypeOK
  <2>3. hidx' \in 0..N
    BY <1>a, <2>1, <2>2
  <2>4. expired' \in BOOLEAN
    BY <2>1 DEF TypeOK
  <2>5. QED BY <2>1, <2>3, <2>4 DEF TypeOK
<1>4. CASE \E p \in Providers : Change(p)
  <2>1. PICK p \in Providers : Change(p)
    BY <1>4
  <2>2. PICK k \in Conditions : cond' = [cond EXCEPT ![p] = k]
    BY <2>1 DEF Change
  <2>3. cond' \in [Providers -> AllConditions]
    BY <2>2, PoolAssumption DEF TypeOK
  <2>4. changes' = changes + 1 /\ UNCHANGED <<hidx, probing, delayed, expired>>
    BY <2>1 DEF Change, healthVars
  <2>5. changes' \in Nat
    BY <2>4 DEF TypeOK
  <2>6. QED BY <2>3, <2>4, <2>5 DEF TypeOK
<1>5. CASE UNCHANGED <<cond, changes, healthVars>>
  BY <1>5 DEF TypeOK, healthVars
<1>6. QED
  BY <1>1, <1>2, <1>3, <1>4, <1>5
  DEF Next, CallStep, StartCall, Pick, Answer, PickUnreported, HealthStep, vars

(* The breakers keep their types, and none is closed at the limit.         *)
LEMMA BreakerNext ==
    ASSUME TypeOK, ClosedBelowLimit, [Next]_vars
    PROVE  /\ state' \in [Providers -> {"closed", "open", "half"}]
           /\ failures' \in [Providers -> 0..MaxFailures]
           /\ age' \in [Providers -> 0..Old]
           /\ ClosedBelowLimit'
<1>1. CASE \E p \in Providers : Failed(p) \/ Succeeded(p)
  BY <1>1, BreakerFacts
<1>2. CASE UNCHANGED breakerVars
  <2>1. UNCHANGED <<state, failures, age>>
    BY <1>2 DEF breakerVars
  <2>2. QED BY <2>1 DEF TypeOK, ClosedBelowLimit
<1>3. CASE Tick
  <2>1. /\ UNCHANGED <<state, failures>>
        /\ age' = [p \in Providers |-> IF age[p] < Old THEN age[p] + 1 ELSE Old]
    BY <1>3 DEF Tick
  <2>2. age' \in [Providers -> 0..Old]
    BY <2>1 DEF TypeOK, Old
  <2>3. QED BY <2>1, <2>2 DEF TypeOK, ClosedBelowLimit
<1>4. CASE ProbeAnswer
  <2>1. hidx \in Providers
    BY <1>4, RingFacts DEF ProbeAnswer, TypeOK
  <2>2. CASE /\ state' = [state EXCEPT ![hidx] = "half"]
             /\ failures' = [failures EXCEPT ![hidx] = 0]
             /\ age' = age
    <3>1. 0 \in 0..MaxFailures
      BY PoolAssumption
    <3>2. QED BY <2>1, <2>2, <3>1 DEF TypeOK, ClosedBelowLimit
  <2>3. QED BY <1>1, <1>4, <2>1, <2>2 DEF ProbeAnswer
<1>5. ASSUME NEW c \in Callers, Answer(c)
      PROVE  (\E p \in Providers : Failed(p) \/ Succeeded(p)) \/ UNCHANGED breakerVars
  BY <1>5 DEF Answer, TypeOK
<1>6. QED
  BY <1>1, <1>2, <1>3, <1>4, <1>5
  DEF Next, CallStep, StartCall, Pick, PickUnreported, HealthStep, CheckProvider,
      Change, vars

(* The index and the count of those passed over.                           *)
LEMMA TurnNext ==
    ASSUME TypeOK, TurnInv, [Next]_vars
    PROVE  current' \in Providers /\ passed' \in [Providers -> Nat] /\ TurnInv'
<1>1. CASE \E healthy \in HealthySets, p \in Providers : Choose(p, healthy)
  BY <1>1, ChooseFacts
<1>2. CASE UNCHANGED <<current, passed>>
  BY <1>2 DEF TypeOK, TurnInv, Distance
<1>3. ASSUME NEW c \in Callers, Pick(c)
      PROVE  \/ \E healthy \in HealthySets, p \in Providers : Choose(p, healthy)
             \/ UNCHANGED <<current, passed>>
  BY <1>3 DEF Pick
<1>4. QED
  BY <1>1, <1>2, <1>3
  DEF Next, CallStep, StartCall, Answer, PickUnreported, HealthStep, Tick,
      CheckProvider, ProbeAnswer, Change, vars

(* The pool starts with every breaker closed and nobody passed over.       *)
LEMMA PoolInit == Init => TypeOK /\ ClosedBelowLimit /\ TurnInv
<1> SUFFICES ASSUME Init PROVE TypeOK /\ ClosedBelowLimit /\ TurnInv
  OBVIOUS
<1>1. /\ 0 \in Providers /\ N \in 0..N /\ 0 \in 0..MaxFailures
      /\ 0 \in 0..(RetryAttempts - 1) /\ Old \in 0..Old /\ 0 < FailureLimit
  BY RingFacts, PoolAssumption DEF Old
<1>2. TypeOK
  BY <1>1 DEF Init, TypeOK, AllConditions
<1>3. ClosedBelowLimit
  BY <1>1 DEF Init, ClosedBelowLimit
<1>4. ASSUME NEW p \in Providers PROVE passed[p] + Distance(p) <= N - 1
  <2>1. Distance(p) \in Nat /\ Distance(p) <= N - 1
    BY <1>2, RingDistance DEF Distance, TypeOK
  <2>2. passed[p] = 0
    BY DEF Init
  <2>3. QED BY <2>1, <2>2, RingFacts
<1>5. QED BY <1>2, <1>3, <1>4 DEF TurnInv

(* Every variable keeps its type: no index is beyond the providers, no     *)
(* call makes more attempts than RetryAttempts, and the health check       *)
(* probes only an existing provider.                                       *)
THEOREM TypeCorrect == Spec => [](TypeOK /\ IndInv)
<1>1. TypeOK /\ IndInv /\ [Next]_vars => TypeOK' /\ IndInv'
  <2> SUFFICES ASSUME TypeOK, ClosedBelowLimit, TurnInv, [Next]_vars
               PROVE  TypeOK' /\ IndInv'
    BY DEF IndInv
  <2>1. IndInv'
    BY BreakerNext, TurnNext DEF IndInv
  <2>2. QED BY <2>1, CallTypes, HealthTypes, BreakerNext, TurnNext DEF TypeOK
<1>2. QED BY <1>1, PoolInit, PTL DEF Spec, IndInv

(* No breaker is closed after FailureLimit failures in a row, in whatever  *)
(* order answers and probes arrive.                                        *)
THEOREM BreakerOpensInTime == Spec => []ClosedBelowLimit
<1>1. IndInv => ClosedBelowLimit
  BY DEF IndInv
<1>2. QED BY <1>1, TypeCorrect, PTL

(* A provider with a closed breaker is passed over at most N - 1 times     *)
(* before it is picked, however many callers share the index.              *)
THEOREM RoundRobinIsFair == Spec => []NobodyPassedOver
<1>1. TypeOK /\ IndInv => NobodyPassedOver
  <2> SUFFICES ASSUME TypeOK, TurnInv, NEW p \in Providers
               PROVE  passed[p] <= N - 1
    BY DEF IndInv, NobodyPassedOver
  <2>1. Distance(p) \in Nat
    BY RingDistance DEF Distance, TypeOK
  <2>2. passed[p] \in Nat /\ passed[p] + Distance(p) <= N - 1
    BY DEF TypeOK, TurnInv
  <2>3. QED BY <2>1, <2>2, RingFacts
<1>2. QED BY <1>1, TypeCorrect, PTL

-----------------------------------------------------------------------------
(* The powers of two.                                                      *)

(* Every set of natural numbers that is not empty has a least element.     *)
LEMMA LeastNumber ==
    ASSUME NEW B \in SUBSET Nat, B # {}
    PROVE  \E m \in B : \A k \in B : m <= k
<1>1. PICK m \in B : \A k \in B : <<k, m>> \notin OpToRel(<, Nat)
  BY WFMin, NatLessThanWellFounded, Zenon
<1>2. ASSUME NEW k \in B PROVE m <= k
  <2>1. ~(k < m)
    BY <1>1 DEF OpToRel
  <2>2. QED BY <2>1
<1>3. QED BY <1>2

(* The beginning of the sequence of powers, up to the n-th.                *)
Powers(n, g) ==
    /\ g \in [0..n -> Nat]
    /\ g[0] = 1
    /\ \A k \in 1..n : g[k] = 2 * g[k - 1]

(* There is such a beginning for every n.                                  *)
LEMMA PowersExist == \A n \in Nat : \E g : Powers(n, g)
<1> DEFINE B == {n \in Nat : ~\E g : Powers(n, g)}
<1> SUFFICES ASSUME B # {} PROVE FALSE
  OBVIOUS
<1>1. PICK m \in B : \A k \in B : m <= k
  BY LeastNumber
<1>2. m # 0
  <2>1. Powers(0, [k \in 0..0 |-> 1])
    BY DEF Powers
  <2>2. QED BY <2>1
<1>3. m - 1 \in Nat /\ m - 1 \notin B
  BY <1>1, <1>2
<1>4. PICK g : Powers(m - 1, g)
  BY <1>3
<1>5. Powers(m, [k \in 0..m |-> IF k = m THEN 2 * g[m - 1] ELSE g[k]])
  <2> DEFINE h == [k \in 0..m |-> IF k = m THEN 2 * g[m - 1] ELSE g[k]]
  <2>1. h \in [0..m -> Nat] /\ h[0] = 1
    BY <1>2, <1>4 DEF Powers
  <2>2. ASSUME NEW k \in 1..m PROVE h[k] = 2 * h[k - 1]
    BY <1>2, <1>4 DEF Powers
  <2>3. QED BY <2>1, <2>2 DEF Powers
<1>6. QED BY <1>5

(* Two of them agree where both are defined.                               *)
LEMMA PowersAgree ==
    ASSUME NEW n \in Nat, NEW g, Powers(n, g),
           NEW m \in Nat, NEW h, Powers(m, h),
           NEW i \in Nat, i <= n, i <= m
    PROVE  g[i] = h[i]
<1> DEFINE B == {k \in Nat : k <= n /\ k <= m /\ g[k] # h[k]}
<1> SUFFICES ASSUME B # {} PROVE FALSE
  OBVIOUS
<1>1. PICK k \in B : \A j \in B : k <= j
  BY LeastNumber
<1>2. k # 0
  BY DEF Powers
<1>3. k - 1 \in Nat /\ k - 1 \notin B
  BY <1>1, <1>2
<1>4. g[k - 1] = h[k - 1]
  BY <1>2, <1>3
<1>5. g[k] = 2 * g[k - 1] /\ h[k] = 2 * h[k - 1]
  BY <1>2 DEF Powers
<1>6. QED BY <1>4, <1>5

(* PowerOf2 is what its recursive definition says.                         *)
LEMMA PowerDefined ==
    PowerOf2 =
        [n \in Nat |-> IF n = 0 THEN 1 ELSE 2 * PowerOf2[n - 1]]
<1> DEFINE P == [n \in Nat |-> CHOOSE g : Powers(n, g)]
           f == [n \in Nat |-> P[n][n]]
<1>1. \A n \in Nat : Powers(n, P[n])
  BY PowersExist
<1>2. f = [n \in Nat |-> f[n]] /\ \A n \in Nat : f[n] = P[n][n]
  OBVIOUS
<1> HIDE DEF P, f
<1>3. ASSUME NEW n \in Nat PROVE f[n] = IF n = 0 THEN 1 ELSE 2 * f[n - 1]
  <2>1. CASE n = 0
    BY <1>1, <1>2, <2>1 DEF Powers
  <2>2. CASE n # 0
    <3>1. n - 1 \in Nat /\ Powers(n, P[n]) /\ Powers(n - 1, P[n - 1])
      BY <1>1, <2>2
    <3>2. n \in 1..n
      BY <2>2
    <3>3. P[n][n] = 2 * P[n][n - 1]
      BY <3>1, <3>2 DEF Powers
    <3>4. P[n][n - 1] = P[n - 1][n - 1]
      BY <3>1, PowersAgree
    <3>5. QED BY <1>2, <2>2, <3>1, <3>3, <3>4
  <2>3. QED BY <2>1, <2>2
<1>4. f = [n \in Nat |-> IF n = 0 THEN 1 ELSE 2 * f[n - 1]]
  BY <1>2, <1>3
<1>5. QED BY <1>4, Zenon DEF PowerOf2

(* They are positive, and each is twice the one before.                    *)
LEMMA PowerFacts ==
    /\ \A n \in Nat : PowerOf2[n] \in Nat /\ PowerOf2[n] >= 1
    /\ \A n \in Nat : n # 0 => PowerOf2[n] = 2 * PowerOf2[n - 1]
<1> DEFINE P == PowerOf2
           B == {n \in Nat : ~(P[n] \in Nat /\ P[n] >= 1)}
<1>1. \A n \in Nat : P[n] = IF n = 0 THEN 1 ELSE 2 * P[n - 1]
  BY PowerDefined
<1> HIDE DEF P
<1>2. ASSUME B # {} PROVE FALSE
  <2>1. PICK m \in B : \A k \in B : m <= k
    BY <1>2, LeastNumber
  <2>2. m # 0
    BY <1>1
  <2>3. m - 1 \in Nat /\ m - 1 \notin B
    BY <2>1, <2>2
  <2>4. QED BY <1>1, <2>2, <2>3
<1>3. QED BY <1>1, <1>2 DEF P

-----------------------------------------------------------------------------
(* The subscription.                                                       *)

(* The closing goroutine of a connection waits only while its connection   *)
(* is read from, so that it never closes one behind the loop's back.       *)
ConnInv ==
    /\ ConnectionClosed
    /\ guarded => fpc = "read"

(* Before a dial all dials so far have been waited for, afterwards all but *)
(* one, where Bitcoin's first retries count neither as dials nor as waits; *)
(* nothing is dialled before the loop has counted a failure but the first  *)
(* time.                                                                   *)
RateInv ==
    /\ fpc = "start" \/ (fpc = "loop" /\ attempts = 0) => dials = 0
    /\ fpc = "wait" => BaseBackoff <= delay \/ overflowed
    /\ delay <= MaxBackoff
    /\ \/ dials * BaseBackoff <=
             waited + (IF fpc = "dial" /\ ~FirstRetry THEN 0 ELSE BaseBackoff)
       \/ overflowed
    /\ waited <= dials * MaxBackoff
                    + (IF fpc = "dial" /\ ~FirstRetry THEN MaxBackoff ELSE 0)

FeedInv == FeedTypeOK /\ ConnInv /\ RateInv

(* The width of a duration in powers of two.                               *)
LEMMA WidthFacts ==
    /\ PowerOf2[Width - 1] \in Nat
    /\ PowerOf2[Width] = 2 * PowerOf2[Width - 1]
    /\ PowerOf2[Width] \in Nat \ {0}
    /\ MaxBackoff < PowerOf2[Width - 1]
<1>1. Width \in Nat /\ Width # 0 /\ Width - 1 \in Nat
  BY FeedAssumption
<1>2. QED BY <1>1, PowerFacts, FeedAssumption

(* A shift leaves a number of the width, and the product when that fits.   *)
LEMMA ShiftFacts ==
    ASSUME NEW x \in Nat, NEW n \in Nat
    PROVE  /\ ShiftLeft(x, n) \in
                  -PowerOf2[Width - 1]..(PowerOf2[Width - 1] - 1)
           /\ x * PowerOf2[n] < PowerOf2[Width - 1] =>
                  ShiftLeft(x, n) = x * PowerOf2[n]
<1> DEFINE h == PowerOf2[Width - 1]
           w == PowerOf2[Width]
           y == x * PowerOf2[n]
<1>1. h \in Nat /\ w = 2 * h /\ w \in Nat \ {0}
  BY WidthFacts
<1>2. y \in Nat
  BY PowerFacts
<1>3. ShiftLeft(x, n) = IF y % w < h THEN y % w ELSE (y % w) - w
  BY DEF ShiftLeft
<1> HIDE DEF h, w, y
<1>4. y % w \in 0..(w - 1)
  BY <1>1, <1>2
<1>5. y < w => y % w = y
  BY <1>1, <1>2
<1>6. ShiftLeft(x, n) \in -h..(h - 1)
  BY <1>1, <1>3, <1>4
<1>7. y < h => ShiftLeft(x, n) = y
  BY <1>1, <1>2, <1>3, <1>5
<1>8. QED BY <1>6, <1>7 DEF h, y

(* The delay is a duration up to the cap, and as long as the shift does    *)
(* not overflow at least the base delay.                                   *)
LEMMA BackoffFacts ==
    ASSUME NEW a \in Nat, a > 0
    PROVE  /\ Backoff(a) \in
                  -PowerOf2[Width - 1]..(PowerOf2[Width - 1] - 1)
           /\ Backoff(a) <= MaxBackoff
           /\ ~Overflows(a) => BaseBackoff <= Backoff(a)
<1> DEFINE h == PowerOf2[Width - 1]
           q == PowerOf2[a - 1]
           d == ShiftLeft(BaseBackoff, a - 1)
<1>1. /\ BaseBackoff \in Nat /\ MaxBackoff \in Nat /\ BaseBackoff <= MaxBackoff
      /\ h \in Nat /\ MaxBackoff < h
  BY WidthFacts, FeedAssumption
<1>2. a - 1 \in Nat
  OBVIOUS
<1>3. d \in -h..(h - 1) /\ (BaseBackoff * q < h => d = BaseBackoff * q)
  BY <1>1, <1>2, ShiftFacts
<1>4. q \in Nat /\ q >= 1
  BY <1>2, PowerFacts
<1>5. Backoff(a) = IF d > MaxBackoff THEN MaxBackoff ELSE d
  BY DEF Backoff
<1>6. Overflows(a) <=> BaseBackoff * q >= h
  BY DEF Overflows
<1> HIDE DEF h, q, d
<1>7. BaseBackoff * q >= BaseBackoff /\ BaseBackoff * q \in Nat
  BY <1>1, <1>4
<1>8. Backoff(a) \in -h..(h - 1) /\ Backoff(a) <= MaxBackoff
  BY <1>1, <1>3, <1>5
<1>9. ~Overflows(a) => BaseBackoff <= Backoff(a)
  BY <1>1, <1>3, <1>5, <1>6, <1>7
<1>10. QED BY <1>8, <1>9 DEF h

(* The loop starts without a connection and without a dial.                *)
LEMMA FeedStart == FeedInit => FeedInv
<1> SUFFICES ASSUME FeedInit PROVE FeedInv
  OBVIOUS
<1>1. /\ 0 \in -PowerOf2[Width - 1]..(PowerOf2[Width - 1] - 1)
      /\ 0 \in 0..QueueCap /\ 0 \in 0..MaxFaults
      /\ BaseBackoff \in Nat /\ MaxBackoff \in Nat
  BY WidthFacts, FeedAssumption
<1>2. FeedTypeOK
  BY <1>1 DEF FeedInit, FeedTypeOK
<1>3. QED
  BY <1>1, <1>2
  DEF FeedInv, FeedInit, ConnInv, RateInv, FirstRetry, ConnectionClosed

(* What the helpers of the actions do.                                     *)
LEMMA RetryFacts ==
    /\ Return => fpc' = "returned" /\ attempts' = attempts
    /\ Retry => \/ fpc' = "returned" /\ attempts' = attempts
                \/ fpc' = "loop" /\ attempts' = attempts + 1
BY DEF Return, Retry

(* Closing a connection leaves none.                                       *)
LEMMA CloseFacts ==
    ASSUME FeedTypeOK
    PROVE  /\ Close => conn' = "none" /\ guarded' = FALSE /\ stale' \in Nat
           /\ Fault => faults' \in 0..MaxFaults
<1>1. Close => conn' = "none" /\ guarded' = FALSE /\ stale' \in Nat
  BY DEF Close, FeedTypeOK
<1>2. Fault => faults' \in 0..MaxFaults
  BY FeedAssumption DEF Fault, FeedTypeOK
<1>3. QED BY <1>1, <1>2

(* A step keeps the types of the subscription's variables.                 *)
LEMMA FeedTypes ==
    ASSUME FeedInv, [FeedNext]_feedVars
    PROVE  FeedTypeOK'
<1>0. /\ Close => conn' = "none" /\ guarded' = FALSE /\ stale' \in Nat
      /\ Fault => faults' \in 0..MaxFaults
  BY CloseFacts DEF FeedInv
<1> USE DEF FeedInv, FeedTypeOK, connVars, histVars
<1>1. CASE Start
  BY <1>1 DEF Start, Kinds
<1>2. CASE LoopHead
  <2>1. attempts > 0 => Backoff(attempts) \in
           -PowerOf2[Width - 1]..(PowerOf2[Width - 1] - 1)
    BY BackoffFacts
  <2>2. Overflows(attempts) \in BOOLEAN
    BY DEF Overflows
  <2>3. delay' \in -PowerOf2[Width - 1]..(PowerOf2[Width - 1] - 1)
    BY <1>2, <2>1 DEF LoopHead
  <2>4. overflowed' \in BOOLEAN
    BY <1>2, <2>2 DEF LoopHead
  <2>5. QED BY <1>2, <2>3, <2>4 DEF LoopHead
<1>3. CASE Wait
  <2>1. delay \in Int
    BY WidthFacts
  <2>2. waited' \in Nat
    BY <1>3, <2>1 DEF Wait
  <2>3. QED BY <1>3, <2>2 DEF Wait
<1>4. CASE Dial
  <2>1. /\ fpc' \in {"loop", "returned", "handshake", "read", "subscribe"}
        /\ attempts' \in Nat
        /\ conn' \in {conn, "open"} /\ stale' = stale
        /\ faults' \in 0..MaxFaults
        /\ UNCHANGED <<kind, delay, ch, consuming, cancelled, waited, overflowed>>
    BY <1>4, <1>0, RetryFacts DEF Dial
  <2>2. guarded' \in BOOLEAN
    BY <1>4 DEF Dial
  <2>3. dials' \in Nat
    BY <1>4 DEF Dial
  <2>4. QED BY <2>1, <2>2, <2>3
<1>5. CASE Subscribe
  <2>1. /\ fpc' \in {"loop", "returned", "read"} /\ attempts' \in Nat
        /\ faults' \in 0..MaxFaults
    BY <1>5, <1>0, RetryFacts DEF Subscribe
  <2>2. /\ conn' \in {conn, "none"} /\ guarded' \in {guarded, FALSE}
        /\ stale' \in Nat
    BY <1>5, <1>0 DEF Subscribe
  <2>3. QED BY <1>5, <2>1, <2>2 DEF Subscribe
<1>6. CASE Receive
  <2>1. ch' \in 0..QueueCap
    BY <1>6, FeedAssumption DEF Receive, Send
  <2>2. /\ fpc' \in {"loop", "returned", "read"} /\ attempts' \in Nat
        /\ faults' \in 0..MaxFaults
    BY <1>6, <1>0, RetryFacts DEF Receive
  <2>3. /\ conn' \in {conn, "none"} /\ guarded' \in {guarded, FALSE}
        /\ stale' \in Nat
    BY <1>6, <1>0 DEF Receive
  <2>4. QED BY <1>6, <2>1, <2>2, <2>3 DEF Receive
<1>7. CASE ReadFails
  <2>1. fpc' \in {"loop", "returned"} /\ attempts' \in Nat
    BY <1>7, RetryFacts DEF ReadFails
  <2>2. QED BY <1>0, <1>7, <2>1 DEF ReadFails
<1>8. CASE Done
  BY <1>8, <1>0, RetryFacts DEF Done
<1>9. CASE CloserStep
  <2>1. CASE CloserCloses
    BY <2>1 DEF CloserCloses
  <2>2. CASE CloserEnds
    BY <2>2 DEF CloserEnds
  <2>3. QED BY <1>9, <2>1, <2>2 DEF CloserStep
<1>10. CASE LoopStep
  <2>1. CASE Consume
    BY <2>1, FeedAssumption DEF Consume
  <2>2. CASE LoopEnds
    BY <2>2 DEF LoopEnds
  <2>3. QED BY <1>10, <2>1, <2>2 DEF LoopStep
<1>11. CASE Drop
  BY <1>11, FeedAssumption DEF Drop, Fault
<1>12. CASE Cancel
  BY <1>12 DEF Cancel
<1>13. CASE UNCHANGED feedVars
  BY <1>13 DEF feedVars
<1>14. QED
  BY <1>1, <1>2, <1>3, <1>4, <1>5, <1>6, <1>7, <1>8, <1>9, <1>10, <1>11, <1>12,
     <1>13
  DEF FeedNext, FeedStep

(* Every way out of the read loop closes the connection, which takes its   *)
(* closing goroutine's hands off it.                                       *)
LEMMA ConnNext ==
    ASSUME FeedInv, [FeedNext]_feedVars
    PROVE  ConnInv'
<1> USE DEF FeedInv, ConnInv, ConnectionClosed, connVars
<1>1. CASE Start \/ LoopHead \/ Wait
  BY <1>1 DEF Start, LoopHead, Wait
<1>2. CASE Dial
  <2>1. \/ fpc' \in {"loop", "returned", "handshake"} /\ UNCHANGED <<conn, guarded>>
        \/ fpc' = "read"
        \/ fpc' = "subscribe" /\ guarded' = FALSE
    BY <1>2, RetryFacts DEF Dial
  <2>2. fpc = "dial"
    BY <1>2 DEF Dial
  <2>3. QED BY <2>1, <2>2
<1>3. CASE Subscribe
  BY <1>3 DEF Subscribe, Close, Return, Retry
<1>4. CASE Receive
  BY <1>4 DEF Receive, Close, Return, Retry
<1>5. CASE ReadFails \/ Done
  BY <1>5 DEF ReadFails, Done, Close, Return, Retry
<1>6. CASE CloserStep
  BY <1>6 DEF CloserStep, CloserCloses, CloserEnds
<1>7. CASE LoopStep \/ Drop \/ Cancel
  BY <1>7 DEF LoopStep, Consume, LoopEnds, Drop, Cancel
<1>8. CASE UNCHANGED feedVars
  BY <1>8 DEF feedVars
<1>9. QED
  BY <1>1, <1>2, <1>3, <1>4, <1>5, <1>6, <1>7, <1>8 DEF FeedNext, FeedStep

(* Nothing but LoopHead, Wait and Dial changes delays, times or dials, and *)
(* where the loop is entered again an attempt has been counted.            *)
LEMMA RateNext ==
    ASSUME FeedInv, [FeedNext]_feedVars
    PROVE  RateInv'
<1>1. /\ BaseBackoff \in Nat /\ MaxBackoff \in Nat
      /\ attempts \in Nat /\ dials \in Nat /\ waited \in Nat /\ delay \in Int
  BY WidthFacts, FeedAssumption DEF FeedInv, FeedTypeOK
<1>2. RateInv
  BY DEF FeedInv
<1> USE DEF connVars, histVars
<1>3. CASE Start
  BY <1>1, <1>2, <1>3 DEF Start, RateInv
<1>4. CASE LoopHead
  <2>1. attempts > 0 => /\ Backoff(attempts) <= MaxBackoff
                        /\ \/ BaseBackoff <= Backoff(attempts)
                           \/ Overflows(attempts)
    BY <1>1, BackoffFacts
  <2>2. CASE fpc' \in {"returned", "dial"}
    <3>1. /\ fpc = "loop" /\ UNCHANGED <<delay, overflowed, dials, waited>>
          /\ fpc' = "dial" => attempts = 0
          /\ fpc' = "dial" => ~FirstRetry /\ ~FirstRetry'
      BY <1>4, <2>2 DEF LoopHead, FirstRetry
    <3>2. fpc' = "dial" => dials = 0
      BY <1>2, <3>1 DEF RateInv
    <3>3. QED BY <1>1, <1>2, <2>2, <3>1, <3>2 DEF RateInv
  <2>3. CASE fpc' = "wait"
    <3>1. /\ fpc = "loop" /\ UNCHANGED <<dials, waited>>
          /\ delay' <= MaxBackoff
          /\ BaseBackoff <= delay' \/ overflowed'
          /\ overflowed => overflowed'
      BY <1>4, <2>1, <2>3 DEF LoopHead
    <3>2. QED BY <1>1, <1>2, <2>3, <3>1 DEF RateInv
  <2>4. QED BY <1>4, <2>2, <2>3 DEF LoopHead
<1>5. CASE Wait
  BY <1>1, <1>2, <1>5 DEF Wait, RateInv, FirstRetry
<1>6. CASE Dial
  <2>1. /\ (dials + 1) * BaseBackoff = dials * BaseBackoff + BaseBackoff
        /\ (dials + 1) * MaxBackoff = dials * MaxBackoff + MaxBackoff
    BY <1>1
  <2>2. /\ fpc = "dial"
        /\ fpc' \in {"loop", "returned", "handshake", "read", "subscribe"}
        /\ fpc' = "loop" => attempts' = attempts + 1
        /\ dials' = IF FirstRetry THEN dials ELSE dials + 1
        /\ UNCHANGED <<delay, waited, overflowed>>
    BY <1>6 DEF Dial, Return, Retry
  <2>3. QED BY <1>1, <1>2, <2>1, <2>2 DEF RateInv
<1>7. ASSUME \/ fpc' \in {"loop", "returned", "read", "subscribe"}
             \/ UNCHANGED fpc,
             fpc' = "loop" => attempts' = attempts + 1 \/ UNCHANGED <<fpc, attempts>>,
             fpc = "dial" => UNCHANGED <<fpc, attempts, kind>>,
             UNCHANGED <<delay, dials, waited, overflowed>>
      PROVE  RateInv'
  BY <1>1, <1>2, <1>7 DEF RateInv, FirstRetry
<1>8. CASE Subscribe
  BY <1>7, <1>8 DEF Subscribe, Return, Retry
<1>9. CASE Receive
  BY <1>7, <1>9 DEF Receive, Return, Retry
<1>10. CASE ReadFails \/ Done
  BY <1>7, <1>10 DEF ReadFails, Done, Return, Retry
<1>11. CASE CloserStep \/ LoopStep \/ Drop \/ Cancel
  BY <1>7, <1>11
  DEF CloserStep, CloserCloses, CloserEnds, LoopStep,
      Consume, LoopEnds, Drop, Cancel
<1>12. CASE UNCHANGED feedVars
  BY <1>7, <1>12 DEF feedVars
<1>13. QED
  BY <1>3, <1>4, <1>5, <1>6, <1>8, <1>9, <1>10, <1>11, <1>12
  DEF FeedNext, FeedStep

(* Types, connection and rate of the subscription are an invariant, for    *)
(* all delays and widths, through any failures and after Stop.             *)
THEOREM FeedInductive == FeedSpec => []FeedInv
<1>1. FeedInit => FeedInv
  BY FeedStart
<1>2. FeedInv /\ [FeedNext]_feedVars => FeedInv'
  BY FeedTypes, ConnNext, RateNext DEF FeedInv
<1>3. QED BY <1>1, <1>2, PTL DEF FeedSpec

(* The goroutine waits at least the base delay between two dials, Bitcoin's*)
(* first retries aside, until the shift has overflowed, and never more     *)
(* than the cap.                                                           *)
THEOREM DialsAreLimited == FeedSpec => []RateLimited
<1>1. FeedInv => RateLimited
  <2> SUFFICES ASSUME FeedInv PROVE RateLimited
    OBVIOUS
  <2>1. /\ BaseBackoff \in Nat /\ MaxBackoff \in Nat
        /\ dials \in Nat /\ waited \in Nat
    BY FeedAssumption DEF FeedInv, FeedTypeOK
  <2>2. dials * BaseBackoff \in Nat /\ dials * MaxBackoff \in Nat
    BY <2>1
  <2>3. QED BY <2>1, <2>2 DEF FeedInv, RateInv, RateLimited
<1>2. QED BY <1>1, FeedInductive, PTL

(* No connection stays open behind the read loop.                          *)
THEOREM NoConnectionLeft == FeedSpec => []ConnectionClosed
<1>1. FeedInv => ConnectionClosed
  BY DEF FeedInv, ConnInv
<1>2. QED BY <1>1, FeedInductive, PTL
=============================================================================
