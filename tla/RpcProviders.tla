---------------------------- MODULE RpcProviders ----------------------------
(***************************************************************************)
(* The RPC provider pool of an EVM network (internal/blockchain/ethereum/  *)
(* client.go): round-robin choice of a provider, retries, one circuit      *)
(* breaker per provider, and the health check that every 30 seconds probes *)
(* the providers whose breaker is open.                                    *)
(*                                                                         *)
(* Time is counted in ticks of the health check.  A failure is aged by the *)
(* ticks since it happened, which places it within an interval: after one  *)
(* tick it may be more than 30 seconds old, after two it is; after three   *)
(* it is more than 60 seconds old, after two only if the pass is already   *)
(* under way for some time.                                                *)
(***************************************************************************)
EXTENDS Integers, FiniteSets

CONSTANTS
    N,              \* the number of providers
    Callers,        \* goroutines that call executeWithRetry
    RetryAttempts,  \* config.RetryAttempts
    FailureLimit,   \* the literal 3 of updateProviderStatus
    MaxFailures,    \* bound: Failures is not counted any further
    Conditions,     \* the conditions providers get into, see below
    MaxChanges      \* bound: how often the condition of a provider changes

(* up: it answers;  old: it answers, but cannot decode a transaction type; *)
(* down: it answers with an error;  hang: it does not answer at all.       *)
AllConditions == {"up", "old", "down", "hang"}

ASSUME PoolAssumption ==
    /\ N \in Nat \ {0}
    /\ RetryAttempts \in Nat \ {0}
    /\ FailureLimit \in Nat \ {0}
    /\ MaxFailures \in Nat
    /\ FailureLimit <= MaxFailures
    /\ Conditions \subseteq AllConditions
    /\ MaxChanges \in Nat

Providers == 0..(N - 1)
Old == 3

VARIABLES
    cond,      \* provider -> its condition
    changes,   \* changes of condition so far
    state,     \* provider -> State: closed, open or half (open)
    failures,  \* provider -> Failures
    age,       \* provider -> ticks since LastFailure, at most Old
    current,   \* currentIndex
    cpc,       \* caller -> idle, pick or call
    prov,      \* caller -> the provider it has picked
    attempt,   \* caller -> attempts it has used up
    hidx,      \* the provider the health check is at, N when it is idle
    probing,   \* whether it waits for that provider's answer
    delayed,   \* whether this pass has waited for an answer before
    expired,   \* whether the 10 seconds of the pass have run out
    passed     \* history: closed provider -> picks of others since its last

breakerVars == <<state, failures, age>>
callVars    == <<cpc, prov, attempt>>
healthVars  == <<hidx, probing, delayed, expired>>
vars == <<cond, changes, breakerVars, current, callVars, healthVars, passed>>

Init ==
    /\ cond = [p \in Providers |-> "up"]
    /\ changes = 0
    /\ state = [p \in Providers |-> "closed"]
    /\ failures = [p \in Providers |-> 0]
    /\ age = [p \in Providers |-> Old]
    /\ current = 0
    /\ cpc = [c \in Callers |-> "idle"]
    /\ prov = [c \in Callers |-> 0]
    /\ attempt = [c \in Callers |-> 0]
    /\ hidx = N
    /\ probing = FALSE
    /\ delayed = FALSE
    /\ expired = FALSE
    /\ passed = [p \in Providers |-> 0]

-----------------------------------------------------------------------------
(* updateProviderStatus.                                                   *)

(* Mutant of OpensAt: one failure more.                                    *)
OpensAtMore(f) == f > FailureLimit

OpensAt(f) == f >= FailureLimit

CountFailure(f) == IF f < MaxFailures THEN f + 1 ELSE f

(* Only a closed breaker opens.                                            *)
Failed(p) ==
    /\ failures' = [failures EXCEPT ![p] = CountFailure(@)]
    /\ age' = [age EXCEPT ![p] = 0]
    /\ state' = [state EXCEPT ![p] =
                    IF @ = "closed" /\ OpensAt(CountFailure(failures[p]))
                    THEN "open" ELSE @]

(* Only a half-open breaker closes.                                        *)
Succeeded(p) ==
    /\ failures' = [failures EXCEPT ![p] = 0]
    /\ state' = [state EXCEPT ![p] = IF @ = "half" THEN "closed" ELSE @]
    /\ UNCHANGED age

-----------------------------------------------------------------------------
(* getHealthyProvider, under the client's lock.                            *)

(* The sets of providers it may find healthy.                              *)
HealthySets ==
    LET sure  == {p \in Providers : \/ state[p] = "closed"
                                    \/ state[p] = "half" /\ age[p] >= 2}
        maybe == {p \in Providers : state[p] = "half" /\ age[p] = 1}
    IN {sure \cup m : m \in SUBSET maybe}

(* How far p is from the current index.                                    *)
Distance(p) == (p - current + N) % N

(* Mutant of NextIndex: the index stays at the chosen provider.            *)
NextIndexSame(p) == p

NextIndex(p) == (p + 1) % N

(* The first healthy provider from the current index on is p.              *)
Choose(p, healthy) ==
    /\ p \in healthy
    /\ \A q \in healthy : Distance(p) <= Distance(q)
    /\ current' = NextIndex(p)
    /\ passed' = [q \in Providers |->
                     IF q # p /\ state[q] = "closed" THEN passed[q] + 1 ELSE 0]

-----------------------------------------------------------------------------
(* executeWithRetry.                                                       *)

StartCall(c) ==
    /\ cpc[c] = "idle"
    /\ cpc' = [cpc EXCEPT ![c] = "pick"]
    /\ UNCHANGED <<cond, changes, breakerVars, current, prov, attempt,
                   healthVars, passed>>

EndCall(c) ==
    /\ cpc' = [cpc EXCEPT ![c] = "idle"]
    /\ prov' = [prov EXCEPT ![c] = 0]
    /\ attempt' = [attempt EXCEPT ![c] = 0]

(* With no healthy provider the call fails at once.                        *)
Pick(c) ==
    /\ cpc[c] = "pick"
    /\ \E healthy \in HealthySets :
          \/ /\ healthy = {}
             /\ EndCall(c)
             /\ UNCHANGED <<current, passed>>
          \/ \E p \in Providers :
             /\ Choose(p, healthy)
             /\ cpc' = [cpc EXCEPT ![c] = "call"]
             /\ prov' = [prov EXCEPT ![c] = p]
             /\ UNCHANGED attempt
    /\ UNCHANGED <<cond, changes, breakerVars, healthVars>>

(* The callers of getHealthyProvider that report no outcome: the hashes of *)
(* GetBlockVerbose, the second pick of BatchCall, SubscribeNewHead.        *)
PickUnreported(c) ==
    /\ cpc[c] = "idle"
    /\ \E healthy \in HealthySets, p \in Providers : Choose(p, healthy)
    /\ UNCHANGED <<cond, changes, breakerVars, callVars, healthVars>>

(* Mutant of NextAttempt: an attempt on a provider that lacks the          *)
(* transaction type is not counted.                                        *)
NextAttemptUncounted(c) ==
    IF cond[prov[c]] = "old"
    THEN cpc' = [cpc EXCEPT ![c] = "pick"] /\ UNCHANGED <<prov, attempt>>
    ELSE \/ attempt[c] + 1 >= RetryAttempts /\ EndCall(c)
         \/ /\ attempt[c] + 1 < RetryAttempts
            /\ cpc' = [cpc EXCEPT ![c] = "pick"]
            /\ attempt' = [attempt EXCEPT ![c] = @ + 1]
            /\ UNCHANGED prov

(* The attempt did not work: another one, or the call fails.               *)
NextAttempt(c) ==
    \/ attempt[c] + 1 >= RetryAttempts /\ EndCall(c)
    \/ /\ attempt[c] + 1 < RetryAttempts
       /\ cpc' = [cpc EXCEPT ![c] = "pick"]
       /\ attempt' = [attempt EXCEPT ![c] = @ + 1]
       /\ UNCHANGED prov

(* The provider answers, and the breaker of the status the caller holds is *)
(* updated, whatever has become of it since the pick.  A transaction type  *)
(* the provider cannot decode does not count as its failure.               *)
Answer(c) ==
    LET p == prov[c] IN
    /\ cpc[c] = "call"
    /\ \/ cond[p] = "up" /\ Succeeded(p) /\ EndCall(c)
       \/ cond[p] = "down" /\ Failed(p) /\ NextAttempt(c)
       \/ cond[p] = "old" /\ UNCHANGED breakerVars /\ NextAttempt(c)
    /\ UNCHANGED <<cond, changes, current, healthVars, passed>>

-----------------------------------------------------------------------------
(* healthCheckLoop and performHealthCheck.                                 *)

Tick ==
    /\ hidx = N
    /\ hidx' = 0
    /\ age' = [p \in Providers |-> IF age[p] < Old THEN age[p] + 1 ELSE Old]
    /\ delayed' = FALSE
    /\ expired' = FALSE
    /\ UNCHANGED <<cond, changes, state, failures, current, callVars, probing,
                   passed>>

(* Mutant of ShouldCheck: breakers that are open are not probed.           *)
ShouldCheckHalf(p) == state[p] = "half" /\ age[p] >= Old

ShouldCheck(p) == state[p] = "open" /\ age[p] >= Old

(* Two ticks may be more than 60 seconds once the pass has been delayed.   *)
MayCheck(p) == state[p] = "open" /\ age[p] = Old - 1 /\ delayed

CheckProvider ==
    /\ hidx < N
    /\ ~probing
    /\ \/ /\ ShouldCheck(hidx) \/ MayCheck(hidx)
          /\ probing' = TRUE
          /\ UNCHANGED hidx
       \/ /\ ~ShouldCheck(hidx)
          /\ hidx' = hidx + 1
          /\ UNCHANGED probing
    /\ UNCHANGED <<cond, changes, breakerVars, current, callVars, delayed,
                   expired, passed>>

(* The answer to BlockNumber.  A provider that hangs uses up the ten       *)
(* seconds the whole pass has, and every later probe of the pass fails.    *)
ProbeAnswer ==
    /\ probing
    /\ probing' = FALSE
    /\ delayed' = TRUE
    /\ hidx' = hidx + 1
    /\ \/ /\ ~expired
          /\ cond[hidx] \in {"up", "old"}
          /\ state' = [state EXCEPT ![hidx] = "half"]
          /\ failures' = [failures EXCEPT ![hidx] = 0]
          /\ UNCHANGED <<age, expired>>
       \/ ~expired /\ cond[hidx] = "down" /\ Failed(hidx) /\ UNCHANGED expired
       \/ ~expired /\ cond[hidx] = "hang" /\ Failed(hidx) /\ expired' = TRUE
       \/ expired /\ Failed(hidx) /\ UNCHANGED expired
    /\ UNCHANGED <<cond, changes, current, callVars, passed>>

(* A provider breaks down, or comes back.                                  *)
Change(p) ==
    /\ changes < MaxChanges
    /\ changes' = changes + 1
    /\ cond' \in {[cond EXCEPT ![p] = k] : k \in Conditions \ {cond[p]}}
    /\ UNCHANGED <<breakerVars, current, callVars, healthVars, passed>>

HealthStep == Tick \/ CheckProvider \/ ProbeAnswer

CallStep(c) == Pick(c) \/ Answer(c)

Next ==
    \/ \E c \in Callers : StartCall(c) \/ CallStep(c) \/ PickUnreported(c)
    \/ HealthStep
    \/ \E p \in Providers : Change(p)

Spec == Init /\ [][Next]_vars

(* The ticker ticks and the health check goes on; so does a call whose     *)
(* provider answers.  Nobody has to make a call.                           *)
FairSpec ==
    Spec /\ WF_vars(HealthStep) /\ \A c \in Callers : WF_vars(CallStep(c))

-----------------------------------------------------------------------------
(* Properties.                                                             *)

(* Every variable holds a value of its Go type and every index is within   *)
(* the provider slices; the health check probes only an existing provider. *)
TypeOK ==
    /\ cond \in [Providers -> AllConditions]
    /\ changes \in Nat
    /\ state \in [Providers -> {"closed", "open", "half"}]
    /\ failures \in [Providers -> 0..MaxFailures]
    /\ age \in [Providers -> 0..Old]
    /\ current \in Providers
    /\ cpc \in [Callers -> {"idle", "pick", "call"}]
    /\ prov \in [Callers -> Providers]
    /\ attempt \in [Callers -> 0..(RetryAttempts - 1)]
    /\ hidx \in 0..N
    /\ probing \in BOOLEAN
    /\ delayed \in BOOLEAN
    /\ expired \in BOOLEAN
    /\ passed \in [Providers -> Nat]
    /\ probing => hidx < N

(* No breaker is closed after three failures in a row, in whatever order   *)
(* the answers to concurrent calls and the health check's probes arrive.   *)
ClosedBelowLimit ==
    \A p \in Providers : state[p] = "closed" => failures[p] < FailureLimit

(* Round robin: a provider whose breaker is closed is passed over at most  *)
(* once for each of the others before it is picked, however many callers   *)
(* share the index and however breakers open and close meanwhile.          *)
NobodyPassedOver ==
    \A p \in Providers : state[p] = "closed" => passed[p] <= N - 1

(* Every call ends, with an answer or an error, unless the provider it has *)
(* asked hangs: retries, failing or undecodable answers and open breakers  *)
(* never keep executeWithRetry in its loop.                                *)
CallsReturn ==
    \A c \in Callers :
        []<>(cpc[c] = "idle" \/ (cpc[c] = "call" /\ cond[prov[c]] = "hang"))

(* A provider that is up for good does not stay behind an open breaker:    *)
(* the health check finds it, provided that no provider hangs for good and *)
(* takes all the time of every pass.                                       *)
Recovers ==
    \A p \in Providers :
        <>[](cond[p] = "up" /\ \A q \in Providers : cond[q] # "hang")
            => []<>(state[p] # "open")
=============================================================================
