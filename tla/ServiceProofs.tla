---------------------------- MODULE ServiceProofs ----------------------------
(***************************************************************************)
(* Proofs about Service, for every set of blocks, every network with       *)
(* whatever MaxConcurrentBlocks, and every sequence of failures: the       *)
(* workers keep within the limit, no goroutine of the tracker is left when *)
(* the connections are closed, and the event of a marked block is missing  *)
(* only after a failure that the scan overlooked or with the connection to *)
(* RabbitMQ, never because of the shutdown.                                *)
(***************************************************************************)
EXTENDS Service, FiniteSetTheorems, TLAPS

-----------------------------------------------------------------------------
(* The inductive invariant.                                                *)

(* The tracker was never started: InitializeProviders failed, or main has  *)
(* not come to it.                                                         *)
NeverStarted == Busy = {} /\ \A h \in Helpers : hpc[h] = "none"

(* Where main is decides what is left of the tracker and of the            *)
(* connections.                                                            *)
LifeInv ==
    /\ ~running /\ ~cancelled => NeverStarted
    /\ cancelled => mpc \in {"wait", "close", "closed", "returned"}
    /\ mpc \in {"close", "closed", "returned"} =>
           Busy = {} /\ (NeverStarted \/ Joined)
    /\ conn = "closed" <=> mpc \in {"closed", "returned"}
    /\ redis = "closed" => mpc = "returned"

(* What has become of the events: none is dropped by a connection that     *)
(* works, none is on its way on one that does not, and a block is on its   *)
(* way to its mark without an event only where a failure was overlooked,   *)
(* where the error of Publish is swallowed, or under a context that is     *)
(* done, with which it does not come to be marked.                         *)
Excused(b) == b \in overlooked \/ (broken /\ Swallows)

EventInv ==
    /\ conn \in {"broken", "lost"} => broken
    /\ \A b \in Blocks :
          /\ event[b] = "dropped" => broken
          /\ event[b] = "sent" => conn = "up"
          /\ event[b] = "none" /\ hand[b] = "mark" => Excused(b) \/ cancelled
          /\ event[b] = "none" /\ b \in marked => Excused(b)

IndInv == LifeInv /\ EventInv

-----------------------------------------------------------------------------
(* The workers.                                                            *)

(* workerSplit starts as many workers as the limit says, and two for a     *)
(* limit below that.                                                       *)
LEMMA WorkersFacts ==
    ASSUME limit \in Int
    PROVE  Workers \in Nat /\ Workers = IF limit < 2 THEN 2 ELSE limit
<1> DEFINE f == Total \div 5
<1>1. Total \in Nat /\ Total >= 1 /\ Total = IF limit <= 0 THEN 1 ELSE limit
  BY DEF Total
<1>2. f \in Int /\ 5 * f <= Total /\ f >= 0
  BY <1>1
<1>3. RealtimeWorkers = IF f < 1 THEN 1 ELSE f
  BY DEF RealtimeWorkers
<1>4. CASE Total < 2
  <2>1. f = 0
    BY <1>1, <1>2, <1>4
  <2>2. RealtimeWorkers = 1 /\ CatchupWorkers = 1
    BY <1>1, <1>3, <1>4, <2>1 DEF CatchupWorkers
  <2>3. QED BY <1>1, <1>4, <2>2 DEF Workers
<1>5. CASE Total >= 2
  <2>1. RealtimeWorkers \in Nat /\ RealtimeWorkers <= Total - 1
    BY <1>1, <1>2, <1>3, <1>5
  <2>2. CatchupWorkers = Total - RealtimeWorkers
    BY <1>1, <2>1 DEF CatchupWorkers
  <2>3. Workers = Total
    BY <1>1, <2>1, <2>2 DEF Workers
  <2>4. QED BY <1>1, <1>5, <2>3
<1>6. QED BY <1>1, <1>4, <1>5

(* The blocks in hand can be counted.                                      *)
LEMMA BusyFacts ==
    /\ IsFiniteSet(Busy)
    /\ Cardinality(Busy) \in Nat
    /\ \A S \in SUBSET Busy : Cardinality(S) \in Nat
                              /\ Cardinality(S) <= Cardinality(Busy)
<1>1. Busy \in SUBSET Blocks
  BY DEF Busy
<1>2. IsFiniteSet(Busy)
  BY <1>1, ServiceAssumption, FS_Subset
<1>3. QED BY <1>2, FS_Subset, FS_CardinalityType

(* The network is what it is.                                              *)
LEMMA NetworkStays ==
    ASSUME TypeOK, [Next]_vars
    PROVE  /\ kind' = kind /\ limit' = limit
           /\ limit \in Int
           /\ Workers \in Nat /\ Workers' = Workers
<1>1. kind' = kind /\ limit' = limit
  BY DEF Next, MainStep, Boot, StartTracker, StartOthers, StopServers,
         StopTracker, JoinTracker, ClosePublisher, CloseStorage, Signal, Take,
         WorkerStep, Claim, Scan, Mark, Release, WorkerExits, HelperExits,
         RequestLocks, RequestAnswered, NodeHangs, Break, Notice, vars
<1>2. limit \in Int
  BY ServiceAssumption DEF TypeOK
<1>3. Workers \in Nat
  BY <1>2, WorkersFacts
<1>4. Workers' = Workers
  BY <1>1 DEF Workers, CatchupWorkers, RealtimeWorkers, Total
<1>5. QED BY <1>1, <1>2, <1>3, <1>4

(* How the blocks in hand change.                                          *)
LEMMA HandNext ==
    ASSUME TypeOK, [Next]_vars
    PROVE  \/ hand' = hand
           \/ \E b \in Blocks : Take(b)
           \/ \E b \in Blocks : WorkerStep(b)
BY DEF Next, MainStep, Boot, StartTracker, StartOthers, StopServers,
       StopTracker, JoinTracker, ClosePublisher, CloseStorage, Signal,
       WorkerExits, HelperExits, RequestLocks, RequestAnswered, NodeHangs, Break,
       Notice, vars, trackerVars

(* A worker goes on with the block it has.                                 *)
LEMMA WorkerMoves ==
    ASSUME TypeOK, NEW b \in Blocks, WorkerStep(b)
    PROVE  /\ b \in Busy /\ Alive
           /\ \E v \in {"none", "scan", "mark", "release"} :
                 hand' = [hand EXCEPT ![b] = v]
           /\ Busy' \subseteq Busy
           /\ UNCHANGED <<mpc, running, cancelled, exited, hpc, request, conn,
                          broken, redis>>
<1>1. /\ b \in Busy /\ Alive
      /\ UNCHANGED <<mpc, running, cancelled, exited, hpc, request, conn,
                     broken, redis>>
  BY DEF WorkerStep, Claim, Scan, Mark, Release, At, Busy, brokerVars
<1>2. PICK v \in {"none", "scan", "mark", "release"} :
              hand' = [hand EXCEPT ![b] = v]
  BY DEF WorkerStep, Claim, Scan, Mark, Release, Goto
<1>3. Busy' \subseteq Busy
  BY <1>1, <1>2 DEF Busy, TypeOK
<1>4. QED BY <1>1, <1>2, <1>3

(* A worker takes a block nobody has.                                      *)
LEMMA WorkerTakes ==
    ASSUME TypeOK, NEW b \in Blocks, Take(b)
    PROVE  /\ b \notin Busy /\ Busy' = Busy \cup {b}
           /\ hand' = [hand EXCEPT ![b] = "claim"]
           /\ Cardinality(Busy') = Cardinality(Busy) + 1
           /\ Idle > 0 /\ hpc["loop"] # "none" /\ Alive
           /\ UNCHANGED <<mpc, running, cancelled, exited, hpc, request, conn,
                          event, broken, overlooked, marked, redis, faults>>
<1>1. /\ hand[b] = "none" /\ hand' = [hand EXCEPT ![b] = "claim"]
      /\ Idle > 0 /\ hpc["loop"] # "none" /\ Alive
      /\ UNCHANGED <<mpc, running, cancelled, exited, hpc, request, conn,
                     event, broken, overlooked, marked, redis, faults>>
  BY DEF Take, At, Goto, brokerVars
<1>2. b \notin Busy /\ Busy' = Busy \cup {b}
  BY <1>1 DEF Busy, TypeOK
<1>3. Cardinality(Busy') = Cardinality(Busy) + 1
  BY <1>2, BusyFacts, FS_AddElement
<1>4. QED BY <1>1, <1>2, <1>3

(* A worker is idle, has a block, or has ended: their number is never      *)
(* exceeded.                                                               *)
LEMMA IdleNext ==
    ASSUME TypeOK, [Next]_vars
    PROVE  exited' \in 0..Workers' /\ Idle' >= 0
<1>a. /\ Workers \in Nat /\ Workers' = Workers /\ exited \in Nat
      /\ Cardinality(Busy) \in Nat
      /\ Workers - Cardinality(Busy) - exited >= 0
  BY NetworkStays, BusyFacts DEF TypeOK, Idle
<1>b. Idle' = Workers - Cardinality(Busy') - exited'
  BY <1>a DEF Idle
<1>1. CASE \E b \in Blocks : Take(b)
  <2>1. /\ Cardinality(Busy') = Cardinality(Busy) + 1 /\ exited' = exited
        /\ Workers - Cardinality(Busy) - exited > 0
    BY <1>1, WorkerTakes DEF Idle
  <2>2. QED BY <1>a, <1>b, <2>1
<1>2. CASE WorkerExits
  <2>1. /\ Busy' = Busy /\ exited' = exited + 1
        /\ Workers - Cardinality(Busy) - exited > 0
    BY <1>2 DEF WorkerExits, Idle, Busy
  <2>2. QED BY <1>a, <1>b, <2>1
<1>3. CASE ~WorkerExits /\ ~ \E b \in Blocks : Take(b)
  <2>1. Busy' \subseteq Busy
    <3>1. CASE hand' = hand
      BY <3>1 DEF Busy
    <3>2. QED BY <1>3, <3>1, HandNext, WorkerMoves
  <2>2. exited' = exited
    BY <1>3 DEF Next, MainStep, Boot, StartTracker, StartOthers, StopServers,
         StopTracker, JoinTracker, ClosePublisher, CloseStorage, Signal,
         WorkerStep, Claim, Scan, Mark, Release, HelperExits,
         RequestLocks, RequestAnswered, NodeHangs, Break, Notice, vars, trackerVars
  <2>3. Cardinality(Busy') \in Nat /\ Cardinality(Busy') <= Cardinality(Busy)
    BY <2>1, BusyFacts
  <2>4. QED BY <1>a, <1>b, <2>2, <2>3
<1>4. QED BY <1>1, <1>2, <1>3

-----------------------------------------------------------------------------
(* Type correctness.                                                       *)

(* The types hold at the start.                                            *)
LEMMA TypeInit == Init => TypeOK
<1> SUFFICES ASSUME Init PROVE TypeOK
  OBVIOUS
<1>1. PICK n \in Networks : kind = n.kind /\ limit = n.limit
  BY DEF Init
<1>2. [kind |-> kind, limit |-> limit] = n /\ limit \in Int
  BY <1>1, ServiceAssumption
<1>3. Busy = {}
  BY DEF Init, Busy
<1>4. Workers \in Nat
  BY <1>2, WorkersFacts
<1>5. Cardinality(Busy) = 0
  BY <1>3, FS_EmptySet
<1>6. exited \in 0..Workers /\ Idle >= 0
  BY <1>4, <1>5 DEF Init, Idle
<1>7. faults \in 0..MaxFaults
  BY ServiceAssumption DEF Init
<1>8. QED BY <1>1, <1>2, <1>6, <1>7 DEF Init, TypeOK

(* Every step keeps the types, and the number of workers.                  *)
LEMMA TypeNext ==
    ASSUME TypeOK, [Next]_vars
    PROVE  TypeOK'
<1>1. [kind |-> kind', limit |-> limit'] \in Networks
  BY NetworkStays DEF TypeOK
<1>2. mpc' \in {"boot", "start", "others", "serve", "servers", "stop", "wait",
                "close", "closed", "returned", "dead"}
  BY DEF TypeOK, Next, MainStep, Boot, StartTracker, StartOthers, StopServers,
         StopTracker, JoinTracker, ClosePublisher, CloseStorage, Signal, Take,
         WorkerStep, Claim, Scan, Mark, Release, WorkerExits, HelperExits,
         RequestLocks, RequestAnswered, NodeHangs, Break, Notice, vars
<1>3. running' \in BOOLEAN /\ cancelled' \in BOOLEAN /\ broken' \in BOOLEAN
  BY DEF TypeOK, Next, MainStep, Boot, StartTracker, StartOthers, StopServers,
         StopTracker, JoinTracker, ClosePublisher, CloseStorage, Signal, Take,
         WorkerStep, Claim, Scan, Mark, Release, WorkerExits, HelperExits,
         RequestLocks, RequestAnswered, NodeHangs, Break, Notice, vars,
         trackerVars, brokerVars
<1>4. hand' \in [Blocks -> {"none", "claim", "scan", "mark", "release"}]
  <2>1. CASE \E b \in Blocks : \E v \in {"none", "claim", "scan", "mark", "release"} :
                hand' = [hand EXCEPT ![b] = v]
    BY <2>1 DEF TypeOK
  <2>2. CASE hand' = hand
    BY <2>2 DEF TypeOK
  <2>3. QED BY <2>1, <2>2, HandNext, WorkerTakes, WorkerMoves
<1>5. hpc' \in [Helpers -> {"none", "up", "hung", "exited"}]
  BY DEF TypeOK, Next, MainStep, Boot, StartTracker, StartOthers, StopServers,
         StopTracker, JoinTracker, ClosePublisher, CloseStorage, Signal, Take,
         WorkerStep, Claim, Scan, Mark, Release, WorkerExits, HelperExits,
         RequestLocks, RequestAnswered, NodeHangs, Break, Notice, vars,
         trackerVars, Helpers
<1>6. /\ request' \in {"none", "held", "hung"}
      /\ conn' \in {"none", "up", "broken", "lost", "closed"}
      /\ redis' \in {"none", "open", "closed"}
      /\ marked' \subseteq Blocks
      /\ overlooked' \subseteq Blocks
  BY DEF TypeOK, Next, MainStep, Boot, StartTracker, StartOthers, StopServers,
         StopTracker, JoinTracker, ClosePublisher, CloseStorage, Signal, Take,
         WorkerStep, Claim, Scan, Mark, Release, WorkerExits, HelperExits,
         RequestLocks, RequestAnswered, NodeHangs, Break, Notice, vars,
         brokerVars, Overlooks
<1>7. event' \in [Blocks -> {"none", "sent", "dropped", "delivered"}]
  <2>1. CASE event' = event
    BY <2>1 DEF TypeOK
  <2>2. CASE ClosePublisher \/ Break
    BY <2>2 DEF ClosePublisher, Break, TypeOK
  <2>3. CASE \E b \in Blocks : Published(b)
    BY <2>3 DEF Published, TypeOK
  <2>4. QED
    BY <2>1, <2>2, <2>3
    DEF Next, MainStep, Boot, StartTracker, StartOthers, StopServers,
         StopTracker, JoinTracker, CloseStorage, Signal, Take,
         WorkerStep, Claim, Scan, Mark, Release, WorkerExits, HelperExits,
         RequestLocks, RequestAnswered, NodeHangs, Notice, vars, brokerVars
<1>8. faults' \in 0..MaxFaults
  <2>1. UNCHANGED faults \/ Fault
    BY DEF Next, MainStep, Boot, StartTracker, StartOthers, StopServers,
         StopTracker, JoinTracker, ClosePublisher, CloseStorage, Signal, Take,
         WorkerStep, Claim, Scan, Mark, Release, WorkerExits, HelperExits,
         RequestLocks, RequestAnswered, NodeHangs, Break, Notice, vars, CallFails,
         Overlooks
  <2>2. faults \in 0..MaxFaults /\ MaxFaults \in Nat
    BY ServiceAssumption DEF TypeOK
  <2>3. QED BY <2>1, <2>2 DEF Fault
<1>9. QED BY <1>1, <1>2, <1>3, <1>4, <1>5, <1>6, <1>7, <1>8, IdleNext DEF TypeOK

(* Every variable keeps its type, and never more workers have ended or     *)
(* have a block than were started.                                         *)
THEOREM TypeCorrect == Spec => []TypeOK
BY TypeInit, TypeNext, PTL DEF Spec

(* No more blocks are worked on at a time than MaxConcurrentBlocks says,   *)
(* or two when it says less, however the split between the two channels    *)
(* rounds.                                                                 *)
THEOREM KeepsLimit == Spec => []WithinLimit
<1>1. TypeOK => WithinLimit
  <2> SUFFICES ASSUME TypeOK PROVE WithinLimit
    OBVIOUS
  <2>1. limit \in Int
    BY ServiceAssumption DEF TypeOK
  <2>2. Workers \in Nat /\ Workers = IF limit < 2 THEN 2 ELSE limit
    BY <2>1, WorkersFacts
  <2>3. Workers - Cardinality(Busy) - exited >= 0 /\ exited \in Nat
    BY <2>2 DEF TypeOK, Idle
  <2>4. Cardinality(Busy) <= Workers
    BY <2>2, <2>3, BusyFacts
  <2>5. QED BY <2>2, <2>4 DEF WithinLimit
<1>2. QED BY <1>1, TypeCorrect, PTL

-----------------------------------------------------------------------------
(* The shutdown.                                                           *)

(* Once all workers have ended none has a block.                           *)
LEMMA JoinedFacts ==
    ASSUME TypeOK, Joined
    PROVE  Busy = {} /\ ~(Idle > 0) /\ \A h \in Helpers : hpc[h] = "exited"
<1>1. exited = Workers /\ \A h \in Helpers : hpc[h] = "exited"
  BY DEF Joined
<1>2. limit \in Int
  BY ServiceAssumption DEF TypeOK
<1>3. Workers \in Nat
  BY <1>2, WorkersFacts
<1>4. Workers - Cardinality(Busy) - exited >= 0
  BY DEF TypeOK, Idle
<1>5. Cardinality(Busy) = 0
  BY <1>1, <1>3, <1>4, BusyFacts
<1>6. Busy = {}
  BY <1>5, BusyFacts, FS_EmptySet
<1>7. ~(Idle > 0)
  BY <1>1, <1>3, <1>5 DEF Idle
<1>8. QED BY <1>1, <1>6, <1>7

(* What is left of a tracker that never was, or has ended, stays so.       *)
LEMMA QuietStays ==
    ASSUME TypeOK, Busy = {}, NeverStarted \/ Joined, [Next]_vars, ~StartTracker
    PROVE  Busy' = {} /\ (NeverStarted' \/ Joined') /\ hpc' = hpc
<1>a. \A h \in Helpers : hpc[h] \in {"none", "exited"}
  BY JoinedFacts DEF NeverStarted
<1>b. {"loop", "health"} \subseteq Helpers
  BY DEF Helpers
<1>1. \A b \in Blocks : ~Take(b)
  BY <1>b, JoinedFacts, WorkerTakes DEF NeverStarted
<1>2. \A b \in Blocks : ~WorkerStep(b)
  BY WorkerMoves
<1>3. Busy' = {} /\ hand' = hand
  BY <1>1, <1>2, HandNext DEF Busy
<1>4. hpc' = hpc
  <2>1. ~NodeHangs \/ UNCHANGED hpc
    BY <1>a, <1>b DEF NodeHangs
  <2>2. ASSUME NEW h \in Helpers PROVE ~HelperExits(h)
    BY <1>a DEF HelperExits
  <2>3. QED
    BY <1>1, <1>2, <2>1, <2>2
    DEF Next, MainStep, Boot, StartOthers, StopServers, StopTracker,
        JoinTracker, ClosePublisher, CloseStorage, Signal, WorkerExits,
        RequestLocks, RequestAnswered, Break, Notice, vars, trackerVars
<1>5. CASE NeverStarted
  BY <1>3, <1>4, <1>5 DEF NeverStarted
<1>6. CASE Joined
  <2>1. ~WorkerExits
    BY <1>6, JoinedFacts DEF WorkerExits
  <2>2. exited' = exited
    BY <1>1, <1>2, <2>1
    DEF Next, MainStep, Boot, StartTracker, StartOthers, StopServers, StopTracker,
        JoinTracker, ClosePublisher, CloseStorage, Signal, HelperExits,
        RequestLocks, RequestAnswered, NodeHangs, Break, Notice, vars, trackerVars
  <2>3. QED BY <1>3, <1>4, <1>6, <2>2, NetworkStays DEF Joined
<1>7. QED BY <1>3, <1>4, <1>5, <1>6

(* Every step keeps to the order of main's shutdown.                       *)
LEMMA LifeNext ==
    ASSUME TypeOK, LifeInv, [Next]_vars
    PROVE  LifeInv'
<1>1. ~running' /\ ~cancelled' => NeverStarted'
  <2> SUFFICES ASSUME ~running', ~cancelled' PROVE NeverStarted'
    OBVIOUS
  <2>1. ~running /\ ~cancelled
    BY DEF Next, MainStep, Boot, StartTracker, StartOthers, StopServers,
         StopTracker, JoinTracker, ClosePublisher, CloseStorage, Signal, Take,
         WorkerStep, Claim, Scan, Mark, Release, WorkerExits, HelperExits,
         RequestLocks, RequestAnswered, NodeHangs, Break, Notice, vars, trackerVars
  <2>2. NeverStarted
    BY <2>1 DEF LifeInv
  <2>3. CASE StartTracker
    <3>1. UNCHANGED <<hand, hpc>>
      BY <2>3 DEF StartTracker
    <3>2. QED BY <2>2, <3>1 DEF NeverStarted, Busy
  <2>4. CASE ~StartTracker
    BY <2>2, <2>4, QuietStays DEF NeverStarted
  <2>5. QED BY <2>3, <2>4
<1>2. cancelled' => mpc' \in {"wait", "close", "closed", "returned"}
  BY DEF LifeInv, Next, MainStep, Boot, StartTracker, StartOthers, StopServers,
         StopTracker, JoinTracker, ClosePublisher, CloseStorage, Signal, Take,
         WorkerStep, Claim, Scan, Mark, Release, WorkerExits, HelperExits,
         RequestLocks, RequestAnswered, NodeHangs, Break, Notice, vars, trackerVars
<1>3. mpc' \in {"close", "closed", "returned"} =>
           Busy' = {} /\ (NeverStarted' \/ Joined')
  <2> SUFFICES ASSUME mpc' \in {"close", "closed", "returned"}
               PROVE  Busy' = {} /\ (NeverStarted' \/ Joined')
    OBVIOUS
  <2>1. ~StartTracker
    BY DEF StartTracker
  <2>2. CASE mpc \in {"close", "closed", "returned"}
    BY <2>1, <2>2, QuietStays DEF LifeInv
  <2>3. CASE JoinTracker
    BY <2>1, <2>3, JoinedFacts, QuietStays DEF JoinTracker
  <2>4. CASE StopTracker
    <3>1. ~running /\ ~cancelled
      BY <2>4 DEF StopTracker, LifeInv
    <3>2. NeverStarted
      BY <3>1 DEF LifeInv
    <3>3. QED BY <2>1, <3>2, QuietStays DEF NeverStarted
  <2>5. QED
    BY <2>2, <2>3, <2>4
    DEF Next, MainStep, Boot, StartTracker, StartOthers, StopServers,
        ClosePublisher, CloseStorage, Signal, Take,
        WorkerStep, Claim, Scan, Mark, Release, WorkerExits, HelperExits,
        RequestLocks, RequestAnswered, NodeHangs, Break, Notice, vars
<1>4. /\ conn' = "closed" <=> mpc' \in {"closed", "returned"}
      /\ redis' = "closed" => mpc' = "returned"
  BY DEF LifeInv, Next, MainStep, Boot, StartTracker, StartOthers, StopServers,
         StopTracker, JoinTracker, ClosePublisher, CloseStorage, Signal, Take,
         WorkerStep, Claim, Scan, Mark, Release, WorkerExits, HelperExits,
         RequestLocks, RequestAnswered, NodeHangs, Break, Notice, vars, brokerVars
<1>5. QED BY <1>1, <1>2, <1>3, <1>4 DEF LifeInv

(* Before it boots, the process has neither connections nor goroutines.    *)
LEMMA LifeInit == Init => LifeInv
BY DEF Init, LifeInv, NeverStarted, Busy

(* When publisher.Close and storage.Close run, no worker has a block and   *)
(* no helper is left, also not of a tracker that did not start: Stop has   *)
(* waited for all of them.                                                 *)
THEOREM QuietShutdown == Spec => []QuietBeforeClose
<1>1. TypeOK /\ LifeInv => QuietBeforeClose
  <2> SUFFICES ASSUME TypeOK, LifeInv, conn = "closed" \/ redis = "closed"
               PROVE  /\ Busy = {}
                      /\ \A h \in Helpers : hpc[h] \in {"none", "exited"}
    BY DEF QuietBeforeClose
  <2>1. Busy = {} /\ (NeverStarted \/ Joined)
    BY DEF LifeInv
  <2>2. QED BY <2>1 DEF NeverStarted, Joined
<1>2. QED BY <1>1, LifeInit, LifeNext, TypeCorrect, PTL DEF Spec

-----------------------------------------------------------------------------
(* The events.                                                             *)

(* No excuse is taken back, and Stop is final.                             *)
LEMMA ExcusesStay ==
    ASSUME TypeOK, [Next]_vars
    PROVE  /\ broken => broken'
           /\ cancelled => cancelled'
           /\ overlooked \subseteq overlooked'
           /\ \A b \in Blocks : Excused(b) => Excused(b)'
<1>1. (broken => broken') /\ (cancelled => cancelled')
  BY DEF Next, MainStep, Boot, StartTracker, StartOthers, StopServers,
         StopTracker, JoinTracker, ClosePublisher, CloseStorage, Signal, Take,
         WorkerStep, Claim, Scan, Mark, Release, WorkerExits, HelperExits,
         RequestLocks, RequestAnswered, NodeHangs, Break, Notice, vars,
         trackerVars, brokerVars
<1>2. overlooked \subseteq overlooked'
  BY DEF Next, MainStep, Boot, StartTracker, StartOthers, StopServers,
         StopTracker, JoinTracker, ClosePublisher, CloseStorage, Signal, Take,
         WorkerStep, Claim, Scan, Mark, Release, WorkerExits, HelperExits,
         RequestLocks, RequestAnswered, NodeHangs, Break, Notice, vars,
         brokerVars, Overlooks
<1>3. Swallows => Swallows'
  BY NetworkStays DEF Swallows
<1>4. QED BY <1>1, <1>2, <1>3 DEF Excused

(* Every step keeps the account of the events: a worker comes to the mark  *)
(* without having published only with an excuse or a context that is done, *)
(* and with the latter it writes no mark.                                  *)
LEMMA EventNext ==
    ASSUME TypeOK, LifeInv, EventInv, [Next]_vars
    PROVE  EventInv'
<1>k. /\ broken => broken'
      /\ cancelled => cancelled'
      /\ \A b \in Blocks : Excused(b) => Excused(b)'
  BY ExcusesStay
<1>1. CASE \E b \in Blocks : Scan(b)
  <2>1. PICK b \in Blocks : Scan(b)
    BY <1>1
  <2>2. /\ UNCHANGED <<conn, broken, cancelled, marked>>
        /\ hand[b] = "scan"
    BY <2>1 DEF Scan, At
  <2>3. conn # "closed"
    <3>1. b \in Busy
      BY <2>2 DEF Busy
    <3>2. QED BY <3>1 DEF LifeInv
  <2>4. CASE Published(b) /\ Goto(b, "mark")
    <3>1. \A c \in Blocks \ {b} : event'[c] = event[c] /\ hand'[c] = hand[c]
      BY <2>4 DEF Published, Goto, TypeOK
    <3>2. /\ event'[b] # "none"
          /\ event'[b] = "dropped" => broken
          /\ event'[b] = "sent" => conn = "up"
      BY <2>4 DEF Published, TypeOK, EventInv
    <3>3. QED BY <1>k, <2>2, <3>1, <3>2 DEF EventInv
  <2>5. CASE event' = event /\ (hand'[b] = "mark" => Excused(b)' \/ cancelled)
    <3>1. \A c \in Blocks \ {b} : hand'[c] = hand[c]
      BY <2>1 DEF Scan, Goto, TypeOK
    <3>2. QED BY <1>k, <2>2, <2>5, <3>1 DEF EventInv
  <2>6. CASE /\ conn \in {"lost", "closed"}
             /\ Goto(b, IF Swallows THEN "mark" ELSE "release")
             /\ event' = event
    <3>1. broken
      BY <2>3, <2>6 DEF EventInv
    <3>2. hand'[b] = "mark" => Swallows
      BY <2>6 DEF Goto, TypeOK
    <3>3. QED BY <1>k, <2>5, <2>6, <3>1, <3>2 DEF Excused
  <2>7. CASE Goto(b, "release") /\ event' = event
    BY <2>5, <2>7 DEF Goto, TypeOK
  <2>8. CASE Overlooks(b) /\ Goto(b, "mark") /\ event' = event
    BY <2>5, <2>8 DEF Overlooks, Excused
  <2>9. QED BY <2>1, <2>4, <2>6, <2>7, <2>8 DEF Scan
<1>2. CASE \E b \in Blocks : Mark(b)
  <2>1. PICK b \in Blocks : Mark(b)
    BY <1>2
  <2>2. /\ hand[b] = "mark" /\ marked' \subseteq marked \cup {b}
        /\ UNCHANGED <<conn, event, broken>> /\ Goto(b, "release")
        /\ marked' = marked \/ ~cancelled
    BY <2>1 DEF Mark, At, brokerVars
  <2>3. \A c \in Blocks : hand'[c] = "mark" => hand[c] = "mark"
    BY <2>2 DEF Goto, TypeOK
  <2>4. QED BY <1>k, <2>2, <2>3 DEF EventInv
<1>3. CASE \E b \in Blocks : Take(b) \/ Claim(b) \/ Release(b)
  <2>1. /\ UNCHANGED <<conn, event, broken, marked>>
        /\ \E b \in Blocks : Goto(b, "claim") \/ Goto(b, "scan") \/ Goto(b, "none")
    BY <1>3 DEF Take, Claim, Release, brokerVars
  <2>2. \A c \in Blocks : hand'[c] = "mark" => hand[c] = "mark"
    BY <2>1 DEF Goto, TypeOK
  <2>3. QED BY <1>k, <2>1, <2>2 DEF EventInv
<1>4. CASE ClosePublisher
  <2>1. /\ conn' = "closed" /\ UNCHANGED <<broken, hand, marked>>
        /\ event' = [b \in Blocks |-> IF event[b] = "sent" /\ conn = "up"
                                      THEN "delivered" ELSE event[b]]
    BY <1>4 DEF ClosePublisher, trackerVars
  <2>2. ASSUME NEW b \in Blocks
        PROVE  event'[b] # "sent" /\ event'[b] \in {event[b], "delivered"}
    BY <2>1 DEF EventInv
  <2>3. QED BY <1>k, <2>1, <2>2 DEF EventInv
<1>5. CASE Break
  <2>1. /\ conn' = "broken" /\ broken' = TRUE /\ UNCHANGED <<hand, marked>>
    BY <1>5 DEF Break, trackerVars
  <2>2. ASSUME NEW b \in Blocks
        PROVE  /\ event'[b] # "sent"
               /\ event'[b] = "none" => event[b] = "none"
    BY <1>5 DEF Break
  <2>3. QED BY <1>k, <2>1, <2>2 DEF EventInv
<1>6. CASE Boot
  <2>1. /\ UNCHANGED <<event, broken, hand, marked>> /\ conn' \in {conn, "up"}
    BY <1>6 DEF Boot, trackerVars
  <2>2. QED BY <1>k, <2>1 DEF EventInv
<1>7. CASE Notice
  <2>1. /\ UNCHANGED <<event, broken, hand, marked>> /\ conn = "broken"
        /\ conn' = "lost"
    BY <1>7 DEF Notice, trackerVars
  <2>2. QED BY <1>k, <2>1 DEF EventInv
<1>8. CASE UNCHANGED <<conn, event, broken, hand, marked>>
  BY <1>k, <1>8 DEF EventInv
<1>9. QED
  BY <1>1, <1>2, <1>3, <1>4, <1>5, <1>6, <1>7, <1>8
  DEF Next, MainStep, StartTracker, StartOthers, StopServers, StopTracker,
      JoinTracker, CloseStorage, Signal, WorkerStep, WorkerExits, HelperExits,
      RequestLocks, RequestAnswered, NodeHangs, vars, trackerVars, brokerVars

(* The invariant: where main is, what is left of the tracker, and what has *)
(* become of the events belong together.                                   *)
THEOREM Inductive == Spec => []IndInv
<1>1. Init => EventInv
  BY DEF Init, EventInv
<1>2. Spec => [](LifeInv /\ EventInv)
  BY <1>1, LifeInit, LifeNext, EventNext, TypeCorrect, PTL DEF Spec
<1>3. LifeInv /\ EventInv => IndInv
  BY DEF IndInv
<1>4. QED BY <1>2, <1>3, PTL

(* The event of a marked block has reached the broker or is on its way on  *)
(* a connection that works, and a shutdown leaves none on its way.  One    *)
(* that is missing was overlooked by the scan, dropped by a connection     *)
(* that broke, or not handed over by EVM or TRON after it was lost: the    *)
(* cancellation of calls by Stop is never the reason.                      *)
THEOREM ShutdownLosesNothing == Spec => []MarkedIsDelivered
<1>1. TypeOK /\ IndInv => MarkedIsDelivered
  <2> SUFFICES ASSUME TypeOK, LifeInv, EventInv, NEW b \in marked
               PROVE  /\ event[b] = "dropped" => broken
                      /\ event[b] = "none" =>
                             b \in overlooked \/ (broken /\ Swallows)
                      /\ event[b] = "sent" => mpc # "returned"
    BY DEF IndInv, MarkedIsDelivered
  <2>1. b \in Blocks
    BY DEF TypeOK
  <2>2. event[b] = "sent" => mpc # "returned"
    BY <2>1 DEF EventInv, LifeInv
  <2>3. QED BY <2>1, <2>2 DEF EventInv, Excused
<1>2. QED BY <1>1, Inductive, TypeCorrect, PTL
=============================================================================
