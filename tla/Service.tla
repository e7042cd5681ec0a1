------------------------------- MODULE Service -------------------------------
(***************************************************************************)
(* The process: main (cmd/monitor/main.go) connects to Redis and RabbitMQ, *)
(* starts the trackers and the HTTP server, waits for a signal and takes   *)
(* everything down again; beside it run the goroutines of one tracker in   *)
(* detail (Start, Stop, GetStats of internal/blockchain/base/tracker.go)   *)
(* and the connection of internal/messaging/publisher.go.                  *)
(*                                                                         *)
(* A worker is known by the block it has in hand; which blocks there are   *)
(* and how they come to it is BlockTracker's matter, what is in them that  *)
(* of the network's module.  Here a block has one event.                   *)
(***************************************************************************)
EXTENDS Integers, FiniteSets

CONSTANTS
    Blocks,     \* the blocks
    Networks,   \* the networks considered: kind and MaxConcurrentBlocks
    MaxFaults   \* bound: how often something fails

(* The goroutines of a tracker besides its workers: the subscription and   *)
(* polling loop, the health monitor and the initial catchup.               *)
Helpers == {"loop", "health", "catchup"}

(* EVM and TRON log a failed publication and go on; UTXO and Solana, which *)
(* nothing tells apart here, return it.  A network of the EVM that does    *)
(* not start ends the process.                                             *)
ASSUME ServiceAssumption ==
    /\ IsFiniteSet(Blocks)
    /\ Networks \subseteq [kind : {"evm", "tron", "utxo"}, limit : Int]
    /\ MaxFaults \in Nat

VARIABLES
    kind,       \* the tracker's network
    limit,      \* its MaxConcurrentBlocks
    mpc,        \* where main is
    running,    \* isRunning
    cancelled,  \* runCtx
    hand,       \* block -> where the worker is that has it, if any
    exited,     \* how many workers have ended
    hpc,        \* helper -> where it is
    request,    \* whether a GetStats request of the API has the lock
    conn,       \* the connection to RabbitMQ
    event,      \* block -> what has become of its event
    marked,     \* Redis: the blocks marked
    redis,      \* the connection to Redis
    broken,     \* history: the connection to RabbitMQ has failed
    overlooked, \* history: the blocks scanned past a failure, events missing
    faults

trackerVars == <<running, cancelled, hand, exited, hpc>>
brokerVars == <<conn, event, broken, overlooked>>
vars == <<kind, limit, mpc, trackerVars, request, brokerVars, marked, redis,
          faults>>

-----------------------------------------------------------------------------
(* workerSplit, without the settings that no configuration sets.           *)

Total == IF limit <= 0 THEN 1 ELSE limit

RealtimeWorkers == IF Total \div 5 < 1 THEN 1 ELSE Total \div 5

(* Mutant of CatchupWorkers: the realtime workers come on top.             *)
CatchupWorkersAll == Total

CatchupWorkers ==
    IF Total - RealtimeWorkers < 1 THEN 1 ELSE Total - RealtimeWorkers

Workers == RealtimeWorkers + CatchupWorkers

Busy == {b \in Blocks : hand[b] # "none"}
Idle == Workers - Cardinality(Busy) - exited

-----------------------------------------------------------------------------
Init ==
    /\ \E n \in Networks : kind = n.kind /\ limit = n.limit
    /\ mpc = "boot"
    /\ running = FALSE
    /\ cancelled = FALSE
    /\ hand = [b \in Blocks |-> "none"]
    /\ exited = 0
    /\ hpc = [h \in Helpers |-> "none"]
    /\ request = "none"
    /\ conn = "none"
    /\ event = [b \in Blocks |-> "none"]
    /\ marked = {}
    /\ redis = "none"
    /\ broken = FALSE
    /\ overlooked = {}
    /\ faults = 0

Fault == faults < MaxFaults /\ faults' = faults + 1

(* logger.Fatalf, and a main that has returned, end all goroutines.        *)
Alive == mpc \notin {"dead", "returned"}

-----------------------------------------------------------------------------
(* main.                                                                   *)

(* NewRedisStorage, Ping and NewRabbitMQPublisher.                         *)
Boot ==
    /\ mpc = "boot"
    /\ \/ Fault /\ mpc' = "dead" /\ UNCHANGED <<conn, redis>>
       \/ /\ mpc' = "start"
          /\ conn' = "up"
          /\ redis' = "open"
          /\ UNCHANGED faults
    /\ UNCHANGED <<kind, limit, trackerVars, request, event, broken, overlooked,
                   marked>>

(* StartTracker and Start.  When InitializeProviders fails, the tracker is *)
(* left out of the manager's map.                                          *)
StartTracker ==
    /\ mpc = "start"
    /\ \/ /\ Fault
          /\ mpc' = IF kind = "evm" THEN "dead" ELSE "others"
          /\ UNCHANGED <<running, hpc>>
       \/ /\ running' = TRUE
          /\ hpc' = [h \in Helpers |-> "up"]
          /\ mpc' = "others"
          /\ UNCHANGED faults
    /\ UNCHANGED <<kind, limit, cancelled, hand, exited, request, brokerVars,
                   marked, redis>>

(* The networks that come later are started, with this one at work; those  *)
(* of the EVM come first, and another of them that does not start ends the *)
(* process.  Then the servers are started.                                 *)
StartOthers ==
    /\ mpc = "others"
    /\ \/ kind = "evm" /\ Fault /\ mpc' = "dead"
       \/ mpc' = "serve" /\ UNCHANGED faults
    /\ UNCHANGED <<kind, limit, trackerVars, request, brokerVars, marked, redis>>

Signal ==
    /\ mpc = "serve"
    /\ mpc' = "servers"
    /\ UNCHANGED <<kind, limit, trackerVars, request, brokerVars, marked, redis,
                   faults>>

(* Shutdown of both servers: it waits for requests, but not longer than    *)
(* the thirty seconds they have together, and then leaves them behind.     *)
StopServers ==
    /\ mpc = "servers"
    /\ mpc' = "stop"
    /\ UNCHANGED <<kind, limit, trackerVars, request, brokerVars, marked, redis,
                   faults>>

(* Mutant of MuFree: Stop keeps the lock until the goroutines have ended.  *)
MuFreeOfStop == request = "none" /\ mpc # "wait"

(* The tracker's mu can be taken for writing.                              *)
MuFree == request = "none"

(* StopAll and Stop: the flag under the lock, then the context and stopCh. *)
StopTracker ==
    /\ mpc = "stop"
    /\ \/ ~running /\ mpc' = "close" /\ UNCHANGED <<running, cancelled>>
       \/ /\ running
          /\ MuFree
          /\ mpc' = "wait"
          /\ running' = FALSE
          /\ cancelled' = TRUE
    /\ UNCHANGED <<kind, limit, hand, exited, hpc, request, brokerVars, marked,
                   redis, faults>>

(* Mutant of Joined: the health monitor is not in the WaitGroup.           *)
JoinedButHealth ==
    /\ exited = Workers
    /\ \A h \in Helpers \ {"health"} : hpc[h] = "exited"

(* wg is at zero.                                                          *)
Joined == exited = Workers /\ \A h \in Helpers : hpc[h] = "exited"

(* wg.Wait.  The other trackers are stopped before or after this one.      *)
JoinTracker ==
    /\ mpc = "wait"
    /\ Joined
    /\ mpc' = "close"
    /\ UNCHANGED <<kind, limit, trackerVars, request, brokerVars, marked, redis,
                   faults>>

(* publisher.Close, deferred: what is under way still arrives.             *)
ClosePublisher ==
    /\ mpc = "close"
    /\ mpc' = "closed"
    /\ conn' = "closed"
    /\ event' = [b \in Blocks |-> IF event[b] = "sent" /\ conn = "up"
                                  THEN "delivered" ELSE event[b]]
    /\ UNCHANGED <<kind, limit, trackerVars, request, broken, overlooked, marked,
                   redis, faults>>

(* storage.Close, deferred, and the end of main.                           *)
CloseStorage ==
    /\ mpc = "closed"
    /\ mpc' = "returned"
    /\ redis' = "closed"
    /\ UNCHANGED <<kind, limit, trackerVars, request, brokerVars, marked, faults>>

-----------------------------------------------------------------------------
(* The workers.                                                            *)

At(b, from) == Alive /\ hand[b] = from
Goto(b, to) == hand' = [hand EXCEPT ![b] = to]

(* A job comes out of a channel; the worker asks for the lock.             *)
Take(b) ==
    /\ At(b, "none")
    /\ hpc["loop"] # "none"
    /\ b \notin marked
    /\ Idle > 0
    /\ Goto(b, "claim")
    /\ UNCHANGED <<kind, limit, mpc, running, cancelled, exited, hpc, request,
                   brokerVars, marked, redis, faults>>

Claim(b) ==
    /\ At(b, "claim")
    /\ MuFree
    /\ Goto(b, "scan")
    /\ UNCHANGED <<kind, limit, mpc, running, cancelled, exited, hpc, request,
                   brokerVars, marked, redis, faults>>

(* Publish without confirms: an event that is written to a connection that *)
(* works, or of which nobody knows yet that it does not, counts as         *)
(* published.                                                              *)
Published(b) ==
    \/ /\ conn = "up"
       /\ event' = [event EXCEPT ![b] = IF @ = "delivered" THEN @ ELSE "sent"]
    \/ /\ conn = "broken"
       /\ event' = [event EXCEPT ![b] = IF @ = "delivered" THEN @ ELSE "dropped"]

Swallows == kind \in {"evm", "tron"}

(* A call with the context fails, by itself or because that is done.       *)
CallFails == (cancelled /\ UNCHANGED faults) \/ Fault

(* A failure other than that of Publish which ProcessBlock does not        *)
(* return.  EVM and TRON log what goes wrong with a single transaction,    *)
(* also when it is the context that is done; and every network takes some  *)
(* answers for the whole block that are not (the Swallowed kinds of the    *)
(* network's module).                                                      *)
Overlooks(b) ==
    \/ /\ Swallows
       /\ cancelled
       /\ UNCHANGED <<overlooked, faults>>
    \/ Fault /\ overlooked' = overlooked \cup {b}

(* ProcessBlock: its event is published, or that fails; when something     *)
(* else fails, or the context is done, it may end before, or go on without *)
(* the event.                                                              *)
Scan(b) ==
    /\ At(b, "scan")
    /\ \/ Published(b) /\ Goto(b, "mark") /\ UNCHANGED <<overlooked, faults>>
       \/ /\ conn \in {"lost", "closed"}
          /\ Goto(b, IF Swallows THEN "mark" ELSE "release")
          /\ UNCHANGED <<event, overlooked, faults>>
       \/ /\ CallFails
          /\ Goto(b, "release")
          /\ UNCHANGED <<event, overlooked>>
       \/ Overlooks(b) /\ Goto(b, "mark") /\ UNCHANGED event
    /\ UNCHANGED <<kind, limit, mpc, running, cancelled, exited, hpc, request,
                   conn, broken, marked, redis>>

(* Mutant of Mark: the mark is written whatever became of the context.     *)
MarkDetached(b) ==
    /\ At(b, "mark")
    /\ marked' = marked \cup {b}
    /\ Goto(b, "release")
    /\ UNCHANGED <<kind, limit, mpc, running, cancelled, exited, hpc, request,
                   brokerVars, redis, faults>>

(* MarkBlockProcessed.                                                     *)
Mark(b) ==
    /\ At(b, "mark")
    /\ \/ CallFails /\ UNCHANGED marked
       \/ ~cancelled /\ marked' = marked \cup {b} /\ UNCHANGED faults
    /\ Goto(b, "release")
    /\ UNCHANGED <<kind, limit, mpc, running, cancelled, exited, hpc, request,
                   brokerVars, redis>>

(* releaseInFlight.                                                        *)
Release(b) ==
    /\ At(b, "release")
    /\ MuFree
    /\ Goto(b, "none")
    /\ UNCHANGED <<kind, limit, mpc, running, cancelled, exited, hpc, request,
                   brokerVars, marked, redis, faults>>

(* A worker without a block sees that the context is done.                 *)
WorkerExits ==
    /\ Alive
    /\ cancelled
    /\ Idle > 0
    /\ exited' = exited + 1
    /\ UNCHANGED <<kind, limit, mpc, running, cancelled, hand, hpc, request,
                   brokerVars, marked, redis, faults>>

-----------------------------------------------------------------------------
(* The helpers, between a tick and the next or in a call to Redis or to a  *)
(* node.  The catchup runs once; the loop and the health monitor end when  *)
(* the context is done and the call they are in is over, which the health  *)
(* monitor makes with a context of its own.                                *)
HelperExits(h) ==
    /\ Alive
    /\ hpc[h] = "up"
    /\ cancelled \/ h = "catchup"
    /\ hpc' = [hpc EXCEPT ![h] = "exited"]
    /\ UNCHANGED <<kind, limit, mpc, running, cancelled, hand, exited, request,
                   brokerVars, marked, redis, faults>>

-----------------------------------------------------------------------------
(* GetTrackerStats: GetStats keeps the read lock during its calls.  What   *)
(* the server leaves behind may still come to the lock when main stops the *)
(* trackers.                                                               *)

(* Somebody waits for the lock to write: new readers stand back.           *)
WriterWaits ==
    \/ \E b \in Blocks : hand[b] \in {"claim", "release"}
    \/ mpc = "stop" /\ running

RequestLocks ==
    /\ mpc \in {"serve", "servers", "stop", "wait"}
    /\ hpc["loop"] # "none"
    /\ request = "none"
    /\ ~WriterWaits
    /\ request' = "held"
    /\ UNCHANGED <<kind, limit, mpc, trackerVars, brokerVars, marked, redis,
                   faults>>

RequestAnswered ==
    /\ Alive
    /\ request = "held"
    /\ request' = "none"
    /\ UNCHANGED <<kind, limit, mpc, trackerVars, brokerVars, marked, redis,
                   faults>>

(* A node of the EVM takes a request and never answers.  Its client has no *)
(* timeout; the others' have one, and the workers' and the loop's calls    *)
(* end with the context, which GetStats and reportHealth do not use.       *)
NodeHangs ==
    /\ Alive
    /\ kind = "evm"
    /\ Fault
    /\ \/ /\ request = "held"
          /\ request' = "hung"
          /\ UNCHANGED hpc
       \/ /\ hpc["health"] = "up"
          /\ hpc' = [hpc EXCEPT !["health"] = "hung"]
          /\ UNCHANGED request
    /\ UNCHANGED <<kind, limit, mpc, running, cancelled, hand, exited, brokerVars,
                   marked, redis>>

-----------------------------------------------------------------------------
(* The broker.                                                             *)

(* The connection breaks: of what is under way, some has arrived and the   *)
(* rest is lost.                                                           *)
Break ==
    /\ conn = "up"
    /\ Fault
    /\ conn' = "broken"
    /\ broken' = TRUE
    /\ \E arrived \in SUBSET {b \in Blocks : event[b] = "sent"} :
           event' = [b \in Blocks |-> IF event[b] # "sent" THEN event[b]
                                     ELSE IF b \in arrived THEN "delivered"
                                     ELSE "dropped"]
    /\ UNCHANGED <<kind, limit, mpc, trackerVars, request, overlooked, marked,
                   redis>>

(* The library notices; handleConnectionErrors only logs it.               *)
Notice ==
    /\ conn = "broken"
    /\ conn' = "lost"
    /\ UNCHANGED <<kind, limit, mpc, trackerVars, request, event, broken,
                   overlooked, marked, redis, faults>>

-----------------------------------------------------------------------------
MainStep ==
    \/ Boot
    \/ StartTracker
    \/ StartOthers
    \/ StopServers
    \/ StopTracker
    \/ JoinTracker
    \/ ClosePublisher
    \/ CloseStorage

WorkerStep(b) == Claim(b) \/ Scan(b) \/ Mark(b) \/ Release(b)

Next ==
    \/ MainStep
    \/ Signal
    \/ \E b \in Blocks : Take(b) \/ WorkerStep(b)
    \/ WorkerExits
    \/ \E h \in Helpers : HelperExits(h)
    \/ RequestLocks
    \/ RequestAnswered
    \/ NodeHangs
    \/ Break
    \/ Notice

Spec == Init /\ [][Next]_vars

(* Goroutines run, and every call ends that does not hang: requests to     *)
(* nodes time out or end with the context, Redis and RabbitMQ answer or    *)
(* fail.  A select that finds the context done again and again takes that  *)
(* case in the end.                                                        *)
FairSpec ==
    /\ Spec
    /\ WF_vars(MainStep)
    /\ \A b \in Blocks : WF_vars(WorkerStep(b))
    /\ SF_vars(WorkerExits)
    /\ \A h \in Helpers : WF_vars(HelperExits(h))
    /\ WF_vars(RequestAnswered)

-----------------------------------------------------------------------------
(* Properties.                                                             *)

(* Every variable holds a value of its Go type, and the WaitGroup is never *)
(* below zero.                                                             *)
TypeOK ==
    /\ [kind |-> kind, limit |-> limit] \in Networks
    /\ mpc \in {"boot", "start", "others", "serve", "servers", "stop", "wait",
                "close", "closed", "returned", "dead"}
    /\ running \in BOOLEAN
    /\ cancelled \in BOOLEAN
    /\ hand \in [Blocks -> {"none", "claim", "scan", "mark", "release"}]
    /\ exited \in 0..Workers
    /\ hpc \in [Helpers -> {"none", "up", "hung", "exited"}]
    /\ request \in {"none", "held", "hung"}
    /\ conn \in {"none", "up", "broken", "lost", "closed"}
    /\ event \in [Blocks -> {"none", "sent", "dropped", "delivered"}]
    /\ marked \subseteq Blocks
    /\ redis \in {"none", "open", "closed"}
    /\ broken \in BOOLEAN
    /\ overlooked \subseteq Blocks
    /\ faults \in 0..MaxFaults
    /\ Idle >= 0

(* No more blocks are scanned at a time than MaxConcurrentBlocks says;     *)
(* only a limit below two is not kept, since each of the two channels has  *)
(* a worker.                                                               *)
WithinLimit == Cardinality(Busy) <= IF limit < 2 THEN 2 ELSE limit

(* When the connections are closed, no goroutine of the tracker is left    *)
(* that could use them: it has left wg.Wait behind, and its workers and    *)
(* helpers have ended, whatever they were in when the signal came.         *)
QuietBeforeClose ==
    (conn = "closed" \/ redis = "closed") =>
        /\ Busy = {}
        /\ \A h \in Helpers : hpc[h] \in {"none", "exited"}

(* What is missing of a marked block has a reason that is not the          *)
(* shutdown.  Its event has reached the broker, or is on its way on a      *)
(* connection that works, and nothing is on its way any more when main     *)
(* returns; it is dropped only by a connection that broke, and was never   *)
(* handed over only where the scan overlooked a failure, or where EVM and  *)
(* TRON mark on after the connection is lost.  In particular no block is   *)
(* marked whose calls failed because Stop cancelled them, although EVM and *)
(* TRON log those errors and go on to the mark.                            *)
MarkedIsDelivered ==
    \A b \in marked :
        /\ event[b] = "dropped" => broken
        /\ event[b] = "none" => b \in overlooked \/ (broken /\ Swallows)
        /\ event[b] = "sent" => mpc # "returned"

(* A signal ends the process: Stop, the workers that need the lock to take *)
(* and to release a block, and a request that keeps it during its calls    *)
(* never wait for one another in a circle.  Only a node of the EVM that    *)
(* never answers keeps it waiting for good, for the lock or for the health *)
(* monitor.                                                                *)
Hung == request = "hung" \/ hpc["health"] = "hung"
ShutdownCompletes == mpc = "servers" ~> mpc = "returned" \/ Hung
=============================================================================
