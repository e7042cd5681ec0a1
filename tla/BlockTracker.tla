---------------------------- MODULE BlockTracker ----------------------------
(***************************************************************************)
(* The base tracker of one network (internal/blockchain/base/tracker.go)   *)
(* together with the progress it keeps in Redis (internal/storage/         *)
(* redis.go): the high-water mark "last_processed_blocks" and the bitmap   *)
(* "processed_blocks".                                                     *)
(*                                                                         *)
(* Two feeders put block numbers on two bounded channels: the subscription *)
(* loop (new heads and the polling ticker) on the realtime channel, and    *)
(* the initial catchup on the catchup channel.  Workers take a block,      *)
(* claim it, check its mark and its confirmations, scan it, mark it and    *)
(* move the high-water mark over contiguous marks.  Every Redis command    *)
(* and every RPC call is a step of its own, so all their interleavings,    *)
(* failures and crashes in between are behaviours of this module.          *)
(***************************************************************************)
EXTENDS Integers, Sequences, FiniteSets

CONSTANTS
    RealtimeWorkers,   \* workers that read realtimeCh
    CatchupWorkers,    \* workers that read catchupCh
    Confirmations,     \* config.Confirmations
    InitialTip,        \* height of the chain at the start
    InitialMark,       \* the mark an earlier process left in Redis, 0 when none
    MaxHeight,         \* bound: the chain stops growing here
    RealtimeQueueCap,  \* cap(realtimeCh)
    CatchupQueueCap,   \* cap(catchupCh)
    NearlyUpToDate,    \* the literal 10 of performInitialCatchup
    MaxAdvance,        \* the literal 10000 of AdvanceHighWaterMark
    WindowSize,        \* the literal 100000: blocks per bitmap key
    Faults,            \* the kinds of failure this instance lets happen
    MaxFaults,         \* bound: how many failures happen
    MaxRestarts,       \* bound: how many times the process dies and restarts
    MaxTimers          \* bound: requeue timers pending for one block

(* height: GetCurrentBlockHeight fails;  stale: it answers a lower height  *)
(* (another provider, a cached tip);  zero: it answers 0 without an error; *)
(* hwmRead: the read in normalizeLastProcessed fails;  redis: any other    *)
(* Redis command fails;  scan: ProcessBlock does not complete;             *)
(* expire: the TTL of a bitmap window runs out;  hang: a request to an EVM *)
(* provider is never answered: the client has no timeout.                  *)
FaultKinds ==
    {"height", "stale", "zero", "hwmRead", "redis", "scan", "expire", "hang"}

ASSUME WorkersAssumption == RealtimeWorkers \cap CatchupWorkers = {}

ASSUME BoundsAssumption ==
    /\ Confirmations \in Nat
    /\ MaxHeight \in Nat
    /\ InitialTip \in 1..MaxHeight
    /\ InitialMark \in 0..InitialTip
    /\ RealtimeQueueCap \in Nat \ {0}
    /\ CatchupQueueCap \in Nat \ {0}
    /\ NearlyUpToDate \in Nat
    /\ MaxAdvance \in Nat
    /\ WindowSize \in Nat \ {0}
    /\ MaxFaults \in Nat
    /\ MaxRestarts \in Nat
    /\ MaxTimers \in Nat \ {0}

ASSUME FaultsAssumption == Faults \subseteq FaultKinds

Workers == RealtimeWorkers \cup CatchupWorkers
Feeders == {"poll", "catchup"}
Blocks == 1..MaxHeight
Heights == 0..MaxHeight

VARIABLES
    tip,        \* the height of the chain
    heads,      \* heads the subscription has put on realtimeBlocks
    hwm,        \* Redis: last_processed_blocks[network], 0 when absent
    processed,  \* Redis: the blocks whose bit is set in processed_blocks
    base,       \* history: where the first run put the high-water mark
    started,    \* history: whether a first run has put it there
    done,       \* history: the blocks ProcessBlock has reported as complete
    rtq,        \* realtimeCh
    cuq,        \* catchupCh
    timers,     \* block -> requeue timers pending for it
    inFlight,   \* inFlightBlocks
    pc,         \* worker -> the call it makes next
    blk,        \* worker -> the block it has to release, 0 when none
    last,       \* worker -> AdvanceHighWaterMark's "last"
    adv,        \* worker -> AdvanceHighWaterMark's "advanced"
    fpc,        \* feeder -> the call it makes next
    flast,      \* feeder -> lastProcessed; when sending, the last block sent
    fheight,    \* feeder -> currentBlock; when sending, the last block to send
    faults,     \* failures so far
    restarts    \* restarts so far

chainVars  == <<tip, heads>>
ghostVars  == <<base, started, done>>
queueVars  == <<rtq, cuq, timers>>
workerVars == <<inFlight, pc, blk, last, adv>>
feederVars == <<fpc, flast, fheight>>
vars == <<chainVars, hwm, processed, ghostVars, queueVars, workerVars,
          feederVars, faults, restarts>>

WorkerPCs == {"idle", "check", "height", "scan", "mark", "hung",
              "advRead", "advScan", "advCmp", "advWrite"}
ClaimingPCs == {"check", "height", "scan", "mark", "hung"}
FeederPCs == {"idle", "hung", "last", "reset", "init", "initSet", "send", "done"}

(***************************************************************************)
(* Init is the start of the process on an empty Redis, or on the mark that *)
(* the first run of an earlier one has left there; what later starts find  *)
(* is whatever Restart leaves.                                             *)
(***************************************************************************)
Init ==
    /\ tip = InitialTip
    /\ heads = {}
    /\ hwm = InitialMark
    /\ processed = {}
    /\ base = InitialMark
    /\ started = (InitialMark > 0)
    /\ done = {}
    /\ rtq = <<>>
    /\ cuq = <<>>
    /\ timers = [b \in Blocks |-> 0]
    /\ inFlight = {}
    /\ pc = [w \in Workers |-> "idle"]
    /\ blk = [w \in Workers |-> 0]
    /\ last = [w \in Workers |-> 0]
    /\ adv = [w \in Workers |-> 0]
    /\ fpc = [f \in Feeders |-> "idle"]
    /\ flast = [f \in Feeders |-> 0]
    /\ fheight = [f \in Feeders |-> 0]
    /\ faults = 0
    /\ restarts = 0

-----------------------------------------------------------------------------
(* The environment of the calls.                                           *)

Fault(kind) ==
    /\ kind \in Faults
    /\ faults < MaxFaults
    /\ faults' = faults + 1

(* GetCurrentBlockHeight answers h without an error.                       *)
HeightIs(h) ==
    \/ h = tip /\ UNCHANGED faults
    \/ h \in 1..(tip - 1) /\ Fault("stale")
    \/ h = 0 /\ Fault("zero")

(* The last block of the range that polling and catchup enqueue.           *)
SafeHead(h) == IF h > Confirmations THEN h - Confirmations ELSE h

-----------------------------------------------------------------------------
(* Workers: blockWorker, processBlockJob and processBlockSafely.           *)

(* Mutant of Finish: a return path that forgets the deferred release.      *)
FinishWithoutRelease(w) ==
    /\ pc' = [pc EXCEPT ![w] = "idle"]
    /\ blk' = [blk EXCEPT ![w] = 0]
    /\ last' = [last EXCEPT ![w] = 0]
    /\ adv' = [adv EXCEPT ![w] = 0]
    /\ UNCHANGED inFlight

(* The deferred releaseInFlight and the return to the loop of blockWorker. *)
Finish(w) ==
    /\ inFlight' = inFlight \ {blk[w]}
    /\ pc' = [pc EXCEPT ![w] = "idle"]
    /\ blk' = [blk EXCEPT ![w] = 0]
    /\ last' = [last EXCEPT ![w] = 0]
    /\ adv' = [adv EXCEPT ![w] = 0]

(* The worker goes on to the next call and keeps its claim.                *)
Goto(w, call) ==
    /\ pc' = [pc EXCEPT ![w] = call]
    /\ UNCHANGED <<inFlight, blk, last, adv>>

(* Mutant of Claim: the check for a block already in flight is dropped.    *)
ClaimUnchecked(w, b) ==
    /\ inFlight' = inFlight \cup {b}
    /\ pc' = [pc EXCEPT ![w] = "check"]
    /\ blk' = [blk EXCEPT ![w] = b]
    /\ UNCHANGED <<last, adv>>

(* A block somebody holds is dropped; any other is claimed.                *)
Claim(w, b) ==
    \/ b \in inFlight /\ UNCHANGED workerVars
    \/ /\ b \notin inFlight
       /\ inFlight' = inFlight \cup {b}
       /\ pc' = [pc EXCEPT ![w] = "check"]
       /\ blk' = [blk EXCEPT ![w] = b]
       /\ UNCHANGED <<last, adv>>

Dequeue(w) ==
    /\ pc[w] = "idle"
    /\ \/ /\ w \in RealtimeWorkers
          /\ rtq # <<>>
          /\ Claim(w, Head(rtq))
          /\ rtq' = Tail(rtq)
          /\ UNCHANGED cuq
       \/ /\ w \in CatchupWorkers
          /\ cuq # <<>>
          /\ Claim(w, Head(cuq))
          /\ cuq' = Tail(cuq)
          /\ UNCHANGED rtq
    /\ UNCHANGED <<chainVars, hwm, processed, ghostVars, timers, feederVars,
                   faults, restarts>>

(* Mutant of CheckProcessed: the answer of IsBlockProcessed is ignored.    *)
CheckProcessedIgnored(w) ==
    /\ pc[w] = "check"
    /\ Goto(w, "height")
    /\ UNCHANGED <<chainVars, hwm, processed, ghostVars, queueVars,
                   feederVars, faults, restarts>>

(* Mutant of CheckProcessed: a marked block is dropped without advancing   *)
(* the high-water mark.                                                    *)
CheckProcessedNoAdvance(w) ==
    /\ pc[w] = "check"
    /\ \/ Fault("redis") /\ Finish(w)
       \/ blk[w] \in processed /\ Finish(w) /\ UNCHANGED faults
       \/ blk[w] \notin processed /\ Goto(w, "height") /\ UNCHANGED faults
    /\ UNCHANGED <<chainVars, hwm, processed, ghostVars, queueVars,
                   feederVars, restarts>>

(* IsBlockProcessed.  A marked block is released at once and the worker    *)
(* only advances the high-water mark.                                      *)
CheckProcessed(w) ==
    /\ pc[w] = "check"
    /\ \/ Fault("redis") /\ Finish(w)
       \/ /\ blk[w] \in processed
          /\ inFlight' = inFlight \ {blk[w]}
          /\ pc' = [pc EXCEPT ![w] = "advRead"]
          /\ blk' = [blk EXCEPT ![w] = 0]
          /\ UNCHANGED <<last, adv, faults>>
       \/ blk[w] \notin processed /\ Goto(w, "height") /\ UNCHANGED faults
    /\ UNCHANGED <<chainVars, hwm, processed, ghostVars, queueVars,
                   feederVars, restarts>>

(* Mutant of EnoughConfirmations: the block itself is counted as one.      *)
EnoughConfirmationsOffByOne(b, h) == h >= b /\ h - b + 1 >= Confirmations

EnoughConfirmations(b, h) == h >= b /\ h - b >= Confirmations

(* A block that is ahead of the tip or too young gets a requeue timer.  A  *)
(* worker whose request hangs stays there, with its claim.                 *)
CheckConfirmations(w) ==
    /\ pc[w] = "height"
    /\ \/ Fault("height") /\ Finish(w) /\ UNCHANGED timers
       \/ Fault("hang") /\ Goto(w, "hung") /\ UNCHANGED timers
       \/ \E h \in 0..tip :
             /\ HeightIs(h)
             /\ EnoughConfirmations(blk[w], h)
             /\ Goto(w, "scan")
             /\ UNCHANGED timers
       \/ \E h \in 0..tip :
             /\ HeightIs(h)
             /\ ~EnoughConfirmations(blk[w], h)
             /\ timers[blk[w]] < MaxTimers
             /\ timers' = [timers EXCEPT ![blk[w]] = @ + 1]
             /\ Finish(w)
    /\ UNCHANGED <<chainVars, hwm, processed, ghostVars, rtq, cuq,
                   feederVars, restarts>>

(* ProcessBlock: complete, or an error, or (false, nil), or it hangs.      *)
ScanBlock(w) ==
    /\ pc[w] = "scan"
    /\ \/ Fault("scan") /\ Finish(w) /\ UNCHANGED done
       \/ Fault("hang") /\ Goto(w, "hung") /\ UNCHANGED done
       \/ done' = done \cup {blk[w]} /\ Goto(w, "mark") /\ UNCHANGED faults
    /\ UNCHANGED <<chainVars, hwm, processed, base, started, queueVars,
                   feederVars, restarts>>

(* MarkBlockProcessed: SETBIT fails, or EXPIRE fails after it, or both are *)
(* done and the worker advances.                                           *)
MarkBlock(w) ==
    /\ pc[w] = "mark"
    /\ \/ Fault("redis") /\ Finish(w) /\ UNCHANGED processed
       \/ Fault("redis") /\ Finish(w) /\ processed' = processed \cup {blk[w]}
       \/ /\ processed' = processed \cup {blk[w]}
          /\ Goto(w, "advRead")
          /\ UNCHANGED faults
    /\ UNCHANGED <<chainVars, hwm, ghostVars, queueVars, feederVars, restarts>>

-----------------------------------------------------------------------------
(* AdvanceHighWaterMark, with the SetLastProcessedBlock it ends in.        *)

(* Mutant of AdvanceRead: the walk starts at the worker's own block        *)
(* instead of at the persisted mark.                                       *)
AdvanceReadOwnBlock(w) ==
    /\ pc[w] = "advRead"
    /\ last' = [last EXCEPT ![w] = hwm]
    /\ adv' = [adv EXCEPT ![w] = IF blk[w] > hwm THEN blk[w] ELSE hwm]
    /\ pc' = [pc EXCEPT ![w] = "advScan"]
    /\ UNCHANGED <<inFlight, blk, faults>>
    /\ UNCHANGED <<chainVars, hwm, processed, ghostVars, queueVars,
                   feederVars, restarts>>

AdvanceRead(w) ==
    /\ pc[w] = "advRead"
    /\ \/ Fault("redis") /\ Finish(w)
       \/ /\ last' = [last EXCEPT ![w] = hwm]
          /\ adv' = [adv EXCEPT ![w] = hwm]
          /\ pc' = [pc EXCEPT ![w] = "advScan"]
          /\ UNCHANGED <<inFlight, blk, faults>>
    /\ UNCHANGED <<chainVars, hwm, processed, ghostVars, queueVars,
                   feederVars, restarts>>

(* One GETBIT: the walk ends at the first bit that is not set, or when it  *)
(* has become too long.                                                    *)
AdvanceScan(w) ==
    /\ pc[w] = "advScan"
    /\ \/ Fault("redis") /\ Finish(w)
       \/ /\ adv[w] + 1 \in processed
          /\ adv' = [adv EXCEPT ![w] = @ + 1]
          /\ pc' = [pc EXCEPT ![w] = IF adv'[w] - last[w] > MaxAdvance
                                     THEN "advCmp" ELSE "advScan"]
          /\ UNCHANGED <<inFlight, blk, last, faults>>
       \/ /\ adv[w] + 1 \notin processed
          /\ adv[w] > last[w]
          /\ Goto(w, "advCmp")
          /\ UNCHANGED faults
       \/ /\ adv[w] + 1 \notin processed
          /\ adv[w] <= last[w]
          /\ Finish(w)
          /\ UNCHANGED faults
    /\ UNCHANGED <<chainVars, hwm, processed, ghostVars, queueVars,
                   feederVars, restarts>>

(* SetLastProcessedBlock reads the mark again, and only then writes.       *)
AdvanceCompare(w) ==
    /\ pc[w] = "advCmp"
    /\ \/ Fault("redis") /\ Finish(w)
       \/ adv[w] < hwm /\ Finish(w) /\ UNCHANGED faults
       \/ adv[w] >= hwm /\ Goto(w, "advWrite") /\ UNCHANGED faults
    /\ UNCHANGED <<chainVars, hwm, processed, ghostVars, queueVars,
                   feederVars, restarts>>

AdvanceWrite(w) ==
    /\ pc[w] = "advWrite"
    /\ Finish(w)
    /\ \/ Fault("redis") /\ UNCHANGED hwm
       \/ hwm' = adv[w] /\ UNCHANGED faults
    /\ UNCHANGED <<chainVars, processed, ghostVars, queueVars, feederVars,
                   restarts>>

-----------------------------------------------------------------------------
(* Feeders: blockSubscriptionLoop with performPolling, and                 *)
(* performInitialCatchup.  Both read the height, normalise the high-water  *)
(* mark against it and hand a range of blocks to enqueueJob.               *)

(* The polling pass, or the whole catchup, is over.                        *)
Stop(f) ==
    /\ fpc' = [fpc EXCEPT ![f] = IF f = "poll" THEN "idle" ELSE "done"]
    /\ flast' = [flast EXCEPT ![f] = 0]
    /\ fheight' = [fheight EXCEPT ![f] = 0]

(* Mutant of SendRange: the loop runs one block too far.                   *)
SendRangeTooFar(f, lo, hi) ==
    \/ lo > hi /\ Stop(f)
    \/ /\ lo <= hi
       /\ fpc' = [fpc EXCEPT ![f] = "send"]
       /\ flast' = [flast EXCEPT ![f] = lo]
       /\ fheight' = [fheight EXCEPT ![f] = hi]

(* Blocks lo+1 .. hi are to be enqueued, one after the other.              *)
SendRange(f, lo, hi) ==
    \/ lo >= hi /\ Stop(f)
    \/ /\ lo < hi
       /\ fpc' = [fpc EXCEPT ![f] = "send"]
       /\ flast' = [flast EXCEPT ![f] = lo]
       /\ fheight' = [fheight EXCEPT ![f] = hi]

(* A tick of the polling ticker, or the start of the catchup.              *)
ReadHeight(f) ==
    /\ fpc[f] = "idle"
    /\ \/ Fault("height") /\ Stop(f)
       \/ /\ Fault("hang")
          /\ fpc' = [fpc EXCEPT ![f] = "hung"]
          /\ UNCHANGED <<flast, fheight>>
       \/ \E h \in 0..tip :
             /\ HeightIs(h)
             /\ fpc' = [fpc EXCEPT ![f] = "last"]
             /\ fheight' = [fheight EXCEPT ![f] = h]
             /\ UNCHANGED flast
    /\ UNCHANGED <<chainVars, hwm, processed, ghostVars, queueVars,
                   workerVars, restarts>>

(* What performPolling does with the normalised lastProcessed.             *)
PollFrom(l) ==
    LET h == fheight["poll"] IN
    \/ l = 0 /\ h = 0 /\ Stop("poll")
    \/ (l # 0 \/ h # 0) /\ SendRange("poll", l, SafeHead(h))

(* What performInitialCatchup does with it: 0 means a first run.           *)
CatchupFrom(l) ==
    LET h == fheight["catchup"] IN
    \/ /\ l = 0
       /\ fpc' = [fpc EXCEPT !["catchup"] = "init"]
       /\ flast' = [flast EXCEPT !["catchup"] = 0]
       /\ UNCHANGED fheight
    \/ l # 0 /\ h - l <= NearlyUpToDate /\ Stop("catchup")
    \/ l # 0 /\ h - l > NearlyUpToDate /\ SendRange("catchup", l, SafeHead(h))

Plan(f, l) ==
    \/ f = "poll" /\ PollFrom(l)
    \/ f = "catchup" /\ CatchupFrom(l)

(* normalizeLastProcessed: a mark ahead of the safe head (of the height,   *)
(* on a chain no longer than the confirmations) is to be reset to it.      *)
NeedsReset(l, h) == l > SafeHead(h)

ReadLast(f) ==
    /\ fpc[f] = "last"
    /\ \/ Fault("hwmRead") /\ Plan(f, 0)
       \/ /\ NeedsReset(hwm, fheight[f])
          /\ fpc' = [fpc EXCEPT ![f] = "reset"]
          /\ flast' = [flast EXCEPT ![f] = hwm]
          /\ UNCHANGED <<fheight, faults>>
       \/ /\ ~NeedsReset(hwm, fheight[f])
          /\ Plan(f, hwm)
          /\ UNCHANGED faults
    /\ UNCHANGED <<chainVars, hwm, processed, ghostVars, queueVars,
                   workerVars, restarts>>

(* ForceSetLastProcessedBlock.                                             *)
ResetLast(f) ==
    LET to == SafeHead(fheight[f]) IN
    /\ fpc[f] = "reset"
    /\ \/ Fault("redis") /\ Plan(f, flast[f]) /\ UNCHANGED hwm
       \/ hwm' = to /\ Plan(f, to) /\ UNCHANGED faults
    /\ UNCHANGED <<chainVars, processed, ghostVars, queueVars, workerVars,
                   restarts>>

(* The first run's SetLastProcessedBlock: read, compare, write; the        *)
(* catchup then finds itself up to date.                                   *)
InitialRead ==
    /\ fpc["catchup"] = "init"
    /\ \/ Fault("redis") /\ Stop("catchup")
       \/ fheight["catchup"] < hwm /\ Stop("catchup") /\ UNCHANGED faults
       \/ /\ fheight["catchup"] >= hwm
          /\ fpc' = [fpc EXCEPT !["catchup"] = "initSet"]
          /\ UNCHANGED <<flast, fheight, faults>>
    /\ UNCHANGED <<chainVars, hwm, processed, ghostVars, queueVars,
                   workerVars, restarts>>

InitialWrite ==
    /\ fpc["catchup"] = "initSet"
    /\ Stop("catchup")
    /\ \/ Fault("redis") /\ UNCHANGED <<hwm, base, started>>
       \/ /\ hwm' = fheight["catchup"]
          /\ base' = IF started THEN base ELSE fheight["catchup"]
          /\ started' = TRUE
          /\ UNCHANGED faults
    /\ UNCHANGED <<chainVars, processed, done, queueVars, workerVars, restarts>>

(* The subscription loop takes a new head and enqueues that one block.     *)
ReceiveHead(b) ==
    /\ fpc["poll"] = "idle"
    /\ b \in heads
    /\ heads' = heads \ {b}
    /\ SendRange("poll", b - 1, b)
    /\ UNCHANGED <<tip, hwm, processed, ghostVars, queueVars, workerVars,
                   faults, restarts>>

(* enqueueJob: the channel has room.                                       *)
Enqueue(f) ==
    LET b == flast[f] + 1 IN
    /\ fpc[f] = "send"
    /\ \/ /\ f = "poll"
          /\ Len(rtq) < RealtimeQueueCap
          /\ rtq' = Append(rtq, b)
          /\ UNCHANGED cuq
       \/ /\ f = "catchup"
          /\ Len(cuq) < CatchupQueueCap
          /\ cuq' = Append(cuq, b)
          /\ UNCHANGED rtq
    /\ SendRange(f, b, fheight[f])
    /\ UNCHANGED <<chainVars, hwm, processed, ghostVars, timers, workerVars,
                   faults, restarts>>

(* enqueueJob: the channel stayed full for two seconds, and the rest of    *)
(* the range is given up.                                                  *)
EnqueueTimeout(f) ==
    /\ fpc[f] = "send"
    /\ \/ f = "poll" /\ Len(rtq) = RealtimeQueueCap
       \/ f = "catchup" /\ Len(cuq) = CatchupQueueCap
    /\ Stop(f)
    /\ UNCHANGED <<chainVars, hwm, processed, ghostVars, queueVars,
                   workerVars, faults, restarts>>

(* The AfterFunc of requeueBlock: never blocks, drops on a full channel.   *)
TimerFires(b) ==
    /\ timers[b] > 0
    /\ timers' = [timers EXCEPT ![b] = @ - 1]
    /\ \/ Len(rtq) < RealtimeQueueCap /\ rtq' = Append(rtq, b)
       \/ Len(rtq) = RealtimeQueueCap /\ UNCHANGED rtq
    /\ UNCHANGED <<chainVars, hwm, processed, ghostVars, cuq, workerVars,
                   feederVars, faults, restarts>>

-----------------------------------------------------------------------------
(* The chain, Redis' clock and the process.                                *)

(* A new block; the subscription announces it, or misses it.               *)
NewBlock ==
    /\ tip < MaxHeight
    /\ tip' = tip + 1
    /\ heads' \in {heads, heads \cup {tip + 1}}
    /\ UNCHANGED <<hwm, processed, ghostVars, queueVars, workerVars,
                   feederVars, faults, restarts>>

(* The key of bitmap window n is gone, 30 days after its last mark.        *)
WindowExpires(n) ==
    /\ Fault("expire")
    /\ processed' = {b \in processed : b \div WindowSize # n}
    /\ UNCHANGED <<chainVars, hwm, ghostVars, queueVars, workerVars,
                   feederVars, restarts>>

(* The process dies between any two calls and is started again: only the   *)
(* chain and Redis survive.                                                *)
Restart ==
    /\ restarts < MaxRestarts
    /\ restarts' = restarts + 1
    /\ heads' = {}
    /\ rtq' = <<>>
    /\ cuq' = <<>>
    /\ timers' = [b \in Blocks |-> 0]
    /\ inFlight' = {}
    /\ pc' = [w \in Workers |-> "idle"]
    /\ blk' = [w \in Workers |-> 0]
    /\ last' = [w \in Workers |-> 0]
    /\ adv' = [w \in Workers |-> 0]
    /\ fpc' = [f \in Feeders |-> "idle"]
    /\ flast' = [f \in Feeders |-> 0]
    /\ fheight' = [f \in Feeders |-> 0]
    /\ UNCHANGED <<tip, hwm, processed, ghostVars, faults>>

WorkerStep(w) ==
    \/ Dequeue(w)
    \/ CheckProcessed(w)
    \/ CheckConfirmations(w)
    \/ ScanBlock(w)
    \/ MarkBlock(w)
    \/ AdvanceRead(w)
    \/ AdvanceScan(w)
    \/ AdvanceCompare(w)
    \/ AdvanceWrite(w)

FeederStep(f) ==
    \/ ReadHeight(f)
    \/ ReadLast(f)
    \/ ResetLast(f)
    \/ Enqueue(f)
    \/ EnqueueTimeout(f)

Next ==
    \/ \E w \in Workers : WorkerStep(w)
    \/ \E f \in Feeders : FeederStep(f)
    \/ InitialRead
    \/ InitialWrite
    \/ \E b \in Blocks : ReceiveHead(b) \/ TimerFires(b)
    \/ NewBlock
    \/ \E n \in 0..(MaxHeight \div WindowSize) : WindowExpires(n)
    \/ Restart

Spec == Init /\ [][Next]_vars

(* Every goroutine that can run does run: the ticker fires, workers return *)
(* from their calls unless one hangs, some timer that is due fires.        *)
(* Nothing is assumed of the chain, of the subscription, of restarts or of *)
(* failures, except that the last two are finitely many.                   *)
Fairness ==
    /\ \A w \in Workers : WF_vars(WorkerStep(w))
    /\ WF_vars(FeederStep("poll"))
    /\ WF_vars(FeederStep("catchup") \/ InitialRead \/ InitialWrite)
    /\ WF_vars(\E b \in Blocks : TimerFires(b))

FairSpec == Spec /\ Fairness

-----------------------------------------------------------------------------
(* Properties.                                                             *)

(* Every variable holds a value of its Go type; a claimed block is a real  *)
(* block and a sending feeder has a non-empty range.                       *)
TypeOK ==
    /\ tip \in Blocks
    /\ heads \subseteq Blocks
    /\ hwm \in Heights
    /\ processed \subseteq Blocks
    /\ base \in Heights
    /\ started \in BOOLEAN
    /\ done \subseteq Blocks
    /\ rtq \in Seq(Blocks)
    /\ cuq \in Seq(Blocks)
    /\ timers \in [Blocks -> Nat]
    /\ inFlight \subseteq Blocks
    /\ pc \in [Workers -> WorkerPCs]
    /\ blk \in [Workers -> Heights]
    /\ last \in [Workers -> Heights]
    /\ adv \in [Workers -> Heights]
    /\ fpc \in [Feeders -> FeederPCs]
    /\ flast \in [Feeders -> Heights]
    /\ fheight \in [Feeders -> Heights]
    /\ faults \in Nat
    /\ restarts \in Nat
    /\ \A w \in Workers : pc[w] \in ClaimingPCs => blk[w] \in Blocks
    /\ \A f \in Feeders : fpc[f] = "send" => flast[f] < fheight[f]

(* The blocks up to v have all been scanned, from the first run's mark on. *)
GapFree(v) == \A b \in Blocks : base < b /\ b <= v => b \in done

(* The high-water mark never covers a block that was not scanned, whatever *)
(* the order in which workers complete, fail or crash: a restart resumes   *)
(* from it and would never look at that block again                        *)
(* (AdvanceHighWaterMark, normalizeLastProcessed).                         *)
NoGap == GapFree(hwm)

(* inFlightBlocks is exactly the set of blocks the workers still have to   *)
(* release, and no two workers hold the same one: no claim leaks on any    *)
(* return path of processBlockJob, and none is released twice.             *)
ExclusiveClaims ==
    /\ inFlight = {blk[w] : w \in Workers} \ {0}
    /\ \A v, w \in Workers : blk[v] = blk[w] /\ blk[v] # 0 => v = w

(* A worker on its way to ProcessBlock works on a block whose bit is not   *)
(* set: what another worker marked since the block was enqueued, or since  *)
(* IsBlockProcessed was asked, is not scanned and published again.         *)
ScansUnmarked ==
    \A w \in Workers :
        pc[w] \in {"height", "scan", "mark"} => blk[w] \notin processed

(* Only blocks that have their confirmations on the real chain are scanned *)
(* and marked, however old the heights were that the providers answered to *)
(* the feeder that enqueued the block and to the worker that took it.      *)
ConfirmedOnly == \A b \in done \cup processed : b + Confirmations <= tip

(* A worker waits for an answer to a request about block b that never      *)
(* comes.                                                                  *)
HungOn(b) == \E w \in Workers : pc[w] = "hung" /\ blk[w] = b

Hung == (\E b \in Blocks : HungOn(b)) \/ (\E f \in Feeders : fpc[f] = "hung")

(* No confirmed block above the mark the process found is lost: the mark   *)
(* reaches it, unless the first run placed its starting point above it,    *)
(* through finitely many crashes, lost heads, full queues and failed calls *)
(* (polling restarts from the persisted mark; an already marked block      *)
(* still advances it).  The exception is a request that is never answered. *)
CatchesUp ==
    \A b \in (InitialMark + 1)..MaxHeight :
        (b + Confirmations <= tip ~> (hwm >= b \/ b <= base)) \/ <>[]Hung

(* Every claim is released: no failure leaves a block that later jobs skip *)
(* as already in flight, but a request about it that is never answered.    *)
ClaimsReleased ==
    \A b \in Blocks : (b \in inFlight ~> b \notin inFlight) \/ <>[]HungOn(b)

(* The tracker implements the ledger: seen through the chain, the scanned  *)
(* blocks and the mark, every step of every goroutine is a ledger step.    *)
Ledger == INSTANCE ProgressLedger

ImplementsLedger == Ledger!LedgerSpec

-----------------------------------------------------------------------------
(* The inductive invariant behind the properties above.                    *)

(* Claims, one worker at a time.                                           *)
ClaimInv ==
    /\ \A w \in Workers : blk[w] # 0 => blk[w] \in inFlight
    /\ \A b \in inFlight : \E w \in Workers : blk[w] = b
    /\ \A v, w \in Workers : blk[v] = blk[w] /\ blk[v] # 0 => v = w
    /\ \A w \in Workers : pc[w] = "idle" => blk[w] = 0

(* From the confirmations check to the mark.                               *)
ConfirmInv ==
    /\ \A b \in done : b + Confirmations <= tip
    /\ \A w \in Workers : pc[w] = "scan" => blk[w] + Confirmations <= tip
    /\ \A w \in Workers : pc[w] = "mark" => blk[w] \in done
    /\ processed \subseteq done

(* The mark itself.                                                        *)
StoredMarkInv ==
    /\ GapFree(hwm)
    /\ started => hwm > 0
    /\ ~started => base = 0

(* What AdvanceHighWaterMark has read and may still write is free of gaps. *)
WorkerMarkInv ==
    \A w \in Workers :
        /\ GapFree(adv[w])
        /\ pc[w] \in {"advCmp", "advWrite"} => adv[w] > last[w]

(* So is what normalizeLastProcessed may reset the mark to, and a first    *)
(* run is under way only while there has been none.                        *)
FeederMarkInv ==
    /\ \A f \in Feeders : fpc[f] = "reset" =>
          SafeHead(fheight[f]) < flast[f] /\ GapFree(flast[f])
    /\ \A f \in Feeders : fpc[f] \in {"last", "reset", "init", "initSet"} =>
          0 < fheight[f] /\ fheight[f] <= tip
    /\ fpc["catchup"] \in {"init", "initSet"} => ~started

MarkInv == StoredMarkInv /\ WorkerMarkInv /\ FeederMarkInv

(* The conjunction the proofs carry through every step: claims, scans,     *)
(* confirmations and the mark of the code, with what is still in flight.   *)
IndInv == ClaimInv /\ ScansUnmarked /\ ConfirmInv /\ MarkInv

(* Neither failure after which normalizeLastProcessed takes an existing    *)
(* mark for a first run.                                                   *)
NoFalseZero == "hwmRead" \notin Faults /\ "zero" \notin Faults
=============================================================================
