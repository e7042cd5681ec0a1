------------------------- MODULE BlockTrackerProofs -------------------------
(***************************************************************************)
(* Proofs about BlockTracker, for every number of workers, every queue     *)
(* capacity, every chain length and every number of failures and restarts. *)
(***************************************************************************)
EXTENDS BlockTracker, TLAPS

-----------------------------------------------------------------------------
(* Facts about the constants and the helpers.                              *)

(* The arithmetic of block numbers and of the safe head.                   *)
LEMMA HeightFacts ==
    /\ 0 \in Heights
    /\ \A b \in Blocks : b \in Heights /\ b - 1 \in Heights /\ b \in Nat /\ b > 0
    /\ \A h \in Heights : h \in Nat /\ SafeHead(h) \in Heights /\ SafeHead(h) <= h
    /\ \A h \in Heights : h > 0 => SafeHead(h) > 0
    /\ \A t \in Blocks : \A h \in 0..t : h \in Heights
    /\ \A h \in Heights, k \in Heights : h < k => h + 1 \in Blocks
BY BoundsAssumption DEF Blocks, Heights, SafeHead

(* A queue of blocks stays one when a block is appended.                   *)
LEMMA AppendType ==
    ASSUME NEW S, NEW q \in Seq(S), NEW e \in S
    PROVE  Append(q, e) \in Seq(S)
OBVIOUS

(* What a worker's return leaves well typed.                               *)
LEMMA FinishType ==
    ASSUME TypeOK, NEW w \in Workers, Finish(w)
    PROVE  /\ inFlight' \subseteq Blocks
           /\ pc' \in [Workers -> WorkerPCs]
           /\ blk' \in [Workers -> Heights]
           /\ last' \in [Workers -> Heights]
           /\ adv' \in [Workers -> Heights]
           /\ \A v \in Workers : pc'[v] \in ClaimingPCs => blk'[v] \in Blocks
BY HeightFacts DEF TypeOK, Finish, WorkerPCs, ClaimingPCs

(* What a worker's next call leaves well typed.                            *)
LEMMA GotoType ==
    ASSUME TypeOK, NEW w \in Workers, NEW call \in WorkerPCs, Goto(w, call),
           call \in ClaimingPCs => blk[w] \in Blocks
    PROVE  /\ inFlight' \subseteq Blocks
           /\ pc' \in [Workers -> WorkerPCs]
           /\ blk' \in [Workers -> Heights]
           /\ last' \in [Workers -> Heights]
           /\ adv' \in [Workers -> Heights]
           /\ \A v \in Workers : pc'[v] \in ClaimingPCs => blk'[v] \in Blocks
BY HeightFacts DEF TypeOK, Goto

(* What a claim leaves well typed.                                         *)
LEMMA ClaimType ==
    ASSUME TypeOK, NEW w \in Workers, NEW b \in Blocks, Claim(w, b)
    PROVE  /\ inFlight' \subseteq Blocks
           /\ pc' \in [Workers -> WorkerPCs]
           /\ blk' \in [Workers -> Heights]
           /\ last' \in [Workers -> Heights]
           /\ adv' \in [Workers -> Heights]
           /\ \A v \in Workers : pc'[v] \in ClaimingPCs => blk'[v] \in Blocks
BY HeightFacts DEF TypeOK, Claim, workerVars, WorkerPCs

(* What the end of a feeder's pass leaves well typed.                      *)
LEMMA StopType ==
    ASSUME TypeOK, NEW f \in Feeders, Stop(f)
    PROVE  /\ fpc' \in [Feeders -> FeederPCs]
           /\ flast' \in [Feeders -> Heights]
           /\ fheight' \in [Feeders -> Heights]
           /\ \A g \in Feeders : fpc'[g] = "send" => flast'[g] < fheight'[g]
BY HeightFacts DEF TypeOK, Stop, FeederPCs

(* What the start of a range leaves well typed.                            *)
LEMMA SendRangeType ==
    ASSUME TypeOK, NEW f \in Feeders, NEW lo \in Heights, NEW hi \in Heights,
           SendRange(f, lo, hi)
    PROVE  /\ fpc' \in [Feeders -> FeederPCs]
           /\ flast' \in [Feeders -> Heights]
           /\ fheight' \in [Feeders -> Heights]
           /\ \A g \in Feeders : fpc'[g] = "send" => flast'[g] < fheight'[g]
BY StopType, HeightFacts DEF TypeOK, SendRange, FeederPCs

(* What the use of the normalised mark leaves well typed.                  *)
LEMMA PlanType ==
    ASSUME TypeOK, NEW f \in Feeders, NEW l \in Heights, Plan(f, l)
    PROVE  /\ fpc' \in [Feeders -> FeederPCs]
           /\ flast' \in [Feeders -> Heights]
           /\ fheight' \in [Feeders -> Heights]
           /\ \A g \in Feeders : fpc'[g] = "send" => flast'[g] < fheight'[g]
<1>1. "poll" \in Feeders /\ "catchup" \in Feeders
  BY DEF Feeders
<1>2. \A g \in Feeders : SafeHead(fheight[g]) \in Heights
  BY HeightFacts DEF TypeOK
<1>3. CASE f = "poll" /\ PollFrom(l)
  BY <1>1, <1>2, <1>3, StopType, SendRangeType DEF PollFrom
<1>4. CASE f = "catchup" /\ CatchupFrom(l)
  <2>1. CASE l = 0
    <3>1. /\ fpc' = [fpc EXCEPT !["catchup"] = "init"]
          /\ flast' = [flast EXCEPT !["catchup"] = 0]
          /\ UNCHANGED fheight
      BY <1>4, <2>1 DEF CatchupFrom
    <3>2. QED BY <1>1, <3>1, HeightFacts DEF TypeOK, FeederPCs
  <2>2. CASE l # 0
    BY <1>1, <1>2, <1>4, <2>2, StopType, SendRangeType DEF CatchupFrom
  <2>3. QED BY <2>1, <2>2
<1>5. QED BY <1>3, <1>4 DEF Plan

-----------------------------------------------------------------------------
(* Type correctness.                                                       *)

(* The initial state is well typed.                                        *)
LEMMA TypeInit == Init => TypeOK
<1> SUFFICES ASSUME Init PROVE TypeOK
  OBVIOUS
<1>1. /\ tip \in Blocks /\ hwm \in Heights /\ base \in Heights
      /\ started \in BOOLEAN /\ faults \in Nat /\ restarts \in Nat
  BY HeightFacts, BoundsAssumption DEF Init, Blocks
<1>2. /\ heads \subseteq Blocks /\ processed \subseteq Blocks
      /\ done \subseteq Blocks /\ inFlight \subseteq Blocks
      /\ rtq \in Seq(Blocks) /\ cuq \in Seq(Blocks)
      /\ timers \in [Blocks -> Nat]
  BY DEF Init
<1>3. /\ pc \in [Workers -> WorkerPCs]
      /\ blk \in [Workers -> Heights]
      /\ last \in [Workers -> Heights]
      /\ adv \in [Workers -> Heights]
      /\ \A w \in Workers : pc[w] \in ClaimingPCs => blk[w] \in Blocks
  BY HeightFacts DEF Init, WorkerPCs, ClaimingPCs
<1>4. /\ fpc \in [Feeders -> FeederPCs]
      /\ flast \in [Feeders -> Heights]
      /\ fheight \in [Feeders -> Heights]
      /\ \A f \in Feeders : fpc[f] = "send" => flast[f] < fheight[f]
  BY HeightFacts DEF Init, FeederPCs
<1>5. QED BY <1>1, <1>2, <1>3, <1>4 DEF TypeOK

(* Every step of every worker keeps the types.                             *)
LEMMA TypeWorkerStep ==
    ASSUME TypeOK, NEW w \in Workers, WorkerStep(w)
    PROVE  TypeOK'
<1> USE DEF chainVars, ghostVars, queueVars, feederVars
<1>1. CASE Dequeue(w)
  <2>1. rtq # <<>> => Head(rtq) \in Blocks /\ Tail(rtq) \in Seq(Blocks)
    BY DEF TypeOK
  <2>2. cuq # <<>> => Head(cuq) \in Blocks /\ Tail(cuq) \in Seq(Blocks)
    BY DEF TypeOK
  <2>3. QED BY <1>1, <2>1, <2>2, ClaimType DEF Dequeue, TypeOK
<1>2. CASE CheckProcessed(w)
  <2>1. CASE Fault("redis") /\ Finish(w)
    BY <1>2, <2>1, FinishType DEF CheckProcessed, Fault, TypeOK
  <2>2. CASE blk[w] \notin processed /\ Goto(w, "height") /\ UNCHANGED faults
    BY <1>2, <2>2, GotoType DEF CheckProcessed, TypeOK, WorkerPCs, ClaimingPCs
  <2>3. CASE /\ inFlight' = inFlight \ {blk[w]}
             /\ pc' = [pc EXCEPT ![w] = "advRead"]
             /\ blk' = [blk EXCEPT ![w] = 0]
             /\ UNCHANGED <<last, adv, faults>>
    BY <1>2, <2>3, HeightFacts
       DEF CheckProcessed, TypeOK, WorkerPCs, ClaimingPCs
  <2>4. QED BY <1>2, <2>1, <2>2, <2>3 DEF CheckProcessed
<1>3. CASE CheckConfirmations(w)
  <2>1. blk[w] \in Blocks /\ faults' \in Nat
    BY <1>3 DEF CheckConfirmations, TypeOK, ClaimingPCs, HeightIs, Fault
  <2>2. timers' \in [Blocks -> Nat]
    BY <1>3, <2>1 DEF CheckConfirmations, TypeOK
  <2>3. Finish(w) \/ Goto(w, "scan") \/ Goto(w, "hung")
    BY <1>3 DEF CheckConfirmations
  <2>4. QED BY <1>3, <2>1, <2>2, <2>3, FinishType, GotoType
            DEF CheckConfirmations, TypeOK, WorkerPCs
<1>4. CASE ScanBlock(w)
  BY <1>4, FinishType, GotoType
     DEF ScanBlock, Fault, TypeOK, WorkerPCs, ClaimingPCs
<1>5. CASE MarkBlock(w)
  BY <1>5, FinishType, GotoType
     DEF MarkBlock, Fault, TypeOK, WorkerPCs, ClaimingPCs
<1>6. CASE AdvanceRead(w)
  <2>1. CASE Fault("redis") /\ Finish(w)
    BY <1>6, <2>1, FinishType DEF AdvanceRead, Fault, TypeOK
  <2>2. CASE /\ last' = [last EXCEPT ![w] = hwm]
             /\ adv' = [adv EXCEPT ![w] = hwm]
             /\ pc' = [pc EXCEPT ![w] = "advScan"]
             /\ UNCHANGED <<inFlight, blk, faults>>
    BY <1>6, <2>2 DEF AdvanceRead, TypeOK, WorkerPCs, ClaimingPCs
  <2>3. QED BY <1>6, <2>1, <2>2 DEF AdvanceRead
<1>7. CASE AdvanceScan(w)
  <2>1. CASE Fault("redis") /\ Finish(w)
    BY <1>7, <2>1, FinishType DEF AdvanceScan, Fault, TypeOK
  <2>2. CASE Finish(w) /\ UNCHANGED faults
    BY <1>7, <2>2, FinishType DEF AdvanceScan, TypeOK
  <2>3. CASE Goto(w, "advCmp") /\ UNCHANGED faults
    BY <1>7, <2>3, GotoType DEF AdvanceScan, TypeOK, WorkerPCs, ClaimingPCs
  <2>4. CASE /\ adv[w] + 1 \in processed
             /\ adv' = [adv EXCEPT ![w] = @ + 1]
             /\ pc' = [pc EXCEPT ![w] = IF adv'[w] - last[w] > MaxAdvance
                                        THEN "advCmp" ELSE "advScan"]
             /\ UNCHANGED <<inFlight, blk, last, faults>>
    BY <1>7, <2>4, HeightFacts
       DEF AdvanceScan, TypeOK, WorkerPCs, ClaimingPCs
  <2>5. QED BY <1>7, <2>1, <2>2, <2>3, <2>4 DEF AdvanceScan
<1>8. CASE AdvanceCompare(w)
  BY <1>8, FinishType, GotoType
     DEF AdvanceCompare, Fault, TypeOK, WorkerPCs, ClaimingPCs
<1>9. CASE AdvanceWrite(w)
  BY <1>9, FinishType DEF AdvanceWrite, Fault, TypeOK
<1>10. QED BY <1>1, <1>2, <1>3, <1>4, <1>5, <1>6, <1>7, <1>8, <1>9
           DEF WorkerStep

(* Every step of either feeder keeps the types.                            *)
LEMMA TypeFeederStep ==
    ASSUME TypeOK, NEW f \in Feeders, FeederStep(f)
    PROVE  TypeOK'
<1> USE DEF chainVars, ghostVars, queueVars, workerVars
<1>1. CASE ReadHeight(f)
  <2>1. CASE Fault("height") /\ Stop(f)
    BY <1>1, <2>1, StopType DEF ReadHeight, Fault, TypeOK
  <2>2. CASE \E h \in 0..tip : /\ HeightIs(h)
                               /\ fpc' = [fpc EXCEPT ![f] = "last"]
                               /\ fheight' = [fheight EXCEPT ![f] = h]
                               /\ UNCHANGED flast
    <3>1. faults' \in Nat
      BY <2>2 DEF HeightIs, Fault, TypeOK
    <3>2. fheight' \in [Feeders -> Heights]
      BY <2>2, HeightFacts DEF TypeOK
    <3>3. QED BY <1>1, <2>2, <3>1, <3>2 DEF ReadHeight, TypeOK, FeederPCs
  <2>3. CASE /\ Fault("hang")
             /\ fpc' = [fpc EXCEPT ![f] = "hung"]
             /\ UNCHANGED <<flast, fheight>>
    BY <1>1, <2>3 DEF ReadHeight, Fault, TypeOK, FeederPCs
  <2>4. QED BY <1>1, <2>1, <2>2, <2>3 DEF ReadHeight
<1>2. CASE ReadLast(f)
  <2>1. CASE Fault("hwmRead") /\ Plan(f, 0)
    <3>1. 0 \in Heights
      BY HeightFacts
    <3>2. /\ fpc' \in [Feeders -> FeederPCs]
          /\ flast' \in [Feeders -> Heights]
          /\ fheight' \in [Feeders -> Heights]
          /\ \A g \in Feeders : fpc'[g] = "send" => flast'[g] < fheight'[g]
      BY <2>1, <3>1, PlanType
    <3>3. faults' \in Nat
      BY <2>1 DEF Fault, TypeOK
    <3>4. QED BY <1>2, <3>2, <3>3 DEF ReadLast, TypeOK
  <2>2. CASE Plan(f, hwm) /\ UNCHANGED faults
    <3>1. hwm \in Heights
      BY DEF TypeOK
    <3>2. /\ fpc' \in [Feeders -> FeederPCs]
          /\ flast' \in [Feeders -> Heights]
          /\ fheight' \in [Feeders -> Heights]
          /\ \A g \in Feeders : fpc'[g] = "send" => flast'[g] < fheight'[g]
      BY <2>2, <3>1, PlanType
    <3>3. QED BY <1>2, <2>2, <3>2 DEF ReadLast, TypeOK
  <2>3. CASE /\ fpc' = [fpc EXCEPT ![f] = "reset"]
             /\ flast' = [flast EXCEPT ![f] = hwm]
             /\ UNCHANGED <<fheight, faults>>
    BY <1>2, <2>3 DEF ReadLast, TypeOK, FeederPCs
  <2>4. QED BY <1>2, <2>1, <2>2, <2>3 DEF ReadLast
<1>3. CASE ResetLast(f)
  <2>1. SafeHead(fheight[f]) \in Heights /\ flast[f] \in Heights
    BY HeightFacts DEF TypeOK
  <2>2. QED BY <1>3, <2>1, PlanType DEF ResetLast, Fault, TypeOK
<1>4. CASE Enqueue(f)
  <2>1. flast[f] + 1 \in Blocks
    BY <1>4, HeightFacts DEF Enqueue, TypeOK
  <2>2. rtq' \in Seq(Blocks) /\ cuq' \in Seq(Blocks)
    <3>1. /\ rtq' = Append(rtq, flast[f] + 1) \/ UNCHANGED rtq
          /\ cuq' = Append(cuq, flast[f] + 1) \/ UNCHANGED cuq
      BY <1>4 DEF Enqueue
    <3>2. rtq \in Seq(Blocks) /\ cuq \in Seq(Blocks)
      BY DEF TypeOK
    <3>3. /\ Append(rtq, flast[f] + 1) \in Seq(Blocks)
          /\ Append(cuq, flast[f] + 1) \in Seq(Blocks)
      BY <2>1, <3>2, AppendType
    <3>4. QED BY <3>1, <3>2, <3>3
  <2>3. QED BY <1>4, <2>1, <2>2, SendRangeType, HeightFacts DEF Enqueue, TypeOK
<1>5. CASE EnqueueTimeout(f)
  BY <1>5, StopType DEF EnqueueTimeout, TypeOK
<1>6. QED BY <1>1, <1>2, <1>3, <1>4, <1>5 DEF FeederStep

(* Every step of the tracker keeps the types.                              *)
LEMMA TypeNext == TypeOK /\ [Next]_vars => TypeOK'
<1> SUFFICES ASSUME TypeOK, [Next]_vars PROVE TypeOK'
  OBVIOUS
<1> USE DEF chainVars, ghostVars, queueVars, workerVars, feederVars
<1>0. "poll" \in Feeders /\ "catchup" \in Feeders
  BY DEF Feeders
<1>1. ASSUME NEW w \in Workers, WorkerStep(w) PROVE TypeOK'
  BY <1>1, TypeWorkerStep
<1>2. ASSUME NEW f \in Feeders, FeederStep(f) PROVE TypeOK'
  BY <1>2, TypeFeederStep
<1>3. CASE InitialRead
  <2>1. CASE Stop("catchup")
    BY <1>0, <1>3, <2>1, StopType DEF InitialRead, Fault, TypeOK
  <2>2. CASE /\ fpc' = [fpc EXCEPT !["catchup"] = "initSet"]
             /\ UNCHANGED <<flast, fheight, faults>>
    BY <1>0, <1>3, <2>2 DEF InitialRead, TypeOK, FeederPCs
  <2>3. QED BY <1>3, <2>1, <2>2 DEF InitialRead
<1>4. CASE InitialWrite
  <2>1. hwm' \in Heights /\ base' \in Heights /\ faults' \in Nat
    BY <1>0, <1>4 DEF InitialWrite, Fault, TypeOK
  <2>2. started' \in BOOLEAN
    BY <1>4 DEF InitialWrite, TypeOK
  <2>3. QED BY <1>0, <1>4, <2>1, <2>2, StopType DEF InitialWrite, TypeOK
<1>5. ASSUME NEW b \in Blocks, ReceiveHead(b) PROVE TypeOK'
  BY <1>0, <1>5, SendRangeType, HeightFacts DEF ReceiveHead, TypeOK
<1>6. ASSUME NEW b \in Blocks, TimerFires(b) PROVE TypeOK'
  <2>1. rtq' \in Seq(Blocks)
    <3>1. rtq' = Append(rtq, b) \/ rtq' = rtq
      BY <1>6 DEF TimerFires
    <3>2. rtq \in Seq(Blocks)
      BY DEF TypeOK
    <3>3. Append(rtq, b) \in Seq(Blocks)
      BY <3>2, AppendType
    <3>4. QED BY <3>1, <3>2, <3>3
  <2>2. timers' \in [Blocks -> Nat]
    <3>1. timers[b] - 1 \in Nat
      BY <1>6 DEF TimerFires, TypeOK
    <3>2. QED BY <1>6, <3>1 DEF TimerFires, TypeOK
  <2>3. QED BY <1>6, <2>1, <2>2 DEF TimerFires, TypeOK
<1>7. CASE NewBlock
  <2>1. tip' \in Blocks
    BY <1>7, BoundsAssumption DEF NewBlock, TypeOK, Blocks
  <2>2. QED BY <1>7, <2>1 DEF NewBlock, TypeOK
<1>8. ASSUME NEW n \in 0..(MaxHeight \div WindowSize), WindowExpires(n)
      PROVE  TypeOK'
  BY <1>8 DEF WindowExpires, Fault, TypeOK
<1>9. CASE Restart
  <2>1. /\ pc' \in [Workers -> WorkerPCs]
        /\ blk' \in [Workers -> Heights]
        /\ last' \in [Workers -> Heights]
        /\ adv' \in [Workers -> Heights]
        /\ \A w \in Workers : pc'[w] \in ClaimingPCs => blk'[w] \in Blocks
    BY <1>9, HeightFacts DEF Restart, WorkerPCs, ClaimingPCs
  <2>2. /\ fpc' \in [Feeders -> FeederPCs]
        /\ flast' \in [Feeders -> Heights]
        /\ fheight' \in [Feeders -> Heights]
        /\ \A f \in Feeders : fpc'[f] = "send" => flast'[f] < fheight'[f]
    BY <1>9, HeightFacts DEF Restart, FeederPCs
  <2>3. QED BY <1>9, <2>1, <2>2 DEF Restart, TypeOK
<1>10. CASE UNCHANGED vars
  BY <1>10 DEF vars, TypeOK
<1>11. QED BY <1>1, <1>2, <1>3, <1>4, <1>5, <1>6, <1>7, <1>8, <1>9, <1>10
           DEF Next

(* Block numbers, queues, claims and registers keep their types, in every  *)
(* reachable state of a tracker of any size.                               *)
THEOREM TypeCorrect == Spec => []TypeOK
<1>1. QED BY TypeInit, TypeNext, PTL DEF Spec

-----------------------------------------------------------------------------
(* A step that leaves the workers alone is a step of somebody else.        *)
LEMMA OtherSteps ==
    ASSUME Next, ~ \E w \in Workers : WorkerStep(w)
    PROVE  Restart \/ UNCHANGED workerVars
<1>1. ASSUME NEW f \in Feeders, FeederStep(f) PROVE UNCHANGED workerVars
  BY <1>1 DEF FeederStep, ReadHeight, ReadLast, ResetLast, Enqueue,
              EnqueueTimeout
<1>2. CASE InitialRead \/ InitialWrite
  BY <1>2 DEF InitialRead, InitialWrite
<1>3. ASSUME NEW b \in Blocks, ReceiveHead(b) \/ TimerFires(b)
      PROVE  UNCHANGED workerVars
  BY <1>3 DEF ReceiveHead, TimerFires
<1>4. CASE NewBlock
  BY <1>4 DEF NewBlock
<1>5. ASSUME NEW n \in 0..(MaxHeight \div WindowSize), WindowExpires(n)
      PROVE  UNCHANGED workerVars
  BY <1>5 DEF WindowExpires
<1>6. QED BY <1>1, <1>2, <1>3, <1>4, <1>5 DEF Next

-----------------------------------------------------------------------------
(* Claims.                                                                 *)

(* Finish keeps the claims: the worker gives up its block, nobody else's.  *)
LEMMA FinishClaims ==
    ASSUME TypeOK, ClaimInv, NEW w \in Workers, Finish(w)
    PROVE  ClaimInv'
BY HeightFacts DEF TypeOK, ClaimInv, Finish

(* Going on to the next call keeps the claims.                             *)
LEMMA GotoClaims ==
    ASSUME TypeOK, ClaimInv, NEW w \in Workers, NEW call, call # "idle",
           pc[w] # "idle", Goto(w, call)
    PROVE  ClaimInv'
BY DEF TypeOK, ClaimInv, Goto

(* Claim keeps the claims: only a block nobody holds is taken.             *)
LEMMA ClaimClaims ==
    ASSUME TypeOK, ClaimInv, NEW w \in Workers, NEW b \in Blocks,
           pc[w] = "idle", Claim(w, b)
    PROVE  ClaimInv'
<1>1. CASE UNCHANGED workerVars
  BY <1>1 DEF ClaimInv, workerVars
<1>2. CASE /\ b \notin inFlight
           /\ inFlight' = inFlight \cup {b}
           /\ pc' = [pc EXCEPT ![w] = "check"]
           /\ blk' = [blk EXCEPT ![w] = b]
  <2>1. b # 0 /\ blk[w] = 0
    BY HeightFacts DEF ClaimInv
  <2>2. /\ blk'[w] = b /\ pc'[w] = "check"
        /\ \A v \in Workers \ {w} : blk'[v] = blk[v] /\ pc'[v] = pc[v]
    BY <1>2 DEF TypeOK
  <2>3. \A v \in Workers \ {w} : blk'[v] # b
    BY <1>2, <2>1, <2>2 DEF ClaimInv
  <2>4. \A c \in inFlight' : \E v \in Workers : blk'[v] = c
    BY <1>2, <2>1, <2>2, HeightFacts DEF TypeOK, ClaimInv
  <2>5. QED BY <1>2, <2>1, <2>2, <2>3, <2>4 DEF ClaimInv
<1>3. QED BY <1>1, <1>2 DEF Claim

(* Every return path of processBlockJob keeps the claims.                  *)
LEMMA ClaimWorkerStep ==
    ASSUME TypeOK, ClaimInv, NEW w \in Workers, WorkerStep(w)
    PROVE  ClaimInv'
<1>1. CASE Dequeue(w)
  <2>1. rtq # <<>> => Head(rtq) \in Blocks
    BY DEF TypeOK
  <2>2. cuq # <<>> => Head(cuq) \in Blocks
    BY DEF TypeOK
  <2>3. QED BY <1>1, <2>1, <2>2, ClaimClaims DEF Dequeue
<1>2. CASE CheckProcessed(w)
  <2>1. CASE /\ inFlight' = inFlight \ {blk[w]}
             /\ pc' = [pc EXCEPT ![w] = "advRead"]
             /\ blk' = [blk EXCEPT ![w] = 0]
             /\ UNCHANGED <<last, adv, faults>>
    BY <2>1, HeightFacts DEF TypeOK, ClaimInv
  <2>2. QED BY <1>2, <2>1, FinishClaims, GotoClaims DEF CheckProcessed
<1>3. CASE CheckConfirmations(w)
  BY <1>3, FinishClaims, GotoClaims DEF CheckConfirmations
<1>4. CASE ScanBlock(w)
  BY <1>4, FinishClaims, GotoClaims DEF ScanBlock
<1>5. CASE MarkBlock(w)
  BY <1>5, FinishClaims, GotoClaims DEF MarkBlock
<1>6. CASE AdvanceRead(w)
  <2>1. CASE /\ pc' = [pc EXCEPT ![w] = "advScan"]
             /\ UNCHANGED <<inFlight, blk, faults>>
    BY <2>1 DEF TypeOK, ClaimInv
  <2>2. QED BY <1>6, <2>1, FinishClaims DEF AdvanceRead
<1>7. CASE AdvanceScan(w)
  <2>1. CASE /\ pc' = [pc EXCEPT ![w] = IF adv'[w] - last[w] > MaxAdvance
                                        THEN "advCmp" ELSE "advScan"]
             /\ UNCHANGED <<inFlight, blk, last, faults>>
    BY <2>1 DEF TypeOK, ClaimInv
  <2>2. QED BY <1>7, <2>1, FinishClaims, GotoClaims DEF AdvanceScan
<1>8. CASE AdvanceCompare(w)
  BY <1>8, FinishClaims, GotoClaims DEF AdvanceCompare
<1>9. CASE AdvanceWrite(w)
  BY <1>9, FinishClaims DEF AdvanceWrite
<1>10. QED BY <1>1, <1>2, <1>3, <1>4, <1>5, <1>6, <1>7, <1>8, <1>9
           DEF WorkerStep

(* Every step of the tracker keeps the claims.                             *)
LEMMA ClaimNext == TypeOK /\ ClaimInv /\ [Next]_vars => ClaimInv'
<1> SUFFICES ASSUME TypeOK, ClaimInv, [Next]_vars PROVE ClaimInv'
  OBVIOUS
<1>1. ASSUME NEW w \in Workers, WorkerStep(w) PROVE ClaimInv'
  BY <1>1, ClaimWorkerStep
<1>2. CASE Restart
  BY <1>2 DEF Restart, ClaimInv
<1>3. CASE UNCHANGED workerVars
  BY <1>3 DEF workerVars, ClaimInv
<1>4. CASE UNCHANGED vars
  BY <1>4, <1>3 DEF vars, workerVars
<1>5. QED BY <1>1, <1>2, <1>3, <1>4, OtherSteps

(* No two workers ever hold the same block, and inFlightBlocks is exactly  *)
(* what they hold: on every return path of processBlockJob, whatever calls *)
(* fail and however many workers there are.                                *)
THEOREM ClaimsAreExclusive == Spec => []ExclusiveClaims
<1>1. Init => ClaimInv
  BY DEF Init, ClaimInv
<1>2. TypeOK /\ ClaimInv => ExclusiveClaims
  BY HeightFacts DEF TypeOK, ClaimInv, ExclusiveClaims
<1>3. QED BY <1>1, <1>2, TypeCorrect, ClaimNext, PTL DEF Spec

-----------------------------------------------------------------------------
(* Marked blocks are not scanned again.                                    *)

(* A worker only marks the block it holds, so no other worker's block.     *)
LEMMA UnmarkedWorkerStep ==
    ASSUME TypeOK, ClaimInv, ScansUnmarked, NEW w \in Workers, WorkerStep(w)
    PROVE  ScansUnmarked'
<1>1. CASE Dequeue(w)
  BY <1>1 DEF Dequeue, Claim, workerVars, TypeOK, ScansUnmarked
<1>2. CASE CheckProcessed(w)
  BY <1>2 DEF CheckProcessed, Finish, Goto, TypeOK, ScansUnmarked
<1>3. CASE CheckConfirmations(w)
  BY <1>3 DEF CheckConfirmations, Finish, Goto, TypeOK, ScansUnmarked
<1>4. CASE ScanBlock(w)
  BY <1>4 DEF ScanBlock, Finish, Goto, TypeOK, ScansUnmarked
<1>5. CASE MarkBlock(w)
  <2>1. \A v \in Workers \ {w} :
           /\ pc'[v] = pc[v] /\ blk'[v] = blk[v]
           /\ pc[v] \in {"height", "scan", "mark"} => blk[v] # blk[w]
    <3>1. \A v \in Workers \ {w} : pc'[v] = pc[v] /\ blk'[v] = blk[v]
      BY <1>5 DEF MarkBlock, Finish, Goto, TypeOK
    <3>2. \A v \in Workers :
             pc[v] \in {"height", "scan", "mark"} => blk[v] \in Blocks
      BY DEF TypeOK, ClaimingPCs
    <3>3. QED BY <3>1, <3>2, HeightFacts DEF ClaimInv
  <2>2. pc'[w] \in {"idle", "advRead"}
    BY <1>5 DEF MarkBlock, Finish, Goto, TypeOK
  <2>3. processed' \subseteq processed \cup {blk[w]}
    BY <1>5 DEF MarkBlock
  <2>4. QED BY <2>1, <2>2, <2>3 DEF ScansUnmarked
<1>6. CASE AdvanceRead(w)
  BY <1>6 DEF AdvanceRead, Finish, TypeOK, ScansUnmarked
<1>7. CASE AdvanceScan(w)
  BY <1>7 DEF AdvanceScan, Finish, Goto, TypeOK, ScansUnmarked
<1>8. CASE AdvanceCompare(w)
  BY <1>8 DEF AdvanceCompare, Finish, Goto, TypeOK, ScansUnmarked
<1>9. CASE AdvanceWrite(w)
  BY <1>9 DEF AdvanceWrite, Finish, TypeOK, ScansUnmarked
<1>10. QED BY <1>1, <1>2, <1>3, <1>4, <1>5, <1>6, <1>7, <1>8, <1>9
           DEF WorkerStep

(* Nobody but a worker sets a bit, scans a block or lowers the tip.        *)
LEMMA OtherStepsMarks ==
    ASSUME TypeOK, Next, ~ \E w \in Workers : WorkerStep(w)
    PROVE  processed' \subseteq processed /\ done' = done
           /\ tip' \in Nat /\ tip <= tip'
<1> USE DEF chainVars, ghostVars
<1>0. tip \in Nat
  BY HeightFacts DEF TypeOK
<1>1. ASSUME NEW f \in Feeders, FeederStep(f)
      PROVE  UNCHANGED <<processed, done, tip>>
  BY <1>1 DEF FeederStep, ReadHeight, ReadLast, ResetLast, Enqueue,
              EnqueueTimeout
<1>2. CASE InitialRead \/ InitialWrite
  BY <1>0, <1>2 DEF InitialRead, InitialWrite
<1>3. ASSUME NEW b \in Blocks, ReceiveHead(b) \/ TimerFires(b)
      PROVE  UNCHANGED <<processed, done, tip>>
  BY <1>3 DEF ReceiveHead, TimerFires
<1>4. CASE NewBlock
  BY <1>0, <1>4 DEF NewBlock
<1>5. ASSUME NEW n \in 0..(MaxHeight \div WindowSize), WindowExpires(n)
      PROVE  processed' \subseteq processed /\ UNCHANGED <<done, tip>>
  BY <1>5 DEF WindowExpires
<1>6. CASE Restart
  BY <1>0, <1>6 DEF Restart
<1>7. QED BY <1>0, <1>1, <1>2, <1>3, <1>4, <1>5, <1>6 DEF Next

(* No step marks a block that a worker is about to scan.                   *)
LEMMA UnmarkedNext ==
    TypeOK /\ ClaimInv /\ ScansUnmarked /\ [Next]_vars => ScansUnmarked'
<1> SUFFICES ASSUME TypeOK, ClaimInv, ScansUnmarked, [Next]_vars
             PROVE  ScansUnmarked'
  OBVIOUS
<1>1. ASSUME NEW w \in Workers, WorkerStep(w) PROVE ScansUnmarked'
  BY <1>1, UnmarkedWorkerStep
<1>2. CASE Restart
  BY <1>2 DEF Restart, ScansUnmarked
<1>3. CASE UNCHANGED workerVars /\ processed' \subseteq processed
  BY <1>3 DEF workerVars, ScansUnmarked
<1>4. CASE UNCHANGED vars
  BY <1>4 DEF vars, workerVars, ScansUnmarked
<1>5. QED BY <1>1, <1>2, <1>3, <1>4, OtherSteps, OtherStepsMarks

(* A block whose bit is set is never on its way to ProcessBlock, although  *)
(* the bit is read long before the scan starts.                            *)
THEOREM MarkedNotScanned == Spec => []ScansUnmarked
<1>1. Init => ClaimInv /\ ScansUnmarked
  BY DEF Init, ClaimInv, ScansUnmarked
<1>2. QED BY <1>1, TypeCorrect, ClaimNext, UnmarkedNext, PTL DEF Spec

-----------------------------------------------------------------------------
(* Confirmations.                                                          *)

(* A worker scans only what has its confirmations, and marks only what it  *)
(* has scanned.                                                            *)
LEMMA ConfirmWorkerStep ==
    ASSUME TypeOK, ConfirmInv, NEW w \in Workers, WorkerStep(w)
    PROVE  ConfirmInv'
<1> USE DEF chainVars, ghostVars
<1>1. CASE Dequeue(w)
  BY <1>1 DEF Dequeue, Claim, workerVars, TypeOK, ConfirmInv
<1>2. CASE CheckProcessed(w)
  BY <1>2 DEF CheckProcessed, Finish, Goto, TypeOK, ConfirmInv
<1>3. CASE CheckConfirmations(w)
  <2>1. CASE Finish(w)
    BY <1>3, <2>1 DEF CheckConfirmations, Finish, TypeOK, ConfirmInv
  <2>2. CASE \E h \in 0..tip : EnoughConfirmations(blk[w], h) /\ Goto(w, "scan")
    <3>1. blk[w] + Confirmations <= tip
      <4>1. tip \in Nat /\ blk[w] \in Nat /\ Confirmations \in Nat
        BY HeightFacts, BoundsAssumption DEF TypeOK
      <4>2. PICK h \in 0..tip : h - blk[w] >= Confirmations
        BY <2>2 DEF EnoughConfirmations
      <4>3. QED BY <4>1, <4>2
    <3>2. QED BY <1>3, <2>2, <3>1
              DEF CheckConfirmations, Goto, TypeOK, ConfirmInv
  <2>3. CASE Goto(w, "hung")
    BY <1>3, <2>3 DEF CheckConfirmations, Goto, TypeOK, ConfirmInv
  <2>4. QED BY <1>3, <2>1, <2>2, <2>3 DEF CheckConfirmations
<1>4. CASE ScanBlock(w)
  BY <1>4 DEF ScanBlock, Finish, Goto, TypeOK, ConfirmInv
<1>5. CASE MarkBlock(w)
  BY <1>5 DEF MarkBlock, Finish, Goto, TypeOK, ConfirmInv
<1>6. CASE AdvanceRead(w)
  BY <1>6 DEF AdvanceRead, Finish, TypeOK, ConfirmInv
<1>7. CASE AdvanceScan(w)
  BY <1>7 DEF AdvanceScan, Finish, Goto, TypeOK, ConfirmInv
<1>8. CASE AdvanceCompare(w)
  BY <1>8 DEF AdvanceCompare, Finish, Goto, TypeOK, ConfirmInv
<1>9. CASE AdvanceWrite(w)
  BY <1>9 DEF AdvanceWrite, Finish, TypeOK, ConfirmInv
<1>10. QED BY <1>1, <1>2, <1>3, <1>4, <1>5, <1>6, <1>7, <1>8, <1>9
           DEF WorkerStep

(* Every step of the tracker keeps the confirmations: the tip only grows.  *)
LEMMA ConfirmNext == TypeOK /\ ConfirmInv /\ [Next]_vars => ConfirmInv'
<1> SUFFICES ASSUME TypeOK, ConfirmInv, [Next]_vars PROVE ConfirmInv'
  OBVIOUS
<1>1. ASSUME NEW w \in Workers, WorkerStep(w) PROVE ConfirmInv'
  BY <1>1, ConfirmWorkerStep
<1>2. ASSUME Next, ~ \E w \in Workers : WorkerStep(w) PROVE ConfirmInv'
  <2>1. /\ processed' \subseteq processed /\ done' = done
        /\ tip' \in Nat /\ tip <= tip'
    BY <1>2, OtherStepsMarks
  <2>2. \A b \in Nat : b + Confirmations <= tip => b + Confirmations <= tip'
    BY <2>1, HeightFacts, BoundsAssumption DEF TypeOK
  <2>3. /\ \A b \in done : b \in Nat
        /\ \A w \in Workers : blk[w] \in Nat
    BY HeightFacts DEF TypeOK
  <2>4. CASE Restart
    BY <2>1, <2>2, <2>3, <2>4 DEF Restart, ConfirmInv
  <2>5. CASE UNCHANGED workerVars
    BY <2>1, <2>2, <2>3, <2>5 DEF workerVars, ConfirmInv
  <2>6. QED BY <1>2, <2>4, <2>5, OtherSteps
<1>3. CASE UNCHANGED vars
  BY <1>3 DEF vars, workerVars, chainVars, ghostVars, ConfirmInv
<1>4. QED BY <1>1, <1>2, <1>3

(* However stale the heights the providers answer, only blocks with their  *)
(* confirmations on the chain are scanned and marked.                      *)
THEOREM ScannedAreConfirmed == Spec => []ConfirmedOnly
<1>1. Init => ConfirmInv
  BY DEF Init, ConfirmInv
<1>2. ConfirmInv => ConfirmedOnly
  BY DEF ConfirmInv, ConfirmedOnly
<1>3. QED BY <1>1, <1>2, TypeCorrect, ConfirmNext, PTL DEF Spec

-----------------------------------------------------------------------------
(* The high-water mark.                                                    *)

(* A gap-free height stays one when blocks are scanned, when the starting  *)
(* point is raised, and so is every lower height.                          *)
LEMMA GapFreeStep ==
    ASSUME NEW v \in Heights, NEW u \in Heights, u <= v, GapFree(v),
           base \in Nat, base' \in Nat, base <= base', done \subseteq done'
    PROVE  \A b \in Blocks : base' < b /\ b <= u => b \in done'
<1> SUFFICES ASSUME NEW b \in Blocks, base' < b, b <= u
             PROVE  b \in done'
  OBVIOUS
<1>1. b \in Nat /\ u \in Nat /\ v \in Nat
  BY HeightFacts
<1>2. base < b /\ b <= v
  BY <1>1
<1>3. QED BY <1>2 DEF GapFree

(* What a worker step never touches.                                       *)
LEMMA WorkerFrame ==
    ASSUME TypeOK, NEW w \in Workers, WorkerStep(w)
    PROVE  /\ UNCHANGED <<base, started, tip, feederVars>>
           /\ done \subseteq done'
           /\ \/ UNCHANGED hwm
              \/ pc[w] = "advWrite" /\ hwm' = adv[w]
<1> USE DEF chainVars, ghostVars
<1>1. CASE Dequeue(w) \/ CheckProcessed(w) \/ CheckConfirmations(w)
  BY <1>1 DEF Dequeue, CheckProcessed, CheckConfirmations
<1>2. CASE ScanBlock(w) \/ MarkBlock(w)
  BY <1>2 DEF ScanBlock, MarkBlock
<1>3. CASE AdvanceRead(w) \/ AdvanceScan(w) \/ AdvanceCompare(w)
  BY <1>3 DEF AdvanceRead, AdvanceScan, AdvanceCompare
<1>4. CASE AdvanceWrite(w)
  BY <1>4 DEF AdvanceWrite
<1>5. QED BY <1>1, <1>2, <1>3, <1>4 DEF WorkerStep

(* A worker's registers change only in AdvanceHighWaterMark, and only to   *)
(* what the mark and the bits allow.                                       *)
LEMMA WorkerRegisters ==
    ASSUME TypeOK, NEW w \in Workers, WorkerStep(w), WorkerMarkInv
    PROVE  /\ \A v \in Workers \ {w} :
                 pc'[v] = pc[v] /\ adv'[v] = adv[v] /\ last'[v] = last[v]
           /\ \/ adv'[w] \in {0, hwm, adv[w]}
              \/ adv'[w] = adv[w] + 1 /\ adv[w] + 1 \in processed
           /\ pc'[w] \in {"advCmp", "advWrite"} => adv'[w] > last'[w]
<1>1. CASE Dequeue(w)
  BY <1>1 DEF Dequeue, Claim, workerVars, TypeOK, WorkerMarkInv
<1>2. CASE CheckProcessed(w)
  BY <1>2 DEF CheckProcessed, Finish, Goto, TypeOK
<1>3. CASE CheckConfirmations(w)
  BY <1>3 DEF CheckConfirmations, Finish, Goto, TypeOK
<1>4. CASE ScanBlock(w) \/ MarkBlock(w)
  BY <1>4 DEF ScanBlock, MarkBlock, Finish, Goto, TypeOK
<1>5. CASE AdvanceRead(w)
  BY <1>5 DEF AdvanceRead, Finish, TypeOK
<1>6. CASE AdvanceScan(w)
  <2>1. adv[w] \in Nat /\ last[w] \in Nat /\ MaxAdvance \in Nat
    BY HeightFacts, BoundsAssumption DEF TypeOK
  <2>2. CASE Finish(w)
    BY <2>2 DEF Finish, TypeOK
  <2>3. CASE adv[w] > last[w] /\ Goto(w, "advCmp")
    BY <2>3 DEF Goto, TypeOK
  <2>4. CASE /\ adv[w] + 1 \in processed
             /\ adv' = [adv EXCEPT ![w] = @ + 1]
             /\ pc' = [pc EXCEPT ![w] = IF adv'[w] - last[w] > MaxAdvance
                                        THEN "advCmp" ELSE "advScan"]
             /\ UNCHANGED <<inFlight, blk, last, faults>>
    <3>1. adv'[w] = adv[w] + 1 /\ last'[w] = last[w]
      BY <2>4 DEF TypeOK
    <3>2. pc'[w] = "advCmp" => adv'[w] > last'[w]
      BY <2>1, <2>4, <3>1 DEF TypeOK
    <3>3. pc'[w] # "advWrite"
      BY <2>4 DEF TypeOK
    <3>4. \A v \in Workers \ {w} :
             pc'[v] = pc[v] /\ adv'[v] = adv[v] /\ last'[v] = last[v]
      BY <2>4 DEF TypeOK
    <3>5. QED BY <2>4, <3>1, <3>2, <3>3, <3>4
  <2>5. QED BY <1>6, <2>2, <2>3, <2>4 DEF AdvanceScan
<1>7. CASE AdvanceCompare(w) \/ AdvanceWrite(w)
  BY <1>7 DEF AdvanceCompare, AdvanceWrite, Finish, Goto, TypeOK, WorkerMarkInv
<1>8. QED BY <1>1, <1>2, <1>3, <1>4, <1>5, <1>6, <1>7 DEF WorkerStep

(* AdvanceHighWaterMark writes only what is free of gaps.                  *)
LEMMA MarkWorkerStep ==
    ASSUME TypeOK, TypeOK', ConfirmInv, MarkInv, NEW w \in Workers, WorkerStep(w)
    PROVE  MarkInv'
<1>1. /\ UNCHANGED <<base, started, tip, fpc, flast, fheight>>
      /\ done \subseteq done'
      /\ UNCHANGED hwm \/ (pc[w] = "advWrite" /\ hwm' = adv[w])
  BY WorkerFrame DEF feederVars
<1>2. base \in Nat /\ hwm \in Heights /\ \A v \in Workers : adv[v] \in Heights
  BY HeightFacts DEF TypeOK
<1>3. ASSUME NEW v \in Heights, GapFree(v)
      PROVE  \A b \in Blocks : base' < b /\ b <= v => b \in done'
  BY <1>1, <1>3 DEF GapFree
<1>4. StoredMarkInv'
  <2>1. hwm' = hwm \/ (hwm' = adv[w] /\ adv[w] > last[w])
    BY <1>1 DEF MarkInv, WorkerMarkInv
  <2>2. GapFree(hwm)'
    BY <1>2, <1>3, <2>1 DEF MarkInv, StoredMarkInv, WorkerMarkInv, GapFree
  <2>3. started' => hwm' > 0
    <3>1. adv[w] \in Nat /\ last[w] \in Nat
      BY HeightFacts DEF TypeOK
    <3>2. CASE hwm' = hwm
      BY <1>1, <3>2 DEF MarkInv, StoredMarkInv
    <3>3. CASE hwm' = adv[w] /\ adv[w] > last[w]
      BY <3>1, <3>3
    <3>4. QED BY <2>1, <3>2, <3>3
  <2>4. ~started' => base' = 0
    BY <1>1 DEF MarkInv, StoredMarkInv
  <2>5. QED BY <2>2, <2>3, <2>4 DEF StoredMarkInv
<1>5. WorkerMarkInv'
  <2>1. /\ \A v \in Workers \ {w} :
              pc'[v] = pc[v] /\ adv'[v] = adv[v] /\ last'[v] = last[v]
        /\ \/ adv'[w] \in {0, hwm, adv[w]}
           \/ adv'[w] = adv[w] + 1 /\ adv[w] + 1 \in processed
        /\ pc'[w] \in {"advCmp", "advWrite"} => adv'[w] > last'[w]
    BY WorkerRegisters DEF MarkInv
  <2>2. \A v \in Workers \ {w} :
           \A b \in Blocks : base' < b /\ b <= adv'[v] => b \in done'
    BY <1>2, <1>3, <2>1 DEF MarkInv, WorkerMarkInv
  <2>3. \A b \in Blocks : base' < b /\ b <= adv'[w] => b \in done'
    <3>1. CASE adv'[w] = 0
      BY <3>1, HeightFacts
    <3>2. CASE adv'[w] = hwm \/ adv'[w] = adv[w]
      BY <1>2, <1>3, <3>2 DEF MarkInv, StoredMarkInv, WorkerMarkInv
    <3>3. CASE adv'[w] = adv[w] + 1 /\ adv[w] + 1 \in processed
      <4>1. adv[w] + 1 \in done'
        BY <1>1, <3>3 DEF ConfirmInv
      <4>2. \A b \in Blocks : b <= adv[w] + 1 => b <= adv[w] \/ b = adv[w] + 1
        <5>1. adv[w] \in Nat /\ \A b \in Blocks : b \in Nat
          BY <1>2, HeightFacts
        <5>2. QED BY <5>1
      <4>3. \A b \in Blocks : base' < b /\ b <= adv[w] => b \in done'
        BY <1>2, <1>3 DEF MarkInv, WorkerMarkInv
      <4>4. QED BY <3>3, <4>1, <4>2, <4>3
    <3>4. QED BY <2>1, <3>1, <3>2, <3>3
  <2>4. \A v \in Workers : pc'[v] \in {"advCmp", "advWrite"} => adv'[v] > last'[v]
    BY <2>1 DEF MarkInv, WorkerMarkInv
  <2>5. \A v \in Workers : GapFree(adv[v])'
    BY <2>2, <2>3 DEF GapFree
  <2>6. QED BY <2>4, <2>5 DEF WorkerMarkInv
<1>6. FeederMarkInv'
  <2>1. \A f \in Feeders : flast[f] \in Heights
    BY DEF TypeOK
  <2>2. \A f \in Feeders : fpc[f] = "reset" =>
           \A b \in Blocks : base' < b /\ b <= flast[f] => b \in done'
    BY <1>3, <2>1 DEF MarkInv, FeederMarkInv
  <2>3. QED BY <1>1, <2>2 DEF MarkInv, FeederMarkInv, GapFree, SafeHead
<1>7. QED BY <1>4, <1>5, <1>6 DEF MarkInv

(* A feeder that stops or sends takes no part in the mark any more.        *)
LEMMA QuietFeeder ==
    ASSUME TypeOK, FeederMarkInv, NEW f \in Feeders,
           fpc' \in [Feeders -> FeederPCs], fpc'[f] \in {"idle", "done", "send"},
           \A g \in Feeders \ {f} :
              fpc'[g] = fpc[g] /\ flast'[g] = flast[g] /\ fheight'[g] = fheight[g],
           UNCHANGED <<base, started, done>>, tip \in Nat, tip' \in Nat, tip <= tip'
    PROVE  FeederMarkInv'
<1>1. "catchup" \in Feeders
  BY DEF Feeders
<1>2. \A g \in Feeders : fheight[g] \in Nat
  BY HeightFacts DEF TypeOK
<1>3. QED BY <1>1, <1>2 DEF FeederMarkInv, GapFree, SafeHead

(* A feeder that stops takes no part in the mark any more.                 *)
LEMMA StopQuiet ==
    ASSUME TypeOK, NEW f \in Feeders, Stop(f)
    PROVE  /\ fpc' \in [Feeders -> FeederPCs]
           /\ fpc'[f] \in {"idle", "done", "send"}
           /\ \A g \in Feeders \ {f} :
                 fpc'[g] = fpc[g] /\ flast'[g] = flast[g] /\ fheight'[g] = fheight[g]
BY DEF TypeOK, Stop, FeederPCs

(* A feeder that starts to send takes no part in the mark any more.        *)
LEMMA SendRangeQuiet ==
    ASSUME TypeOK, NEW f \in Feeders, NEW lo, NEW hi, SendRange(f, lo, hi)
    PROVE  /\ fpc' \in [Feeders -> FeederPCs]
           /\ fpc'[f] \in {"idle", "done", "send"}
           /\ \A g \in Feeders \ {f} :
                 fpc'[g] = fpc[g] /\ flast'[g] = flast[g] /\ fheight'[g] = fheight[g]
BY StopQuiet DEF TypeOK, SendRange, FeederPCs

(* With a normalised mark that is 0 only before the first run, a feeder    *)
(* starts a first run only then.                                           *)
LEMMA PlanMark ==
    ASSUME TypeOK, FeederMarkInv, NEW f \in Feeders, NEW l \in Heights,
           Plan(f, l), fpc[f] \in {"last", "reset"}, l = 0 => ~started,
           UNCHANGED <<base, started, done, tip>>
    PROVE  FeederMarkInv'
<1>1. "poll" \in Feeders /\ "catchup" \in Feeders /\ tip \in Nat
  BY HeightFacts DEF Feeders, TypeOK
<1>2. CASE Stop(f) \/ \E lo, hi \in Heights : SendRange(f, lo, hi)
  BY <1>1, <1>2, StopQuiet, SendRangeQuiet, QuietFeeder
<1>3. CASE /\ f = "catchup" /\ l = 0
           /\ fpc' = [fpc EXCEPT !["catchup"] = "init"]
           /\ flast' = [flast EXCEPT !["catchup"] = 0]
           /\ UNCHANGED fheight
  <2>1. ~started
    BY <1>3
  <2>2. \A g \in Feeders \ {"catchup"} : fpc'[g] = fpc[g] /\ flast'[g] = flast[g]
    BY <1>3 DEF TypeOK
  <2>3. fpc'["catchup"] = "init"
    BY <1>1, <1>3 DEF TypeOK
  <2>4. \A g \in Feeders : fpc'[g] = "reset" =>
           SafeHead(fheight'[g]) < flast'[g] /\ GapFree(flast'[g])
    BY <1>3, <2>2, <2>3 DEF FeederMarkInv
  <2>5. \A g \in Feeders : fpc'[g] \in {"last", "reset", "init", "initSet"} =>
           0 < fheight'[g] /\ fheight'[g] <= tip
    BY <1>3, <2>2, <2>3 DEF FeederMarkInv
  <2>6. QED BY <2>1, <2>4, <2>5 DEF FeederMarkInv, GapFree, SafeHead
<1>4. QED
  <2>1. \A g \in Feeders : SafeHead(fheight[g]) \in Heights
    BY HeightFacts DEF TypeOK
  <2>2. QED BY <1>1, <1>2, <1>3, <2>1 DEF Plan, PollFrom, CatchupFrom

(* Polling and catchup reset the mark only to where it is free of gaps.    *)
LEMMA MarkFeederStep ==
    ASSUME NoFalseZero, TypeOK, MarkInv, NEW f \in Feeders, FeederStep(f)
    PROVE  MarkInv'
<1> USE DEF chainVars, ghostVars, workerVars
<1>1. tip \in Nat /\ tip > 0 /\ hwm \in Heights /\ base \in Nat
  BY HeightFacts DEF TypeOK
<1>2. UNCHANGED <<base, started, done, tip, pc, adv, last>>
  BY DEF FeederStep, ReadHeight, ReadLast, ResetLast, Enqueue, EnqueueTimeout
<1>3. WorkerMarkInv'
  BY <1>2 DEF MarkInv, WorkerMarkInv, GapFree
<1> HIDE DEF chainVars, ghostVars, workerVars
<1>a. /\ FeederMarkInv
      /\ UNCHANGED <<base, started, done>>
      /\ UNCHANGED <<base, started, done, tip>>
      /\ tip' \in Nat /\ tip <= tip'
  BY <1>1, <1>2 DEF MarkInv
<1>b. hwm = 0 => ~started
  BY <1>1, HeightFacts DEF MarkInv, StoredMarkInv
<1>4. ASSUME UNCHANGED hwm PROVE StoredMarkInv'
  BY <1>2, <1>4 DEF MarkInv, StoredMarkInv, GapFree
<1>5. CASE ReadHeight(f)
  <2>1. ASSUME Stop(f) PROVE FeederMarkInv'
    BY <1>1, <1>a, <2>1, StopQuiet, QuietFeeder
  <2>2. ASSUME \E h \in 0..tip : /\ HeightIs(h)
                                 /\ fpc' = [fpc EXCEPT ![f] = "last"]
                                 /\ fheight' = [fheight EXCEPT ![f] = h]
                                 /\ UNCHANGED flast
        PROVE  FeederMarkInv'
    <3>1. PICK h \in 0..tip : /\ HeightIs(h)
                              /\ fpc' = [fpc EXCEPT ![f] = "last"]
                              /\ fheight' = [fheight EXCEPT ![f] = h]
                              /\ UNCHANGED flast
      BY <2>2
    <3>2. 0 < h /\ h <= tip
      BY <1>1, <3>1 DEF HeightIs, Fault, NoFalseZero
    <3>3. /\ fpc'[f] = "last" /\ fheight'[f] = h
          /\ \A g \in Feeders \ {f} : fpc'[g] = fpc[g] /\ fheight'[g] = fheight[g]
      BY <3>1 DEF TypeOK
    <3>4. \A g \in Feeders : fpc'[g] = "reset" =>
             SafeHead(fheight'[g]) < flast'[g] /\ GapFree(flast'[g])
      BY <3>1, <3>3 DEF MarkInv, FeederMarkInv
    <3>5. \A g \in Feeders : fpc'[g] \in {"last", "reset", "init", "initSet"} =>
             0 < fheight'[g] /\ fheight'[g] <= tip
      BY <3>2, <3>3 DEF MarkInv, FeederMarkInv
    <3>6. fpc'["catchup"] \in {"init", "initSet"} => ~started
      BY <3>3 DEF MarkInv, FeederMarkInv, Feeders
    <3>7. fpc'["catchup"] \in {"init", "initSet"} => ~started'
      BY <1>2, <3>6
    <3>8. QED BY <1>2, <3>4, <3>5, <3>7 DEF FeederMarkInv, GapFree, SafeHead
  <2>3. ASSUME fpc' = [fpc EXCEPT ![f] = "hung"], UNCHANGED <<flast, fheight>>
        PROVE  FeederMarkInv'
    BY <1>1, <1>a, <2>3 DEF FeederMarkInv, GapFree, SafeHead, TypeOK, Feeders
  <2>4. FeederMarkInv'
    BY <1>5, <2>1, <2>2, <2>3 DEF ReadHeight
  <2>5. QED BY <1>3, <1>4, <1>5, <2>4 DEF MarkInv, ReadHeight
<1>6. CASE ReadLast(f)
  <2>1. ASSUME Plan(f, hwm) PROVE FeederMarkInv'
    <3>1. fpc[f] \in {"last", "reset"}
      BY <1>6 DEF ReadLast
    <3>2. QED BY <1>1, <1>a, <1>b, <2>1, <3>1, PlanMark
  <2>2. ASSUME NeedsReset(hwm, fheight[f]),
               fpc' = [fpc EXCEPT ![f] = "reset"],
               flast' = [flast EXCEPT ![f] = hwm],
               UNCHANGED <<fheight, faults>>
        PROVE  FeederMarkInv'
    <3>1. /\ fpc'[f] = "reset" /\ flast'[f] = hwm
          /\ \A g \in Feeders \ {f} : fpc'[g] = fpc[g] /\ flast'[g] = flast[g]
      BY <2>2 DEF TypeOK
    <3>2. SafeHead(fheight[f]) < hwm /\ GapFree(hwm)
      BY <1>1, <2>2, HeightFacts DEF NeedsReset, MarkInv, StoredMarkInv, TypeOK
    <3>3. \A g \in Feeders : fpc'[g] = "reset" =>
             SafeHead(fheight'[g]) < flast'[g] /\ GapFree(flast'[g])
      BY <2>2, <3>1, <3>2 DEF MarkInv, FeederMarkInv
    <3>4. \A g \in Feeders : fpc'[g] \in {"last", "reset", "init", "initSet"} =>
             0 < fheight'[g] /\ fheight'[g] <= tip
      BY <1>6, <2>2, <3>1 DEF ReadLast, MarkInv, FeederMarkInv
    <3>5. fpc'["catchup"] \in {"init", "initSet"} => ~started
      BY <3>1 DEF MarkInv, FeederMarkInv, Feeders
    <3>6. fpc'["catchup"] \in {"init", "initSet"} => ~started'
      BY <1>2, <3>5
    <3>7. QED BY <1>2, <3>3, <3>4, <3>6 DEF FeederMarkInv, GapFree, SafeHead
  <2>3. FeederMarkInv'
    BY <1>6, <2>1, <2>2 DEF ReadLast, Fault, NoFalseZero
  <2>4. QED BY <1>3, <1>4, <1>6, <2>3 DEF MarkInv, ReadLast
<1>7. CASE ResetLast(f)
  <2>1. /\ SafeHead(fheight[f]) \in Heights /\ flast[f] \in Heights
        /\ 0 < SafeHead(fheight[f]) /\ SafeHead(fheight[f]) < flast[f]
        /\ GapFree(flast[f]) /\ fpc[f] = "reset"
    BY <1>7, HeightFacts DEF ResetLast, TypeOK, MarkInv, FeederMarkInv
  <2>2. \/ UNCHANGED hwm /\ Plan(f, flast[f])
        \/ hwm' = SafeHead(fheight[f]) /\ Plan(f, SafeHead(fheight[f]))
    BY <1>7 DEF ResetLast
  <2>3. flast[f] # 0 /\ SafeHead(fheight[f]) # 0
    BY <2>1, HeightFacts
  <2>4. FeederMarkInv'
    BY <1>a, <2>1, <2>2, <2>3, PlanMark
  <2>5. ASSUME hwm' = SafeHead(fheight[f]) PROVE StoredMarkInv'
    <3>1. SafeHead(fheight[f]) <= flast[f] /\ base' \in Nat /\ base <= base'
      BY <1>1, <1>2, <2>1, HeightFacts
    <3>2. \A b \in Blocks : base' < b /\ b <= SafeHead(fheight[f]) => b \in done'
      BY <1>1, <1>2, <2>1, <3>1, GapFreeStep
    <3>3. GapFree(hwm)'
      BY <2>5, <3>2 DEF GapFree
    <3>4. hwm' > 0 /\ (~started' => base' = 0)
      BY <1>2, <2>1, <2>5 DEF MarkInv, StoredMarkInv
    <3>5. QED BY <3>3, <3>4 DEF StoredMarkInv
  <2>6. QED BY <1>3, <1>4, <2>2, <2>4, <2>5 DEF MarkInv
<1>8. CASE Enqueue(f)
  <2>1. FeederMarkInv'
    BY <1>1, <1>a, <1>8, SendRangeQuiet, QuietFeeder DEF Enqueue
  <2>2. QED BY <1>3, <1>4, <1>8, <2>1 DEF Enqueue, MarkInv
<1>9. CASE EnqueueTimeout(f)
  <2>1. FeederMarkInv'
    BY <1>1, <1>a, <1>9, StopQuiet, QuietFeeder DEF EnqueueTimeout
  <2>2. QED BY <1>3, <1>4, <1>9, <2>1 DEF EnqueueTimeout, MarkInv
<1>10. QED BY <1>5, <1>6, <1>7, <1>8, <1>9 DEF FeederStep

(* Every step of the tracker keeps the mark free of gaps.                  *)
LEMMA MarkNext ==
    ASSUME NoFalseZero, TypeOK, TypeOK', ConfirmInv, MarkInv, [Next]_vars
    PROVE  MarkInv'
<1>0. /\ "poll" \in Feeders /\ "catchup" \in Feeders
      /\ tip \in Nat /\ tip' \in Nat
  BY HeightFacts DEF Feeders, TypeOK
<1>1. ASSUME NEW w \in Workers, WorkerStep(w) PROVE MarkInv'
  BY <1>1, MarkWorkerStep
<1>2. ASSUME NEW f \in Feeders, FeederStep(f) PROVE MarkInv'
  BY <1>2, MarkFeederStep
<1>a. ASSUME UNCHANGED <<hwm, base, started, done, pc, adv, last>>
      PROVE  StoredMarkInv' /\ WorkerMarkInv'
  BY <1>a DEF MarkInv, StoredMarkInv, WorkerMarkInv, GapFree
<1>b. ASSUME UNCHANGED <<base, started, done, fpc, flast, fheight>>, tip <= tip'
      PROVE  FeederMarkInv'
  <2>1. \A f \in Feeders : fheight[f] \in Nat
    BY HeightFacts DEF TypeOK
  <2>2. QED BY <1>0, <1>b, <2>1 DEF MarkInv, FeederMarkInv, GapFree, SafeHead
<1>3. CASE InitialRead
  <2>1. UNCHANGED <<hwm, base, started, done, pc, adv, last, tip>>
    BY <1>3 DEF InitialRead, chainVars, ghostVars, workerVars
  <2>2. ASSUME Stop("catchup") PROVE FeederMarkInv'
    BY <1>0, <2>1, <2>2, StopQuiet, QuietFeeder DEF MarkInv
  <2>3. ASSUME fpc' = [fpc EXCEPT !["catchup"] = "initSet"],
               UNCHANGED <<flast, fheight, faults>>
        PROVE  FeederMarkInv'
    <3>1. /\ fpc["catchup"] = "init" /\ fpc'["catchup"] = "initSet"
          /\ \A g \in Feeders \ {"catchup"} : fpc'[g] = fpc[g]
      BY <1>0, <1>3, <2>3 DEF InitialRead, TypeOK
    <3>2. ~started'
      BY <2>1, <3>1 DEF MarkInv, FeederMarkInv
    <3>3. QED BY <2>1, <2>3, <3>1, <3>2 DEF MarkInv, FeederMarkInv, GapFree, SafeHead
  <2>4. QED BY <1>3, <1>a, <2>1, <2>2, <2>3 DEF InitialRead, MarkInv
<1>4. CASE InitialWrite
  <2>1. /\ UNCHANGED <<done, pc, adv, last, tip>> /\ Stop("catchup")
        /\ fpc["catchup"] = "initSet"
    BY <1>4 DEF InitialWrite, chainVars, workerVars
  <2>2. ~started /\ base = 0 /\ fheight["catchup"] \in Heights
        /\ 0 < fheight["catchup"] /\ fheight["catchup"] \in Nat
    BY <1>0, <2>1, HeightFacts
       DEF MarkInv, FeederMarkInv, StoredMarkInv, TypeOK
  <2>3. CASE UNCHANGED <<hwm, base, started>>
    <3>1. FeederMarkInv'
      BY <1>0, <2>1, <2>3, StopQuiet, QuietFeeder DEF MarkInv
    <3>2. QED BY <1>a, <2>1, <2>3, <3>1 DEF MarkInv
  <2>4. CASE /\ hwm' = fheight["catchup"] /\ base' = fheight["catchup"]
             /\ started' = TRUE
    <3>1. \A b \in Blocks : base' < b /\ b <= hwm' => b \in done'
      BY <2>2, <2>4, HeightFacts
    <3>2. StoredMarkInv'
      BY <2>2, <2>4, <3>1 DEF StoredMarkInv, GapFree
    <3>3. ASSUME NEW v \in Heights, GapFree(v)
          PROVE  \A b \in Blocks : base' < b /\ b <= v => b \in done'
      <4>1. \A b \in Blocks : b \in Nat
        BY HeightFacts
      <4>2. base < base' /\ done' = done
        BY <2>1, <2>2, <2>4
      <4>3. \A b \in Blocks : base' < b => base < b
        BY <2>2, <2>4, <4>1
      <4>4. QED BY <3>3, <4>2, <4>3 DEF GapFree
    <3>4. WorkerMarkInv'
      <4>1. \A w \in Workers : adv[w] \in Heights /\ GapFree(adv[w])
        BY DEF TypeOK, MarkInv, WorkerMarkInv
      <4>2. \A w \in Workers :
               \A b \in Blocks : base' < b /\ b <= adv'[w] => b \in done'
        BY <2>1, <3>3, <4>1
      <4>3. QED BY <2>1, <4>2 DEF MarkInv, WorkerMarkInv, GapFree
    <3>5. FeederMarkInv'
      <4>1. /\ fpc'["catchup"] = "done"
            /\ fpc'["poll"] = fpc["poll"] /\ flast'["poll"] = flast["poll"]
            /\ fheight'["poll"] = fheight["poll"]
        BY <1>0, <2>1 DEF Stop, TypeOK
      <4>2. fpc["poll"] = "reset" =>
               \A b \in Blocks : base' < b /\ b <= flast'["poll"] => b \in done'
        <5>1. flast["poll"] \in Heights
          BY <1>0 DEF TypeOK
        <5>2. fpc["poll"] = "reset" => GapFree(flast["poll"])
          BY <1>0 DEF MarkInv, FeederMarkInv
        <5>3. QED BY <3>3, <4>1, <5>1, <5>2
      <4>3. QED BY <1>0, <2>1, <4>1, <4>2
                DEF MarkInv, FeederMarkInv, GapFree, SafeHead, Feeders
    <3>6. QED BY <3>2, <3>4, <3>5 DEF MarkInv
  <2>5. QED BY <1>4, <2>2, <2>3, <2>4 DEF InitialWrite
<1>5. ASSUME NEW b \in Blocks, ReceiveHead(b) PROVE MarkInv'
  <2>1. /\ UNCHANGED <<hwm, base, started, done, pc, adv, last, tip>>
        /\ SendRange("poll", b - 1, b)
    BY <1>5 DEF ReceiveHead, ghostVars, workerVars
  <2>2. FeederMarkInv'
    BY <1>0, <2>1, SendRangeQuiet, QuietFeeder DEF MarkInv
  <2>3. QED BY <1>a, <2>1, <2>2 DEF MarkInv
<1>6. ASSUME NEW b \in Blocks, TimerFires(b) PROVE MarkInv'
  BY <1>0, <1>6, <1>a, <1>b
     DEF TimerFires, chainVars, ghostVars, workerVars, feederVars, MarkInv
<1>7. CASE NewBlock
  BY <1>0, <1>7, <1>a, <1>b DEF NewBlock, ghostVars, workerVars, feederVars, MarkInv
<1>8. ASSUME NEW n \in 0..(MaxHeight \div WindowSize), WindowExpires(n)
      PROVE  MarkInv'
  BY <1>0, <1>8, <1>a, <1>b
     DEF WindowExpires, chainVars, ghostVars, workerVars, feederVars, MarkInv
<1>9. CASE Restart
  <2>1. UNCHANGED <<hwm, base, started, done>>
    BY <1>9 DEF Restart, ghostVars
  <2>2. StoredMarkInv'
    BY <2>1 DEF MarkInv, StoredMarkInv, GapFree
  <2>3. WorkerMarkInv'
    BY <1>9, HeightFacts DEF Restart, WorkerMarkInv, GapFree
  <2>4. FeederMarkInv'
    BY <1>0, <1>9 DEF Restart, FeederMarkInv
  <2>5. QED BY <2>2, <2>3, <2>4 DEF MarkInv
<1>10. CASE UNCHANGED vars
  BY <1>0, <1>10, <1>a, <1>b
     DEF vars, chainVars, ghostVars, workerVars, feederVars, MarkInv
<1>11. QED BY <1>1, <1>2, <1>3, <1>4, <1>5, <1>6, <1>7, <1>8, <1>9, <1>10
           DEF Next

(* Where the first run has put it, or on an empty Redis, the mark is free  *)
(* of gaps.                                                                *)
LEMMA MarkInit == Init => MarkInv
<1> SUFFICES ASSUME Init PROVE MarkInv
  OBVIOUS
<1>1. /\ \A b \in Blocks : ~(b <= 0) /\ b \in Nat
      /\ InitialMark \in Nat
  BY HeightFacts, BoundsAssumption
<1>2. WorkerMarkInv
  BY <1>1 DEF Init, WorkerMarkInv, GapFree
<1>3. GapFree(hwm)
  BY <1>1 DEF Init, GapFree
<1>4. (started => hwm > 0) /\ (~started => base = 0)
  <2>1. started <=> InitialMark > 0
    BY DEF Init
  <2>2. hwm = InitialMark /\ base = InitialMark
    BY DEF Init
  <2>3. QED BY <1>1, <2>1, <2>2
<1>5. FeederMarkInv
  BY DEF Init, FeederMarkInv, Feeders
<1>6. QED BY <1>2, <1>3, <1>4, <1>5 DEF MarkInv, StoredMarkInv

(* Everything the proofs know of a reachable state, in one invariant.      *)
THEOREM Inductive == NoFalseZero => (Spec => []IndInv)
<1> SUFFICES ASSUME NoFalseZero PROVE Spec => []IndInv
  OBVIOUS
<1>1. Init => IndInv
  <2>1. Init => ClaimInv /\ ScansUnmarked /\ ConfirmInv
    BY DEF Init, ClaimInv, ScansUnmarked, ConfirmInv
  <2>2. QED BY <2>1, MarkInit DEF IndInv
<1>2. TypeOK /\ TypeOK' /\ IndInv /\ [Next]_vars => IndInv'
  BY ClaimNext, UnmarkedNext, ConfirmNext, MarkNext DEF IndInv
<1>3. QED BY <1>1, <1>2, TypeCorrect, PTL DEF Spec

(* The mark never covers a block that was not scanned: no interleaving of  *)
(* workers, feeders, crashes and failures makes a restart skip a block, if *)
(* an existing mark is never read as 0 and no provider answers height 0.   *)
THEOREM MarkHasNoGap == NoFalseZero => (Spec => []NoGap)
<1> SUFFICES ASSUME NoFalseZero PROVE Spec => []NoGap
  OBVIOUS
<1>1. IndInv => NoGap
  BY DEF IndInv, MarkInv, StoredMarkInv, NoGap
<1>2. QED BY <1>1, Inductive, PTL

-----------------------------------------------------------------------------
(* Refinement of ProgressLedger.                                           *)

(* Every step of the tracker is a step of the ledger, or none.             *)
LEMMA LedgerStep ==
    ASSUME NoFalseZero, TypeOK, TypeOK', IndInv, [Next]_vars
    PROVE  [Ledger!LedgerNext]_(Ledger!ledgerVars)
<1> USE DEF Ledger!ledgerVars
<1>0. "catchup" \in Feeders
  BY DEF Feeders
<1>1. ASSUME NEW w \in Workers, WorkerStep(w)
      PROVE  [Ledger!LedgerNext]_(Ledger!ledgerVars)
  <2>1. UNCHANGED <<base, started, tip>>
    BY <1>1, WorkerFrame
  <2>2. CASE ScanBlock(w)
    <3>1. blk[w] \in Blocks /\ blk[w] + Confirmations <= tip
      BY <2>2 DEF ScanBlock, TypeOK, ClaimingPCs, IndInv, ConfirmInv
    <3>2. hwm' = hwm /\ (done' = done \/ done' = done \cup {blk[w]})
      BY <2>2 DEF ScanBlock
    <3>3. CASE done' = done \cup {blk[w]}
      <4>1. Ledger!Scan(blk[w])
        BY <2>1, <3>1, <3>2, <3>3 DEF Ledger!Scan
      <4>2. QED BY <3>1, <4>1 DEF Ledger!LedgerNext
    <3>4. QED BY <2>1, <3>2, <3>3
  <2>3. CASE AdvanceWrite(w)
    <3>1. /\ adv[w] \in Heights /\ adv[w] > 0
          /\ \A b \in Blocks : base < b /\ b <= adv[w] => b \in done
      <4>1. adv[w] \in Heights /\ adv[w] \in Nat /\ last[w] \in Nat
        BY HeightFacts DEF TypeOK
      <4>2. adv[w] > last[w] /\ GapFree(adv[w])
        BY <2>3 DEF AdvanceWrite, IndInv, MarkInv, WorkerMarkInv
      <4>3. QED BY <4>1, <4>2 DEF GapFree
    <3>2. done' = done /\ (hwm' = hwm \/ hwm' = adv[w])
      BY <2>3 DEF AdvanceWrite, ghostVars
    <3>3. CASE hwm' = adv[w]
      <4>1. Ledger!Checkpoint(adv[w])
        BY <2>1, <3>1, <3>2, <3>3 DEF Ledger!Checkpoint
      <4>2. QED BY <3>1, <4>1 DEF Ledger!LedgerNext
    <3>4. QED BY <2>1, <3>2, <3>3
  <2>4. CASE Dequeue(w) \/ CheckProcessed(w) \/ CheckConfirmations(w)
    BY <2>1, <2>4 DEF Dequeue, CheckProcessed, CheckConfirmations, ghostVars
  <2>5. CASE MarkBlock(w) \/ AdvanceRead(w) \/ AdvanceScan(w) \/ AdvanceCompare(w)
    BY <2>1, <2>5
       DEF MarkBlock, AdvanceRead, AdvanceScan, AdvanceCompare, ghostVars
  <2>6. QED BY <1>1, <2>2, <2>3, <2>4, <2>5 DEF WorkerStep
<1>2. ASSUME NEW f \in Feeders, FeederStep(f)
      PROVE  [Ledger!LedgerNext]_(Ledger!ledgerVars)
  <2>1. CASE ResetLast(f)
    <3>1. UNCHANGED <<base, started, done, tip>>
      BY <2>1 DEF ResetLast, chainVars, ghostVars
    <3>2. /\ SafeHead(fheight[f]) \in Heights /\ flast[f] \in Heights
          /\ 0 < SafeHead(fheight[f]) /\ SafeHead(fheight[f]) < flast[f]
          /\ GapFree(flast[f])
      BY <2>1, HeightFacts DEF ResetLast, TypeOK, IndInv, MarkInv, FeederMarkInv
    <3>3. /\ \A b \in Blocks :
                base < b /\ b <= SafeHead(fheight[f]) => b \in done
      <4>1. /\ \A b \in Blocks : b \in Nat
            /\ SafeHead(fheight[f]) \in Nat /\ flast[f] \in Nat
        BY <3>2, HeightFacts
      <4>2. \A b \in Blocks : b <= SafeHead(fheight[f]) => b <= flast[f]
        BY <3>2, <4>1
      <4>3. QED BY <3>2, <4>2 DEF GapFree
    <3>4. hwm' = hwm \/ hwm' = SafeHead(fheight[f])
      BY <2>1 DEF ResetLast
    <3>5. CASE hwm' = SafeHead(fheight[f])
      <4>1. Ledger!Checkpoint(SafeHead(fheight[f]))
        BY <3>1, <3>2, <3>3, <3>5 DEF Ledger!Checkpoint
      <4>2. QED BY <3>2, <4>1 DEF Ledger!LedgerNext
    <3>6. QED BY <3>1, <3>4, <3>5
  <2>2. CASE ReadHeight(f) \/ ReadLast(f) \/ Enqueue(f) \/ EnqueueTimeout(f)
    BY <2>2 DEF ReadHeight, ReadLast, Enqueue, EnqueueTimeout, chainVars, ghostVars
  <2>3. QED BY <1>2, <2>1, <2>2 DEF FeederStep
<1>3. CASE InitialRead
  BY <1>3 DEF InitialRead, chainVars, ghostVars
<1>4. CASE InitialWrite
  <2>1. UNCHANGED <<tip, done>>
    BY <1>4 DEF InitialWrite, chainVars
  <2>2. /\ ~started /\ fheight["catchup"] <= tip
        /\ fheight["catchup"] \in Heights
    BY <1>0, <1>4 DEF InitialWrite, IndInv, MarkInv, FeederMarkInv, TypeOK
  <2>3. CASE UNCHANGED <<hwm, base, started>>
    BY <2>1, <2>3
  <2>4. CASE /\ hwm' = fheight["catchup"] /\ base' = fheight["catchup"]
             /\ started' = TRUE
    <3>1. Ledger!Begin(fheight["catchup"])
      BY <2>1, <2>2, <2>4 DEF Ledger!Begin
    <3>2. QED BY <2>2, <3>1 DEF Ledger!LedgerNext
  <2>5. QED BY <1>4, <2>2, <2>3, <2>4 DEF InitialWrite
<1>5. ASSUME NEW b \in Blocks, ReceiveHead(b) \/ TimerFires(b)
      PROVE  [Ledger!LedgerNext]_(Ledger!ledgerVars)
  BY <1>5 DEF ReceiveHead, TimerFires, chainVars, ghostVars
<1>6. CASE NewBlock
  <2>1. Ledger!Grow
    BY <1>6 DEF NewBlock, ghostVars, Ledger!Grow
  <2>2. QED BY <2>1 DEF Ledger!LedgerNext
<1>7. ASSUME NEW n \in 0..(MaxHeight \div WindowSize), WindowExpires(n)
      PROVE  [Ledger!LedgerNext]_(Ledger!ledgerVars)
  BY <1>7 DEF WindowExpires, chainVars, ghostVars
<1>8. CASE Restart
  BY <1>8 DEF Restart, ghostVars
<1>9. CASE UNCHANGED vars
  BY <1>9 DEF vars, chainVars, ghostVars
<1>10. QED BY <1>1, <1>2, <1>3, <1>4, <1>5, <1>6, <1>7, <1>8, <1>9 DEF Next

(* Every behaviour of the tracker is a behaviour of the ledger: blocks are *)
(* scanned once confirmed, and the checkpoint is only ever put where       *)
(* nothing below it is missing.                                            *)
THEOREM Refinement == NoFalseZero => (Spec => ImplementsLedger)
<1> SUFFICES ASSUME NoFalseZero PROVE Spec => ImplementsLedger
  OBVIOUS
<1>1. Init => Ledger!LedgerInit
  BY BoundsAssumption DEF Init, Ledger!LedgerInit, Blocks, Heights
<1>2. /\ TypeOK /\ TypeOK' /\ IndInv /\ [Next]_vars
      => [Ledger!LedgerNext]_(Ledger!ledgerVars)
  BY LedgerStep
<1>3. QED BY <1>1, <1>2, TypeCorrect, Inductive, PTL
          DEF Spec, ImplementsLedger, Ledger!LedgerSpec
=============================================================================
