--------------------------- MODULE EvmBlockProofs ---------------------------
(***************************************************************************)
(* Proofs about EvmBlock, for every block, batch size, number of permits   *)
(* and every sequence of failures, cancellations and crashes: ProcessBlock *)
(* leaves no goroutine behind, a retry publishes nothing Redis has as      *)
(* handled, and the block is delivered as BlockDelivery says.              *)
(***************************************************************************)
EXTENDS EvmBlock, FiniteSetTheorems, TLAPS

-----------------------------------------------------------------------------
(* The inductive invariant.                                                *)

(* A failure has happened after which the code takes for handled what is   *)
(* not.                                                                    *)
Lossy == faults.kinds \cap Swallowed # {}

(* All the events of transaction n are out.                                *)
Handled(n) == \A e \in Owed : e[1] = n => sent[e] > 0

(* Where the attempt is: a block in hand is not marked, and a goroutine    *)
(* belongs to the batch its attempt waits for.                             *)
AttemptInv ==
    /\ marked => bpc \in {"idle", "uncache", "done"}
    /\ first >= 1
    /\ bpc \in {"idle", "cache", "fetch", "store", "progress"} => first = 1
    /\ NoStrayGoroutine
    /\ \A n \in Txs : tpc[n] # "none" => n \in Spawned

(* What Redis has recorded lies behind the attempt, or the attempt knows   *)
(* of it; a transaction with a goroutine is not recorded.                  *)
ProgressInv ==
    /\ bpc = "spawn" => \A n \in progress : n \in skip \/ n < first
    /\ bpc = "join" => \A n \in progress : n \in skip \/ n < first + BatchSize
    /\ \A n \in Txs : tpc[n] # "none" => n \notin progress

(* What is recorded is handled, and what a running attempt has behind it   *)
(* is, unless the context is cancelled: then the attempt passes over       *)
(* transactions without their events and only the mark will fail.          *)
RecordInv == \A n \in progress \cup skip : Handled(n)

WorkInv ==
    /\ bpc \in {"store", "progress", "spawn", "join"} => block = Txs
    /\ bpc \in {"spawn", "join"} => \A n \in Txs : n < first => Handled(n)
    /\ bpc = "join" =>
          \A n \in Txs : n \in Batch /\ tpc[n] = "none" => Handled(n)
    /\ \A n \in Txs : tpc[n] = "note" => Handled(n)
    /\ \A n \in Txs : tpc[n] = "transfer" =>
          \A e \in Owed : e[1] = n /\ e[2] < pos[n] => sent[e] > 0
    /\ bpc \in {"clear", "mark"} => \A n \in Txs : Handled(n)

IndInv ==
    /\ AttemptInv
    /\ ProgressInv
    /\ ~Lossy => RecordInv
    /\ ~Lossy /\ ~cancelled => WorkInv

-----------------------------------------------------------------------------
(* Facts about the block.                                                  *)

(* The transactions of the block are numbered and finitely many.           *)
LEMMA TxFacts ==
    /\ Len(Tx) \in Nat
    /\ Txs = 1..Len(Tx)
    /\ IsFiniteSet(Txs)
    /\ \A n \in Txs : n \in Nat /\ Tx[n] \in TxRecords /\ Len(Tx[n].logs) \in Nat
<1>1. Len(Tx) \in Nat /\ Txs = 1..Len(Tx)
  BY BlockAssumption DEF Txs
<1>2. IsFiniteSet(Txs)
  BY <1>1, FS_Interval
<1>3. ASSUME NEW n \in Txs
      PROVE  n \in Nat /\ Tx[n] \in TxRecords /\ Len(Tx[n].logs) \in Nat
  <2>1. n \in 1..Len(Tx) /\ n \in Nat
    BY <1>1
  <2>2. Tx[n] \in TxRecords
    BY <2>1, BlockAssumption
  <2>3. Tx[n].logs \in Seq(Transfers)
    BY <2>2 DEF TxRecords
  <2>4. QED BY <2>1, <2>2, <2>3
<1>4. QED BY <1>1, <1>2, <1>3

(* An owed event is one its goroutine comes by: the transaction passes     *)
(* every filter of processTransaction, and the transfer lies between the   *)
(* first and the last it handles.                                          *)
LEMMA OwedFacts ==
    ASSUME NEW e \in Owed
    PROVE  /\ e[1] \in Txs /\ e[2] \in Nat /\ e = <<e[1], e[2]>>
           /\ Tx[e[1]].supported /\ Tx[e[1]].ok
           /\ NativeRelevant(e[1]) \/ TokenRelevant(e[1])
           /\ FirstTransfer(e[1]) <= e[2] /\ e[2] <= LastTransfer(e[1])
<1>1. PICK n \in Txs : e \in {<<n, i>> : i \in 0..Len(Tx[n].logs)}
  BY DEF Owed, Events
<1>2. PICK i \in 0..Len(Tx[n].logs) : e = <<n, i>>
  BY <1>1
<1>3. e[1] = n /\ e[2] = i /\ Len(Tx[n].logs) \in Nat
  BY <1>2, TxFacts
<1>4. /\ Tx[n].supported /\ Tx[n].ok
      /\ \/ i = 0 /\ Tx[n].plain /\ ~SkipNative
         \/ i \in 1..Len(Tx[n].logs) /\ Tx[n].direct
      /\ Kind(Transfer(n, i)) # "none"
  BY <1>3 DEF Owed
<1>5. CASE i = 0 /\ Tx[n].plain /\ ~SkipNative
  <2>1. Transfer(n, i) = [from |-> Tx[n].from, to |-> Tx[n].to]
    BY <1>5 DEF Transfer
  <2>2. Tx[n].from \in Watched \/ Tx[n].to \in Watched
    BY <1>4, <2>1 DEF Kind
  <2>3. NativeRelevant(n)
    BY <1>5, <2>2 DEF NativeRelevant
  <2>4. QED BY <1>2, <1>3, <1>4, <1>5, <2>3 DEF FirstTransfer, LastTransfer
<1>6. CASE i \in 1..Len(Tx[n].logs) /\ Tx[n].direct
  BY <1>2, <1>3, <1>4, <1>6 DEF TokenRelevant, FirstTransfer, LastTransfer
<1>7. QED BY <1>4, <1>5, <1>6

-----------------------------------------------------------------------------
(* Type correctness.                                                       *)

(* A failure is counted and remembered.                                    *)
LEMMA FaultFacts ==
    ASSUME TypeOK, NEW k \in FaultKinds, Fault(k)
    PROVE  /\ faults' \in [n : Nat, kinds : SUBSET FaultKinds]
           /\ faults'.kinds = faults.kinds \cup {k}
BY DEF TypeOK, Fault

(* The initial state is well typed.                                        *)
LEMMA TypeInit == Init => TypeOK
<1> SUFFICES ASSUME Init PROVE TypeOK
  OBVIOUS
<1>1. Holding = {}
  BY DEF Init, Holding
<1>2. Cardinality(Holding) <= Permits
  BY <1>1, FS_EmptySet, BlockAssumption
<1>3. QED BY <1>2 DEF Init, TypeOK, BlockPCs, TxPCs

(* The end of an attempt leaves its variables well typed.                  *)
LEMMA ReturnType ==
    ASSUME Return
    PROVE  /\ bpc' \in BlockPCs
           /\ block' \subseteq Txs /\ skip' \subseteq Txs
           /\ first' \in Nat /\ failed' \in BOOLEAN
BY DEF Return, BlockPCs

(* So does the way to the next call.                                       *)
LEMMA GotoType ==
    ASSUME TypeOK, NEW call \in BlockPCs, Goto(call)
    PROVE  /\ bpc' \in BlockPCs
           /\ block' \subseteq Txs /\ skip' \subseteq Txs
           /\ first' \in Nat /\ failed' \in BOOLEAN
BY DEF TypeOK, Goto, attemptVars

(* Whether a call fails or works, the count of failures stays one.         *)
LEMMA OutcomeFacts ==
    ASSUME TypeOK, NEW k \in FaultKinds, Fails(k) \/ Works
    PROVE  /\ faults' \in [n : Nat, kinds : SUBSET FaultKinds]
           /\ faults.kinds \subseteq faults'.kinds
BY FaultFacts DEF TypeOK, Fails, Works

(* The steps of ProcessBlock keep all types.                               *)
LEMMA BlockType ==
    ASSUME TypeOK, BlockStep
    PROVE  TypeOK'
<1> USE DEF txVars, redisVars, countVars
<1>a. {"redis", "fetch", "type", "lag", "soon", "hang"} \subseteq FaultKinds
  BY DEF FaultKinds
<1>b. \A c \in {"cache", "fetch", "hung", "store", "progress", "spawn", "join",
                "clear", "mark", "uncache", "done"} : c \in BlockPCs
  BY DEF BlockPCs
<1>c. tpc' = tpc => Holding' = Holding
  BY DEF Holding
<1>1. CASE Begin
  BY <1>1, <1>b, <1>c, GotoType DEF Begin, TypeOK
<1>2. CASE ReadCache
  <2>1. /\ bpc' \in BlockPCs /\ block' \subseteq Txs /\ skip' \subseteq Txs
        /\ first' \in Nat /\ failed' \in BOOLEAN /\ cached' \in BOOLEAN
    BY <1>2, <1>b, GotoType DEF ReadCache, TypeOK
  <2>2. faults' \in [n : Nat, kinds : SUBSET FaultKinds]
    BY <1>2, <1>a, FaultFacts, OutcomeFacts DEF ReadCache
  <2>3. QED BY <1>2, <1>c, <2>1, <2>2 DEF ReadCache, TypeOK
<1>3. CASE Fetch
  <2>1. /\ bpc' \in BlockPCs /\ block' \subseteq Txs /\ skip' \subseteq Txs
        /\ first' \in Nat /\ failed' \in BOOLEAN
    BY <1>3, <1>b, GotoType, ReturnType DEF Fetch, TypeOK
  <2>2. faults' \in [n : Nat, kinds : SUBSET FaultKinds]
    BY <1>3, <1>a, FaultFacts, OutcomeFacts DEF Fetch
  <2>3. QED BY <1>3, <1>c, <2>1, <2>2 DEF Fetch, TypeOK
<1>4. CASE FetchNull
  BY <1>4, <1>a, <1>b, <1>c, FaultFacts DEF FetchNull, TypeOK
<1>h. CASE FetchHangs
  <2>1. /\ bpc' \in BlockPCs /\ block' \subseteq Txs /\ skip' \subseteq Txs
        /\ first' \in Nat /\ failed' \in BOOLEAN
    BY <1>h, <1>b, GotoType, ReturnType DEF FetchHangs
  <2>2. faults' \in [n : Nat, kinds : SUBSET FaultKinds]
    BY <1>h, <1>a, FaultFacts DEF FetchHangs, TypeOK
  <2>3. QED BY <1>h, <1>c, <2>1, <2>2 DEF FetchHangs, TypeOK
<1>5. CASE StoreCache
  <2>1. faults' \in [n : Nat, kinds : SUBSET FaultKinds]
    BY <1>5, <1>a, OutcomeFacts DEF StoreCache
  <2>2. QED BY <1>5, <1>b, <1>c, <2>1, GotoType DEF StoreCache, TypeOK
<1>6. CASE ReadProgress
  <2>1. faults' \in [n : Nat, kinds : SUBSET FaultKinds]
    BY <1>6, <1>a, OutcomeFacts DEF ReadProgress
  <2>2. QED BY <1>6, <1>b, <1>c, <2>1, ReturnType DEF ReadProgress, TypeOK
<1>7. CASE SpawnBatch
  <2>1. tpc' \in [Txs -> TxPCs]
    BY <1>7 DEF SpawnBatch, TypeOK, TxPCs
  <2>2. Cardinality(Holding') <= Permits
    <3>1. CASE tpc' = tpc
      BY <1>c, <3>1 DEF TypeOK
    <3>2. CASE tpc' = [n \in Txs |-> IF n \in Spawned THEN "acquire" ELSE "none"]
      <4>1. Holding' = {}
        BY <3>2 DEF Holding
      <4>2. QED BY <4>1, FS_EmptySet, BlockAssumption
    <3>3. QED BY <1>7, <3>1, <3>2 DEF SpawnBatch
  <2>3. QED BY <1>7, <1>b, <2>1, <2>2, GotoType DEF SpawnBatch, TypeOK
<1>8. CASE JoinBatch
  BY <1>8, <1>b, <1>c, ReturnType, BlockAssumption DEF JoinBatch, TypeOK
<1>9. CASE ClearProgress
  <2>1. faults' \in [n : Nat, kinds : SUBSET FaultKinds]
    BY <1>9, <1>a, FaultFacts, OutcomeFacts DEF ClearProgress
  <2>2. QED BY <1>9, <1>b, <1>c, <2>1, GotoType DEF ClearProgress, TypeOK
<1>10. CASE MarkBlock
  <2>1. faults' \in [n : Nat, kinds : SUBSET FaultKinds]
    BY <1>10, <1>a, FaultFacts, OutcomeFacts DEF MarkBlock
  <2>2. QED BY <1>10, <1>b, <1>c, <2>1, GotoType, ReturnType DEF MarkBlock,
                                                                 TypeOK
<1>11. CASE DeleteCache
  <2>1. faults' \in [n : Nat, kinds : SUBSET FaultKinds]
    BY <1>11, <1>a, OutcomeFacts DEF DeleteCache
  <2>2. QED BY <1>11, <1>b, <1>c, <2>1, GotoType DEF DeleteCache, TypeOK
<1>12. QED BY <1>1, <1>2, <1>3, <1>4, <1>h, <1>5, <1>6, <1>7, <1>8, <1>9,
              <1>10, <1>11
           DEF BlockStep

(* A goroutine that goes on without taking a permit leaves enough of them. *)
LEMMA HoldingShrinks ==
    ASSUME TypeOK, NEW n \in Txs, NEW call \in TxPCs, TxGoto(n, call),
           tpc[n] \in {"look", "receipt", "hung", "transfer", "note"} \/ call = "none"
    PROVE  /\ tpc' \in [Txs -> TxPCs]
           /\ Cardinality(Holding') <= Permits
<1>1. tpc' \in [Txs -> TxPCs]
  BY DEF TypeOK, TxGoto
<1>2. Holding' \subseteq Holding
  BY DEF Holding, TxGoto, TypeOK
<1>3. IsFiniteSet(Holding)
  BY TxFacts, FS_Subset DEF Holding
<1>4. /\ Cardinality(Holding') <= Cardinality(Holding)
      /\ Cardinality(Holding') \in Nat /\ Cardinality(Holding) \in Nat
  BY <1>2, <1>3, FS_Subset, FS_CardinalityType
<1>5. QED BY <1>1, <1>4, BlockAssumption DEF TypeOK

(* The steps of a transaction's goroutine keep all types; in particular    *)
(* no more of them hold a permit than the semaphore has.                   *)
LEMMA TxType ==
    ASSUME TypeOK, NEW n \in Txs, TxStep(n)
    PROVE  TypeOK'
<1> USE DEF attemptVars, redisVars, countVars
<1>a. {"redis", "lookup", "receipt", "publish", "hang"} \subseteq FaultKinds
  BY DEF FaultKinds
<1>b. TxPCs = {"none", "acquire", "look", "receipt", "hung", "transfer", "note"}
  BY DEF TxPCs
<1>1. CASE Acquire(n)
  <2>1. CASE TxGoto(n, "none")
    BY <1>1, <2>1, <1>b, HoldingShrinks DEF Acquire, TypeOK
  <2>2. CASE TxGoto(n, "look") /\ Cardinality(Holding) < Permits
    <3>1. Holding' = Holding \cup {n} /\ n \notin Holding
      BY <1>1, <2>2 DEF Holding, TxGoto, TypeOK, Acquire
    <3>2. IsFiniteSet(Holding)
      BY TxFacts, FS_Subset DEF Holding
    <3>3. /\ Cardinality(Holding') = Cardinality(Holding) + 1
          /\ Cardinality(Holding) \in Nat
      BY <3>1, <3>2, FS_AddElement, FS_CardinalityType
    <3>4. Cardinality(Holding') <= Permits
      BY <2>2, <3>3, BlockAssumption
    <3>5. tpc' \in [Txs -> TxPCs]
      BY <1>b, <2>2 DEF TxGoto, TypeOK
    <3>6. QED BY <1>1, <3>4, <3>5 DEF Acquire, TypeOK
  <2>3. QED BY <1>1, <2>1, <2>2 DEF Acquire
<1>2. CASE Look(n)
  <2>1. faults' \in [n : Nat, kinds : SUBSET FaultKinds]
    BY <1>2, <1>a, OutcomeFacts DEF Look, TypeOK
  <2>2. tpc' \in [Txs -> TxPCs] /\ Cardinality(Holding') <= Permits
    BY <1>2, <1>b, HoldingShrinks DEF Look
  <2>3. QED BY <1>2, <2>1, <2>2 DEF Look, TypeOK
<1>3. CASE Receipt(n)
  <2>1. faults' \in [n : Nat, kinds : SUBSET FaultKinds]
    BY <1>3, <1>a, OutcomeFacts DEF Receipt
  <2>2. tpc' \in [Txs -> TxPCs] /\ Cardinality(Holding') <= Permits
    BY <1>3, <1>b, HoldingShrinks DEF Receipt
  <2>3. pos' \in [Txs -> Nat]
    BY <1>3 DEF Receipt, TypeOK, FirstTransfer
  <2>4. QED BY <1>3, <2>1, <2>2, <2>3 DEF Receipt, TypeOK
<1>h. CASE ReceiptHangs(n)
  <2>1. faults' \in [n : Nat, kinds : SUBSET FaultKinds]
    BY <1>h, <1>a, FaultFacts DEF ReceiptHangs, TypeOK
  <2>2. tpc' \in [Txs -> TxPCs] /\ Cardinality(Holding') <= Permits
    BY <1>h, <1>b, HoldingShrinks DEF ReceiptHangs
  <2>3. QED BY <1>h, <2>1, <2>2 DEF ReceiptHangs, TypeOK
<1>4. CASE PublishTransfer(n)
  <2>1. faults' \in [n : Nat, kinds : SUBSET FaultKinds]
    BY <1>4, <1>a, FaultFacts, OutcomeFacts DEF PublishTransfer
  <2>2. pos' \in [Txs -> Nat]
    BY <1>4 DEF PublishTransfer, TypeOK
  <2>3. sent' \in [Owed -> Nat]
    BY <1>4 DEF PublishTransfer, Publish, TypeOK
  <2>4. tpc' = tpc /\ Holding' = Holding
    BY <1>4 DEF PublishTransfer, Holding
  <2>5. QED BY <1>4, <2>1, <2>2, <2>3, <2>4 DEF PublishTransfer, TypeOK
<1>5. CASE TransfersEnd(n)
  <2>1. tpc' \in [Txs -> TxPCs] /\ Cardinality(Holding') <= Permits
    BY <1>5, <1>b, HoldingShrinks DEF TransfersEnd
  <2>2. QED BY <1>5, <2>1 DEF TransfersEnd, TypeOK
<1>6. CASE NoteTx(n)
  <2>1. faults' \in [n : Nat, kinds : SUBSET FaultKinds]
    BY <1>6, <1>a, FaultFacts, OutcomeFacts DEF NoteTx
  <2>2. tpc' \in [Txs -> TxPCs] /\ Cardinality(Holding') <= Permits
    BY <1>6, <1>b, HoldingShrinks DEF NoteTx
  <2>3. pos' \in [Txs -> Nat] /\ progress' \subseteq Txs
    BY <1>6 DEF NoteTx, TypeOK
  <2>4. QED BY <1>6, <2>1, <2>2, <2>3 DEF NoteTx, TypeOK
<1>7. QED BY <1>1, <1>2, <1>3, <1>h, <1>4, <1>5, <1>6 DEF TxStep

(* All steps keep all types.                                               *)
LEMMA TypeNext ==
    ASSUME TypeOK, [Next]_vars
    PROVE  TypeOK'
<1>1. CASE Cancel
  <2>1. Holding' = Holding
    BY <1>1 DEF Cancel, txVars, Holding
  <2>2. "stop" \in FaultKinds
    BY DEF FaultKinds
  <2>3. QED BY <1>1, <2>1, <2>2, FaultFacts
            DEF Cancel, TypeOK, attemptVars, txVars, redisVars
<1>2. CASE Restart
  <2>1. Holding' = {}
    BY <1>2 DEF Restart, Holding
  <2>2. Cardinality(Holding') <= Permits
    BY <2>1, FS_EmptySet, BlockAssumption
  <2>3. /\ bpc' \in BlockPCs /\ block' \subseteq Txs /\ skip' \subseteq Txs
        /\ first' \in Nat /\ failed' \in BOOLEAN
    BY <1>2, ReturnType DEF Restart
  <2>4. tpc' \in [Txs -> TxPCs] /\ pos' \in [Txs -> Nat]
    BY <1>2 DEF Restart, TxPCs
  <2>5. crashes' \in Nat
    <3>1. crashes' = crashes + 1 /\ crashes \in Nat
      BY <1>2 DEF Restart, TypeOK
    <3>2. QED BY <3>1
  <2>a. cancelled' \in BOOLEAN
    BY <1>2 DEF Restart
  <2>6. /\ cached' = cached /\ progress' = progress /\ marked' = marked
        /\ sent' = sent /\ faults' = faults
    BY <1>2 DEF Restart, redisVars
  <2>7. QED BY <2>2, <2>3, <2>4, <2>5, <2>a, <2>6 DEF TypeOK
<1>3. CASE UNCHANGED vars
  <2>1. Holding' = Holding
    BY <1>3 DEF vars, txVars, Holding
  <2>2. QED BY <1>3, <2>1
            DEF vars, attemptVars, txVars, redisVars, countVars, TypeOK
<1>4. QED BY <1>1, <1>2, <1>3, BlockType, TxType DEF Next

(* Every variable keeps its type, and no more goroutines hold a permit     *)
(* than rpcSemaphore has, whatever fails and whenever the process dies.    *)
THEOREM TypeCorrect == Spec => []TypeOK
<1>1. QED BY TypeInit, TypeNext, PTL DEF Spec

-----------------------------------------------------------------------------
(* The attempt and what it knows.                                          *)

(* ProcessBlock waits for its goroutines before it goes on, and takes the  *)
(* recorded transactions out of every batch.                               *)
LEMMA StructureBlock ==
    ASSUME TypeOK, AttemptInv, ProgressInv, BlockStep
    PROVE  AttemptInv' /\ ProgressInv'
<1> USE DEF txVars, redisVars, attemptVars, countVars, Goto, Return
<1>a. BatchSize \in Nat /\ BatchSize > 0 /\ Txs \subseteq Nat
  BY BlockAssumption, TxFacts
<1>b. ASSUME bpc # "join", tpc' = tpc
      PROVE  \A n \in Txs : tpc[n] = "none" /\ tpc'[n] = "none"
  BY <1>b DEF AttemptInv, NoStrayGoroutine
<1>1. CASE \/ Begin \/ ReadCache \/ Fetch \/ FetchNull \/ FetchHangs
           \/ StoreCache \/ ReadProgress \/ ClearProgress \/ MarkBlock \/ DeleteCache
  <2>1. bpc # "join" /\ tpc' = tpc /\ bpc' # "join"
    BY <1>1 DEF Begin, ReadCache, Fetch, FetchNull, FetchHangs, StoreCache,
                ReadProgress, ClearProgress, MarkBlock, DeleteCache
  <2>2. \A n \in Txs : tpc[n] = "none" /\ tpc'[n] = "none"
    BY <1>b, <2>1
  <2>3. AttemptInv'
    <3>1. (marked => bpc \in {"idle", "uncache", "done"})'
      BY <1>1 DEF Begin, ReadCache, Fetch, FetchNull, FetchHangs, StoreCache,
                  ReadProgress, ClearProgress, MarkBlock, DeleteCache,
                  AttemptInv
    <3>2. /\ first' >= 1
          /\ bpc' \in {"idle", "cache", "fetch", "store", "progress"} => first' = 1
      BY <1>1 DEF Begin, ReadCache, Fetch, FetchNull, FetchHangs, StoreCache,
                  ReadProgress, ClearProgress, MarkBlock, DeleteCache,
                  AttemptInv
    <3>3. QED BY <2>1, <2>2, <3>1, <3>2 DEF AttemptInv, NoStrayGoroutine
  <2>4. ProgressInv'
    <3>1. bpc' = "spawn" => skip' = progress /\ progress' = progress
      BY <1>1 DEF Begin, ReadCache, Fetch, FetchNull, FetchHangs, StoreCache,
                  ReadProgress, ClearProgress, MarkBlock, DeleteCache
    <3>2. QED BY <2>1, <2>2, <3>1 DEF ProgressInv
  <2>5. QED BY <2>3, <2>4
<1>2. CASE SpawnBatch
  <2>1. CASE bpc' = "clear" /\ tpc' = tpc
    <3>1. \A n \in Txs : tpc[n] = "none" /\ tpc'[n] = "none"
      BY <1>b, <1>2, <2>1 DEF SpawnBatch
    <3>2. QED BY <1>2, <2>1, <3>1
              DEF SpawnBatch, AttemptInv, ProgressInv, NoStrayGoroutine
  <2>2. CASE /\ bpc' = "join"
             /\ tpc' = [n \in Txs |-> IF n \in Spawned THEN "acquire" ELSE "none"]
    <3>1. /\ bpc = "spawn" /\ block' = block /\ skip' = skip /\ first' = first
          /\ progress' = progress /\ marked' = marked
      BY <1>2 DEF SpawnBatch
    <3>2. Spawned' = Spawned
      BY <3>1 DEF Spawned, Batch
    <3>3. \A n \in Txs : tpc'[n] # "none" => n \in Spawned
      BY <2>2
    <3>4. AttemptInv'
      BY <2>2, <3>1, <3>2, <3>3 DEF AttemptInv, NoStrayGoroutine
    <3>5. \A n \in Spawned : n \notin skip /\ n >= first
      BY <1>a DEF Spawned, Batch, TypeOK
    <3>6. \A n \in Spawned : n \notin progress
      <4>1. \A n \in progress : n \in skip \/ n < first
        BY <3>1 DEF ProgressInv
      <4>2. first \in Nat /\ progress \subseteq Nat
        BY <1>a DEF TypeOK
      <4>3. ASSUME NEW n \in Spawned, n \in progress PROVE FALSE
        <5>1. n \in Nat /\ n \notin skip /\ n >= first
          BY <3>5, <4>2, <4>3
        <5>2. n < first
          BY <4>1, <4>3, <5>1
        <5>3. QED BY <4>2, <5>1, <5>2
      <4>4. QED BY <4>3
    <3>7. \A n \in progress : n \in skip \/ n < first + BatchSize
      <4>1. \A n \in progress : n \in skip \/ n < first
        BY <3>1 DEF ProgressInv
      <4>2. first \in Nat /\ progress \subseteq Nat
        BY <1>a DEF TypeOK
      <4>3. QED BY <4>1, <4>2, <1>a
    <3>8. QED BY <2>2, <3>1, <3>3, <3>4, <3>6, <3>7 DEF ProgressInv
  <2>3. QED BY <1>2, <2>1, <2>2 DEF SpawnBatch
<1>3. CASE JoinBatch
  <2>1. /\ bpc = "join" /\ tpc' = tpc /\ progress' = progress /\ marked' = marked
        /\ \A n \in Txs : tpc[n] = "none" /\ tpc'[n] = "none"
    BY <1>3 DEF JoinBatch, BatchEnded
  <2>2. ~marked
    BY <2>1 DEF AttemptInv
  <2>3. first' >= 1 /\ (bpc' # "spawn" => first' = 1)
    BY <1>3, <1>a DEF JoinBatch, TypeOK, AttemptInv
  <2>4. bpc' \in {"spawn", "idle"}
    BY <1>3 DEF JoinBatch
  <2>5. AttemptInv'
    BY <2>1, <2>2, <2>3, <2>4 DEF AttemptInv, NoStrayGoroutine
  <2>6. bpc' = "spawn" => skip' = skip /\ first' = first + BatchSize
    BY <1>3 DEF JoinBatch
  <2>7. QED BY <2>1, <2>4, <2>5, <2>6 DEF ProgressInv
<1>4. QED BY <1>1, <1>2, <1>3 DEF BlockStep

(* A goroutine does not take up a transaction again.                       *)
LEMMA StructureTx ==
    ASSUME TypeOK, AttemptInv, ProgressInv, NEW n \in Txs, TxStep(n)
    PROVE  AttemptInv' /\ ProgressInv'
<1>1. /\ bpc' = bpc /\ block' = block /\ skip' = skip /\ first' = first
      /\ marked' = marked
  BY DEF TxStep, Acquire, Look, Receipt, ReceiptHangs, PublishTransfer,
         TransfersEnd, NoteTx, attemptVars, redisVars, countVars
<1>2. /\ tpc[n] # "none"
      /\ \A k \in Txs : k # n => tpc'[k] = tpc[k]
  BY DEF TxStep, Acquire, Look, Receipt, ReceiptHangs, PublishTransfer,
         TransfersEnd, NoteTx, TxGoto, TypeOK
<1>3. bpc = "join" /\ n \in Spawned /\ n \notin progress
  BY <1>2 DEF AttemptInv, NoStrayGoroutine, ProgressInv
<1>4. Spawned' = Spawned
  BY <1>1 DEF Spawned, Batch
<1>5. AttemptInv'
  BY <1>1, <1>2, <1>3, <1>4 DEF AttemptInv, NoStrayGoroutine
<1>6. \/ progress' = progress
      \/ progress' = progress \cup {n} /\ tpc'[n] = "none"
  BY DEF TxStep, Acquire, Look, Receipt, ReceiptHangs, PublishTransfer,
         TransfersEnd, NoteTx, TxGoto, TypeOK, redisVars
<1>7. n < first + BatchSize
  BY <1>3, TxFacts, BlockAssumption DEF Spawned, Batch, TypeOK
<1>8. QED BY <1>1, <1>2, <1>3, <1>5, <1>6, <1>7 DEF ProgressInv

(* So do all steps.                                                        *)
LEMMA StructureNext ==
    ASSUME TypeOK, AttemptInv, ProgressInv, [Next]_vars
    PROVE  AttemptInv' /\ ProgressInv'
<1>1. CASE Cancel
  BY <1>1 DEF Cancel, AttemptInv, ProgressInv, NoStrayGoroutine, Spawned,
              Batch, attemptVars, txVars, redisVars
<1>2. CASE Restart
  <2>1. \A n \in Txs : tpc'[n] = "none"
    BY <1>2 DEF Restart
  <2>2. bpc' = "idle" /\ first' = 1
    BY <1>2 DEF Restart, Return
  <2>3. QED BY <2>1, <2>2 DEF AttemptInv, ProgressInv, NoStrayGoroutine
<1>3. CASE UNCHANGED vars
  BY <1>3 DEF vars, AttemptInv, ProgressInv, NoStrayGoroutine, Spawned, Batch,
              attemptVars, txVars, redisVars
<1>4. QED BY <1>1, <1>2, <1>3, StructureBlock, StructureTx DEF Next

(* Before the first attempt there are no goroutines and no progress.       *)
LEMMA StructureInit == Init => AttemptInv /\ ProgressInv
BY DEF Init, AttemptInv, ProgressInv, NoStrayGoroutine

(* ProcessBlock leaves no goroutine behind, whatever fails or is cancelled *)
(* while they run: processBatch waits for all of them.                     *)
THEOREM NoGoroutineLeft == Spec => []NoStrayGoroutine
<1>1. AttemptInv => NoStrayGoroutine
  BY DEF AttemptInv
<1>2. QED BY <1>1, StructureInit, StructureNext, TypeCorrect, PTL DEF Spec

(* An event is published by the goroutine of its transaction.              *)
LEMMA PublishedBy ==
    ASSUME TypeOK, Next, NEW e \in Owed, sent'[e] # sent[e]
    PROVE  /\ e[1] \in Txs
           /\ PublishTransfer(e[1]) /\ Works /\ e = <<e[1], pos[e[1]]>>
           /\ sent' = [sent EXCEPT ![e] = @ + 1]
<1>1. ~BlockStep
  BY DEF BlockStep, Begin, ReadCache, Fetch, FetchNull, FetchHangs,
         StoreCache, ReadProgress, SpawnBatch, JoinBatch, ClearProgress,
         MarkBlock, DeleteCache
<1>2. ~Cancel /\ ~Restart
  BY DEF Cancel, Restart
<1>3. PICK n \in Txs : TxStep(n)
  BY <1>1, <1>2 DEF Next
<1>4. PublishTransfer(n) /\ Works /\ Publish(<<n, pos[n]>>) /\ <<n, pos[n]>> \in Owed
  BY <1>3 DEF TxStep, Acquire, Look, Receipt, ReceiptHangs, PublishTransfer,
              TransfersEnd, NoteTx
<1>5. e = <<n, pos[n]>>
  BY <1>4 DEF Publish, TypeOK
<1>6. QED BY <1>4, <1>5 DEF Publish

(* A retry publishes nothing for a transaction that Redis has as handled.  *)
THEOREM RetriesOnlyUnrecorded == Spec => RecordedNotRepeated
<1>1. TypeOK /\ ProgressInv /\ [Next]_vars
        => [\A e \in Owed : sent'[e] > sent[e] => e[1] \notin progress]_vars
  <2> SUFFICES ASSUME TypeOK, ProgressInv, Next, NEW e \in Owed, sent'[e] > sent[e]
               PROVE  e[1] \notin progress
    OBVIOUS
  <2>1. sent'[e] # sent[e]
    BY DEF TypeOK
  <2>2. e[1] \in Txs /\ PublishTransfer(e[1])
    BY <2>1, PublishedBy
  <2>3. QED BY <2>2 DEF PublishTransfer, ProgressInv
<1>2. QED BY <1>1, StructureInit, StructureNext, TypeCorrect, PTL
          DEF Spec, RecordedNotRepeated

-----------------------------------------------------------------------------
(* What is recorded and what is behind the attempt is published.           *)

(* Failures are not forgotten and events not taken back.                   *)
LEMMA Monotone ==
    ASSUME TypeOK, [Next]_vars
    PROVE  /\ faults.kinds \subseteq faults'.kinds
           /\ \A e \in Owed : sent'[e] >= sent[e]
           /\ ~Lossy' => ~Lossy
           /\ \A n : Handled(n) => Handled(n)'
<1> USE DEF txVars, redisVars, attemptVars, countVars
<1>1. faults.kinds \subseteq faults'.kinds
  <2>1. CASE BlockStep
    BY <2>1 DEF BlockStep, Begin, ReadCache, Fetch, FetchNull, FetchHangs,
                StoreCache, ReadProgress, SpawnBatch, JoinBatch,
                ClearProgress, MarkBlock, DeleteCache, Fault, Fails, Works
  <2>2. ASSUME NEW n \in Txs, TxStep(n) PROVE faults.kinds \subseteq faults'.kinds
    BY <2>2 DEF TxStep, Acquire, Look, Receipt, ReceiptHangs, PublishTransfer,
                TransfersEnd, NoteTx, Fault, Fails, Works
  <2>3. CASE Cancel \/ Restart \/ UNCHANGED vars
    BY <2>3 DEF Cancel, Restart, Fault, vars
  <2>4. QED BY <2>1, <2>2, <2>3 DEF Next
<1>2. ASSUME NEW e \in Owed PROVE sent'[e] >= sent[e]
  <2>1. sent[e] \in Nat
    BY DEF TypeOK
  <2>2. CASE sent'[e] = sent[e]
    BY <2>1, <2>2
  <2>3. CASE sent'[e] # sent[e]
    <3>1. Next
      BY <2>3 DEF vars
    <3>2. sent' = [sent EXCEPT ![e] = @ + 1]
      BY <2>3, <3>1, PublishedBy
    <3>3. sent'[e] = sent[e] + 1
      BY <3>2 DEF TypeOK
    <3>4. QED BY <2>1, <3>3
  <2>4. QED BY <2>2, <2>3
<1>3. ~Lossy' => ~Lossy
  BY <1>1 DEF Lossy
<1>4. ASSUME NEW n, Handled(n) PROVE Handled(n)'
  <2> SUFFICES ASSUME NEW e \in Owed, e[1] = n PROVE sent'[e] > 0
    BY DEF Handled
  <2>1. sent[e] > 0 /\ sent[e] \in Nat
    BY <1>4 DEF Handled, TypeOK
  <2>2. sent'[e] >= sent[e] /\ sent'[e] \in Nat
    BY <1>2, TypeNext DEF TypeOK
  <2>3. QED BY <2>1, <2>2
<1>5. QED BY <1>1, <1>2, <1>3, <1>4

(* After a failure that is swallowed the promise is over.                  *)
LEMMA SwallowedLossy ==
    ASSUME NEW k \in Swallowed, Fault(k)
    PROVE  Lossy'
BY DEF Fault, Lossy

(* Until a failure is swallowed, a call that fails fails the attempt or    *)
(* is one that does not matter; only under a cancelled context does the    *)
(* attempt go past what it has not published.                              *)
LEMMA WorkBlock ==
    ASSUME TypeOK, AttemptInv, ProgressInv, RecordInv, ~cancelled => WorkInv,
           BlockStep, ~Lossy'
    PROVE  RecordInv' /\ (~cancelled' => WorkInv')
<1> USE DEF txVars, redisVars, attemptVars, countVars, Goto, Return
<1>s. sent' = sent /\ cancelled' = cancelled
  BY DEF BlockStep, Begin, ReadCache, Fetch, FetchNull, FetchHangs,
         StoreCache, ReadProgress, SpawnBatch, JoinBatch, ClearProgress,
         MarkBlock, DeleteCache
<1>h. \A n : Handled(n)' <=> Handled(n)
  BY <1>s DEF Handled
<1>f. ~Fault("soon") /\ ~Fault("type") /\ ~Fault("lag")
  BY SwallowedLossy DEF Swallowed
<1>r. RecordInv'
  <2>1. progress' \subseteq progress /\ skip' \subseteq skip \cup progress
    BY DEF BlockStep, Begin, ReadCache, Fetch, FetchNull, FetchHangs,
           StoreCache, ReadProgress, SpawnBatch, JoinBatch, ClearProgress,
           MarkBlock, DeleteCache
  <2>2. QED BY <1>h, <2>1 DEF RecordInv
<1>q. ASSUME tpc' = tpc, bpc # "join", ~cancelled, bpc' # "join"
      PROVE  \A n \in Txs : tpc'[n] = "none"
  BY <1>q DEF AttemptInv, NoStrayGoroutine
<1> SUFFICES ASSUME ~cancelled PROVE WorkInv'
  BY <1>r, <1>s
<1>w. WorkInv
  OBVIOUS
<1>1. CASE Begin \/ ReadCache \/ MarkBlock \/ DeleteCache
  <2>1. /\ bpc' \in {"cache", "fetch", "uncache", "idle", "done"}
        /\ bpc # "join" /\ tpc' = tpc
    BY <1>1, <1>f DEF Begin, ReadCache, MarkBlock, DeleteCache
  <2>2. \A n \in Txs : tpc'[n] = "none"
    BY <1>q, <2>1
  <2>3. QED BY <2>1, <2>2 DEF WorkInv
<1>2. CASE Fetch \/ FetchNull \/ FetchHangs \/ StoreCache
  <2>1. /\ bpc' \in {"idle", "hung", "store", "progress"}
        /\ bpc' \in {"store", "progress"} => block' = Txs
        /\ bpc # "join" /\ tpc' = tpc
    BY <1>2, <1>f, <1>w DEF Fetch, FetchNull, FetchHangs, StoreCache, WorkInv
  <2>2. \A n \in Txs : tpc'[n] = "none"
    BY <1>q, <2>1
  <2>3. QED BY <2>1, <2>2 DEF WorkInv
<1>3. CASE ReadProgress
  <2>1. /\ bpc' \in {"idle", "spawn"}
        /\ bpc' # "idle" => block' = Txs /\ first' = 1
        /\ bpc # "join" /\ tpc' = tpc
    BY <1>3, <1>w DEF ReadProgress, WorkInv, AttemptInv
  <2>2. \A n \in Txs : tpc'[n] = "none"
    BY <1>q, <2>1
  <2>3. \A n \in Txs : ~ (n < 1)
    BY TxFacts
  <2>4. QED BY <2>1, <2>2, <2>3 DEF WorkInv
<1>4. CASE SpawnBatch
  <2>0. /\ bpc = "spawn" /\ block = Txs /\ block' = block /\ first' = first
        /\ skip' = skip /\ first \in Nat /\ first >= 1
    BY <1>4, <1>w DEF SpawnBatch, WorkInv, AttemptInv, TypeOK
  <2>h. \A n \in Txs : n < first => Handled(n)
    BY <2>0, <1>w DEF WorkInv
  <2>1. CASE bpc' = "clear" /\ tpc' = tpc /\ block \cap Batch = {}
    <3>1. \A n \in Txs : tpc'[n] = "none"
      BY <1>q, <2>0, <2>1
    <3>2. first \notin Txs
      <4>1. first \in Batch
        BY <2>0, BlockAssumption DEF Batch
      <4>2. QED BY <2>0, <2>1, <4>1
    <3>3. \A n \in Txs : n < first
      BY <2>0, <3>2, TxFacts
    <3>4. \A n \in Txs : Handled(n)'
      BY <2>h, <3>3, <1>h
    <3>5. QED BY <2>1, <3>1, <3>4 DEF WorkInv
  <2>2. CASE /\ bpc' = "join"
             /\ tpc' = [n \in Txs |-> IF n \in Spawned THEN "acquire" ELSE "none"]
    <3>1. Batch' = Batch
      BY <2>0 DEF Batch
    <3>2. \A n \in Txs : tpc'[n] \in {"acquire", "none"}
      BY <2>2
    <3>3. \A n \in Txs : n \in Batch /\ tpc'[n] = "none" => n \in skip
      BY <2>0, <2>2 DEF Spawned
    <3>4. \A n \in Txs : n \in Batch /\ tpc'[n] = "none" => Handled(n)'
      BY <3>3, <1>h DEF RecordInv
    <3>5. \A n \in Txs : n < first' => Handled(n)'
      BY <2>0, <2>h, <1>h
    <3>6. QED BY <2>0, <2>2, <3>1, <3>2, <3>4, <3>5 DEF WorkInv
  <2>3. QED BY <1>4, <2>1, <2>2 DEF SpawnBatch
<1>5. CASE JoinBatch
  <2>1. /\ bpc = "join" /\ tpc' = tpc /\ bpc' \in {"idle", "spawn"}
        /\ \A n \in Txs : tpc[n] = "none" /\ tpc'[n] = "none"
    BY <1>5 DEF JoinBatch, BatchEnded
  <2>2. /\ block = Txs /\ first \in Nat
        /\ \A n \in Txs : n < first \/ n \in Batch => Handled(n)
    BY <1>w, <2>1 DEF WorkInv, TypeOK
  <2>3. \A n \in Txs : n < first + BatchSize => Handled(n)'
    <3>1. \A n \in Txs : n < first + BatchSize => n < first \/ n \in Batch
      BY <2>2, TxFacts, BlockAssumption DEF Batch
    <3>2. QED BY <2>2, <3>1, <1>h
  <2>4. bpc' = "spawn" => block' = block /\ first' = first + BatchSize
    BY <1>5 DEF JoinBatch
  <2>5. QED BY <2>1, <2>2, <2>3, <2>4 DEF WorkInv
<1>6. CASE ClearProgress
  <2>1. bpc' = "mark" /\ bpc = "clear" /\ tpc' = tpc
    BY <1>6 DEF ClearProgress
  <2>2. \A n \in Txs : tpc'[n] = "none"
    BY <1>q, <2>1
  <2>3. \A n \in Txs : Handled(n)'
    BY <1>w, <1>h, <2>1 DEF WorkInv
  <2>4. QED BY <2>1, <2>2, <2>3 DEF WorkInv
<1>7. QED BY <1>1, <1>2, <1>3, <1>4, <1>5, <1>6 DEF BlockStep

(* A goroutine comes to the note of its transaction, under a context that  *)
(* is not cancelled, only with all its events out.                         *)
LEMMA WorkTx ==
    ASSUME TypeOK, AttemptInv, ProgressInv, RecordInv, ~cancelled => WorkInv,
           NEW n \in Txs, TxStep(n), ~Lossy'
    PROVE  RecordInv' /\ (~cancelled' => WorkInv')
<1>s. /\ bpc' = bpc /\ block' = block /\ skip' = skip /\ first' = first
      /\ cancelled' = cancelled
  BY DEF TxStep, Acquire, Look, Receipt, ReceiptHangs, PublishTransfer,
         TransfersEnd, NoteTx, attemptVars, redisVars, countVars
<1>o. \A k \in Txs : k # n => tpc'[k] = tpc[k] /\ pos'[k] = pos[k]
  BY DEF TxStep, Acquire, Look, Receipt, ReceiptHangs, PublishTransfer,
         TransfersEnd, NoteTx, TxGoto, TypeOK, txVars
<1>m. \A k : Handled(k) => Handled(k)'
  BY Monotone DEF Next
<1>e. \A e \in Owed : sent[e] > 0 => sent'[e] > 0
  <2> SUFFICES ASSUME NEW e \in Owed, sent[e] > 0 PROVE sent'[e] > 0
    OBVIOUS
  <2>1. sent'[e] >= sent[e]
    BY Monotone DEF Next
  <2>2. sent'[e] \in Nat /\ sent[e] \in Nat
    BY TypeNext DEF TypeOK, Next
  <2>3. QED BY <2>1, <2>2
<1>f. /\ ~Fault("lookup") /\ ~Fault("receipt") /\ ~Fault("publish")
  BY SwallowedLossy DEF Swallowed
<1>b. bpc = "join" /\ n \in Spawned
  BY DEF AttemptInv, NoStrayGoroutine, TxStep, Acquire, Look, Receipt,
         ReceiptHangs, PublishTransfer, TransfersEnd, NoteTx
<1>u. ASSUME ~cancelled,
             progress' = progress \/ (progress' = progress \cup {n} /\ Handled(n)),
             tpc'[n] \in {"none", "note"} => Handled(n)',
             tpc'[n] = "transfer" =>
                \A e \in Owed : e[1] = n /\ e[2] < pos'[n] => sent'[e] > 0
      PROVE  RecordInv' /\ WorkInv'
  <2>1. RecordInv'
    BY <1>s, <1>m, <1>u DEF RecordInv
  <2>2. WorkInv
    BY <1>u
  <2>3. Batch' = Batch
    BY <1>s DEF Batch
  <2>4. \A k \in Txs : k \in Batch' /\ tpc'[k] = "none" => Handled(k)'
    BY <1>b, <1>o, <1>m, <1>u, <2>2, <2>3 DEF WorkInv
  <2>5. \A k \in Txs : tpc'[k] = "note" => Handled(k)'
    BY <1>o, <1>m, <1>u, <2>2 DEF WorkInv
  <2>6. \A k \in Txs : tpc'[k] = "transfer" =>
           \A e \in Owed : e[1] = k /\ e[2] < pos'[k] => sent'[e] > 0
    BY <1>o, <1>e, <1>u, <2>2 DEF WorkInv
  <2>7. block' = Txs /\ \A k \in Txs : k < first' => Handled(k)'
    BY <1>b, <1>s, <1>m, <2>2 DEF WorkInv
  <2>8. QED BY <1>b, <1>s, <2>1, <2>4, <2>5, <2>6, <2>7 DEF WorkInv
<1>c. CASE cancelled
  <2>1. progress' = progress
    BY <1>c DEF TxStep, Acquire, Look, Receipt, ReceiptHangs, PublishTransfer,
                TransfersEnd, NoteTx, redisVars, Fails, Works
  <2>2. QED BY <1>c, <1>s, <1>m, <2>1 DEF RecordInv
<1>d. CASE ~cancelled
  <2>w. WorkInv
    BY <1>d
  <2>1. CASE Acquire(n)
    <3>1. tpc'[n] = "look" /\ progress' = progress
      BY <1>d, <2>1 DEF Acquire, TxGoto, TypeOK, redisVars
    <3>2. QED BY <1>d, <1>s, <1>u, <3>1
  <2>2. CASE Look(n)
    <3>1. tpc'[n] \in {"note", "receipt"} /\ progress' = progress
      BY <2>2 DEF Look, TxGoto, TypeOK, redisVars
    <3>2. tpc'[n] = "note" =>
             ~Tx[n].supported \/ ~ (NativeRelevant(n) \/ TokenRelevant(n))
      BY <1>d, <1>f, <2>2 DEF Look, TxGoto, TypeOK, Fails
    <3>3. tpc'[n] = "note" => Handled(n)'
      BY <3>2, OwedFacts DEF Handled
    <3>4. QED BY <1>d, <1>s, <1>u, <3>1, <3>3
  <2>3. CASE Receipt(n)
    <3>1. tpc'[n] \in {"note", "transfer"} /\ progress' = progress
      BY <2>3 DEF Receipt, TxGoto, TypeOK, redisVars
    <3>2. /\ tpc'[n] = "note" => ~Tx[n].ok
          /\ tpc'[n] = "transfer" => pos'[n] = FirstTransfer(n)
      BY <1>d, <1>f, <2>3 DEF Receipt, TxGoto, TypeOK, Fails
    <3>3. tpc'[n] = "note" => Handled(n)'
      BY <3>2, OwedFacts DEF Handled
    <3>4. FirstTransfer(n) \in Nat
      BY DEF FirstTransfer
    <3>5. \A e \in Owed : e[1] = n => ~ (e[2] < FirstTransfer(n))
      BY <3>4, OwedFacts
    <3>6. QED BY <1>d, <1>s, <1>u, <3>1, <3>2, <3>3, <3>5
  <2>h. CASE ReceiptHangs(n)
    <3>1. tpc'[n] = "hung" /\ progress' = progress
      BY <1>d, <2>h DEF ReceiptHangs, TxGoto, TypeOK, redisVars
    <3>2. QED BY <1>d, <1>s, <1>u, <3>1
  <2>4. CASE PublishTransfer(n)
    <3>1. tpc'[n] = "transfer" /\ tpc[n] = "transfer" /\ progress' = progress
      BY <2>4 DEF PublishTransfer, TypeOK, redisVars
    <3>2. pos'[n] = pos[n] + 1 /\ pos[n] \in Nat
      BY <2>4 DEF PublishTransfer, TypeOK
    <3>3. <<n, pos[n]>> \in Owed => sent' = [sent EXCEPT ![<<n, pos[n]>>] = @ + 1]
      BY <1>d, <1>f, <2>4 DEF PublishTransfer, Fails, Publish
    <3>4. ASSUME NEW e \in Owed, e[1] = n, e[2] < pos'[n] PROVE sent'[e] > 0
      <4>1. e = <<n, e[2]>> /\ e[2] \in Nat
        BY <3>4, OwedFacts
      <4>2. CASE e[2] < pos[n]
        BY <1>e, <2>w, <3>1, <3>4, <4>2 DEF WorkInv
      <4>3. CASE e[2] = pos[n]
        <5>1. sent'[e] = sent[e] + 1
          BY <3>3, <4>1, <4>3 DEF TypeOK
        <5>2. sent[e] \in Nat
          BY DEF TypeOK
        <5>3. QED BY <5>1, <5>2
      <4>4. QED BY <3>2, <3>4, <4>1, <4>2, <4>3
    <3>5. QED BY <1>d, <1>s, <1>u, <3>1, <3>4
  <2>5. CASE TransfersEnd(n)
    <3>1. tpc'[n] = "note" /\ tpc[n] = "transfer" /\ progress' = progress
      BY <2>5 DEF TransfersEnd, TxGoto, TypeOK, redisVars
    <3>2. pos[n] > LastTransfer(n) /\ pos[n] \in Nat /\ LastTransfer(n) \in Nat
      BY <2>5, TxFacts DEF TransfersEnd, LastTransfer, TypeOK
    <3>3. ASSUME NEW e \in Owed, e[1] = n PROVE sent'[e] > 0
      <4>1. e[2] <= LastTransfer(n) /\ e[2] \in Nat
        BY <3>3, OwedFacts
      <4>2. e[2] < pos[n]
        BY <3>2, <4>1
      <4>3. QED BY <1>e, <2>w, <3>1, <3>3, <4>2 DEF WorkInv
    <3>4. Handled(n)'
      BY <3>3 DEF Handled
    <3>5. QED BY <1>d, <1>s, <1>u, <3>1, <3>4
  <2>6. CASE NoteTx(n)
    <3>1. tpc'[n] = "none" /\ tpc[n] = "note"
      BY <2>6 DEF NoteTx, TxGoto, TypeOK
    <3>2. progress' = progress \/ progress' = progress \cup {n}
      BY <2>6 DEF NoteTx
    <3>3. Handled(n) /\ Handled(n)'
      BY <1>m, <2>w, <3>1 DEF WorkInv
    <3>4. QED BY <1>d, <1>s, <1>u, <3>1, <3>2, <3>3
  <2>7. QED BY <2>1, <2>2, <2>3, <2>h, <2>4, <2>5, <2>6 DEF TxStep
<1>9. QED BY <1>c, <1>d

(* The whole invariant is kept by every step.                              *)
LEMMA IndNext ==
    ASSUME TypeOK, IndInv, [Next]_vars
    PROVE  IndInv'
<1>1. AttemptInv /\ ProgressInv
  BY DEF IndInv
<1>2. AttemptInv' /\ ProgressInv'
  BY <1>1, StructureNext
<1> SUFFICES ASSUME ~Lossy' PROVE RecordInv' /\ (~cancelled' => WorkInv')
  BY <1>2 DEF IndInv
<1>3. RecordInv /\ (~cancelled => WorkInv)
  BY Monotone DEF IndInv
<1>4. CASE Cancel
  <2>1. sent' = sent /\ progress' = progress /\ skip' = skip /\ cancelled'
    BY <1>4 DEF Cancel, attemptVars, redisVars
  <2>2. \A n : Handled(n)' <=> Handled(n)
    BY <2>1 DEF Handled
  <2>3. QED BY <1>3, <2>1, <2>2 DEF RecordInv
<1>5. CASE Restart
  <2>1. /\ bpc' = "idle" /\ skip' = {} /\ progress' = progress
        /\ \A n \in Txs : tpc'[n] = "none"
    BY <1>5 DEF Restart, Return, redisVars
  <2>2. RecordInv'
    BY <1>3, <2>1, Monotone DEF RecordInv
  <2>3. WorkInv'
    BY <2>1 DEF WorkInv
  <2>4. QED BY <2>2, <2>3
<1>6. CASE UNCHANGED vars
  <2> USE <1>6 DEF vars, attemptVars, txVars, redisVars, countVars
  <2>1. \A n : Handled(n)' <=> Handled(n)
    BY DEF Handled
  <2>2. RecordInv'
    BY <1>3, <2>1 DEF RecordInv
  <2>3. Batch' = Batch
    BY DEF Batch
  <2>4. ~cancelled => WorkInv'
    BY <1>3, <2>1, <2>3 DEF WorkInv
  <2>5. QED BY <2>2, <2>4
<1>7. QED BY <1>1, <1>3, <1>4, <1>5, <1>6, WorkBlock, WorkTx DEF Next

(* What Redis has recorded is published, and so is what an attempt has     *)
(* behind it while the context lives, until a failure is swallowed.        *)
THEOREM Inductive == Spec => []IndInv
<1>1. Init => IndInv
  <2> SUFFICES ASSUME Init PROVE IndInv
    OBVIOUS
  <2>1. RecordInv
    BY DEF Init, RecordInv
  <2>2. WorkInv
    BY DEF Init, WorkInv
  <2>3. QED BY <2>1, <2>2, StructureInit DEF IndInv
<1>2. QED BY <1>1, IndNext, TypeCorrect, PTL DEF Spec

-----------------------------------------------------------------------------
(* Refinement of BlockDelivery.                                            *)

(* A step of ProcessBlock, of a goroutine or of the process publishes one  *)
(* event, swallows a failure, marks the block, or does nothing that        *)
(* BlockDelivery tells apart.                                              *)
LEMMA DeliveryStep ==
    ASSUME TypeOK, IndInv, [Next]_vars
    PROVE  [Delivery!Next]_Delivery!vars
<1> DEFINE published == {e \in Owed : sent[e] > 0}
<1>1. CASE \E e \in Owed : sent'[e] # sent[e]
  <2>1. PICK e \in Owed : sent'[e] # sent[e]
    BY <1>1
  <2>2. Next
    BY <2>1 DEF vars
  <2>3. /\ e[1] \in Txs /\ PublishTransfer(e[1]) /\ Works
        /\ sent' = [sent EXCEPT ![e] = @ + 1]
    BY <2>1, <2>2, PublishedBy
  <2>4. tpc[e[1]] = "transfer" /\ marked' = marked /\ faults' = faults
    BY <2>3 DEF PublishTransfer, redisVars, Works
  <2>5. ~marked
    <3>1. bpc = "join"
      BY <2>3, <2>4 DEF IndInv, AttemptInv, NoStrayGoroutine
    <3>2. QED BY <3>1 DEF IndInv, AttemptInv
  <2>6. published' = published \cup {e}
    <3>1. ASSUME NEW k \in Owed
          PROVE  sent'[k] > 0 <=> sent[k] > 0 \/ k = e
      <4>1. sent[k] \in Nat
        BY DEF TypeOK
      <4>2. sent'[k] = IF k = e THEN sent[k] + 1 ELSE sent[k]
        BY <2>3 DEF TypeOK
      <4>3. QED BY <4>1, <4>2
    <3>2. QED BY <3>1
  <2>7. CASE e \in published
    BY <2>4, <2>6, <2>7 DEF Delivery!vars
  <2>8. CASE e \notin published
    BY <2>4, <2>5, <2>6, <2>8 DEF Delivery!Next, Delivery!Publish
  <2>9. QED BY <2>7, <2>8
<1>2. CASE \A e \in Owed : sent'[e] = sent[e]
  <2>1. published' = published
    BY <1>2
  <2>2. CASE marked' = marked
    <3>1. CASE Lossy'
      BY <2>1, <2>2, <3>1 DEF Lossy, Delivery!Next, Delivery!Lose
    <3>2. CASE ~Lossy'
      <4>1. ~Lossy
        BY <3>2, Monotone
      <4>2. QED BY <2>1, <2>2, <3>2, <4>1 DEF Lossy, Delivery!vars
    <3>3. QED BY <3>1, <3>2
  <2>3. CASE marked' # marked
    <3>1. MarkBlock
      <4>1. Next /\ ~Cancel /\ ~Restart
        BY <2>3 DEF vars, redisVars, Cancel, Restart
      <4>2. \A n \in Txs : ~TxStep(n)
        BY <2>3 DEF TxStep, Acquire, Look, Receipt, ReceiptHangs,
                    PublishTransfer, TransfersEnd, NoteTx, redisVars
      <4>3. QED BY <2>3, <4>1, <4>2
                DEF Next, BlockStep, Begin, ReadCache, Fetch, FetchNull,
                    FetchHangs, StoreCache, ReadProgress, SpawnBatch,
                    JoinBatch, ClearProgress, DeleteCache, redisVars
    <3>2. bpc = "mark" /\ marked' = TRUE /\ ~cancelled
      BY <2>3, <3>1 DEF MarkBlock, Works
    <3>3. ~marked
      BY <3>2 DEF IndInv, AttemptInv
    <3>4. Lossy' <=> Lossy
      BY <3>1 DEF MarkBlock, Fails, Fault, Works, Lossy, Swallowed
    <3>5. ~Lossy => published = Owed
      <4> SUFFICES ASSUME ~Lossy, NEW e \in Owed PROVE sent[e] > 0
        OBVIOUS
      <4>1. e[1] \in Txs
        BY OwedFacts
      <4>2. Handled(e[1])
        BY <3>2, <4>1 DEF IndInv, WorkInv
      <4>3. QED BY <4>2 DEF Handled
    <3>6. QED BY <2>1, <3>2, <3>3, <3>4, <3>5 DEF Lossy, Delivery!Next,
                                                  Delivery!Mark
  <2>4. QED BY <2>2, <2>3
<1>3. QED BY <1>1, <1>2

(* Through any interleaving of the goroutines, cancellations, crashes and  *)
(* retries, the mark of an EVM block is set once, after all the events the *)
(* block owes, and nothing is published behind it, unless a failure was    *)
(* swallowed.                                                              *)
THEOREM Refinement == Spec => ImplementsDelivery
<1>1. Init => Delivery!Init
  <2> SUFFICES ASSUME Init PROVE Delivery!Init
    OBVIOUS
  <2>1. {e \in Owed : sent[e] > 0} = {}
    BY DEF Init
  <2>2. QED BY <2>1 DEF Init, Delivery!Init
<1>2. QED BY <1>1, DeliveryStep, TypeCorrect, Inductive, PTL
          DEF Spec, ImplementsDelivery, Delivery!DeliverySpec
=============================================================================
