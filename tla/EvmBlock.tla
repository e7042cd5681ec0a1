------------------------------ MODULE EvmBlock ------------------------------
(***************************************************************************)
(* One block of an EVM network on its way from the tracker's worker        *)
(* through ProcessBlock (internal/blockchain/ethereum/processor.go) to its *)
(* mark: the block cache, the fetch, the batches of transactions with one  *)
(* goroutine each behind the semaphore, the events they publish, and the   *)
(* per-block progress set that lets a retry leave out what was handled.    *)
(*                                                                         *)
(* The worker holds the block's claim all the time (BlockTracker), so      *)
(* there is one attempt after another, never two at once.  Each Redis      *)
(* command, RPC call and publication is a step of its own: it can fail, be *)
(* cancelled by the tracker's Stop or be cut short by a crash.             *)
(***************************************************************************)
EXTENDS Integers, Sequences, FiniteSets

CONSTANTS
    Tx,            \* the block's transactions, in order
    Watched,       \* the addresses in the wallet index
    Addresses,     \* all addresses
    SkipNative,    \* config.SkipNative
    LightMode,     \* config.BlockFetchMode = "light"
    BatchSize,     \* config.BatchSize
    Permits,       \* the literal 20: the weight of rpcSemaphore
    Faults,        \* the kinds of failure this instance lets happen
    MaxFaults,     \* bound: how many failures happen
    MaxCrashes     \* bound: how many times the process dies

(* redis: a Redis command fails;  fetch: the block cannot be fetched;      *)
(* type: the client library cannot decode one of its transactions;         *)
(* receipt: a receipt cannot be fetched;  lookup: a wallet lookup fails;   *)
(* publish: an event is not published;  lag: the provider asked for the    *)
(* transaction hashes does not have the block yet and answers null;        *)
(* soon: an attempt finds the block cached by an earlier one;              *)
(* hang: a provider never answers a request: the client has no timeout;    *)
(* stop: the tracker's context is cancelled.                               *)
FaultKinds == {"redis", "fetch", "type", "receipt", "lookup", "publish",
               "lag", "soon", "hang", "stop"}

(* Those after which the code takes the transaction, or the whole block,   *)
(* for handled although it is not.                                         *)
Swallowed == {"type", "receipt", "lookup", "publish", "lag", "soon"}

Transfers == [from : Addresses, to : Addresses]

(* supported: a type processTransaction knows;  plain: a transfer of value *)
(* without data;  direct: a call of a configured token contract;           *)
(* ok: the receipt's status;  logs: its Transfer events of such contracts. *)
TxRecords ==
    [supported : BOOLEAN, plain : BOOLEAN, direct : BOOLEAN, ok : BOOLEAN,
     from : Addresses, to : Addresses, logs : Seq(Transfers)]

Txs == 1..Len(Tx)

ASSUME BlockAssumption ==
    /\ Tx \in Seq(TxRecords)
    /\ Watched \subseteq Addresses
    /\ SkipNative \in BOOLEAN
    /\ LightMode \in BOOLEAN
    /\ BatchSize \in Nat \ {0}
    /\ Permits \in Nat \ {0}
    /\ Faults \subseteq FaultKinds
    /\ MaxFaults \in Nat
    /\ MaxCrashes \in Nat

VARIABLES
    bpc,        \* the call ProcessBlock or its caller makes next
    block,      \* the transactions of the block it works on
    skip,       \* processedTxMap
    first,      \* the first transaction of the batch
    failed,     \* whether errCh holds an error
    tpc,        \* transaction -> where its goroutine is
    pos,        \* transaction -> the transfer its goroutine comes to next
    cached,     \* Redis: whether the cache holds the block
    progress,   \* Redis: block_progress
    marked,     \* Redis: the block's bit in processed_blocks
    sent,       \* the events published, each with how often
    cancelled,  \* the tracker's context
    faults,     \* history: how many failures happened, and of which kinds
    crashes     \* crashes so far

attemptVars == <<block, skip, first, failed>>
txVars      == <<tpc, pos>>
redisVars   == <<cached, progress, marked>>
countVars   == <<cancelled, faults, crashes>>
vars == <<bpc, attemptVars, txVars, redisVars, sent, countVars>>

BlockPCs == {"idle", "cache", "fetch", "hung", "store", "progress", "spawn",
             "join", "clear", "mark", "uncache", "done"}
TxPCs == {"none", "acquire", "look", "receipt", "hung", "transfer", "note"}

-----------------------------------------------------------------------------
(* The transfers of a transaction: 0 is the native one, the others are the *)
(* token contracts' logs.  An event is a transaction and a transfer.       *)

Transfer(t, i) ==
    IF i = 0 THEN [from |-> Tx[t].from, to |-> Tx[t].to] ELSE Tx[t].logs[i]

(* A transfer from a watched wallet to a foreign address is a withdrawal,  *)
(* any transfer to a watched wallet is a deposit.                          *)
Kind(tr) ==
    CASE tr.to \in Watched -> "deposit"
      [] tr.from \in Watched /\ tr.to \notin Watched -> "withdrawal"
      [] OTHER -> "none"

NativeRelevant(t) ==
    /\ ~SkipNative
    /\ Tx[t].plain
    /\ Tx[t].from \in Watched \/ Tx[t].to \in Watched

TokenRelevant(t) == Tx[t].direct

(* Where the goroutine starts, given that the transaction is relevant.     *)
FirstTransfer(t) == IF NativeRelevant(t) THEN 0 ELSE 1
LastTransfer(t) == IF TokenRelevant(t) THEN Len(Tx[t].logs) ELSE 0

Events == UNION {{<<t, i>> : i \in 0..Len(Tx[t].logs)} : t \in Txs}

(* What the block owes to the users of the watched wallets.                *)
Owed ==
    {e \in Events :
        LET t == Tx[e[1]] IN
        /\ t.supported /\ t.ok
        /\ \/ e[2] = 0 /\ t.plain /\ ~SkipNative
           \/ e[2] \in 1..Len(t.logs) /\ t.direct
        /\ Kind(Transfer(e[1], e[2])) # "none"}

-----------------------------------------------------------------------------
Init ==
    /\ bpc = "idle"
    /\ block = {}
    /\ skip = {}
    /\ first = 1
    /\ failed = FALSE
    /\ tpc = [t \in Txs |-> "none"]
    /\ pos = [t \in Txs |-> 0]
    /\ cached = FALSE
    /\ progress = {}
    /\ marked = FALSE
    /\ sent = [e \in Owed |-> 0]
    /\ cancelled = FALSE
    /\ faults = [n |-> 0, kinds |-> {}]
    /\ crashes = 0

Fault(kind) ==
    /\ kind \in Faults
    /\ faults.n < MaxFaults
    /\ faults' = [n |-> faults.n + 1, kinds |-> faults.kinds \cup {kind}]

(* A call that takes the context fails, by itself or because the context   *)
(* is cancelled; only without that can it work.                            *)
Fails(kind) == (cancelled /\ UNCHANGED faults) \/ Fault(kind)
Works == ~cancelled /\ UNCHANGED faults

(* ProcessBlock returns without having completed the block.                *)
Return ==
    /\ bpc' = "idle"
    /\ block' = {}
    /\ skip' = {}
    /\ first' = 1
    /\ failed' = FALSE

Goto(call) == bpc' = call /\ UNCHANGED attemptVars

-----------------------------------------------------------------------------
(* processBlockSafely calls ProcessBlock, now or in a later job.           *)
Begin ==
    /\ bpc = "idle"
    /\ ~marked
    /\ ~cancelled
    /\ Goto("cache")
    /\ UNCHANGED <<txVars, redisVars, sent, countVars>>

(* getBlockTransactions asks the cache.  What it holds is the JSON of a    *)
(* types.Block, whose header and transactions are unexported: decoded, it  *)
(* is a block without transactions.  A read that fails is a miss; so is an *)
(* entry older than two minutes.                                           *)
ReadCache ==
    /\ bpc = "cache"
    /\ \/ /\ cached
          /\ ~cancelled
          /\ Fault("soon")
          /\ bpc' = "progress"
          /\ block' = {}
          /\ UNCHANGED <<skip, first, failed, cached>>
       \/ /\ Fails("redis")
          /\ Goto("fetch")
          /\ UNCHANGED cached
       \/ /\ Works
          /\ Goto("fetch")
          /\ cached' = FALSE
    /\ UNCHANGED <<txVars, progress, marked, sent, cancelled, crashes>>

(* The block comes whole: BlockByNumber of the regular pool or of a        *)
(* fallback client, or header, hashes and every transaction of             *)
(* GetBlockVerbose.                                                        *)
Fetch ==
    /\ bpc = "fetch"
    /\ \/ Fails("fetch") /\ Return
       \/ ~cancelled /\ Fault("type") /\ Goto("mark")
       \/ /\ Works
          /\ bpc' = "store"
          /\ block' = Txs
          /\ UNCHANGED <<skip, first, failed>>
    /\ UNCHANGED <<txVars, redisVars, sent, cancelled, crashes>>

(* GetBlockVerbose: the header comes from one provider, the hashes from    *)
(* another that answers null, which is taken for an empty block.           *)
FetchNull ==
    /\ bpc = "fetch"
    /\ LightMode
    /\ ~cancelled
    /\ Fault("lag")
    /\ bpc' = "store"
    /\ block' = {}
    /\ UNCHANGED <<skip, first, failed>>
    /\ UNCHANGED <<txVars, redisVars, sent, cancelled, crashes>>

(* A request for the block is not answered.  The worker's context has no   *)
(* deadline either: the call ends when Stop cancels it, and not before.    *)
FetchHangs ==
    /\ \/ bpc = "fetch" /\ ~cancelled /\ Fault("hang") /\ Goto("hung")
       \/ bpc = "hung" /\ cancelled /\ UNCHANGED faults /\ Return
    /\ UNCHANGED <<txVars, redisVars, sent, cancelled, crashes>>

(* SetCache, best effort.                                                  *)
StoreCache ==
    /\ bpc = "store"
    /\ Goto("progress")
    /\ \/ Fails("redis") /\ UNCHANGED cached
       \/ Works /\ cached' = TRUE
    /\ UNCHANGED <<txVars, progress, marked, sent, cancelled, crashes>>

(* GetProcessedTransactions.                                               *)
ReadProgress ==
    /\ bpc = "progress"
    /\ \/ Fails("redis") /\ Return
       \/ /\ Works
          /\ bpc' = "spawn"
          /\ skip' = progress
          /\ UNCHANGED <<block, first, failed>>
    /\ UNCHANGED <<txVars, redisVars, sent, cancelled, crashes>>

-----------------------------------------------------------------------------
(* processBatch.                                                           *)

Batch == first..(first + BatchSize - 1)

(* Mutant of Spawned: the progress of earlier attempts is not consulted.   *)
SpawnedAll == block \cap Batch

(* The transactions of the batch that get a goroutine.                     *)
Spawned == (block \cap Batch) \ skip

SpawnBatch ==
    /\ bpc = "spawn"
    /\ \/ /\ block \cap Batch = {}
          /\ Goto("clear")
          /\ UNCHANGED tpc
       \/ /\ block \cap Batch # {}
          /\ Goto("join")
          /\ tpc' = [t \in Txs |-> IF t \in Spawned THEN "acquire" ELSE "none"]
    /\ UNCHANGED <<pos, redisVars, sent, countVars>>

(* Mutant of BatchEnded: it is enough that one goroutine has ended.        *)
BatchEndedEarly == \E t \in Txs : tpc[t] = "none"

(* wg.Wait.                                                                *)
BatchEnded == \A t \in Txs : tpc[t] = "none"

(* Mutant of JoinBatch: the same batch is taken again.                     *)
JoinBatchAgain ==
    /\ bpc = "join"
    /\ BatchEnded
    /\ \/ failed /\ Return
       \/ ~failed /\ Goto("spawn")
    /\ UNCHANGED <<txVars, redisVars, sent, countVars>>

JoinBatch ==
    /\ bpc = "join"
    /\ BatchEnded
    /\ \/ failed /\ Return
       \/ /\ ~failed
          /\ bpc' = "spawn"
          /\ first' = first + BatchSize
          /\ UNCHANGED <<block, skip, failed>>
    /\ UNCHANGED <<txVars, redisVars, sent, countVars>>

-----------------------------------------------------------------------------
(* The goroutine of one transaction.                                       *)

Holding ==
    {t \in Txs : tpc[t] \in {"look", "receipt", "hung", "transfer", "note"}}

TxGoto(t, call) == tpc' = [tpc EXCEPT ![t] = call]

(* rpcSemaphore.Acquire waits for a permit, unless the context is done.    *)
Acquire(t) ==
    /\ tpc[t] = "acquire"
    /\ \/ /\ cancelled
          /\ TxGoto(t, "none")
          /\ failed' = TRUE
       \/ /\ ~cancelled
          /\ Cardinality(Holding) < Permits
          /\ TxGoto(t, "look")
          /\ UNCHANGED failed
    /\ UNCHANGED <<bpc, block, skip, first, pos, redisVars, sent, countVars>>

(* transactionRelevance.  Its errors, like all of processTransaction's,    *)
(* are logged and the transaction is noted as handled.                     *)
Look(t) ==
    /\ tpc[t] = "look"
    /\ \/ ~Tx[t].supported /\ TxGoto(t, "note") /\ UNCHANGED faults
       \/ /\ Tx[t].supported /\ Tx[t].plain /\ ~SkipNative
          /\ Fails("lookup")
          /\ TxGoto(t, "note")
       \/ /\ Tx[t].supported
          /\ cancelled => ~Tx[t].plain \/ SkipNative
          /\ TxGoto(t, IF NativeRelevant(t) \/ TokenRelevant(t)
                       THEN "receipt" ELSE "note")
          /\ UNCHANGED faults
    /\ UNCHANGED <<bpc, attemptVars, pos, redisVars, sent, cancelled, crashes>>

(* TransactionReceipt; failed transactions have no transfers.              *)
Receipt(t) ==
    /\ tpc[t] = "receipt"
    /\ \/ Fails("receipt") /\ TxGoto(t, "note") /\ UNCHANGED pos
       \/ /\ Works
          /\ IF Tx[t].ok
             THEN /\ TxGoto(t, "transfer")
                  /\ pos' = [pos EXCEPT ![t] = FirstTransfer(t)]
             ELSE TxGoto(t, "note") /\ UNCHANGED pos
    /\ UNCHANGED <<bpc, attemptVars, redisVars, sent, cancelled, crashes>>

(* A request for the receipt is not answered: the goroutine keeps its      *)
(* permit, and wg.Wait waits for it, until Stop cancels the call.          *)
ReceiptHangs(t) ==
    /\ \/ tpc[t] = "receipt" /\ ~cancelled /\ Fault("hang") /\ TxGoto(t, "hung")
       \/ tpc[t] = "hung" /\ cancelled /\ UNCHANGED faults /\ TxGoto(t, "note")
    /\ UNCHANGED <<bpc, attemptVars, pos, redisVars, sent, cancelled, crashes>>

(* PublishDeposit and PublishWithdrawal, which take no context.            *)
Publish(e) == sent' = [sent EXCEPT ![e] = @ + 1]

(* processNativeTransaction, and one round of processTokenTransaction: the *)
(* wallets are looked up and the event is published.  Whatever fails here  *)
(* is logged and the next transfer is taken.                               *)
PublishTransfer(t) ==
    LET e == <<t, pos[t]>> IN
    /\ tpc[t] = "transfer"
    /\ pos[t] <= LastTransfer(t)
    /\ pos' = [pos EXCEPT ![t] = @ + 1]
    /\ \/ Fails("lookup") /\ UNCHANGED sent
       \/ Works /\ e \notin Owed /\ UNCHANGED sent
       \/ ~cancelled /\ e \in Owed /\ Fault("publish") /\ UNCHANGED sent
       \/ Works /\ e \in Owed /\ Publish(e)
    /\ UNCHANGED <<bpc, attemptVars, tpc, redisVars, cancelled, crashes>>

TransfersEnd(t) ==
    /\ tpc[t] = "transfer"
    /\ pos[t] > LastTransfer(t)
    /\ TxGoto(t, "note")
    /\ UNCHANGED <<bpc, attemptVars, pos, redisVars, sent, countVars>>

(* AddProcessedTransaction: an error is logged, whether SADD was applied   *)
(* or not; then the permit is released.                                    *)
NoteTx(t) ==
    /\ tpc[t] = "note"
    /\ TxGoto(t, "none")
    /\ pos' = [pos EXCEPT ![t] = 0]
    /\ \/ Fails("redis") /\ UNCHANGED progress
       \/ ~cancelled /\ Fault("redis") /\ progress' = progress \cup {t}
       \/ Works /\ progress' = progress \cup {t}
    /\ UNCHANGED <<bpc, attemptVars, cached, marked, sent, cancelled, crashes>>

-----------------------------------------------------------------------------
(* The end of the block.                                                   *)

(* ClearBlockProgress: an error is logged.                                 *)
ClearProgress ==
    /\ bpc = "clear"
    /\ Goto("mark")
    /\ \/ Fails("redis") /\ UNCHANGED progress
       \/ ~cancelled /\ Fault("redis") /\ progress' = {}
       \/ Works /\ progress' = {}
    /\ UNCHANGED <<txVars, cached, marked, sent, cancelled, crashes>>

(* Mutant of MarkBlock: the mark is written whatever became of the context.*)
MarkBlockDetached ==
    /\ bpc = "mark"
    /\ marked' = TRUE
    /\ Goto("uncache")
    /\ UNCHANGED <<txVars, cached, progress, sent, countVars>>

(* MarkBlockProcessed, in processBlockSafely.                              *)
MarkBlock ==
    /\ bpc = "mark"
    /\ \/ Fails("redis") /\ Return /\ UNCHANGED marked
       \/ ~cancelled /\ Fault("redis") /\ Return /\ marked' = TRUE
       \/ Works /\ Goto("uncache") /\ marked' = TRUE
    /\ UNCHANGED <<txVars, cached, progress, sent, cancelled, crashes>>

(* DeleteCache, best effort.                                               *)
DeleteCache ==
    /\ bpc = "uncache"
    /\ Goto("done")
    /\ \/ Fails("redis") /\ UNCHANGED cached
       \/ Works /\ cached' = FALSE
    /\ UNCHANGED <<txVars, progress, marked, sent, cancelled, crashes>>

(* The tracker's Stop cancels the context of every call.                   *)
Cancel ==
    /\ ~cancelled
    /\ Fault("stop")
    /\ cancelled' = TRUE
    /\ UNCHANGED <<bpc, attemptVars, txVars, redisVars, sent, crashes>>

(* The process dies, or has stopped, and is started again.                 *)
Restart ==
    /\ crashes < MaxCrashes
    /\ crashes' = crashes + 1
    /\ Return
    /\ tpc' = [t \in Txs |-> "none"]
    /\ pos' = [t \in Txs |-> 0]
    /\ cancelled' = FALSE
    /\ UNCHANGED <<redisVars, sent, faults>>

TxStep(t) ==
    \/ Acquire(t)
    \/ Look(t)
    \/ Receipt(t)
    \/ ReceiptHangs(t)
    \/ PublishTransfer(t)
    \/ TransfersEnd(t)
    \/ NoteTx(t)

BlockStep ==
    \/ Begin
    \/ ReadCache
    \/ Fetch
    \/ FetchNull
    \/ FetchHangs
    \/ StoreCache
    \/ ReadProgress
    \/ SpawnBatch
    \/ JoinBatch
    \/ ClearProgress
    \/ MarkBlock
    \/ DeleteCache

Next ==
    \/ BlockStep
    \/ \E t \in Txs : TxStep(t)
    \/ Cancel
    \/ Restart

Spec == Init /\ [][Next]_vars

(* Goroutines run; the worker comes back to a block that is not marked     *)
(* (BlockTracker!CatchesUp).  Nothing is assumed of failures and crashes   *)
(* except that they are finitely many; a request that hangs does not end.  *)
FairSpec == Spec /\ WF_vars(BlockStep) /\ \A t \in Txs : WF_vars(TxStep(t))

-----------------------------------------------------------------------------
(* Properties.                                                             *)

(* Every variable holds a value of its Go type, and no more goroutines     *)
(* hold a permit than the semaphore has.                                   *)
TypeOK ==
    /\ bpc \in BlockPCs
    /\ block \subseteq Txs
    /\ skip \subseteq Txs
    /\ first \in Nat
    /\ failed \in BOOLEAN
    /\ tpc \in [Txs -> TxPCs]
    /\ pos \in [Txs -> Nat]
    /\ cached \in BOOLEAN
    /\ progress \subseteq Txs
    /\ marked \in BOOLEAN
    /\ sent \in [Owed -> Nat]
    /\ cancelled \in BOOLEAN
    /\ faults \in [n : Nat, kinds : SUBSET FaultKinds]
    /\ crashes \in Nat
    /\ Cardinality(Holding) <= Permits

(* ProcessBlock keeps what every network promises of a block, although its *)
(* goroutines publish in any order and attempts follow one another: the    *)
(* mark is set once, after all the block owes, and nothing is published    *)
(* behind it, whatever was cancelled, crashed or failed on the way, except *)
(* after a failure that is swallowed.  (processBatch reports what was      *)
(* cancelled; progress recorded by an attempt that failed is never taken   *)
(* for more than it says.)                                                 *)
Delivery ==
    INSTANCE BlockDelivery
        WITH owed <- Owed,
             published <- {e \in Owed : sent[e] > 0},
             marked <- marked,
             lossy <- faults.kinds \cap Swallowed # {}

ImplementsDelivery == Delivery!DeliverySpec

(* Nothing is published for a transaction that Redis already has as        *)
(* handled: the processedTxMap a goroutine was started from is never out   *)
(* of date, and a retry repeats only what was not recorded.                *)
RecordedNotRepeated ==
    [][\A e \in Owed : sent'[e] > sent[e] => e[1] \notin progress]_vars

(* ProcessBlock leaves no goroutine behind: when it returns, clears the    *)
(* progress or the block is marked, none of them can still publish or      *)
(* record a transaction.                                                   *)
NoStrayGoroutine == bpc # "join" => \A t \in Txs : tpc[t] = "none"

(* A request of this block is not answered.                                *)
Hung == bpc = "hung" \/ \E t \in Txs : tpc[t] = "hung"

(* The block is marked in the end, however its finitely many failures fall *)
(* and however few permits there are, unless the tracker is stopped for    *)
(* good or a request is never answered: a single one keeps the block from  *)
(* its mark until the process is started again.                            *)
EventuallyMarked == <>marked \/ <>[]cancelled \/ <>[]Hung
=============================================================================
