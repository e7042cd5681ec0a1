------------------------------ MODULE TronBlock ------------------------------
(***************************************************************************)
(* One block of TRON on its way through ProcessBlock                       *)
(* (internal/blockchain/tron/processor.go) to its mark: the block, the     *)
(* progress of earlier attempts, the transaction infos of the whole block, *)
(* then the transactions one after the other, contract by contract, and    *)
(* for a call of a configured token the logs in the transaction's info.    *)
(*                                                                         *)
(* The worker holds the block's claim all the time (BlockTracker).  Each   *)
(* request, Redis command and publication is a step: it can fail, be       *)
(* cancelled by the tracker's Stop or be cut short by a crash.             *)
(***************************************************************************)
EXTENDS Integers, Sequences

CONSTANTS
    Tx,          \* the block's transactions, in order
    Watched,     \* the addresses in the wallet index
    Addresses,   \* all addresses
    Faults,      \* the kinds of failure this instance lets happen
    MaxFaults,   \* bound: how many failures happen
    MaxCrashes   \* bound: how many times the process dies

(* request: a TRON request fails on every provider and retry;              *)
(* redis: a Redis command fails;  lookup: a wallet lookup fails;           *)
(* publish: an event is not published;  lag: the node asked for the infos  *)
(* does not have all of them yet;  stop: the tracker's context is          *)
(* cancelled.                                                              *)
FaultKinds == {"request", "redis", "lookup", "publish", "lag", "stop"}

(* Those after which the code takes the transaction for handled although   *)
(* it is not.                                                              *)
Swallowed == {"lookup", "publish", "lag"}

(* trx: a TransferContract of a positive amount;  token: a call of a       *)
(* configured TRC20 contract;  other: what processTransaction ignores.     *)
Contracts == [kind : {"trx", "token", "other"}, from : Addresses, to : Addresses]

Transfers == [from : Addresses, to : Addresses]

(* ok: isSuccessfulTransaction;  result: the receipt's result is empty or  *)
(* SUCCESS;  logs: the Transfer logs of configured contracts.              *)
TxRecords ==
    [ok : BOOLEAN, result : BOOLEAN, contracts : Seq(Contracts),
     logs : Seq(Transfers)]

Txs == 1..Len(Tx)

ASSUME TronAssumption ==
    /\ Tx \in Seq(TxRecords)
    /\ Watched \subseteq Addresses
    /\ Faults \subseteq FaultKinds
    /\ MaxFaults \in Nat
    /\ MaxCrashes \in Nat

VARIABLES
    bpc,        \* where ProcessBlock or its caller is
    skip,       \* processedTxMap
    infos,      \* the transactions in txInfos
    t,          \* the transaction ProcessBlock is at
    c,          \* the contract of it processTransaction is at
    l,          \* the log of it processTRC20TransferLogs is at
    progress,   \* Redis: block_progress
    marked,     \* Redis: the block's bit in processed_blocks
    sent,       \* the events published, each with how often
    cancelled,  \* the tracker's context
    faults,     \* history: how many failures happened, and of which kinds
    crashes

attemptVars == <<skip, infos, t, c, l>>
vars == <<bpc, attemptVars, progress, marked, sent, cancelled, faults, crashes>>

-----------------------------------------------------------------------------
(* An event is <<n, "contract", i>>, a TRX transfer of transaction n, or   *)
(* <<n, "log", i>>, a token transfer.                                      *)

Concerns(tr) == tr.from \in Watched \/ tr.to \in Watched

(* What the block owes to the users of the watched wallets.                *)
Owed ==
    UNION {{<<n, "contract", i>> :
               i \in {j \in 1..Len(Tx[n].contracts) :
                         /\ Tx[n].contracts[j].kind = "trx"
                         /\ Concerns(Tx[n].contracts[j])}}
           \cup
           {<<n, "log", i>> :
               i \in {j \in 1..Len(Tx[n].logs) :
                         /\ Tx[n].result
                         /\ \E k \in 1..Len(Tx[n].contracts) :
                               Tx[n].contracts[k].kind = "token"
                         /\ Concerns(Tx[n].logs[j])}}
           : n \in {m \in Txs : Tx[m].ok}}

-----------------------------------------------------------------------------
Init ==
    /\ bpc = "idle"
    /\ skip = {}
    /\ infos = {}
    /\ t = 1
    /\ c = 1
    /\ l = 1
    /\ progress = {}
    /\ marked = FALSE
    /\ sent = [e \in Owed |-> 0]
    /\ cancelled = FALSE
    /\ faults = [n |-> 0, kinds |-> {}]
    /\ crashes = 0

Fault(kind) ==
    /\ kind \in Faults
    /\ faults.n < MaxFaults
    /\ faults' = [n |-> faults.n + 1, kinds |-> faults.kinds \cup {kind}]

(* A call with the context fails, by itself or because that is cancelled.  *)
Fails(kind) == (cancelled /\ UNCHANGED faults) \/ Fault(kind)
Works == ~cancelled /\ UNCHANGED faults

(* ProcessBlock is over.                                                   *)
Return ==
    /\ bpc' = "idle"
    /\ skip' = {}
    /\ infos' = {}
    /\ t' = 1
    /\ c' = 1
    /\ l' = 1

Goto(place) == bpc' = place /\ UNCHANGED attemptVars

(* processBlockSafely calls ProcessBlock, now or in a later job.           *)
Begin ==
    /\ bpc = "idle"
    /\ ~marked
    /\ ~cancelled
    /\ Goto("block")
    /\ UNCHANGED <<progress, marked, sent, cancelled, faults, crashes>>

(* GetBlockByNumber; an empty answer is an error.                          *)
GetBlock ==
    /\ bpc = "block"
    /\ \/ Fails("request") /\ Return
       \/ Works /\ Goto("progress")
    /\ UNCHANGED <<progress, marked, sent, cancelled, crashes>>

(* GetProcessedTransactions.                                               *)
ReadProgress ==
    /\ bpc = "progress"
    /\ \/ Fails("redis") /\ Return
       \/ /\ Works
          /\ bpc' = "infos"
          /\ skip' = progress
          /\ UNCHANGED <<infos, t, c, l>>
    /\ UNCHANGED <<progress, marked, sent, cancelled, crashes>>

(* getTransactionInfoByBlock: a request of its own, perhaps to another     *)
(* node than the block's; what that node lacks is missing in the map.      *)
GetInfos ==
    /\ bpc = "infos"
    /\ \/ Fails("request") /\ Return
       \/ /\ \/ Works /\ infos' = Txs
             \/ ~cancelled /\ Fault("lag") /\ infos' \in SUBSET Txs \ {Txs}
          /\ bpc' = "tx"
          /\ UNCHANGED <<skip, t, c, l>>
    /\ UNCHANGED <<progress, marked, sent, cancelled, crashes>>

-----------------------------------------------------------------------------
(* The transactions.                                                       *)

(* Mutant of StartTx: the progress of earlier attempts is not consulted.   *)
StartTxAgain ==
    /\ bpc = "tx"
    /\ bpc' = IF t > Len(Tx) THEN "clear"
              ELSE IF Tx[t].ok THEN "contract" ELSE "note"
    /\ UNCHANGED attemptVars
    /\ UNCHANGED <<progress, marked, sent, cancelled, faults, crashes>>

(* A transaction recorded by an earlier attempt is left out; one that was  *)
(* not successful has no transfers.                                        *)
StartTx ==
    /\ bpc = "tx"
    /\ \/ t > Len(Tx) /\ Goto("clear")
       \/ t <= Len(Tx) /\ t \in skip /\ t' = t + 1 /\ UNCHANGED <<bpc, skip, infos, c, l>>
       \/ t <= Len(Tx) /\ t \notin skip /\ Tx[t].ok /\ Goto("contract")
       \/ t <= Len(Tx) /\ t \notin skip /\ ~Tx[t].ok /\ Goto("note")
    /\ UNCHANGED <<progress, marked, sent, cancelled, faults, crashes>>

(* PublishDeposit or PublishWithdrawal, which take no context.             *)
Publish(e) == sent' = [sent EXCEPT ![e] = @ + 1]

(* One transfer: its two wallets are looked up and its event is published; *)
(* whatever fails is logged.                                               *)
HandleTransfer(e) ==
    \/ Fails("lookup") /\ UNCHANGED sent
    \/ Works /\ e \notin Owed /\ UNCHANGED sent
    \/ ~cancelled /\ e \in Owed /\ Fault("publish") /\ UNCHANGED sent
    \/ Works /\ e \in Owed /\ Publish(e)

(* Mutant of LogsDone: processedSmartContractLogs is forgotten.            *)
LogsDoneNever == FALSE

(* processedSmartContractLogs: an earlier contract was a token call.       *)
LogsDone == \E i \in 1..(c - 1) : Tx[t].contracts[i].kind = "token"

(* processTransaction: one contract.                                       *)
Contract ==
    /\ bpc = "contract"
    /\ \/ /\ c > Len(Tx[t].contracts)
          /\ Goto("note")
          /\ UNCHANGED <<sent, faults>>
       \/ /\ c <= Len(Tx[t].contracts)
          /\ Tx[t].contracts[c].kind = "trx"
          /\ HandleTransfer(<<t, "contract", c>>)
          /\ c' = c + 1
          /\ UNCHANGED <<bpc, skip, infos, t, l>>
       \/ /\ c <= Len(Tx[t].contracts)
          /\ Tx[t].contracts[c].kind = "token"
          /\ ~LogsDone /\ t \in infos /\ Tx[t].result
          /\ Goto("log")
          /\ UNCHANGED <<sent, faults>>
       \/ /\ c <= Len(Tx[t].contracts)
          /\ \/ Tx[t].contracts[c].kind = "other"
             \/ /\ Tx[t].contracts[c].kind = "token"
                /\ LogsDone \/ t \notin infos \/ ~Tx[t].result
          /\ c' = c + 1
          /\ UNCHANGED <<bpc, skip, infos, t, l, sent, faults>>
    /\ UNCHANGED <<progress, marked, cancelled, crashes>>

(* processTRC20TransferLogs: one log.                                      *)
Log ==
    /\ bpc = "log"
    /\ \/ /\ l > Len(Tx[t].logs)
          /\ bpc' = "contract"
          /\ c' = c + 1
          /\ l' = 1
          /\ UNCHANGED <<skip, infos, t, sent, faults>>
       \/ /\ l <= Len(Tx[t].logs)
          /\ HandleTransfer(<<t, "log", l>>)
          /\ l' = l + 1
          /\ UNCHANGED <<bpc, skip, infos, t, c>>
    /\ UNCHANGED <<progress, marked, cancelled, crashes>>

(* AddProcessedTransaction: an error is logged, whether SADD was applied   *)
(* or not.                                                                 *)
NoteTx ==
    /\ bpc = "note"
    /\ bpc' = "tx"
    /\ t' = t + 1
    /\ c' = 1
    /\ \/ Fails("redis") /\ UNCHANGED progress
       \/ ~cancelled /\ Fault("redis") /\ progress' = progress \cup {t}
       \/ Works /\ progress' = progress \cup {t}
    /\ UNCHANGED <<skip, infos, l, marked, sent, cancelled, crashes>>

-----------------------------------------------------------------------------
(* The end of the block.                                                   *)

(* ClearBlockProgress: an error is logged.                                 *)
ClearProgress ==
    /\ bpc = "clear"
    /\ Goto("mark")
    /\ \/ Fails("redis") /\ UNCHANGED progress
       \/ ~cancelled /\ Fault("redis") /\ progress' = {}
       \/ Works /\ progress' = {}
    /\ UNCHANGED <<marked, sent, cancelled, crashes>>

(* Mutant of MarkBlock: the mark is written whatever became of the context.*)
MarkBlockDetached ==
    /\ bpc = "mark"
    /\ marked' = TRUE
    /\ Goto("done")
    /\ UNCHANGED <<progress, sent, cancelled, faults, crashes>>

(* Mutant of MarkBlock: a block whose mark was not written is dropped.     *)
MarkBlockOnce ==
    /\ bpc = "mark"
    /\ Goto("done")
    /\ \/ Fails("redis") /\ UNCHANGED marked
       \/ Works /\ marked' = TRUE
    /\ UNCHANGED <<progress, sent, cancelled, crashes>>

(* MarkBlockProcessed, in processBlockSafely.                              *)
MarkBlock ==
    /\ bpc = "mark"
    /\ \/ Fails("redis") /\ Return /\ UNCHANGED marked
       \/ ~cancelled /\ Fault("redis") /\ Return /\ marked' = TRUE
       \/ Works /\ Goto("done") /\ marked' = TRUE
    /\ UNCHANGED <<progress, sent, cancelled, crashes>>

(* The tracker's Stop cancels the context of every call.                   *)
Cancel ==
    /\ ~cancelled
    /\ Fault("stop")
    /\ cancelled' = TRUE
    /\ UNCHANGED <<bpc, attemptVars, progress, marked, sent, crashes>>

(* The process dies, or has stopped, and is started again.                 *)
Restart ==
    /\ crashes < MaxCrashes
    /\ crashes' = crashes + 1
    /\ Return
    /\ cancelled' = FALSE
    /\ UNCHANGED <<progress, marked, sent, faults>>

BlockStep ==
    \/ Begin
    \/ GetBlock
    \/ ReadProgress
    \/ GetInfos
    \/ StartTx
    \/ Contract
    \/ Log
    \/ NoteTx
    \/ ClearProgress
    \/ MarkBlock

Next == BlockStep \/ Cancel \/ Restart

Spec == Init /\ [][Next]_vars

(* The worker runs, and comes back to a block that is not marked           *)
(* (BlockTracker!CatchesUp).                                               *)
FairSpec == Spec /\ WF_vars(BlockStep)

-----------------------------------------------------------------------------
(* Properties.                                                             *)

(* Every variable holds a value of its Go type, and no transaction,        *)
(* contract or log beyond the last is ever indexed.                        *)
TypeOK ==
    /\ bpc \in {"idle", "block", "progress", "infos", "tx", "contract", "log",
                "note", "clear", "mark", "done"}
    /\ skip \subseteq Txs
    /\ infos \subseteq Txs
    /\ t \in 1..(Len(Tx) + 1)
    /\ c \in Nat
    /\ l \in Nat
    /\ progress \subseteq Txs
    /\ marked \in BOOLEAN
    /\ sent \in [Owed -> Nat]
    /\ cancelled \in BOOLEAN
    /\ faults \in [n : Nat, kinds : SUBSET FaultKinds]
    /\ crashes \in Nat
    /\ bpc \in {"contract", "log", "note"} => t <= Len(Tx)
    /\ bpc = "log" => c <= Len(Tx[t].contracts) /\ l <= Len(Tx[t].logs) + 1

(* ProcessBlock keeps what every network promises of a block, whichever    *)
(* attempts, cancellations and crashes lie between its events: the mark is *)
(* set once, after all the block owes, and nothing is published behind it, *)
(* except after a failure that is swallowed.  ProcessBlock reports a block *)
(* as complete even when every lookup of it failed for the cancelled       *)
(* context, and only the mark's own failure keeps it for the next start.   *)
Delivery ==
    INSTANCE BlockDelivery
        WITH owed <- Owed,
             published <- {e \in Owed : sent[e] > 0},
             marked <- marked,
             lossy <- faults.kinds \cap Swallowed # {}

ImplementsDelivery == Delivery!DeliverySpec

(* Nothing is published for a transaction that Redis already has as        *)
(* handled: a retry repeats only what was not recorded.                    *)
RecordedNotRepeated ==
    [][\A e \in Owed : sent'[e] > sent[e] => e[1] \notin progress]_vars

(* An event is published once, and once more for each interruption: the    *)
(* logs of a transaction with several token calls are not repeated within  *)
(* an attempt, nor are the transactions before the one that failed.        *)
RepeatedOnlyAfterFailure == \A e \in Owed : sent[e] <= 1 + faults.n + crashes

(* The block is marked in the end, however its finitely many failures      *)
(* fall, unless the tracker is stopped for good.                           *)
EventuallyMarked == <>marked \/ <>[]cancelled
=============================================================================
