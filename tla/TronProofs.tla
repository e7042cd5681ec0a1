----------------------------- MODULE TronProofs -----------------------------
(***************************************************************************)
(* Proofs about TRON.                                                      *)
(*                                                                         *)
(* TronBlock, for every block and every sequence of failures,              *)
(* cancellations and crashes: a retry publishes nothing Redis has as       *)
(* handled, an event is published at most once more than the attempt was   *)
(* interrupted, and the block is delivered as BlockDelivery says.          *)
(*                                                                         *)
(* TronClient, for every number of providers, callers and rounds: a call   *)
(* that no other disturbs fails only when every provider has failed it.    *)
(* No theorem is about both.                                               *)
(***************************************************************************)
EXTENDS TronBlock, TronClient, TLAPS

-----------------------------------------------------------------------------
(* The inductive invariant.                                                *)

(* A failure has happened after which the code takes for handled what is   *)
(* not.                                                                    *)
Lossy == faults.kinds \cap Swallowed # {}

(* What can make an attempt start over.                                    *)
Interruptions == faults.n + crashes

Walking == {"tx", "contract", "log", "note"}

(* Event e of the transaction in hand lies behind the attempt.             *)
PassedInTx(e) ==
    \/ bpc = "note"
    \/ bpc \in {"contract", "log"} /\ e[2] = "contract" /\ e[3] < c
    \/ bpc = "contract" /\ e[2] = "log" /\ LogsDone
    \/ bpc = "log" /\ e[2] = "log" /\ e[3] < l

(* The attempt has gone past event e, whether or not it published it.      *)
Passed(e) ==
    \/ bpc \in {"clear", "mark", "done"}
    \/ bpc \in Walking /\ e[1] < t
    \/ bpc \in Walking /\ e[1] = t /\ PassedInTx(e)

(* Where the attempt is: it starts at the first transaction, contract and  *)
(* log, takes up no recorded transaction and the logs of one only once.    *)
AttemptInv ==
    /\ marked => bpc \in {"idle", "done"}
    /\ bpc \in {"idle", "block", "progress", "infos"} => t = 1
    /\ bpc \in {"idle", "block", "progress", "infos", "tx"} => c = 1
    /\ bpc # "log" => l = 1
    /\ c >= 1 /\ l >= 1
    /\ bpc = "log" => ~LogsDone /\ Tx[t].contracts[c].kind = "token"
    /\ bpc \in {"contract", "log", "note"} => t \notin skip
    /\ bpc = "infos" \/ bpc \in Walking =>
          \A n \in progress : n \in skip \/ n < t

(* Only a node that lags leaves an info out.                               *)
InfosInv == ~Lossy /\ bpc \in Walking => infos = Txs

(* What is recorded is published.                                          *)
RecordInv ==
    ~Lossy => \A e \in Owed : e[1] \in progress \cup skip => sent[e] > 0

(* So is what a running attempt has passed, unless the context is          *)
(* cancelled: then it passes over events and only the mark will fail.      *)
WorkInv ==
    ~Lossy /\ ~cancelled => \A e \in Owed : Passed(e) => sent[e] > 0

(* How often an event was published: once per interruption, and once more  *)
(* when the running attempt has passed it and is not cancelled.            *)
CountInv ==
    \A e \in Owed :
        /\ sent[e] <= Interruptions + 1
        /\ cancelled \/ ~Passed(e) => sent[e] <= Interruptions

IndInv == AttemptInv /\ InfosInv /\ RecordInv /\ WorkInv /\ CountInv

-----------------------------------------------------------------------------
(* Facts about the block.                                                  *)

(* The transactions of the block are numbered, and each has its sequences  *)
(* of contracts and logs.                                                  *)
LEMMA TxFacts ==
    /\ Len(Tx) \in Nat
    /\ Txs = 1..Len(Tx)
    /\ \A n \in Txs : /\ n \in Nat /\ n >= 1
                      /\ Len(Tx[n].contracts) \in Nat
                      /\ Len(Tx[n].logs) \in Nat
<1>1. Len(Tx) \in Nat /\ Txs = 1..Len(Tx)
  BY TronAssumption DEF Txs
<1>2. ASSUME NEW n \in Txs
      PROVE  /\ n \in Nat /\ n >= 1
             /\ Len(Tx[n].contracts) \in Nat /\ Len(Tx[n].logs) \in Nat
  <2>1. n \in 1..Len(Tx) /\ n \in Nat /\ n >= 1
    BY <1>1
  <2>2. Tx[n] \in TxRecords
    BY <2>1, TronAssumption
  <2>3. Tx[n].contracts \in Seq(Contracts) /\ Tx[n].logs \in Seq(Transfers)
    BY <2>2 DEF TxRecords
  <2>4. QED BY <2>1, <2>3
<1>3. QED BY <1>1, <1>2

(* An owed event is one that processTransaction comes by: a TRX transfer   *)
(* among the contracts, or a log of a transaction that calls a token.      *)
LEMMA OwedFacts ==
    ASSUME NEW e \in Owed
    PROVE  /\ e[1] \in Txs /\ e[3] \in Nat /\ e[3] >= 1
           /\ e = <<e[1], e[2], e[3]>>
           /\ Tx[e[1]].ok
           /\ \/ /\ e[2] = "contract"
                 /\ e[3] <= Len(Tx[e[1]].contracts)
                 /\ Tx[e[1]].contracts[e[3]].kind = "trx"
              \/ /\ e[2] = "log"
                 /\ e[3] <= Len(Tx[e[1]].logs)
                 /\ Tx[e[1]].result
                 /\ \E k \in 1..Len(Tx[e[1]].contracts) :
                       Tx[e[1]].contracts[k].kind = "token"
<1>1. PICK n \in {m \in Txs : Tx[m].ok} :
        \/ e \in {<<n, "contract", i>> :
                    i \in {j \in 1..Len(Tx[n].contracts) :
                             /\ Tx[n].contracts[j].kind = "trx"
                             /\ Concerns(Tx[n].contracts[j])}}
        \/ e \in {<<n, "log", i>> :
                    i \in {j \in 1..Len(Tx[n].logs) :
                             /\ Tx[n].result
                             /\ \E k \in 1..Len(Tx[n].contracts) :
                                   Tx[n].contracts[k].kind = "token"
                             /\ Concerns(Tx[n].logs[j])}}
  BY DEF Owed
<1>2. n \in Txs /\ Tx[n].ok /\ Len(Tx[n].contracts) \in Nat /\ Len(Tx[n].logs) \in Nat
  BY TxFacts
<1>3. CASE \E i \in 1..Len(Tx[n].contracts) :
              e = <<n, "contract", i>> /\ Tx[n].contracts[i].kind = "trx"
  BY <1>2, <1>3
<1>4. CASE \E i \in 1..Len(Tx[n].logs) :
              /\ e = <<n, "log", i>> /\ Tx[n].result
              /\ \E k \in 1..Len(Tx[n].contracts) :
                    Tx[n].contracts[k].kind = "token"
  BY <1>2, <1>4
<1>5. QED BY <1>1, <1>3, <1>4

-----------------------------------------------------------------------------
(* Type correctness.                                                       *)

(* A failure is counted and remembered.                                    *)
LEMMA FaultFacts ==
    ASSUME TypeOK, NEW k \in FaultKinds, Fault(k)
    PROVE  /\ faults' \in [n : Nat, kinds : SUBSET FaultKinds]
           /\ faults'.kinds = faults.kinds \cup {k}
           /\ faults'.n = faults.n + 1
BY DEF TypeOK, Fault

(* Whether a call fails or works, the count of failures stays one.         *)
LEMMA OutcomeFacts ==
    ASSUME TypeOK, NEW k \in FaultKinds, Fails(k) \/ Works
    PROVE  /\ faults' \in [n : Nat, kinds : SUBSET FaultKinds]
           /\ faults.kinds \subseteq faults'.kinds
           /\ faults'.n = faults.n \/ faults'.n = faults.n + 1
BY FaultFacts DEF TypeOK, Fails, Works

(* A transfer that is handled leaves sent and the failures well typed.     *)
LEMMA HandleType ==
    ASSUME TypeOK, NEW e, HandleTransfer(e)
    PROVE  /\ sent' \in [Owed -> Nat]
           /\ faults' \in [n : Nat, kinds : SUBSET FaultKinds]
<1>1. {"lookup", "publish"} \subseteq FaultKinds
  BY DEF FaultKinds
<1>2. sent' \in [Owed -> Nat]
  BY DEF HandleTransfer, Publish, TypeOK
<1>3. QED BY <1>1, <1>2, FaultFacts, OutcomeFacts DEF HandleTransfer

(* The part of the type that an attempt writes.                            *)
AttemptType ==
    /\ bpc \in {"idle", "block", "progress", "infos", "tx", "contract", "log",
                "note", "clear", "mark", "done"}
    /\ skip \subseteq Txs /\ infos \subseteq Txs
    /\ t \in 1..(Len(Tx) + 1) /\ c \in Nat /\ l \in Nat
    /\ bpc \in {"contract", "log", "note"} => t <= Len(Tx)
    /\ bpc = "log" => c <= Len(Tx[t].contracts) /\ l <= Len(Tx[t].logs) + 1

(* The rest of it.                                                         *)
StoreType ==
    /\ progress \subseteq Txs
    /\ marked \in BOOLEAN
    /\ sent \in [Owed -> Nat]
    /\ cancelled \in BOOLEAN
    /\ faults \in [n : Nat, kinds : SUBSET FaultKinds]
    /\ crashes \in Nat

(* Both together are the type invariant.                                   *)
LEMMA TypeParts == TypeOK <=> AttemptType /\ StoreType
BY DEF TypeOK, AttemptType, StoreType

(* The end of an attempt leaves its variables well typed.                  *)
LEMMA ReturnType ==
    ASSUME Return
    PROVE  AttemptType'
<1>1. 1 \in 1..(Len(Tx) + 1)
  BY TxFacts
<1>2. QED BY <1>1 DEF Return, AttemptType

(* So does the way to a place at which the position does not matter.       *)
LEMMA GotoType ==
    ASSUME AttemptType, NEW place \in {"block", "progress", "clear", "mark", "done"},
           Goto(place)
    PROVE  AttemptType'
BY DEF AttemptType, Goto, attemptVars

(* Every step keeps the types of the attempt's variables: no transaction,  *)
(* contract or log beyond the last is indexed.                             *)
LEMMA AttemptTypeNext ==
    ASSUME TypeOK, AttemptInv, [Next]_vars
    PROVE  AttemptType'
<1>a. AttemptType
  BY TypeParts
<1>b. Len(Tx) \in Nat /\ Txs = 1..Len(Tx)
  BY TxFacts
<1>c. ASSUME t <= Len(Tx)
      PROVE  t \in Txs /\ Len(Tx[t].logs) \in Nat
  BY <1>a, <1>b, <1>c, TxFacts DEF AttemptType
<1>1. CASE Begin \/ GetBlock \/ ClearProgress \/ MarkBlock
  BY <1>1, <1>a, ReturnType, GotoType
     DEF Begin, GetBlock, ClearProgress, MarkBlock
<1>2. CASE ReadProgress
  <2>1. CASE bpc' = "infos" /\ skip' = progress /\ UNCHANGED <<infos, t, c, l>>
    BY <2>1, <1>a DEF AttemptType, TypeOK
  <2>2. QED BY <1>2, <2>1, ReturnType DEF ReadProgress
<1>3. CASE GetInfos
  <2>1. CASE /\ bpc' = "tx" /\ infos' \subseteq Txs
             /\ UNCHANGED <<skip, t, c, l>>
    BY <2>1, <1>a DEF AttemptType
  <2>2. QED BY <1>3, <2>1, ReturnType DEF GetInfos
<1>4. CASE StartTx
  <2>1. CASE t > Len(Tx) /\ Goto("clear")
    BY <2>1, <1>a, GotoType
  <2>2. CASE t <= Len(Tx) /\ t' = t + 1 /\ UNCHANGED <<bpc, skip, infos, c, l>>
    <3>1. t' \in 1..(Len(Tx) + 1)
      BY <2>2, <1>a, <1>b DEF AttemptType
    <3>2. QED BY <2>2, <3>1, <1>a, <1>4 DEF AttemptType, StartTx
  <2>3. CASE t <= Len(Tx) /\ (Goto("contract") \/ Goto("note"))
    BY <2>3, <1>a DEF Goto, attemptVars, AttemptType
  <2>4. QED BY <1>4, <2>1, <2>2, <2>3 DEF StartTx
<1>5. CASE Contract
  <2>1. l = 1 /\ t <= Len(Tx)
    BY <1>5, <1>a DEF Contract, AttemptInv, AttemptType
  <2>2. Len(Tx[t].logs) \in Nat
    BY <1>c, <2>1
  <2>3. CASE Goto("note") \/ (c <= Len(Tx[t].contracts) /\ Goto("log"))
    BY <1>a, <2>1, <2>2, <2>3 DEF Goto, attemptVars, AttemptType
  <2>4. CASE c' = c + 1 /\ UNCHANGED <<bpc, skip, infos, t, l>>
    BY <1>5, <1>a, <2>4 DEF AttemptType, Contract
  <2>5. QED BY <1>5, <2>3, <2>4 DEF Contract
<1>6. CASE Log
  <2>1. t <= Len(Tx)
    BY <1>6, <1>a DEF Log, AttemptType
  <2>2. Len(Tx[t].logs) \in Nat
    BY <1>c, <2>1
  <2>3. CASE bpc' = "contract" /\ c' = c + 1 /\ l' = 1 /\ UNCHANGED <<skip, infos, t>>
    BY <1>a, <2>1, <2>3 DEF AttemptType
  <2>4. CASE /\ l <= Len(Tx[t].logs)
             /\ l' = l + 1 /\ UNCHANGED <<bpc, skip, infos, t, c>>
    <3>1. l' \in Nat /\ l' <= Len(Tx[t].logs) + 1
      BY <1>a, <2>2, <2>4 DEF AttemptType
    <3>2. QED BY <1>6, <1>a, <2>4, <3>1 DEF AttemptType, Log
  <2>5. QED BY <1>6, <2>3, <2>4 DEF Log
<1>7. CASE NoteTx
  <2>1. t' \in 1..(Len(Tx) + 1)
    <3>1. t' = t + 1 /\ t <= Len(Tx) /\ t \in 1..(Len(Tx) + 1)
      BY <1>7, <1>a DEF NoteTx, AttemptType
    <3>2. QED BY <3>1, <1>b
  <2>2. bpc' = "tx" /\ c' = 1 /\ UNCHANGED <<skip, infos, l>>
    BY <1>7 DEF NoteTx
  <2>3. QED BY <1>a, <2>1, <2>2 DEF AttemptType
<1>8. CASE Restart
  BY <1>8, ReturnType DEF Restart
<1>9. CASE Cancel \/ UNCHANGED vars
  BY <1>9, <1>a DEF Cancel, vars, attemptVars, AttemptType
<1>10. QED BY <1>1, <1>2, <1>3, <1>4, <1>5, <1>6, <1>7, <1>8, <1>9
           DEF Next, BlockStep

(* Every step keeps the types of what Redis, the broker and the history    *)
(* hold.                                                                   *)
LEMMA StoreTypeNext ==
    ASSUME TypeOK, [Next]_vars
    PROVE  StoreType'
<1>a. {"request", "redis", "lag", "stop"} \subseteq FaultKinds
  BY DEF FaultKinds
<1>b. StoreType
  BY TypeParts
<1>1. faults' \in [n : Nat, kinds : SUBSET FaultKinds] /\ sent' \in [Owed -> Nat]
  <2>1. CASE \/ Begin \/ GetBlock \/ ReadProgress \/ GetInfos \/ StartTx \/ NoteTx
             \/ ClearProgress \/ MarkBlock
    BY <2>1, <1>a, <1>b, FaultFacts, OutcomeFacts
       DEF Begin, GetBlock, ReadProgress, GetInfos, StartTx, NoteTx,
           ClearProgress, MarkBlock, StoreType
  <2>2. CASE Contract \/ Log
    BY <2>2, <1>b, HandleType DEF Contract, Log, StoreType
  <2>3. CASE Cancel
    BY <2>3, <1>a, <1>b, FaultFacts DEF Cancel, StoreType
  <2>4. CASE Restart \/ UNCHANGED vars
    BY <2>4, <1>b DEF Restart, vars, StoreType
  <2>5. QED BY <2>1, <2>2, <2>3, <2>4 DEF Next, BlockStep
<1>2. progress' \subseteq Txs
  <2>1. CASE NoteTx
    <3>1. t \in Txs
      BY <2>1, TxFacts DEF NoteTx, TypeOK
    <3>2. QED BY <2>1, <3>1, <1>b DEF NoteTx, StoreType
  <2>2. CASE ~NoteTx
    BY <2>2, <1>b
       DEF Next, BlockStep, Begin, GetBlock, ReadProgress, GetInfos, StartTx,
           Contract, Log, ClearProgress, MarkBlock, Cancel, Restart, vars, StoreType
  <2>3. QED BY <2>1, <2>2
<1>3. marked' \in BOOLEAN /\ cancelled' \in BOOLEAN
  BY <1>b DEF Next, BlockStep, Begin, GetBlock, ReadProgress, GetInfos, StartTx,
              Contract, Log, NoteTx, ClearProgress, MarkBlock, Cancel, Restart,
              vars, StoreType
<1>4. crashes' = crashes \/ crashes' = crashes + 1
  BY DEF Next, BlockStep, Begin, GetBlock, ReadProgress, GetInfos, StartTx,
         Contract, Log, NoteTx, ClearProgress, MarkBlock, Cancel, Restart, vars
<1>5. QED BY <1>1, <1>2, <1>3, <1>4, <1>b DEF StoreType

(* Every step keeps all types.                                             *)
LEMMA TypeNext ==
    ASSUME TypeOK, AttemptInv, [Next]_vars
    PROVE  TypeOK'
<1>1. AttemptType' /\ StoreType'
  BY AttemptTypeNext, StoreTypeNext
<1>2. QED BY <1>1 DEF TypeOK, AttemptType, StoreType

-----------------------------------------------------------------------------
(* The attempt.                                                            *)

(* The initial state is well typed and has no attempt.                     *)
LEMMA StructureInit == Init => TypeOK /\ AttemptInv
<1> SUFFICES ASSUME Init PROVE TypeOK /\ AttemptInv
  OBVIOUS
<1>1. 1 \in 1..(Len(Tx) + 1)
  BY TxFacts
<1>2. TypeOK
  BY <1>1 DEF Init, TypeOK
<1>3. AttemptInv
  BY DEF Init, AttemptInv, Walking
<1>4. QED BY <1>2, <1>3

(* The contract passed over last decides on the logs only if it is a token *)
(* call.                                                                   *)
LEMMA LogsDoneStep ==
    ASSUME c \in Nat, c >= 1, t' = t, c' = c + 1
    PROVE  LogsDone' <=> LogsDone \/ Tx[t].contracts[c].kind = "token"
<1>1. 1..(c' - 1) = (1..(c - 1)) \cup {c}
  OBVIOUS
<1>2. QED BY <1>1 DEF LogsDone

(* Every step keeps what is said of the attempt.                           *)
LEMMA AttemptNext ==
    ASSUME TypeOK, AttemptInv, [Next]_vars
    PROVE  AttemptInv'
<1> USE DEF Goto, attemptVars
<1>a. t \in Nat /\ t >= 1 /\ c \in Nat /\ l \in Nat /\ c >= 1 /\ l >= 1
  BY TxFacts DEF TypeOK, AttemptInv
<1>r. ASSUME Return PROVE AttemptInv'
  BY <1>r DEF Return, AttemptInv, Walking
<1>1. CASE Begin \/ GetBlock
  BY <1>1, <1>r DEF Begin, GetBlock, AttemptInv, Walking
<1>2. CASE ReadProgress
  BY <1>2, <1>r DEF ReadProgress, AttemptInv, Walking
<1>3. CASE GetInfos
  <2>1. CASE bpc' = "tx"
    <3>1. \A n \in progress : n \in skip \/ n < t
      BY <1>3 DEF GetInfos, AttemptInv
    <3>2. bpc = "infos" /\ UNCHANGED <<skip, t, c, l, progress, marked>>
      BY <1>3, <2>1 DEF GetInfos, Return
    <3>3. QED BY <2>1, <3>1, <3>2 DEF AttemptInv, Walking
  <2>2. QED BY <1>3, <1>r, <2>1 DEF GetInfos
<1>p. \A n \in progress : n \in Nat
  BY TxFacts DEF TypeOK
<1>4. CASE StartTx
  <2>1. /\ bpc = "tx" /\ c = 1 /\ l = 1 /\ ~marked /\ marked' = marked
        /\ progress' = progress /\ \A n \in progress : n \in skip \/ n < t
    BY <1>4 DEF StartTx, AttemptInv, Walking
  <2>2. CASE Goto("clear")
    BY <2>1, <2>2 DEF AttemptInv, Walking
  <2>3. CASE t' = t + 1 /\ UNCHANGED <<bpc, skip, infos, c, l>>
    <3>1. \A n \in progress : n \in skip \/ n < t'
      BY <1>a, <1>p, <2>1, <2>3
    <3>2. QED BY <2>1, <2>3, <3>1 DEF AttemptInv, Walking
  <2>4. CASE t \notin skip /\ (Goto("contract") \/ Goto("note"))
    BY <2>1, <2>4 DEF AttemptInv, Walking
  <2>5. QED BY <1>4, <2>2, <2>3, <2>4 DEF StartTx
<1>5. CASE Contract
  <2>1. /\ bpc = "contract" /\ t' = t /\ l' = l /\ skip' = skip
        /\ progress' = progress /\ marked' = marked
        /\ bpc' \in {"contract", "log", "note"} /\ (c' = c \/ c' = c + 1)
    BY <1>5 DEF Contract
  <2>2. bpc' = "log" => ~LogsDone /\ Tx[t].contracts[c].kind = "token" /\ c' = c
    BY <1>5 DEF Contract
  <2>3. bpc' = "log" => ~LogsDone' /\ Tx[t'].contracts[c'].kind = "token"
    BY <2>1, <2>2 DEF LogsDone
  <2>4. c' >= 1
    BY <1>a, <2>1
  <2>5. QED BY <2>1, <2>3, <2>4 DEF AttemptInv, Walking
<1>6. CASE Log
  <2>1. /\ bpc = "log" /\ t' = t /\ skip' = skip
        /\ progress' = progress /\ marked' = marked
    BY <1>6 DEF Log
  <2>2. CASE bpc' = "contract" /\ c' = c + 1 /\ l' = 1
    <3>1. c' >= 1
      BY <1>a, <2>2
    <3>2. QED BY <2>1, <2>2, <3>1 DEF AttemptInv, Walking
  <2>3. CASE bpc' = bpc /\ c' = c /\ l' = l + 1
    <3>1. l' >= 1 /\ LogsDone' = LogsDone
      BY <1>a, <2>1, <2>3 DEF LogsDone
    <3>2. QED BY <2>1, <2>3, <3>1 DEF AttemptInv, Walking
  <2>4. QED BY <1>6, <2>2, <2>3 DEF Log
<1>7. CASE NoteTx
  <2>1. /\ bpc = "note" /\ bpc' = "tx" /\ t' = t + 1 /\ c' = 1 /\ l' = l
        /\ skip' = skip /\ marked' = marked
        /\ progress' \subseteq progress \cup {t}
    BY <1>7 DEF NoteTx
  <2>2. \A n \in progress' : n \in skip' \/ n < t'
    <3>1. \A n \in progress : n \in skip \/ n < t
      BY <2>1 DEF AttemptInv, Walking
    <3>2. QED BY <1>a, <1>p, <2>1, <3>1
  <2>3. QED BY <2>1, <2>2 DEF AttemptInv, Walking
<1>8. CASE ClearProgress \/ MarkBlock
  BY <1>8, <1>r DEF ClearProgress, MarkBlock, Return, AttemptInv, Walking
<1>9. CASE Restart
  BY <1>9, <1>r DEF Restart
<1>10. CASE Cancel \/ UNCHANGED vars
  BY <1>10 DEF Cancel, vars, AttemptInv, Walking, LogsDone
<1>11. QED BY <1>1, <1>2, <1>3, <1>4, <1>5, <1>6, <1>7, <1>8, <1>9, <1>10
           DEF Next, BlockStep

(* Every variable keeps its type, and ProcessBlock never indexes past the  *)
(* transactions, contracts or logs there are; the attempt starts at the    *)
(* first of each and takes up no recorded transaction.                     *)
THEOREM TypeCorrect == Spec => [](TypeOK /\ AttemptInv)
BY StructureInit, TypeNext, AttemptNext, PTL DEF Spec

(* Events are published one at a time, by the step that is at them.        *)
LEMMA PublishedBy ==
    ASSUME TypeOK, [Next]_vars, NEW e \in Owed, sent'[e] # sent[e]
    PROVE  /\ sent' = [sent EXCEPT ![e] = @ + 1]
           /\ Works
           /\ \/ Contract /\ e = <<t, "contract", c>>
              \/ Log /\ e = <<t, "log", l>>
<1>1. Contract \/ Log
  BY DEF Next, BlockStep, Begin, GetBlock, ReadProgress, GetInfos, StartTx, NoteTx,
         ClearProgress, MarkBlock, Cancel, Restart, vars
<1>2. ASSUME NEW k, HandleTransfer(k)
      PROVE  Works /\ sent' = [sent EXCEPT ![k] = @ + 1] /\ k = e
  <2>1. Works /\ k \in Owed /\ sent' = [sent EXCEPT ![k] = @ + 1]
    BY <1>2 DEF HandleTransfer, Publish
  <2>2. QED BY <2>1 DEF TypeOK
<1>3. CASE Contract
  <2>1. HandleTransfer(<<t, "contract", c>>)
    BY <1>3 DEF Contract
  <2>2. QED BY <1>3, <1>2, <2>1
<1>4. CASE Log
  <2>1. HandleTransfer(<<t, "log", l>>)
    BY <1>4 DEF Log
  <2>2. QED BY <1>4, <1>2, <2>1
<1>5. QED BY <1>1, <1>3, <1>4

(* A retry publishes nothing for a transaction that Redis has as handled.  *)
THEOREM RetriesOnlyUnrecorded == Spec => RecordedNotRepeated
<1>1. TypeOK /\ AttemptInv /\ [Next]_vars
        => [\A e \in Owed : sent'[e] > sent[e] => e[1] \notin progress]_vars
  <2> SUFFICES ASSUME TypeOK, AttemptInv, Next, NEW e \in Owed, sent'[e] > sent[e]
               PROVE  e[1] \notin progress
    OBVIOUS
  <2>1. sent'[e] # sent[e]
    BY DEF TypeOK
  <2>2. (Contract \/ Log) /\ e[1] = t
    BY <2>1, PublishedBy
  <2>3. t \notin skip /\ \A n \in progress : n \in skip \/ n < t
    BY <2>2 DEF Contract, Log, AttemptInv, Walking
  <2>4. t \in Nat
    BY TxFacts DEF TypeOK
  <2>5. QED BY <2>2, <2>3, <2>4
<1>2. QED BY <1>1, TypeCorrect, PTL DEF Spec, RecordedNotRepeated

-----------------------------------------------------------------------------
(* What an attempt passes.                                                 *)

(* Failures are not forgotten.                                             *)
LEMMA FaultsGrow ==
    ASSUME TypeOK, [Next]_vars
    PROVE  /\ faults.kinds \subseteq faults'.kinds
           /\ faults'.n >= faults.n
           /\ ~Lossy' => ~Lossy
<1>1. faults.n \in Nat
  BY DEF TypeOK
<1>2. \/ UNCHANGED faults
      \/ \E k \in FaultKinds : Fault(k)
  BY DEF Next, BlockStep, Begin, GetBlock, ReadProgress, GetInfos, StartTx,
         Contract, Log, HandleTransfer, NoteTx, ClearProgress, MarkBlock, Cancel,
         Restart, vars, Fails, Works, FaultKinds
<1>3. faults.kinds \subseteq faults'.kinds /\ faults'.n >= faults.n
  BY <1>1, <1>2, FaultFacts
<1>4. QED BY <1>3 DEF Lossy

(* After a failure that is swallowed the promise is over.                  *)
LEMMA SwallowedLossy ==
    ASSUME NEW k \in Swallowed, Fault(k)
    PROVE  Lossy'
BY DEF Fault, Lossy

(* A transfer that is come by is published, or its failure is swallowed,   *)
(* or the context is cancelled.                                            *)
LEMMA HandleFacts ==
    ASSUME TypeOK, NEW k \in Owed, HandleTransfer(k)
    PROVE  \/ sent' = [sent EXCEPT ![k] = @ + 1] /\ Works
           \/ sent' = sent /\ (Lossy' \/ cancelled)
BY SwallowedLossy DEF HandleTransfer, Publish, Fails, Swallowed

(* What a step of an attempt does to one event: the attempt ends and has   *)
(* been interrupted; it neither passes the event nor publishes it; it      *)
(* passes and publishes it; or it passes it without publishing it, and     *)
(* then it is recorded, a failure was swallowed or the context cancelled.  *)
Interrupted ==
    /\ bpc' = "idle" /\ skip' = {} /\ sent' = sent
    /\ cancelled \/ faults'.n = faults.n + 1
Unaffected(e) == sent'[e] = sent[e] /\ (Passed(e)' <=> Passed(e))
PublishedNow(e) == ~Passed(e) /\ Passed(e)' /\ Works /\ sent'[e] = sent[e] + 1
LeftOut(e) ==
    /\ ~Passed(e) /\ Passed(e)' /\ sent'[e] = sent[e]
    /\ e[1] \in skip \/ Lossy' \/ cancelled

(* A call that fails by itself or by the context interrupts the attempt.   *)
LEMMA FailsInterrupts ==
    ASSUME TypeOK, NEW k \in FaultKinds, Fails(k), Return, sent' = sent
    PROVE  Interrupted
BY FaultFacts DEF Fails, Return, Interrupted

(* These four are all that can happen.                                     *)
LEMMA Advance ==
    ASSUME TypeOK, AttemptInv, InfosInv, BlockStep, NEW e \in Owed
    PROVE  Interrupted \/ Unaffected(e) \/ PublishedNow(e) \/ LeftOut(e)
<1> USE DEF Goto, attemptVars
<1>a. t \in Nat /\ t >= 1 /\ c \in Nat /\ l \in Nat /\ c >= 1 /\ l >= 1
  BY TxFacts DEF TypeOK, AttemptInv
<1>b. e[1] \in Nat /\ e[1] >= 1 /\ e[1] <= Len(Tx) /\ Len(Tx) \in Nat
  BY OwedFacts, TxFacts
<1>c. e[3] \in Nat /\ e[3] >= 1 /\ e = <<e[1], e[2], e[3]>>
  BY OwedFacts
<1>d. sent[e] \in Nat
  BY DEF TypeOK
<1>k. {"request", "redis"} \subseteq FaultKinds
  BY DEF FaultKinds
<1>1. CASE Begin \/ GetBlock \/ ReadProgress
  <2>1. CASE /\ bpc \in {"idle", "block", "progress"} /\ sent' = sent
             /\ bpc' \in {"block", "progress", "infos"}
    <3>1. ~Passed(e) /\ ~Passed(e)'
      BY <2>1 DEF Passed, Walking
    <3>2. QED BY <2>1, <3>1 DEF Unaffected
  <2>2. QED BY <1>1, <1>k, <2>1, FailsInterrupts DEF Begin, GetBlock, ReadProgress
<1>2. CASE GetInfos
  <2>1. CASE bpc = "infos" /\ bpc' = "tx" /\ sent' = sent /\ t' = t
    <3>1. t' = 1
      BY <2>1 DEF AttemptInv
    <3>2. ~Passed(e) /\ ~Passed(e)'
      BY <1>b, <2>1, <3>1 DEF Passed, PassedInTx, Walking
    <3>3. QED BY <2>1, <3>2 DEF Unaffected
  <2>2. QED BY <1>2, <1>k, <2>1, FailsInterrupts DEF GetInfos
<1>3. CASE StartTx
  <2>1. bpc = "tx" /\ sent' = sent /\ c = 1 /\ l = 1
    BY <1>3 DEF StartTx, AttemptInv
  <2>p. Passed(e) <=> e[1] < t
    BY <2>1 DEF Passed, PassedInTx, Walking
  <2>2. CASE t > Len(Tx) /\ Goto("clear")
    <3>1. Passed(e) /\ Passed(e)'
      BY <1>a, <1>b, <2>2, <2>p DEF Passed
    <3>2. QED BY <2>1, <3>1 DEF Unaffected
  <2>3. CASE t \in skip /\ t' = t + 1 /\ bpc' = bpc
    <3>1. Passed(e)' <=> e[1] < t + 1
      BY <2>1, <2>3 DEF Passed, PassedInTx, Walking
    <3>2. CASE e[1] = t
      BY <1>a, <2>1, <2>3, <2>p, <3>1, <3>2 DEF LeftOut
    <3>3. CASE e[1] # t
      BY <1>a, <1>b, <2>1, <2>p, <3>1, <3>3 DEF Unaffected
    <3>4. QED BY <3>2, <3>3
  <2>4. CASE Goto("contract")
    <3>1. ~LogsDone'
      BY <2>1, <2>4 DEF LogsDone
    <3>2. Passed(e)' <=> e[1] < t
      BY <1>c, <2>1, <2>4, <3>1 DEF Passed, PassedInTx, Walking
    <3>3. QED BY <2>1, <2>p, <3>2 DEF Unaffected
  <2>5. CASE ~Tx[t].ok /\ Goto("note")
    <3>1. e[1] # t
      BY <2>5, OwedFacts
    <3>2. Passed(e)' <=> e[1] < t
      BY <2>5, <3>1 DEF Passed, Walking
    <3>3. QED BY <2>1, <2>p, <3>2 DEF Unaffected
  <2>6. QED BY <1>3, <2>2, <2>3, <2>4, <2>5 DEF StartTx
<1>4. CASE Contract
  <2>1. bpc = "contract" /\ t' = t /\ l' = l /\ l = 1
    BY <1>4 DEF Contract, AttemptInv
  <2>p. Passed(e) <=> \/ e[1] < t
                      \/ e[1] = t /\ e[2] = "contract" /\ e[3] < c
                      \/ e[1] = t /\ e[2] = "log" /\ LogsDone
    BY <2>1 DEF Passed, PassedInTx, Walking
  <2>q. ASSUME bpc' = "contract", c' = c + 1
        PROVE  Passed(e)' <=> \/ e[1] < t
                              \/ e[1] = t /\ e[2] = "contract" /\ e[3] < c + 1
                              \/ /\ e[1] = t /\ e[2] = "log"
                                 /\ LogsDone \/ Tx[t].contracts[c].kind = "token"
    <3>1. LogsDone' <=> LogsDone \/ Tx[t].contracts[c].kind = "token"
      BY <1>a, <2>1, <2>q, LogsDoneStep
    <3>2. QED BY <2>1, <2>q, <3>1 DEF Passed, PassedInTx, Walking
  <2>2. CASE c > Len(Tx[t].contracts) /\ Goto("note") /\ sent' = sent
    <3>1. Passed(e)' <=> e[1] < t \/ e[1] = t
      BY <2>2 DEF Passed, PassedInTx, Walking
    <3>2. ASSUME e[1] = t PROVE Passed(e)
      <4>1. t \in Txs /\ Len(Tx[t].contracts) \in Nat
        BY <3>2, OwedFacts, TxFacts
      <4>2. CASE e[2] = "contract"
        <5>1. e[3] <= Len(Tx[t].contracts)
          BY <3>2, <4>2, OwedFacts
        <5>2. e[3] < c
          BY <1>a, <1>c, <2>2, <4>1, <5>1
        <5>3. QED BY <2>p, <3>2, <4>2, <5>2
      <4>3. CASE e[2] = "log"
        <5>1. PICK k \in 1..Len(Tx[t].contracts) : Tx[t].contracts[k].kind = "token"
          BY <3>2, <4>3, OwedFacts
        <5>2. k \in 1..(c - 1)
          BY <1>a, <2>2, <4>1
        <5>3. LogsDone
          BY <5>1, <5>2 DEF LogsDone
        <5>4. QED BY <2>p, <3>2, <4>3, <5>3
      <4>4. QED BY <4>2, <4>3, OwedFacts
    <3>3. QED BY <2>2, <2>p, <3>1, <3>2 DEF Unaffected
  <2>3. CASE /\ Tx[t].contracts[c].kind = "trx"
             /\ HandleTransfer(<<t, "contract", c>>)
             /\ c' = c + 1 /\ bpc' = bpc
    <3>1. CASE e = <<t, "contract", c>>
      <4>1. ~Passed(e) /\ Passed(e)'
        BY <1>a, <2>1, <2>3, <2>p, <2>q, <3>1
      <4>2. HandleTransfer(e)
        BY <2>3, <3>1
      <4>3. CASE sent' = [sent EXCEPT ![e] = @ + 1] /\ Works
        BY <4>1, <4>3 DEF PublishedNow, TypeOK
      <4>4. CASE sent' = sent /\ (Lossy' \/ cancelled)
        BY <4>1, <4>4 DEF LeftOut
      <4>5. QED BY <4>2, <4>3, <4>4, HandleFacts
    <3>2. CASE e # <<t, "contract", c>>
      <4>1. sent'[e] = sent[e]
        BY <2>3, <3>2 DEF HandleTransfer, Publish, TypeOK
      <4>2. ~ (e[1] = t /\ e[2] = "contract" /\ e[3] = c)
        BY <1>c, <3>2
      <4>3. Passed(e)' <=> Passed(e)
        BY <1>a, <1>c, <2>1, <2>3, <2>p, <2>q, <4>2
      <4>4. QED BY <4>1, <4>3 DEF Unaffected
    <3>3. QED BY <3>1, <3>2
  <2>4. CASE ~LogsDone /\ Goto("log") /\ sent' = sent
    <3>1. Passed(e)' <=> e[1] < t \/ (e[1] = t /\ e[2] = "contract" /\ e[3] < c)
      BY <1>c, <2>1, <2>4 DEF Passed, PassedInTx, Walking
    <3>2. QED BY <2>4, <2>p, <3>1 DEF Unaffected
  <2>5. CASE /\ \/ Tx[t].contracts[c].kind = "other"
                \/ /\ Tx[t].contracts[c].kind = "token"
                   /\ LogsDone \/ t \notin infos \/ ~Tx[t].result
             /\ c' = c + 1 /\ bpc' = bpc /\ sent' = sent /\ faults' = faults
    <3>1. ~ (e[1] = t /\ e[2] = "contract" /\ e[3] = c)
      BY <2>5, OwedFacts
    <3>2. CASE /\ e[1] = t /\ e[2] = "log" /\ ~LogsDone
               /\ Tx[t].contracts[c].kind = "token"
      <4>1. Tx[t].result /\ t \in Txs
        BY <3>2, OwedFacts
      <4>2. infos # Txs
        BY <2>5, <3>2, <4>1
      <4>3. Lossy
        BY <2>1, <4>2 DEF InfosInv, Walking
      <4>4. Lossy'
        BY <2>5, <4>3 DEF Lossy
      <4>5. ~Passed(e) /\ Passed(e)'
        BY <1>a, <2>1, <2>5, <2>p, <2>q, <3>2
      <4>6. QED BY <2>5, <4>4, <4>5 DEF LeftOut
    <3>3. CASE ~ (/\ e[1] = t /\ e[2] = "log" /\ ~LogsDone
                  /\ Tx[t].contracts[c].kind = "token")
      <4>1. Passed(e)' <=> Passed(e)
        BY <1>a, <1>c, <2>1, <2>5, <2>p, <2>q, <3>1, <3>3
      <4>2. QED BY <2>5, <4>1 DEF Unaffected
    <3>4. QED BY <3>2, <3>3
  <2>6. QED BY <1>4, <2>2, <2>3, <2>4, <2>5 DEF Contract
<1>5. CASE Log
  <2>1. /\ bpc = "log" /\ t' = t /\ ~LogsDone /\ Tx[t].contracts[c].kind = "token"
        /\ t \in Txs
    BY <1>5, TxFacts DEF Log, AttemptInv, TypeOK
  <2>p. Passed(e) <=> \/ e[1] < t
                      \/ e[1] = t /\ e[2] = "contract" /\ e[3] < c
                      \/ e[1] = t /\ e[2] = "log" /\ e[3] < l
    BY <2>1 DEF Passed, PassedInTx, Walking
  <2>2. CASE l > Len(Tx[t].logs) /\ bpc' = "contract" /\ c' = c + 1 /\ sent' = sent
    <3>1. LogsDone'
      BY <1>a, <2>1, <2>2, LogsDoneStep
    <3>2. Passed(e)' <=> \/ e[1] < t
                         \/ e[1] = t /\ e[2] = "contract" /\ e[3] < c + 1
                         \/ e[1] = t /\ e[2] = "log"
      BY <2>1, <2>2, <3>1 DEF Passed, PassedInTx, Walking
    <3>3. ~ (e[1] = t /\ e[2] = "contract" /\ e[3] = c)
      BY <2>1, OwedFacts
    <3>4. e[1] = t /\ e[2] = "log" => e[3] < l
      <4>1. e[1] = t /\ e[2] = "log" => e[3] <= Len(Tx[t].logs)
        BY OwedFacts
      <4>2. Len(Tx[t].logs) \in Nat
        BY <2>1, TxFacts
      <4>3. QED BY <1>a, <1>c, <2>2, <4>1, <4>2
    <3>5. Passed(e)' <=> Passed(e)
      BY <1>a, <1>c, <2>p, <3>2, <3>3, <3>4
    <3>6. QED BY <2>2, <3>5 DEF Unaffected
  <2>3. CASE /\ HandleTransfer(<<t, "log", l>>)
             /\ l' = l + 1 /\ bpc' = bpc /\ c' = c
    <3>q. Passed(e)' <=> \/ e[1] < t
                         \/ e[1] = t /\ e[2] = "contract" /\ e[3] < c
                         \/ e[1] = t /\ e[2] = "log" /\ e[3] < l + 1
      BY <2>1, <2>3 DEF Passed, PassedInTx, Walking
    <3>1. CASE e = <<t, "log", l>>
      <4>1. ~Passed(e) /\ Passed(e)'
        BY <1>a, <2>p, <3>q, <3>1
      <4>2. HandleTransfer(e)
        BY <2>3, <3>1
      <4>3. CASE sent' = [sent EXCEPT ![e] = @ + 1] /\ Works
        BY <4>1, <4>3 DEF PublishedNow, TypeOK
      <4>4. CASE sent' = sent /\ (Lossy' \/ cancelled)
        BY <4>1, <4>4 DEF LeftOut
      <4>5. QED BY <4>2, <4>3, <4>4, HandleFacts
    <3>2. CASE e # <<t, "log", l>>
      <4>1. sent'[e] = sent[e]
        BY <2>3, <3>2 DEF HandleTransfer, Publish, TypeOK
      <4>2. ~ (e[1] = t /\ e[2] = "log" /\ e[3] = l)
        BY <1>c, <3>2
      <4>3. Passed(e)' <=> Passed(e)
        BY <1>a, <1>c, <2>p, <3>q, <4>2
      <4>4. QED BY <4>1, <4>3 DEF Unaffected
    <3>3. QED BY <3>1, <3>2
  <2>4. QED BY <1>5, <2>2, <2>3 DEF Log
<1>6. CASE NoteTx
  <2>1. bpc = "note" /\ bpc' = "tx" /\ t' = t + 1 /\ sent' = sent
    BY <1>6 DEF NoteTx
  <2>2. Passed(e) <=> e[1] < t \/ e[1] = t
    BY <2>1 DEF Passed, PassedInTx, Walking
  <2>3. Passed(e)' <=> e[1] < t + 1
    BY <2>1 DEF Passed, PassedInTx, Walking
  <2>4. QED BY <1>a, <1>b, <2>1, <2>2, <2>3 DEF Unaffected
<1>7. CASE ClearProgress \/ MarkBlock
  <2>1. CASE bpc \in {"clear", "mark"} /\ bpc' \in {"mark", "done"} /\ sent' = sent
    BY <2>1 DEF Passed, Unaffected
  <2>2. CASE MarkBlock /\ ~cancelled /\ Fault("redis") /\ Return
    BY <2>2, <1>k, FailsInterrupts DEF Fails, MarkBlock
  <2>3. QED BY <1>7, <1>k, <2>1, <2>2, FailsInterrupts DEF ClearProgress, MarkBlock
<1>8. QED BY <1>1, <1>2, <1>3, <1>4, <1>5, <1>6, <1>7 DEF BlockStep

-----------------------------------------------------------------------------
(* What is recorded and passed is published, and how often.                *)

(* Only a node that lags leaves an info out: kept by every step.           *)
LEMMA InfosNext ==
    ASSUME TypeOK, InfosInv, [Next]_vars
    PROVE  InfosInv'
<1> SUFFICES ASSUME ~Lossy', bpc' \in Walking PROVE infos' = Txs
  BY DEF InfosInv
<1>1. ~Lossy
  BY FaultsGrow
<1>2. CASE GetInfos
  BY <1>2, SwallowedLossy DEF GetInfos, Return, Walking, Swallowed
<1>3. CASE ~GetInfos
  <2>1. bpc \in Walking /\ infos' = infos
    BY <1>3 DEF Next, BlockStep, Begin, GetBlock, ReadProgress, StartTx, Contract,
                Log, NoteTx, ClearProgress, MarkBlock, Cancel, Restart, vars,
                Return, Goto, attemptVars, Walking
  <2>2. QED BY <1>1, <2>1 DEF InfosInv
<1>4. QED BY <1>2, <1>3

(* Events are not taken back.                                              *)
LEMMA SentGrows ==
    ASSUME TypeOK, TypeOK', [Next]_vars, NEW e \in Owed, sent[e] > 0
    PROVE  sent'[e] > 0
<1>1. sent[e] \in Nat
  BY DEF TypeOK
<1>2. CASE sent'[e] # sent[e]
  <2>1. sent' = [sent EXCEPT ![e] = @ + 1]
    BY <1>2, PublishedBy
  <2>2. sent'[e] = sent[e] + 1
    BY <2>1 DEF TypeOK
  <2>3. QED BY <1>1, <2>2
<1>3. QED BY <1>2

(* A transaction is recorded only at its note, under a context that is not *)
(* cancelled.                                                              *)
LEMMA RecordedBy ==
    ASSUME TypeOK, [Next]_vars, NEW n \in progress' \cup skip'
    PROVE  \/ n \in progress \cup skip
           \/ bpc = "note" /\ n = t /\ ~cancelled
BY DEF Next, BlockStep, Begin, GetBlock, ReadProgress, GetInfos, StartTx, Contract,
       Log, NoteTx, ClearProgress, MarkBlock, Cancel, Restart, vars, Return, Goto,
       attemptVars, Works, Fails

(* So what is recorded is published, whichever attempt recorded it.        *)
LEMMA RecordNext ==
    ASSUME TypeOK, TypeOK', RecordInv, WorkInv, [Next]_vars
    PROVE  RecordInv'
<1> SUFFICES ASSUME ~Lossy', NEW e \in Owed, e[1] \in progress' \cup skip'
             PROVE  sent'[e] > 0
  BY DEF RecordInv
<1>1. ~Lossy
  BY FaultsGrow
<1>2. CASE e[1] \in progress \cup skip
  BY <1>1, <1>2, SentGrows DEF RecordInv
<1>3. CASE bpc = "note" /\ e[1] = t /\ ~cancelled
  <2>1. Passed(e)
    BY <1>3 DEF Passed, PassedInTx, Walking
  <2>2. QED BY <1>1, <1>3, <2>1, SentGrows DEF WorkInv
<1>4. QED BY <1>2, <1>3, RecordedBy

(* A context that is not cancelled was not, unless the process started     *)
(* again; an attempt is not touched by what is not its step.               *)
LEMMA OtherSteps ==
    ASSUME [Next]_vars, ~BlockStep
    PROVE  \/ /\ Restart /\ sent' = sent /\ faults' = faults
              /\ \A e \in Owed : ~Passed(e)'
           \/ /\ Cancel /\ sent' = sent /\ cancelled' /\ crashes' = crashes
              /\ \A e \in Owed : Passed(e)' <=> Passed(e)
           \/ /\ UNCHANGED <<sent, cancelled, faults, crashes>>
              /\ \A e \in Owed : Passed(e)' <=> Passed(e)
<1>1. CASE Restart
  BY <1>1 DEF Restart, Return, Passed, Walking
<1>2. CASE Cancel
  <2>1. \A e \in Owed : Passed(e)' <=> Passed(e)
    BY <1>2 DEF Cancel, attemptVars, Passed, PassedInTx, LogsDone, Walking
  <2>2. QED BY <1>2, <2>1 DEF Cancel
<1>3. CASE UNCHANGED vars
  <2>1. \A e \in Owed : Passed(e)' <=> Passed(e)
    BY <1>3 DEF vars, attemptVars, Passed, PassedInTx, LogsDone, Walking
  <2>2. QED BY <1>3, <2>1 DEF vars
<1>4. QED BY <1>1, <1>2, <1>3 DEF Next

(* A step of the attempt leaves the context and the crashes alone.         *)
LEMMA BlockFrame ==
    ASSUME BlockStep
    PROVE  cancelled' = cancelled /\ crashes' = crashes
BY DEF BlockStep, Begin, GetBlock, ReadProgress, GetInfos, StartTx, Contract, Log,
       NoteTx, ClearProgress, MarkBlock

(* What a running attempt has passed is published.                         *)
LEMMA WorkNext ==
    ASSUME TypeOK, TypeOK', AttemptInv, InfosInv, RecordInv, WorkInv, [Next]_vars
    PROVE  WorkInv'
<1> SUFFICES ASSUME ~Lossy', ~cancelled', NEW e \in Owed, Passed(e)'
             PROVE  sent'[e] > 0
  BY DEF WorkInv
<1>1. ~Lossy
  BY FaultsGrow
<1>2. CASE BlockStep
  <2>1. ~cancelled
    BY <1>2, BlockFrame
  <2>2. CASE Interrupted
    BY <2>2 DEF Interrupted, Passed, Walking
  <2>3. CASE Unaffected(e)
    BY <1>1, <2>1, <2>3 DEF Unaffected, WorkInv
  <2>4. CASE PublishedNow(e)
    <3>1. sent[e] \in Nat
      BY DEF TypeOK
    <3>2. QED BY <2>4, <3>1 DEF PublishedNow
  <2>5. CASE LeftOut(e)
    BY <1>1, <2>1, <2>5 DEF LeftOut, RecordInv
  <2>6. QED BY <1>2, <2>2, <2>3, <2>4, <2>5, Advance
<1>3. CASE ~BlockStep
  BY <1>1, <1>3, OtherSteps DEF WorkInv
<1>4. QED BY <1>2, <1>3

(* An event is published again only after an interruption.                 *)
LEMMA CountNext ==
    ASSUME TypeOK, TypeOK', AttemptInv, InfosInv, CountInv, [Next]_vars
    PROVE  CountInv'
<1> SUFFICES ASSUME NEW e \in Owed
             PROVE  /\ sent'[e] <= Interruptions' + 1
                    /\ cancelled' \/ ~Passed(e)' => sent'[e] <= Interruptions'
  BY DEF CountInv
<1>a. /\ faults.n \in Nat /\ faults'.n \in Nat /\ crashes \in Nat /\ crashes' \in Nat
      /\ sent[e] \in Nat /\ sent'[e] \in Nat
  BY DEF TypeOK
<1>b. /\ sent[e] <= faults.n + crashes + 1
      /\ cancelled \/ ~Passed(e) => sent[e] <= faults.n + crashes
  BY DEF CountInv, Interruptions
<1>c. faults'.n >= faults.n
  BY FaultsGrow
<1>1. CASE BlockStep
  <2>1. cancelled' = cancelled /\ crashes' = crashes
    BY <1>1, BlockFrame
  <2>2. CASE Interrupted
    <3>1. sent'[e] = sent[e] /\ (cancelled \/ faults'.n = faults.n + 1)
      BY <2>2 DEF Interrupted
    <3>2. sent'[e] <= faults'.n + crashes'
      BY <1>a, <1>b, <1>c, <2>1, <3>1
    <3>3. QED BY <1>a, <3>2 DEF Interruptions
  <2>3. CASE Unaffected(e)
    BY <1>a, <1>b, <1>c, <2>1, <2>3 DEF Unaffected, Interruptions
  <2>4. CASE PublishedNow(e)
    <3>1. ~Passed(e) /\ Passed(e)' /\ ~cancelled /\ sent'[e] = sent[e] + 1
      BY <2>4 DEF PublishedNow, Works
    <3>2. QED BY <1>a, <1>b, <1>c, <2>1, <3>1 DEF Interruptions
  <2>5. CASE LeftOut(e)
    <3>1. ~Passed(e) /\ Passed(e)' /\ sent'[e] = sent[e]
      BY <2>5 DEF LeftOut
    <3>2. QED BY <1>a, <1>b, <1>c, <2>1, <3>1 DEF Interruptions
  <2>6. QED BY <1>1, <2>2, <2>3, <2>4, <2>5, Advance
<1>2. CASE ~BlockStep
  <2>1. CASE Restart /\ sent' = sent /\ faults' = faults
    <3>1. crashes' = crashes + 1
      BY <2>1 DEF Restart
    <3>2. sent'[e] <= faults'.n + crashes'
      BY <1>a, <1>b, <2>1, <3>1
    <3>3. QED BY <1>a, <3>2 DEF Interruptions
  <2>2. CASE Cancel /\ sent' = sent /\ crashes' = crashes
    <3>1. faults'.n = faults.n + 1
      BY <2>2, FaultFacts DEF Cancel, FaultKinds
    <3>2. sent'[e] <= faults'.n + crashes'
      BY <1>a, <1>b, <2>2, <3>1
    <3>3. QED BY <1>a, <3>2 DEF Interruptions
  <2>3. CASE /\ UNCHANGED <<sent, cancelled, faults, crashes>>
             /\ \A k \in Owed : Passed(k)' <=> Passed(k)
    BY <1>b, <2>3 DEF Interruptions
  <2>4. QED BY <1>2, <2>1, <2>2, <2>3, OtherSteps
<1>3. QED BY <1>1, <1>2

(* The invariant: recorded and passed events are published until a failure *)
(* is swallowed, and none more often than attempts were interrupted, plus  *)
(* one.                                                                    *)
THEOREM Inductive == Spec => []IndInv
<1>1. Init => IndInv
  <2> SUFFICES ASSUME Init PROVE IndInv
    OBVIOUS
  <2>1. \A e \in Owed : ~Passed(e)
    BY DEF Init, Passed, Walking
  <2>2. InfosInv /\ RecordInv
    BY DEF Init, InfosInv, RecordInv, Walking
  <2>3. WorkInv
    BY <2>1 DEF WorkInv
  <2>4. CountInv
    BY DEF Init, CountInv, Interruptions
  <2>5. QED BY <2>2, <2>3, <2>4, StructureInit DEF IndInv
<1>2. TypeOK /\ IndInv /\ [Next]_vars => IndInv'
  BY TypeNext, AttemptNext, InfosNext, RecordNext, WorkNext, CountNext DEF IndInv
<1>3. QED BY <1>1, <1>2, TypeCorrect, PTL DEF Spec

(* No event is published more than once per interruption, and once more:   *)
(* within an attempt neither the logs of a transaction with several token  *)
(* calls nor the transactions behind it are repeated.                      *)
THEOREM RepetitionBounded == Spec => []RepeatedOnlyAfterFailure
<1>1. TypeOK /\ IndInv => RepeatedOnlyAfterFailure
  <2> SUFFICES ASSUME TypeOK, IndInv, NEW e \in Owed
               PROVE  sent[e] <= 1 + faults.n + crashes
    BY DEF RepeatedOnlyAfterFailure
  <2>1. sent[e] <= faults.n + crashes + 1
    BY DEF IndInv, CountInv, Interruptions
  <2>2. sent[e] \in Nat /\ faults.n \in Nat /\ crashes \in Nat
    BY DEF TypeOK
  <2>3. QED BY <2>1, <2>2
<1>2. QED BY <1>1, TypeCorrect, Inductive, PTL

-----------------------------------------------------------------------------
(* Refinement of BlockDelivery.                                            *)

(* A step publishes one event, swallows a failure, marks the block, or     *)
(* does nothing that BlockDelivery tells apart.                            *)
LEMMA DeliveryStep ==
    ASSUME TypeOK, IndInv, [Next]_vars
    PROVE  [Delivery!Next]_Delivery!vars
<1> DEFINE published == {e \in Owed : sent[e] > 0}
<1>1. CASE \E e \in Owed : sent'[e] # sent[e]
  <2>1. PICK e \in Owed : sent'[e] # sent[e]
    BY <1>1
  <2>2. sent' = [sent EXCEPT ![e] = @ + 1] /\ Works /\ (Contract \/ Log)
    BY <2>1, PublishedBy
  <2>3. marked' = marked /\ faults' = faults
    BY <2>2 DEF Contract, Log, Works
  <2>4. ~marked
    BY <2>2 DEF Contract, Log, IndInv, AttemptInv
  <2>5. published' = published \cup {e}
    <3>1. ASSUME NEW k \in Owed
          PROVE  sent'[k] > 0 <=> sent[k] > 0 \/ k = e
      <4>1. sent[k] \in Nat
        BY DEF TypeOK
      <4>2. sent'[k] = IF k = e THEN sent[k] + 1 ELSE sent[k]
        BY <2>2 DEF TypeOK
      <4>3. QED BY <4>1, <4>2
    <3>2. QED BY <3>1
  <2>6. CASE e \in published
    BY <2>3, <2>5, <2>6 DEF Delivery!vars
  <2>7. CASE e \notin published
    BY <2>3, <2>4, <2>5, <2>7 DEF Delivery!Next, Delivery!Publish
  <2>8. QED BY <2>6, <2>7
<1>2. CASE \A e \in Owed : sent'[e] = sent[e]
  <2>1. published' = published
    BY <1>2
  <2>2. CASE marked' = marked
    <3>1. CASE Lossy'
      BY <2>1, <2>2, <3>1 DEF Lossy, Delivery!Next, Delivery!Lose
    <3>2. CASE ~Lossy'
      <4>1. ~Lossy
        BY <3>2, FaultsGrow
      <4>2. QED BY <2>1, <2>2, <3>2, <4>1 DEF Lossy, Delivery!vars
    <3>3. QED BY <3>1, <3>2
  <2>3. CASE marked' # marked
    <3>1. MarkBlock
      BY <2>3 DEF Next, BlockStep, Begin, GetBlock, ReadProgress, GetInfos,
                  StartTx, Contract, Log, NoteTx, ClearProgress, Cancel, Restart,
                  vars
    <3>2. bpc = "mark" /\ marked' = TRUE /\ ~cancelled
      BY <2>3, <3>1 DEF MarkBlock, Works
    <3>3. ~marked
      BY <3>2 DEF IndInv, AttemptInv
    <3>4. Lossy' <=> Lossy
      BY <3>1 DEF MarkBlock, Fails, Fault, Works, Lossy, Swallowed
    <3>5. ~Lossy => published = Owed
      <4> SUFFICES ASSUME ~Lossy, NEW e \in Owed PROVE sent[e] > 0
        OBVIOUS
      <4>1. Passed(e)
        BY <3>2 DEF Passed
      <4>2. QED BY <3>2, <4>1 DEF IndInv, WorkInv
    <3>6. QED BY <2>1, <3>2, <3>3, <3>4, <3>5 DEF Lossy, Delivery!Next, Delivery!Mark
  <2>4. QED BY <2>2, <2>3
<1>3. QED BY <1>1, <1>2

(* Whatever attempts, cancellations and crashes lie between its events,    *)
(* the mark of a TRON block is set once, after all the events the block    *)
(* owes, and nothing is published behind it, unless a failure was          *)
(* swallowed.                                                              *)
THEOREM Refinement == Spec => ImplementsDelivery
<1>1. Init => Delivery!Init
  <2> SUFFICES ASSUME Init PROVE Delivery!Init
    OBVIOUS
  <2>1. {e \in Owed : sent[e] > 0} = {}
    BY DEF Init
  <2>2. QED BY <2>1 DEF Init, Delivery!Init
<1>2. QED BY <1>1, DeliveryStep, TypeCorrect, Inductive, PTL
          DEF Spec, ImplementsDelivery, Delivery!DeliverySpec

-----------------------------------------------------------------------------
(* The client.                                                             *)

(* How many steps of the index ago provider p was taken.                   *)
Ago(p) == IF p < current THEN current - 1 - p ELSE current - 1 - p + N

(* A call no other one disturbs has been failed by the providers the index *)
(* has left behind in this round, and by all of them in a later round.     *)
RoundInv ==
    \A k \in Callers : alone[k] =>
        /\ cpc[k] \in {"pick", "wait"} =>
              \A p \in Providers : Ago(p) < tries[k] => p \in failedBy[k]
        /\ cpc[k] = "call" =>
              /\ Ago(prov[k]) = 0
              /\ \A p \in Providers :
                    0 < Ago(p) /\ Ago(p) <= tries[k] => p \in failedBy[k]
        /\ ~Ended(k) /\ attempt[k] > 0 => failedBy[k] = Providers
        /\ cpc[k] = "failed" => failedBy[k] = Providers

ClientInv == ClientTypeOK /\ RoundInv

(* A remainder of a number that is less than twice the divisor.            *)
LEMMA ModTwice ==
    ASSUME NEW m \in Nat \ {0}, NEW x \in 0..(2 * m - 1)
    PROVE  x % m = IF x < m THEN x ELSE x - m
<1>1. CASE x < m
  BY <1>1
<1>2. CASE x >= m
  <2>1. PICK y \in 0..(m - 1) : x = y + m
    BY <1>2
  <2>2. (y + m) % m = y
    OBVIOUS
  <2>3. QED BY <1>2, <2>1, <2>2
<1>3. QED BY <1>1, <1>2

(* The numbers of the providers.                                           *)
LEMMA RingFacts ==
    /\ N \in Nat /\ N > 0
    /\ \A p \in Providers : p \in Nat /\ p <= N - 1
    /\ \A p \in Nat : p <= N - 1 => p \in Providers
    /\ 0 \in Providers
    /\ RetryAttempts \in Nat /\ RetryAttempts > 0
BY ClientAssumption DEF Providers

(* After the last provider of the slice comes the first.                   *)
LEMMA FollowingIs ==
    ASSUME NEW i \in Providers
    PROVE  /\ Following(i) = IF i = N - 1 THEN 0 ELSE i + 1
           /\ Following(i) \in Providers
<1>1. i \in Nat /\ i <= N - 1 /\ N \in Nat \ {0}
  BY RingFacts
<1>2. PICK x \in 0..(2 * N - 1) : x = i + 1
  BY <1>1
<1>3. x % N = IF x < N THEN x ELSE x - N
  BY <1>1, ModTwice
<1>4. Following(i) = IF i = N - 1 THEN 0 ELSE i + 1
  BY <1>1, <1>2, <1>3 DEF Following
<1>5. QED BY <1>1, <1>4, RingFacts

(* When the index moves on, every provider but the one that was taken was  *)
(* taken one step longer ago.                                              *)
LEMMA AgoFacts ==
    ASSUME current \in Providers, NEW p \in Providers
    PROVE  /\ Ago(p) \in Nat /\ Ago(p) <= N - 1
           /\ current' = Following(current) =>
                 /\ p = current => Ago(p)' = 0
                 /\ p # current => Ago(p)' = Ago(p) + 1
<1>1. /\ p \in Nat /\ p <= N - 1 /\ current \in Nat /\ current <= N - 1
      /\ N \in Nat
  BY RingFacts
<1>2. Ago(p) \in Nat /\ Ago(p) <= N - 1
  BY <1>1 DEF Ago
<1>3. ASSUME current' = Following(current)
      PROVE  (p = current => Ago(p)' = 0) /\ (p # current => Ago(p)' = Ago(p) + 1)
  <2>1. current' = IF current = N - 1 THEN 0 ELSE current + 1
    BY <1>3, FollowingIs
  <2>2. QED BY <1>1, <2>1 DEF Ago
<1>4. QED BY <1>2, <1>3

(* The client begins with a round in which nothing was asked.              *)
LEMMA ClientStart == ClientInit => ClientInv
<1> SUFFICES ASSUME ClientInit PROVE ClientInv
  OBVIOUS
<1>1. 0 \in Providers /\ 0 \in 0..(RetryAttempts - 1)
  BY RingFacts
<1>2. ClientTypeOK
  BY <1>1, RingFacts DEF ClientInit, ClientTypeOK
<1>3. RoundInv
  BY DEF ClientInit, RoundInv, Ended
<1>4. QED BY <1>2, <1>3 DEF ClientInv

(* The next request, the next round or the end: the provider that has just *)
(* failed the call completes the round when it is the N-th.                *)
LEMMA NextTryFacts ==
    ASSUME ClientTypeOK, NEW k \in Callers, NextTry(k)
    PROVE  \/ /\ tries[k] + 1 <= N - 1
              /\ cpc' = [cpc EXCEPT ![k] = "pick"]
              /\ tries' = [tries EXCEPT ![k] = tries[k] + 1]
              /\ UNCHANGED attempt
           \/ /\ tries[k] = N - 1
              /\ attempt[k] + 1 <= RetryAttempts - 1
              /\ cpc' = [cpc EXCEPT ![k] = "wait"]
              /\ tries' = [tries EXCEPT ![k] = 0]
              /\ attempt' = [attempt EXCEPT ![k] = attempt[k] + 1]
           \/ /\ tries[k] = N - 1
              /\ cpc' = [cpc EXCEPT ![k] = "failed"]
              /\ UNCHANGED <<tries, attempt>>
<1>1. tries[k] \in Nat /\ attempt[k] \in Nat
  BY RingFacts DEF ClientTypeOK
<1>2. QED BY <1>1, RingFacts DEF NextTry

(* A step keeps the types of the client's variables.                       *)
LEMMA ClientTypes ==
    ASSUME ClientTypeOK, [ClientNext]_clientVars
    PROVE  ClientTypeOK'
<1>1. ASSUME NEW k \in Callers, StartCall(k) PROVE ClientTypeOK'
  <2>1. 0 \in Providers /\ 0 \in 0..(RetryAttempts - 1)
    BY RingFacts
  <2>2. QED BY <1>1, <2>1, RingFacts DEF StartCall, ClientTypeOK
<1>2. ASSUME NEW k \in Callers, NextProvider(k) PROVE ClientTypeOK'
  <2>1. current \in Providers /\ Following(current) \in Providers
    BY FollowingIs, RingFacts DEF ClientTypeOK
  <2>2. alone' \in [Callers -> BOOLEAN]
    BY <1>2 DEF NextProvider
  <2>3. QED BY <1>2, <2>1, <2>2, RingFacts DEF NextProvider, ClientTypeOK
<1>3. ASSUME NEW k \in Callers, Answer(k) PROVE ClientTypeOK'
  <2>1. CASE UNCHANGED <<tries, attempt, failedBy>>
    BY <1>3, <2>1 DEF Answer, ClientTypeOK, NextTry
  <2>2. CASE /\ failedBy' = [failedBy EXCEPT ![k] = @ \cup {prov[k]}]
             /\ NextTry(k)
    <3>1. failedBy' \in [Callers -> SUBSET Providers]
      BY <2>2 DEF ClientTypeOK
    <3>2. tries[k] \in Nat /\ attempt[k] \in Nat
      BY RingFacts DEF ClientTypeOK
    <3>3. tries[k] + 1 <= N - 1 => tries[k] + 1 \in Providers
      BY <3>2, RingFacts
    <3>4. attempt[k] + 1 <= RetryAttempts - 1
             => attempt[k] + 1 \in 0..(RetryAttempts - 1)
      BY <3>2, RingFacts
    <3>5. 0 \in Providers
      BY RingFacts
    <3>6. /\ cpc' \in [Callers -> {"idle", "pick", "call", "wait", "ok", "failed",
                                   "cancelled"}]
          /\ tries' \in [Callers -> Providers]
          /\ attempt' \in [Callers -> 0..(RetryAttempts - 1)]
      <4>1. CASE tries[k] + 1 <= N - 1 /\ UNCHANGED attempt
        BY <2>2, <3>2, <3>3, <4>1, NextTryFacts, RingFacts DEF ClientTypeOK
      <4>2. CASE ~(tries[k] + 1 <= N - 1 /\ UNCHANGED attempt)
        BY <2>2, <3>4, <3>5, <4>2, NextTryFacts DEF ClientTypeOK
      <4>3. QED BY <4>1, <4>2
    <3>7. QED BY <1>3, <3>1, <3>6 DEF Answer, ClientTypeOK
  <2>3. QED BY <1>3, <2>1, <2>2 DEF Answer
<1>4. ASSUME NEW k \in Callers, DelayEnds(k) PROVE ClientTypeOK'
  BY <1>4 DEF DelayEnds, ClientTypeOK
<1>5. ASSUME NEW p \in Providers, Change(p) PROVE ClientTypeOK'
  BY <1>5 DEF Change, ClientTypeOK, callVars
<1>6. CASE CancelCalls
  BY <1>6 DEF CancelCalls, ClientTypeOK, callVars
<1>7. CASE UNCHANGED clientVars
  BY <1>7 DEF clientVars, ClientTypeOK, callVars
<1>8. QED
  BY <1>1, <1>2, <1>3, <1>4, <1>5, <1>6, <1>7 DEF ClientNext, CallStep

(* A step of one call takes the others out of the invariant's reach when   *)
(* it moves the index, and leaves them alone otherwise.                    *)
LEMMA RoundNext ==
    ASSUME ClientInv, [ClientNext]_clientVars
    PROVE  RoundInv'
<1> DEFINE Part(k) == alone[k] =>
        /\ cpc[k] \in {"pick", "wait"} =>
              \A p \in Providers : Ago(p) < tries[k] => p \in failedBy[k]
        /\ cpc[k] = "call" =>
              /\ Ago(prov[k]) = 0
              /\ \A p \in Providers :
                    0 < Ago(p) /\ Ago(p) <= tries[k] => p \in failedBy[k]
        /\ ~Ended(k) /\ attempt[k] > 0 => failedBy[k] = Providers
        /\ cpc[k] = "failed" => failedBy[k] = Providers
<1>1. ClientTypeOK /\ \A k \in Callers : Part(k)
  BY DEF ClientInv, RoundInv
<1>2. current \in Providers
  BY <1>1, RingFacts DEF ClientTypeOK
<1>3. \A p \in Providers : Ago(p) \in Nat /\ Ago(p) <= N - 1
  BY <1>2, AgoFacts
<1>4. ASSUME NEW d \in Callers,
             UNCHANGED <<current, cpc[d], prov[d], tries[d], attempt[d],
                         failedBy[d], alone[d]>>
      PROVE  Part(d)'
  <2>1. \A p \in Providers : Ago(p)' = Ago(p)
    BY <1>4 DEF Ago
  <2>2. Ago(prov[d])' = Ago(prov[d])
    BY <1>4 DEF Ago
  <2>3. QED BY <1>1, <1>4, <2>1, <2>2 DEF Ended
<1>5. ASSUME NEW k \in Callers, StartCall(k), NEW d \in Callers
      PROVE  Part(d)'
  <2>1. CASE d = k
    <3>1. cpc'[k] = "pick" /\ tries'[k] = 0 /\ attempt'[k] = 0 /\ current' = current
      BY <1>1, <1>5 DEF StartCall, ClientTypeOK
    <3>2. \A p \in Providers : Ago(p)' \in Nat
      BY <1>3, <3>1 DEF Ago
    <3>3. QED BY <2>1, <3>1, <3>2
  <2>2. CASE d # k
    BY <1>1, <1>4, <1>5, <2>2 DEF StartCall, ClientTypeOK
  <2>3. QED BY <2>1, <2>2
<1>6. ASSUME NEW k \in Callers, NextProvider(k), NEW d \in Callers
      PROVE  Part(d)'
  <2>1. CASE d = k
    <3>1. /\ cpc[k] = "pick" /\ cpc'[k] = "call" /\ prov'[k] = current
          /\ current' = Following(current)
          /\ alone'[k] => alone[k]
          /\ UNCHANGED <<tries, attempt, failedBy>>
      BY <1>1, <1>6 DEF NextProvider, ClientTypeOK
    <3>2. \A p \in Providers : /\ p = current => Ago(p)' = 0
                               /\ p # current => Ago(p)' = Ago(p) + 1
      BY <1>2, <3>1, AgoFacts
    <3>3. Ago(prov[k])' = 0
      BY <1>2, <3>1, <3>2 DEF Ago
    <3>4. tries[k] \in Nat
      BY <1>1, RingFacts DEF ClientTypeOK
    <3>5. ASSUME alone[k], NEW p \in Providers, 0 < Ago(p)', Ago(p)' <= tries[k]
          PROVE  p \in failedBy[k]
      <4>1. Ago(p) < tries[k]
        BY <1>3, <3>2, <3>4, <3>5
      <4>2. QED BY <1>1, <3>1, <3>5, <4>1
    <3>6. QED BY <1>1, <2>1, <3>1, <3>3, <3>5 DEF Ended
  <2>2. CASE d # k
    <3>1. ~alone'[d]
      BY <1>6, <2>2 DEF NextProvider
    <3>2. QED BY <3>1
  <2>3. QED BY <2>1, <2>2
<1>7. ASSUME NEW k \in Callers, Answer(k), NEW d \in Callers
      PROVE  Part(d)'
  <2>1. current' = current /\ prov' = prov /\ alone' = alone /\ cpc[k] = "call"
    BY <1>7 DEF Answer
  <2>2. CASE d # k
    <3>1. UNCHANGED <<cpc[d], tries[d], attempt[d], failedBy[d]>>
      BY <1>1, <1>7, <2>2, NextTryFacts DEF Answer, ClientTypeOK
    <3>2. QED BY <1>4, <2>1, <3>1
  <2>3. CASE d = k /\ cpc'[k] \in {"ok", "cancelled"}
    BY <2>3 DEF Ended
  <2>4. CASE d = k /\ cpc'[k] \notin {"ok", "cancelled"}
    <3>1. /\ failedBy'[k] = failedBy[k] \cup {prov[k]}
          /\ NextTry(k)
      BY <1>1, <1>7, <2>4 DEF Answer, ClientTypeOK
    <3>2. tries[k] \in Nat /\ attempt[k] \in Nat /\ prov[k] \in Providers
      BY <1>1, RingFacts DEF ClientTypeOK
    <3>3. \A p \in Providers : Ago(p)' = Ago(p)
      BY <2>1 DEF Ago
    <3>4. ASSUME alone[k], NEW p \in Providers, Ago(p) <= tries[k]
          PROVE  p \in failedBy'[k]
      <4>1. CASE Ago(p) = 0
        <5>1. Ago(prov[k]) = 0
          BY <1>1, <2>1, <3>4
        <5>2. p = prov[k]
          BY <1>2, <3>2, <4>1, <5>1, RingFacts DEF Ago
        <5>3. QED BY <3>1, <5>2
      <4>2. CASE Ago(p) # 0
        BY <1>1, <1>3, <2>1, <3>1, <3>4, <4>2
      <4>3. QED BY <4>1, <4>2
    <3>5. ASSUME alone[k], tries[k] = N - 1 PROVE failedBy'[k] = Providers
      <4>1. Providers \subseteq failedBy'[k]
        BY <1>3, <3>4, <3>5
      <4>2. failedBy'[k] \subseteq Providers
        BY <1>1, <3>1, <3>2, RingFacts DEF ClientTypeOK
      <4>3. QED BY <4>1, <4>2
    <3>6. alone[k] /\ attempt[k] > 0 => failedBy'[k] = Providers
      BY <1>1, <2>1, <3>1, <3>2 DEF Ended
    <3>7. CASE tries[k] + 1 <= N - 1 /\ cpc'[k] = "pick"
      <4>1. tries'[k] = tries[k] + 1 /\ attempt'[k] = attempt[k]
        BY <1>1, <3>1, <3>2, <3>7, NextTryFacts, RingFacts DEF ClientTypeOK
      <4>2. ASSUME alone[k], NEW p \in Providers, Ago(p)' < tries'[k]
            PROVE  p \in failedBy'[k]
        BY <1>3, <3>2, <3>3, <3>4, <4>1, <4>2
      <4>3. QED BY <2>1, <2>4, <3>6, <3>7, <4>1, <4>2
    <3>8. CASE tries[k] = N - 1 /\ cpc'[k] \in {"wait", "failed"}
      BY <2>1, <2>4, <3>5, <3>8
    <3>9. QED BY <1>1, <3>1, <3>7, <3>8, NextTryFacts DEF ClientTypeOK
  <2>5. QED BY <2>2, <2>3, <2>4
<1>8. ASSUME NEW k \in Callers, DelayEnds(k), NEW d \in Callers
      PROVE  Part(d)'
  <2>1. CASE d = k
    <3>1. /\ cpc[k] = "wait" /\ cpc'[k] \in {"pick", "cancelled"}
          /\ UNCHANGED <<current, tries, attempt, failedBy, alone>>
      BY <1>1, <1>8 DEF DelayEnds, ClientTypeOK
    <3>2. \A p \in Providers : Ago(p)' = Ago(p)
      BY <3>1 DEF Ago
    <3>3. QED BY <1>1, <2>1, <3>1, <3>2 DEF Ended
  <2>2. CASE d # k
    BY <1>1, <1>4, <1>8, <2>2 DEF DelayEnds, ClientTypeOK
  <2>3. QED BY <2>1, <2>2
<1>9. ASSUME UNCHANGED <<current, callVars>>, NEW d \in Callers
      PROVE  Part(d)'
  BY <1>4, <1>9 DEF callVars
<1>10. ASSUME NEW d \in Callers PROVE Part(d)'
  BY <1>5, <1>6, <1>7, <1>8, <1>9, <1>10
  DEF ClientNext, CallStep, Change, CancelCalls, clientVars
<1>11. QED BY <1>10 DEF RoundInv

(* Types and rounds of the TRON client are an invariant, for any number of *)
(* providers, callers and rounds.                                          *)
THEOREM ClientInductive == ClientSpec => []ClientInv
<1>1. ClientInv /\ [ClientNext]_clientVars => ClientInv'
  BY ClientTypes, RoundNext DEF ClientInv
<1>2. QED BY <1>1, ClientStart, PTL DEF ClientSpec

(* A call during which no other takes a provider fails only when every     *)
(* provider has failed it.                                                 *)
THEOREM AllProvidersFailed == ClientSpec => []FailsOver
<1>1. ClientInv => FailsOver
  BY RingFacts DEF ClientInv, RoundInv, FailsOver
<1>2. QED BY <1>1, ClientInductive, PTL
=============================================================================
