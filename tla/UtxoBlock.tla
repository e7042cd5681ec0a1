------------------------------ MODULE UtxoBlock ------------------------------
(***************************************************************************)
(* One block of a UTXO network (BTC, LTC) on its way through ProcessBlock  *)
(* (internal/blockchain/bitcoin/processor.go) to its mark: hash and block  *)
(* from the first of several block APIs that answers                       *)
(* (internal/blockchain/bitcoin/client.go), then the transactions one      *)
(* after the other, each with at most one withdrawal and a deposit per     *)
(* output.  There is no progress set: an error ends the attempt, and the   *)
(* next one starts again with the first transaction.                       *)
(***************************************************************************)
EXTENDS Integers, Sequences, FiniteSets

CONSTANTS
    BlockChoices,  \* the blocks considered, each a sequence of TxRecords
    Orphans,       \* blocks of the same height that are not on the main chain
    Addresses,     \* addresses; NoAddress is none of them
    NoAddress,     \* an input or output that has no address
    Wallet,        \* watched address -> its wallet ID
    MaxValue,      \* bound: the largest value of an output
    Clients,       \* the number of block APIs configured
    Explorers,     \* those of them that speak the blockchain.info dialect
    Faults,        \* the kinds of failure this instance lets happen
    MaxFaults,     \* bound: how many failures happen
    MaxCrashes     \* bound: how many times the process dies

(* fetch: a block API answers a request with an error that is seen as one; *)
(* errordoc: an explorer answers it with a JSON document that says so;     *)
(* orphan: an explorer lists no block of the main chain at the height;     *)
(* page: a page of transactions comes back empty before the last;          *)
(* lookup: a wallet lookup fails;  publish: an event is not published;     *)
(* redis: the mark is not written.                                         *)
FaultKinds ==
    {"fetch", "errordoc", "orphan", "page", "lookup", "publish", "redis"}

(* Those after which the code takes another block, or a part, for it.      *)
Swallowed == {"errordoc", "orphan", "page"}

Outputs == [addr : Addresses \cup {NoAddress}, value : 0..MaxValue]
TxRecords == [ins : Seq(Addresses \cup {NoAddress}), outs : Seq(Outputs)]

ASSUME UtxoAssumption ==
    /\ BlockChoices \subseteq Seq(TxRecords)
    /\ Orphans \subseteq Seq(TxRecords)
    /\ NoAddress \notin Addresses
    /\ DOMAIN Wallet \subseteq Addresses
    /\ MaxValue \in Nat
    /\ Clients \in Nat \ {0}
    /\ Explorers \subseteq 0..(Clients - 1)
    /\ Faults \subseteq FaultKinds
    /\ MaxFaults \in Nat
    /\ MaxCrashes \in Nat

VARIABLES
    chain,    \* the block as it is on the chain
    upc,      \* where ProcessBlock or its caller is
    start,    \* the client nextIndex has chosen to be asked first
    asked,    \* how many clients this request has been sent to
    refused,  \* history: the clients that have failed this request
    hash,     \* the block whose hash GetBlockHash has given
    block,    \* the transactions ProcessBlock has got
    t,        \* the transaction it is at
    o,        \* the output it is at
    marked,   \* Redis: the block's bit in processed_blocks
    sent,     \* the events published, each with how often
    faults,   \* history: how many failures happened, and of which kinds
    crashes

vars == <<chain, upc, start, asked, refused, hash, block, t, o, marked, sent,
          faults, crashes>>

-----------------------------------------------------------------------------
(* What ProcessBlock makes of a transaction.  An event is <<n, 0>>, the    *)
(* withdrawal of transaction n, or <<n, i>>, the deposit of its output i.  *)

WatchedAddress(a) == a \in DOMAIN Wallet

(* The inputs that belong to watched wallets.                              *)
WatchedInputs(tx) == {i \in 1..Len(tx.ins) : WatchedAddress(tx.ins[i])}

(* watchedInputWalletID: the wallet of the first of them.                  *)
SpendingWallet(tx) ==
    Wallet[tx.ins[CHOOSE i \in WatchedInputs(tx) :
                     \A j \in WatchedInputs(tx) : i <= j]]

MultiWallet(tx) ==
    \E i \in WatchedInputs(tx) : Wallet[tx.ins[i]] # SpendingWallet(tx)

(* externalAmount > 0: something of value leaves for a foreign address.    *)
SpendsOutside(tx) ==
    \E i \in 1..Len(tx.outs) :
        /\ tx.outs[i].addr # NoAddress
        /\ ~WatchedAddress(tx.outs[i].addr)
        /\ tx.outs[i].value > 0

Withdraws(tx) ==
    WatchedInputs(tx) # {} /\ ~MultiWallet(tx) /\ SpendsOutside(tx)

(* Mutant of IsChange: outputs back to the spending wallet are deposits.   *)
IsChangeNever(tx, a) == FALSE

(* An output back to the wallet that spends.                               *)
IsChange(tx, a) == WatchedInputs(tx) # {} /\ Wallet[a] = SpendingWallet(tx)

Deposits(tx, i) ==
    /\ WatchedAddress(tx.outs[i].addr)
    /\ ~IsChange(tx, tx.outs[i].addr)

-----------------------------------------------------------------------------
(* The events users are owed, by whole transactions: what each wallet put  *)
(* in and got out of it.                                                   *)

InWallets(tx) == {Wallet[tx.ins[i]] : i \in WatchedInputs(tx)}

Events(b) == UNION {{<<n, i>> : i \in 0..Len(b[n].outs)} : n \in 1..Len(b)}

Owed(b) ==
    {e \in Events(b) :
        LET tx == b[e[1]] IN
        \/ /\ e[2] = 0
           /\ Cardinality(InWallets(tx)) = 1
           /\ \E i \in 1..Len(tx.outs) :
                 /\ tx.outs[i].addr \in Addresses \ DOMAIN Wallet
                 /\ tx.outs[i].value > 0
        \/ /\ e[2] > 0
           /\ tx.outs[e[2]].addr \in DOMAIN Wallet
           /\ Wallet[tx.outs[e[2]].addr] \notin InWallets(tx)}

-----------------------------------------------------------------------------
Init ==
    /\ chain \in BlockChoices
    /\ upc = "idle"
    /\ start = 0
    /\ asked = 0
    /\ refused = {}
    /\ hash = chain
    /\ block = <<>>
    /\ t = 1
    /\ o = 1
    /\ marked = FALSE
    /\ sent = [e \in Events(chain) |-> 0]
    /\ faults = [n |-> 0, kinds |-> {}]
    /\ crashes = 0

Fault(kind) ==
    /\ kind \in Faults
    /\ faults.n < MaxFaults
    /\ faults' = [n |-> faults.n + 1, kinds |-> faults.kinds \cup {kind}]

(* ProcessBlock returns an error.                                          *)
Return ==
    /\ upc' = "idle"
    /\ asked' = 0
    /\ block' = <<>>
    /\ t' = 1
    /\ o' = 1

(* nextIndex takes the next number of a counter that the requests of all   *)
(* goroutines share.                                                       *)
NextIndex == start' \in 0..(Clients - 1)

(* processBlockSafely calls ProcessBlock.                                  *)
Begin ==
    /\ upc = "idle"
    /\ ~marked
    /\ upc' = "hash"
    /\ NextIndex
    /\ refused' = {}
    /\ UNCHANGED <<chain, asked, hash, block, t, o, marked, sent, faults, crashes>>

(* Mutant of Client: the clients are tried from the first one chosen to    *)
(* the last, without coming round to the ones before it.                   *)
ClientClamped == IF start + asked < Clients THEN start + asked ELSE Clients - 1

(* The client asked now.                                                   *)
Client == (start + asked) % Clients

(* A client has failed: the next one is asked, after the last the error is *)
(* ProcessBlock's.                                                         *)
AskNext ==
    /\ refused' = refused \cup {Client}
    /\ \/ asked + 1 >= Clients /\ Return
       \/ /\ asked + 1 < Clients
          /\ asked' = asked + 1
          /\ UNCHANGED <<upc, block, t, o>>

(* A request fails for good: doWithBackoff has used up its retries, or the *)
(* client sees an error in the answer.                                     *)
RequestFails == Fault("fetch")

(* An explorer that lists no block of the main chain at the height gives   *)
(* the hash of the first block it lists.                                   *)
OrphanHash ==
    Client \in Explorers /\ Fault("orphan") /\ hash' \in Orphans

GetBlockHash ==
    /\ upc = "hash"
    /\ \/ RequestFails /\ AskNext /\ UNCHANGED <<start, hash>>
       \/ /\ upc' = "block"
          /\ NextIndex
          /\ asked' = 0
          /\ refused' = {}
          /\ UNCHANGED <<block, t, o>>
          /\ \/ hash' = chain /\ UNCHANGED faults
             \/ OrphanHash
    /\ UNCHANGED <<chain, marked, sent, crashes>>

(* An explorer's answer is decoded whatever its status, and an error       *)
(* document has no transactions.                                           *)
ErrorDocument ==
    Client \in Explorers /\ Fault("errordoc") /\ block' = <<>>

(* The paging of the others ends at the first empty page, whether the      *)
(* header's tx_count is reached or not.                                    *)
ShortPages ==
    /\ Client \notin Explorers
    /\ Fault("page")
    /\ \E n \in 0..(Len(hash) - 1) : block' = SubSeq(hash, 1, n)

GetBlockVerbose ==
    /\ upc = "block"
    /\ \/ RequestFails /\ AskNext
       \/ /\ upc' = "inputs"
          /\ asked' = 0
          /\ refused' = {}
          /\ UNCHANGED <<t, o>>
          /\ \/ block' = hash /\ UNCHANGED faults
             \/ ErrorDocument
             \/ ShortPages
    /\ UNCHANGED <<chain, start, hash, marked, sent, crashes>>

-----------------------------------------------------------------------------
(* The transactions.                                                       *)

(* PublishDeposit and PublishWithdrawal.  What is published for an orphan  *)
(* is none of the events of the block, and is not counted.                 *)
Publish(e) == sent' = IF hash = chain THEN [sent EXCEPT ![e] = @ + 1] ELSE sent

(* The wallets of the inputs; after the last transaction the block is      *)
(* complete.                                                               *)
ScanInputs ==
    /\ upc = "inputs"
    /\ \/ t > Len(block) /\ upc' = "mark" /\ UNCHANGED <<asked, block, t, o, faults>>
       \/ /\ t <= Len(block)
          /\ \E i \in 1..Len(block[t].ins) : block[t].ins[i] # NoAddress
          /\ Fault("lookup") /\ Return
       \/ /\ t <= Len(block)
          /\ upc' = "withdraw"
          /\ UNCHANGED <<asked, block, t, o, faults>>
    /\ UNCHANGED <<chain, start, refused, hash, marked, sent, crashes>>

(* Mutant of Withdraw: a failed publication is only logged.                *)
WithdrawLogged ==
    /\ upc = "withdraw"
    /\ upc' = "deposit"
    /\ UNCHANGED <<asked, block, t, o>>
    /\ \/ Withdraws(block[t]) /\ Fault("publish") /\ UNCHANGED sent
       \/ Withdraws(block[t]) /\ Publish(<<t, 0>>) /\ UNCHANGED faults
       \/ ~Withdraws(block[t]) /\ UNCHANGED <<sent, faults>>
    /\ UNCHANGED <<chain, start, refused, hash, marked, crashes>>

(* The withdrawal, with the wallets of the outputs it depends on.          *)
Withdraw ==
    /\ upc = "withdraw"
    /\ \/ /\ WatchedInputs(block[t]) # {} /\ ~MultiWallet(block[t])
          /\ \E i \in 1..Len(block[t].outs) : block[t].outs[i].addr # NoAddress
          /\ Fault("lookup") /\ Return /\ UNCHANGED sent
       \/ Withdraws(block[t]) /\ Fault("publish") /\ Return /\ UNCHANGED sent
       \/ /\ upc' = "deposit"
          /\ IF Withdraws(block[t]) THEN Publish(<<t, 0>>) ELSE UNCHANGED sent
          /\ UNCHANGED <<asked, block, t, o, faults>>
    /\ UNCHANGED <<chain, start, refused, hash, marked, crashes>>

(* One output; after the last, the next transaction.                       *)
Deposit ==
    /\ upc = "deposit"
    /\ \/ /\ o > Len(block[t].outs)
          /\ upc' = "inputs"
          /\ t' = t + 1
          /\ o' = 1
          /\ UNCHANGED <<asked, block, sent, faults>>
       \/ /\ o <= Len(block[t].outs)
          /\ block[t].outs[o].addr # NoAddress
          /\ Fault("lookup") /\ Return /\ UNCHANGED sent
       \/ /\ o <= Len(block[t].outs)
          /\ Deposits(block[t], o)
          /\ Fault("publish") /\ Return /\ UNCHANGED sent
       \/ /\ o <= Len(block[t].outs)
          /\ o' = o + 1
          /\ IF Deposits(block[t], o) THEN Publish(<<t, o>>) ELSE UNCHANGED sent
          /\ UNCHANGED <<upc, asked, block, t, faults>>
    /\ UNCHANGED <<chain, start, refused, hash, marked, crashes>>

(* Mutant of MarkBlock: a block whose mark was not written is dropped.     *)
MarkBlockOnce ==
    /\ upc = "mark"
    /\ upc' = "done"
    /\ \/ Fault("redis") /\ marked' \in BOOLEAN
       \/ marked' = TRUE /\ UNCHANGED faults
    /\ UNCHANGED <<asked, block, t, o>>
    /\ UNCHANGED <<chain, start, refused, hash, sent, crashes>>

(* MarkBlockProcessed, in processBlockSafely.                              *)
MarkBlock ==
    /\ upc = "mark"
    /\ \/ Fault("redis") /\ Return /\ marked' \in BOOLEAN
       \/ /\ marked' = TRUE
          /\ upc' = "done"
          /\ UNCHANGED <<asked, block, t, o, faults>>
    /\ UNCHANGED <<chain, start, refused, hash, sent, crashes>>

(* The process dies and is started again.                                  *)
Restart ==
    /\ crashes < MaxCrashes
    /\ crashes' = crashes + 1
    /\ Return
    /\ start' = 0
    /\ refused' = {}
    /\ UNCHANGED <<chain, hash, marked, sent, faults>>

BlockStep ==
    \/ Begin
    \/ GetBlockHash
    \/ GetBlockVerbose
    \/ ScanInputs
    \/ Withdraw
    \/ Deposit
    \/ MarkBlock

Next == BlockStep \/ Restart

Spec == Init /\ [][Next]_vars

(* The worker runs, and comes back to a block that is not marked.          *)
FairSpec == Spec /\ WF_vars(BlockStep)

-----------------------------------------------------------------------------
(* Properties.                                                             *)

(* Every variable holds a value of its Go type, and no output or           *)
(* transaction beyond the last is ever indexed.                            *)
TypeOK ==
    /\ chain \in Seq(TxRecords)
    /\ upc \in {"idle", "hash", "block", "inputs", "withdraw", "deposit",
                "mark", "done"}
    /\ start \in 0..(Clients - 1)
    /\ asked \in 0..(Clients - 1)
    /\ refused \subseteq 0..(Clients - 1)
    /\ hash \in Seq(TxRecords)
    /\ block \in Seq(TxRecords)
    /\ t \in 1..(Len(block) + 1)
    /\ o \in Nat
    /\ marked \in BOOLEAN
    /\ sent \in [Events(chain) -> Nat]
    /\ faults \in [n : Nat, kinds : SUBSET FaultKinds]
    /\ crashes \in Nat
    /\ upc \in {"withdraw", "deposit"} => t <= Len(block)
    /\ upc = "deposit" => o <= Len(block[t].outs) + 1

(* ProcessBlock keeps what every network promises of a block, although a   *)
(* retry starts again with the first transaction: the mark is set once,    *)
(* after all the block owes, and nothing new is published behind it.       *)
(* Publication and lookup failures, failing block APIs and crashes only    *)
(* delay it; an error, an orphan or an empty page passed off as the block  *)
(* does not.                                                               *)
Delivery ==
    INSTANCE BlockDelivery
        WITH owed <- Owed(chain),
             published <- {e \in Owed(chain) : sent[e] > 0},
             marked <- marked,
             lossy <- faults.kinds \cap Swallowed # {}

ImplementsDelivery == Delivery!DeliverySpec

(* Nothing else is published, for a transaction in which at most one       *)
(* watched wallet spends: money that comes back to a wallet that put some  *)
(* in is change and not a deposit, and what a wallet sends to another      *)
(* watched wallet is not a withdrawal.  The events published for an orphan *)
(* are not among those it speaks of.                                       *)
NothingElse ==
    \A e \in Events(chain) :
        sent[e] > 0 /\ Cardinality(InWallets(chain[e[1]])) <= 1
            => e \in Owed(chain)

(* An attempt ends with a failed request only when every block API         *)
(* configured has failed that very request: none is left out and none      *)
(* asked twice, wherever the shared counter has nextIndex begin, and       *)
(* failures of earlier requests and attempts do not count.                 *)
FailsOver ==
    [][(upc \in {"hash", "block"}) /\ upc' = "idle" /\ crashes' = crashes
          => refused' = 0..(Clients - 1)]_vars

(* The block is marked in the end, however its finitely many failures fall.*)
EventuallyMarked == <>marked
=============================================================================
