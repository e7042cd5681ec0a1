--------------------------- MODULE UtxoBlockProofs --------------------------
(***************************************************************************)
(* Proofs about UtxoBlock, for every block, set of wallets, number of      *)
(* block APIs and every sequence of failures and crashes: what             *)
(* ProcessBlock publishes is what the block owes, an attempt ends before   *)
(* the transactions only when every block API failed it, and the block is  *)
(* delivered as BlockDelivery says.                                        *)
(***************************************************************************)
EXTENDS UtxoBlock, FiniteSetTheorems, SequenceTheorems, WellFoundedInduction,
        TLAPS

-----------------------------------------------------------------------------
(* The inductive invariant.                                                *)

(* A failure has happened after which the code takes another block, or a   *)
(* part of it, for the block.                                              *)
Lossy == faults.kinds \cap Swallowed # {}

Walking == {"inputs", "withdraw", "deposit"}

(* The attempt has gone past event e.                                      *)
Passed(e) ==
    \/ upc \in {"mark", "done"}
    \/ upc \in Walking /\ e[1] < t
    \/ upc = "deposit" /\ e[1] = t /\ (e[2] = 0 \/ e[2] < o)

(* Where the attempt is: what it works on is the block it has the hash of  *)
(* or the beginning of it, and short of a failure that is swallowed that   *)
(* is the block of the main chain.                                         *)
AttemptInv ==
    /\ marked => upc \in {"idle", "done"}
    /\ upc \in {"idle", "hash", "block"} => t = 1 /\ block = <<>>
    /\ upc # "deposit" => o = 1
    /\ o >= 1
    /\ Len(block) <= Len(hash)
    /\ \A n \in 1..Len(block) : block[n] = hash[n]
    /\ ~Lossy => hash = chain

(* The clients that have failed a request are the ones it was sent to,     *)
(* counted from the one nextIndex chose.                                   *)
RequestInv ==
    /\ upc \notin {"hash", "block"} => asked = 0
    /\ upc \in {"hash", "block"} =>
          refused = {(start + k) % Clients : k \in 0..(asked - 1)}

(* Short of a failure that is swallowed the attempt works on the block,    *)
(* and what it has passed is published.                                    *)
WorkInv ==
    ~Lossy => /\ upc \in Walking \cup {"mark"} => block = chain
              /\ \A e \in Owed(chain) : Passed(e) => sent[e] > 0

IndInv == AttemptInv /\ WorkInv /\ NothingElse

-----------------------------------------------------------------------------
(* What ProcessBlock makes of a transaction.                               *)

(* The first watched input exists: SpendingWallet is the wallet of one.    *)
LEMMA SpendingFacts ==
    ASSUME NEW tx \in TxRecords, WatchedInputs(tx) # {}
    PROVE  SpendingWallet(tx) \in InWallets(tx)
<1>1. Len(tx.ins) \in Nat
  BY DEF TxRecords
<1>2. WatchedInputs(tx) \subseteq Nat
  BY <1>1 DEF WatchedInputs
<1>3. \E i \in WatchedInputs(tx) : \A j \in WatchedInputs(tx) :
         <<j, i>> \notin OpToRel(<, Nat)
  BY <1>2, WFMin, NatLessThanWellFounded, Zenon
<1>4. \E i \in WatchedInputs(tx) : \A j \in WatchedInputs(tx) : i <= j
  <2>1. PICK i \in WatchedInputs(tx) : \A j \in WatchedInputs(tx) :
           <<j, i>> \notin OpToRel(<, Nat)
    BY <1>3, Zenon
  <2>2. ASSUME NEW j \in WatchedInputs(tx) PROVE i <= j
    <3>1. i \in Nat /\ j \in Nat
      BY <1>2
    <3>2. ~ (j < i)
      BY <2>1, <3>1 DEF OpToRel
    <3>3. QED BY <3>1, <3>2
  <2>3. QED BY <2>2
<1>5. (CHOOSE i \in WatchedInputs(tx) : \A j \in WatchedInputs(tx) : i <= j)
         \in WatchedInputs(tx)
  BY <1>4
<1>6. QED BY <1>5 DEF SpendingWallet, InWallets

(* The wallets that spend are finitely many; none does when no input is    *)
(* watched.                                                                *)
LEMMA InWalletsFinite ==
    ASSUME NEW tx \in TxRecords
    PROVE  /\ IsFiniteSet(InWallets(tx))
           /\ Cardinality(InWallets(tx)) \in Nat
           /\ InWallets(tx) = {} <=> WatchedInputs(tx) = {}
<1> DEFINE f == [i \in WatchedInputs(tx) |-> Wallet[tx.ins[i]]]
<1>1. Len(tx.ins) \in Nat
  BY DEF TxRecords
<1>2. IsFiniteSet(1..Len(tx.ins))
  BY <1>1, FS_Interval
<1>3. IsFiniteSet(WatchedInputs(tx))
  BY <1>2, FS_Subset DEF WatchedInputs
<1>4. f \in Surjection(WatchedInputs(tx), InWallets(tx))
  BY DEF Surjection, InWallets
<1>5. IsFiniteSet(InWallets(tx))
  BY <1>3, <1>4, FS_Surjection
<1>6. QED BY <1>5, FS_CardinalityType DEF InWallets

(* One wallet spends exactly when the inputs are watched and              *)
(* watchedInputWalletID is the wallet of each of them.                     *)
LEMMA OneWallet ==
    ASSUME NEW tx \in TxRecords
    PROVE  Cardinality(InWallets(tx)) = 1
              <=> WatchedInputs(tx) # {} /\ ~MultiWallet(tx)
<1>1. ASSUME Cardinality(InWallets(tx)) = 1
      PROVE  WatchedInputs(tx) # {} /\ ~MultiWallet(tx)
  <2>1. PICK x : InWallets(tx) = {x}
    BY <1>1, InWalletsFinite, FS_Singleton
  <2>2. WatchedInputs(tx) # {}
    BY <2>1, InWalletsFinite
  <2>3. SpendingWallet(tx) = x
    BY <2>1, <2>2, SpendingFacts
  <2>4. QED BY <2>1, <2>2, <2>3 DEF MultiWallet, InWallets
<1>2. ASSUME WatchedInputs(tx) # {}, ~MultiWallet(tx)
      PROVE  Cardinality(InWallets(tx)) = 1
  <2>1. InWallets(tx) = {SpendingWallet(tx)}
    BY <1>2, SpendingFacts DEF MultiWallet, InWallets
  <2>2. QED BY <2>1, FS_Singleton
<1>3. QED BY <1>1, <1>2

(* The transactions of a block are records with addresses and values.      *)
LEMMA BlockFacts ==
    ASSUME NEW b \in Seq(TxRecords), NEW n \in 1..Len(b)
    PROVE  /\ b[n] \in TxRecords /\ Len(b[n].outs) \in Nat
           /\ \A i \in 1..Len(b[n].outs) : b[n].outs[i] \in Outputs
<1>1. b[n] \in TxRecords
  OBVIOUS
<1>2. b[n].outs \in Seq(Outputs)
  BY <1>1 DEF TxRecords
<1>3. QED BY <1>1, <1>2

(* An event is a transaction of the block and one of its outputs, or 0.    *)
LEMMA EventFacts ==
    ASSUME NEW b \in Seq(TxRecords), NEW e \in Events(b)
    PROVE  /\ e[1] \in 1..Len(b) /\ e[1] \in Nat /\ e[2] \in Nat
           /\ e = <<e[1], e[2]>>
           /\ e[2] \in 0..Len(b[e[1]].outs)
<1>1. PICK n \in 1..Len(b) : e \in {<<n, i>> : i \in 0..Len(b[n].outs)}
  BY DEF Events
<1>2. PICK i \in 0..Len(b[n].outs) : e = <<n, i>>
  BY <1>1
<1>3. Len(b[n].outs) \in Nat /\ Len(b) \in Nat
  BY BlockFacts
<1>4. QED BY <1>2, <1>3

(* The withdrawal that ProcessBlock finds is the one that is owed.         *)
LEMMA WithdrawalOwed ==
    ASSUME NEW b \in Seq(TxRecords), NEW n \in 1..Len(b)
    PROVE  <<n, 0>> \in Owed(b) <=> Withdraws(b[n])
<1> DEFINE tx == b[n]
           e == <<n, 0>>
<1>1. tx \in TxRecords /\ Len(tx.outs) \in Nat
      /\ \A i \in 1..Len(tx.outs) : tx.outs[i] \in Outputs
  BY BlockFacts
<1>2. e \in Events(b) /\ e[1] = n /\ e[2] = 0
  BY <1>1 DEF Events
<1>3. SpendsOutside(tx) <=>
         \E i \in 1..Len(tx.outs) :
            tx.outs[i].addr \in Addresses \ DOMAIN Wallet /\ tx.outs[i].value > 0
  BY <1>1, UtxoAssumption DEF SpendsOutside, WatchedAddress, Outputs
<1>4. e \in Owed(b) <=> Cardinality(InWallets(tx)) = 1 /\ SpendsOutside(tx)
  BY <1>2, <1>3 DEF Owed
<1>5. QED BY <1>1, <1>4, OneWallet DEF Withdraws

(* A deposit that is owed is one ProcessBlock finds; one that it finds is  *)
(* owed when at most one watched wallet spends.                            *)
LEMMA DepositOwed ==
    ASSUME NEW b \in Seq(TxRecords), NEW n \in 1..Len(b),
           NEW i \in 1..Len(b[n].outs)
    PROVE  /\ <<n, i>> \in Owed(b) => Deposits(b[n], i)
           /\ Deposits(b[n], i) /\ Cardinality(InWallets(b[n])) <= 1
                 => <<n, i>> \in Owed(b)
<1> DEFINE tx == b[n]
           e == <<n, i>>
           a == tx.outs[i].addr
<1>1. tx \in TxRecords /\ Len(tx.outs) \in Nat
  BY BlockFacts
<1>2. e \in Events(b) /\ e[1] = n /\ e[2] = i /\ i > 0
  BY <1>1 DEF Events
<1>3. e \in Owed(b) <=> a \in DOMAIN Wallet /\ Wallet[a] \notin InWallets(tx)
  BY <1>2 DEF Owed
<1>4. ASSUME e \in Owed(b) PROVE Deposits(tx, i)
  BY <1>1, <1>3, <1>4, SpendingFacts DEF Deposits, WatchedAddress, IsChange
<1>5. ASSUME Deposits(tx, i), Cardinality(InWallets(tx)) <= 1
      PROVE  e \in Owed(b)
  <2>1. a \in DOMAIN Wallet
    BY <1>5 DEF Deposits, WatchedAddress
  <2>2. CASE WatchedInputs(tx) = {}
    BY <1>1, <1>3, <2>1, <2>2, InWalletsFinite
  <2>3. CASE WatchedInputs(tx) # {}
    <3>1. Cardinality(InWallets(tx)) # 0
      BY <1>1, <2>3, InWalletsFinite, FS_EmptySet
    <3>2. Cardinality(InWallets(tx)) = 1
      BY <1>1, <1>5, <3>1, InWalletsFinite
    <3>3. PICK x : InWallets(tx) = {x}
      BY <1>1, <3>2, InWalletsFinite, FS_Singleton
    <3>4. InWallets(tx) = {SpendingWallet(tx)}
      BY <1>1, <2>3, <3>3, SpendingFacts
    <3>5. Wallet[a] # SpendingWallet(tx)
      BY <1>5, <2>3 DEF Deposits, IsChange
    <3>6. QED BY <1>3, <2>1, <3>4, <3>5
  <2>4. QED BY <2>2, <2>3
<1>6. QED BY <1>4, <1>5

-----------------------------------------------------------------------------
(* Type correctness.                                                       *)

(* The part of the type that an attempt writes.                            *)
AttemptType ==
    /\ upc \in {"idle", "hash", "block", "inputs", "withdraw", "deposit",
                "mark", "done"}
    /\ start \in 0..(Clients - 1) /\ asked \in 0..(Clients - 1)
    /\ refused \subseteq 0..(Clients - 1)
    /\ block \in Seq(TxRecords)
    /\ t \in 1..(Len(block) + 1) /\ o \in Nat
    /\ upc \in {"withdraw", "deposit"} => t <= Len(block)
    /\ upc = "deposit" => o <= Len(block[t].outs) + 1

(* The rest of it.                                                         *)
StoreType ==
    /\ chain \in Seq(TxRecords)
    /\ hash \in Seq(TxRecords)
    /\ marked \in BOOLEAN
    /\ sent \in [Events(chain) -> Nat]
    /\ faults \in [n : Nat, kinds : SUBSET FaultKinds]
    /\ crashes \in Nat

(* Both together are the type invariant.                                   *)
LEMMA TypeParts == TypeOK <=> AttemptType /\ StoreType
BY DEF TypeOK, AttemptType, StoreType

(* A failure is counted and remembered.                                    *)
LEMMA FaultFacts ==
    ASSUME TypeOK, NEW k \in FaultKinds, Fault(k)
    PROVE  /\ faults' \in [n : Nat, kinds : SUBSET FaultKinds]
           /\ faults'.kinds = faults.kinds \cup {k}
           /\ faults'.n = faults.n + 1
BY DEF TypeOK, Fault

(* Failures happen one at a time, and stay.                                *)
LEMMA FaultsGrow ==
    ASSUME TypeOK, [Next]_vars
    PROVE  /\ faults' \in [n : Nat, kinds : SUBSET FaultKinds]
           /\ faults.kinds \subseteq faults'.kinds
           /\ faults' = faults \/ faults'.n = faults.n + 1
           /\ ~Lossy' => ~Lossy
<1>1. UNCHANGED faults \/ \E k \in FaultKinds : Fault(k)
  BY DEF Next, BlockStep, Begin, GetBlockHash, GetBlockVerbose, RequestFails,
         OrphanHash, ErrorDocument, ShortPages, ScanInputs, Withdraw, Deposit,
         MarkBlock, Restart, vars, FaultKinds
<1>2. /\ faults' \in [n : Nat, kinds : SUBSET FaultKinds]
      /\ faults.kinds \subseteq faults'.kinds
      /\ faults' = faults \/ faults'.n = faults.n + 1
  BY <1>1, FaultFacts DEF TypeOK
<1>3. QED BY <1>2 DEF Lossy

(* The end of an attempt leaves its variables well typed.                  *)
LEMMA ReturnType ==
    ASSUME TypeOK, Return, start' \in 0..(Clients - 1),
           refused' \subseteq 0..(Clients - 1)
    PROVE  AttemptType'
<1>1. 0 \in 0..(Clients - 1)
  BY UtxoAssumption
<1>2. <<>> \in Seq(TxRecords) /\ Len(<<>>) = 0
  OBVIOUS
<1>3. 1 \in 1..(Len(block') + 1)
  BY <1>2 DEF Return
<1>4. QED BY <1>1, <1>2, <1>3 DEF Return, AttemptType

(* The client asked is one of those configured.                            *)
LEMMA ClientIs ==
    ASSUME TypeOK
    PROVE  Client \in 0..(Clients - 1)
<1>1. start + asked \in Int /\ Clients \in Nat \ {0}
  BY UtxoAssumption DEF TypeOK
<1>2. (start + asked) % Clients \in 0..(Clients - 1)
  BY <1>1
<1>3. QED BY <1>2 DEF Client

(* So does the next client.                                                *)
LEMMA AskNextType ==
    ASSUME TypeOK, AskNext, start' \in 0..(Clients - 1), upc \in {"hash", "block"}
    PROVE  AttemptType'
<1>r. refused' \subseteq 0..(Clients - 1)
  BY ClientIs DEF AskNext, TypeOK
<1>1. CASE Return
  BY <1>1, <1>r, ReturnType
<1>2. CASE asked + 1 < Clients /\ asked' = asked + 1 /\ UNCHANGED <<upc, block, t, o>>
  <2>1. asked' \in 0..(Clients - 1)
    BY <1>2, UtxoAssumption DEF TypeOK
  <2>2. QED BY <1>2, <1>r, <2>1 DEF TypeOK, AttemptType
<1>3. QED BY <1>1, <1>2 DEF AskNext

(* A page that comes back empty leaves the beginning of the block.         *)
LEMMA PrefixFacts ==
    ASSUME NEW b \in Seq(TxRecords), NEW n \in 0..(Len(b) - 1)
    PROVE  /\ SubSeq(b, 1, n) \in Seq(TxRecords)
           /\ Len(SubSeq(b, 1, n)) = n
           /\ \A i \in 1..n : SubSeq(b, 1, n)[i] = b[i]
<1>1. Len(b) \in Nat /\ n \in Nat /\ n <= Len(b)
  OBVIOUS
<1>2. \A i \in 1..n : b[i] \in TxRecords
  BY <1>1
<1>3. /\ SubSeq(b, 1, n) \in Seq(TxRecords)
      /\ Len(SubSeq(b, 1, n)) = IF 1 <= n THEN n - 1 + 1 ELSE 0
      /\ \A i \in 1..(n - 1 + 1) : SubSeq(b, 1, n)[i] = b[1 + i - 1]
  BY <1>1, <1>2, SubSeqProperties
<1>4. QED BY <1>1, <1>3

(* What a block API gives for a hash is the block of that hash, or the     *)
(* beginning of it, and then a failure was swallowed.                      *)
LEMMA GotBlock ==
    ASSUME TypeOK, upc = "block", GetBlockVerbose, upc' = "inputs"
    PROVE  /\ asked' = 0 /\ refused' = {} /\ UNCHANGED <<t, o, start, hash>>
           /\ block' \in Seq(TxRecords)
           /\ Len(block') <= Len(hash)
           /\ \A n \in 1..Len(block') : block'[n] = hash[n]
           /\ block' = hash \/ Lossy'
<1>1. /\ asked' = 0 /\ refused' = {} /\ UNCHANGED <<t, o, start, hash>>
      /\ (block' = hash /\ UNCHANGED faults) \/ ErrorDocument \/ ShortPages
  BY DEF GetBlockVerbose, AskNext, Return
<1>2. hash \in Seq(TxRecords) /\ Len(hash) \in Nat
  BY DEF TypeOK
<1>3. CASE block' = hash
  BY <1>1, <1>2, <1>3
<1>4. CASE ErrorDocument
  <2>1. block' = <<>> /\ Lossy'
    BY <1>4 DEF ErrorDocument, Fault, Lossy, Swallowed
  <2>2. Len(<<>>) = 0 /\ <<>> \in Seq(TxRecords)
    OBVIOUS
  <2>3. QED BY <1>1, <1>2, <2>1, <2>2
<1>5. CASE ShortPages
  <2>1. PICK n \in 0..(Len(hash) - 1) : block' = SubSeq(hash, 1, n)
    BY <1>5 DEF ShortPages
  <2>2. Lossy'
    BY <1>5 DEF ShortPages, Fault, Lossy, Swallowed
  <2>3. QED BY <1>1, <1>2, <2>1, <2>2, PrefixFacts
<1>6. QED BY <1>1, <1>3, <1>4, <1>5

(* The hash changes with the answer of GetBlockHash only, and names a      *)
(* block off the main chain only after a failure that was swallowed.       *)
LEMMA HashFacts ==
    ASSUME TypeOK, AttemptInv, [Next]_vars
    PROVE  /\ hash' \in Seq(TxRecords)
           /\ hash' = hash \/ (upc = "hash" /\ upc' = "block")
           /\ ~Lossy' => hash' = chain
<1>1. \/ hash' = hash
      \/ /\ upc = "hash" /\ upc' = "block"
         /\ hash' = chain \/ OrphanHash
  BY DEF Next, BlockStep, Begin, GetBlockHash, GetBlockVerbose, ScanInputs,
         Withdraw, Deposit, MarkBlock, Restart, vars
<1>2. CASE hash' = hash
  BY <1>2, FaultsGrow DEF TypeOK, AttemptInv
<1>3. CASE hash' = chain
  BY <1>1, <1>3 DEF TypeOK
<1>4. CASE OrphanHash
  <2>1. Lossy'
    BY <1>4 DEF OrphanHash, Fault, Lossy, Swallowed
  <2>2. hash' \in Seq(TxRecords)
    BY <1>4, UtxoAssumption DEF OrphanHash
  <2>3. QED BY <1>1, <2>1, <2>2
<1>5. QED BY <1>1, <1>2, <1>3, <1>4

(* Every step keeps the types of the attempt's variables: no transaction   *)
(* or output beyond the last is indexed.                                   *)
LEMMA AttemptTypeNext ==
    ASSUME TypeOK, AttemptInv, [Next]_vars
    PROVE  AttemptType'
<1>a. AttemptType
  BY TypeParts
<1>b. Clients \in Nat /\ Clients > 0 /\ 0 \in 0..(Clients - 1)
  BY UtxoAssumption
<1>c. ASSUME t <= Len(block) PROVE t \in 1..Len(block) /\ Len(block[t].outs) \in Nat
  BY <1>a, <1>c, BlockFacts DEF AttemptType
<1>1. CASE Begin
  BY <1>1, <1>a DEF Begin, NextIndex, AttemptType
<1>2. CASE GetBlockHash
  <2>1. CASE /\ upc' = "block" /\ start' \in 0..(Clients - 1) /\ asked' = 0
             /\ refused' = {} /\ UNCHANGED <<block, t, o>>
    BY <1>a, <1>b, <2>1 DEF AttemptType
  <2>2. QED BY <1>2, <1>a, <2>1, AskNextType DEF GetBlockHash, NextIndex, AttemptType
<1>3. CASE GetBlockVerbose
  <2>1. CASE upc' = "inputs"
    <3>1. /\ asked' = 0 /\ refused' = {} /\ UNCHANGED <<t, o, start>>
          /\ block' \in Seq(TxRecords)
      BY <1>3, <2>1, GotBlock DEF GetBlockVerbose
    <3>2. t = 1
      BY <1>3 DEF GetBlockVerbose, AttemptInv
    <3>3. t' \in 1..(Len(block') + 1)
      BY <3>1, <3>2
    <3>4. QED BY <1>a, <1>b, <2>1, <3>1, <3>3 DEF AttemptType
  <2>2. CASE AskNext
    BY <1>3, <1>a, <2>2, AskNextType DEF GetBlockVerbose, AttemptType
  <2>3. QED BY <1>3, <2>1, <2>2 DEF GetBlockVerbose
<1>4. CASE ScanInputs
  <2>1. CASE Return
    BY <1>4, <1>a, <2>1, ReturnType DEF ScanInputs, AttemptType
  <2>2. CASE /\ upc' = "mark" \/ (upc' = "withdraw" /\ t <= Len(block))
             /\ UNCHANGED <<asked, block, t, o>>
    BY <1>4, <1>a, <2>2 DEF ScanInputs, AttemptType
  <2>3. QED BY <1>4, <2>1, <2>2 DEF ScanInputs
<1>5. CASE Withdraw
  <2>1. CASE Return
    BY <1>5, <1>a, <2>1, ReturnType DEF Withdraw, AttemptType
  <2>2. CASE upc' = "deposit" /\ UNCHANGED <<asked, block, t, o>>
    <3>1. /\ upc = "withdraw" /\ t <= Len(block) /\ o = 1
          /\ UNCHANGED <<start, refused>>
      BY <1>5, <1>a DEF Withdraw, AttemptType, AttemptInv
    <3>2. Len(block[t].outs) \in Nat
      BY <1>c, <3>1
    <3>3. o <= Len(block[t].outs) + 1
      BY <3>1, <3>2
    <3>4. QED BY <1>a, <2>2, <3>1, <3>3 DEF AttemptType
  <2>3. QED BY <1>5, <2>1, <2>2 DEF Withdraw
<1>6. CASE Deposit
  <2>0. upc = "deposit" /\ t <= Len(block) /\ UNCHANGED <<start, refused>>
    BY <1>6, <1>a DEF Deposit, AttemptType
  <2>1. CASE Return
    BY <1>a, <2>0, <2>1, ReturnType DEF AttemptType
  <2>2. CASE upc' = "inputs" /\ t' = t + 1 /\ o' = 1 /\ UNCHANGED <<asked, block>>
    <3>1. t' \in 1..(Len(block) + 1)
      BY <1>c, <2>0, <2>2
    <3>2. QED BY <1>a, <2>0, <2>2, <3>1 DEF AttemptType
  <2>3. CASE /\ o <= Len(block[t].outs) /\ o' = o + 1
             /\ UNCHANGED <<upc, asked, block, t>>
    <3>1. o' \in Nat /\ o' <= Len(block[t].outs) + 1
      BY <1>a, <1>c, <2>0, <2>3 DEF AttemptType
    <3>2. QED BY <1>a, <2>0, <2>3, <3>1 DEF AttemptType
  <2>4. QED BY <1>6, <2>1, <2>2, <2>3 DEF Deposit
<1>7. CASE MarkBlock
  <2>1. CASE Return
    BY <1>7, <1>a, <2>1, ReturnType DEF MarkBlock, AttemptType
  <2>2. CASE upc' = "done" /\ UNCHANGED <<asked, block, t, o>>
    BY <1>7, <1>a, <2>2 DEF MarkBlock, AttemptType
  <2>3. QED BY <1>7, <2>1, <2>2 DEF MarkBlock
<1>8. CASE Restart
  BY <1>8, <1>b, ReturnType DEF Restart
<1>9. CASE UNCHANGED vars
  BY <1>9, <1>a DEF vars, AttemptType
<1>10. QED BY <1>1, <1>2, <1>3, <1>4, <1>5, <1>6, <1>7, <1>8, <1>9
           DEF Next, BlockStep

(* The block on the chain stays.                                           *)
LEMMA ChainStays ==
    ASSUME [Next]_vars
    PROVE  chain' = chain /\ Events(chain)' = Events(chain)
           /\ Owed(chain)' = Owed(chain)
<1>1. chain' = chain
  BY DEF Next, BlockStep, Begin, GetBlockHash, GetBlockVerbose, ScanInputs,
         Withdraw, Deposit, MarkBlock, Restart, vars
<1>2. QED BY <1>1

(* Every step keeps all types.                                             *)
LEMMA TypeNext ==
    ASSUME TypeOK, AttemptInv, [Next]_vars
    PROVE  TypeOK'
<1>a. StoreType
  BY TypeParts
<1>1. sent' \in [Events(chain) -> Nat]
  <2>1. sent' = sent \/ \E e : Publish(e)
    BY DEF Next, BlockStep, Begin, GetBlockHash, GetBlockVerbose, ScanInputs,
           Withdraw, Deposit, MarkBlock, Restart, vars
  <2>2. QED BY <1>a, <2>1 DEF Publish, StoreType
<1>2. marked' \in BOOLEAN
  BY <1>a DEF Next, BlockStep, Begin, GetBlockHash, GetBlockVerbose, ScanInputs,
              Withdraw, Deposit, MarkBlock, Restart, vars, StoreType
<1>3. crashes' = crashes \/ crashes' = crashes + 1
  BY DEF Next, BlockStep, Begin, GetBlockHash, GetBlockVerbose, ScanInputs,
         Withdraw, Deposit, MarkBlock, Restart, vars
<1>4. StoreType'
  BY <1>1, <1>2, <1>3, <1>a, FaultsGrow, ChainStays, HashFacts DEF StoreType
<1>5. AttemptType'
  BY AttemptTypeNext
<1>6. QED BY <1>4, <1>5 DEF TypeOK, StoreType, AttemptType

-----------------------------------------------------------------------------
(* The attempt.                                                            *)

(* The initial state is well typed and has no attempt.                     *)
LEMMA StructureInit == Init => TypeOK /\ AttemptInv
<1> SUFFICES ASSUME Init PROVE TypeOK /\ AttemptInv
  OBVIOUS
<1>1. chain \in Seq(TxRecords) /\ 0 \in 0..(Clients - 1)
  BY UtxoAssumption DEF Init
<1>2. <<>> \in Seq(TxRecords) /\ Len(<<>>) = 0 /\ 1 \in 1..(Len(<<>>) + 1)
  OBVIOUS
<1>3. TypeOK
  BY <1>1, <1>2 DEF Init, TypeOK
<1>4. AttemptInv
  BY <1>1, <1>2 DEF Init, AttemptInv
<1>5. QED BY <1>3, <1>4

(* Every step keeps what is said of the attempt.                           *)
LEMMA AttemptNext ==
    ASSUME TypeOK, AttemptInv, [Next]_vars
    PROVE  AttemptInv'
<1>a. /\ Len(hash) \in Nat /\ Len(hash') \in Nat /\ o \in Nat
      /\ ~Lossy' => hash' = chain'
  BY HashFacts, ChainStays DEF TypeOK
<1>e. Len(<<>>) = 0 /\ 1..0 = {}
  OBVIOUS
<1>h. hash' = hash \/ (upc = "hash" /\ upc' = "block")
  BY HashFacts
<1>r. ASSUME Return PROVE AttemptInv'
  BY <1>a, <1>e, <1>r DEF Return, AttemptInv
<1>k. ASSUME block' = block, hash' = hash
      PROVE  /\ Len(block') <= Len(hash')
             /\ \A n \in 1..Len(block') : block'[n] = hash'[n]
  BY <1>k DEF AttemptInv
<1>f. ASSUME AskNext, UNCHANGED <<marked, hash>> PROVE AttemptInv'
  <2>1. CASE UNCHANGED <<upc, block, t, o>>
    BY <1>a, <1>f, <1>k, <2>1 DEF AttemptInv
  <2>2. QED BY <1>f, <1>r, <2>1 DEF AskNext
<1>1. CASE Begin
  <2>1. UNCHANGED <<block, hash, t, o, marked>> /\ upc = "idle" /\ upc' = "hash" /\ ~marked
    BY <1>1 DEF Begin
  <2>2. QED BY <1>a, <1>k, <2>1 DEF AttemptInv
<1>2. CASE GetBlockHash
  <2>1. CASE upc' = "block" /\ UNCHANGED <<block, t, o>>
    <3>1. upc = "hash" /\ marked' = marked
      BY <1>2 DEF GetBlockHash
    <3>2. block' = <<>> /\ t' = 1 /\ o' = 1 /\ ~marked'
      BY <2>1, <3>1 DEF AttemptInv
    <3>3. QED BY <1>a, <1>e, <2>1, <3>2 DEF AttemptInv
  <2>2. QED BY <1>2, <1>f, <2>1 DEF GetBlockHash
<1>3. CASE GetBlockVerbose
  <2>1. CASE upc' = "inputs"
    <3>1. /\ UNCHANGED <<t, o, hash>>
          /\ Len(block') <= Len(hash)
          /\ \A n \in 1..Len(block') : block'[n] = hash[n]
      BY <1>3, <2>1, GotBlock DEF GetBlockVerbose
    <3>2. upc = "block" /\ marked' = marked
      BY <1>3 DEF GetBlockVerbose
    <3>3. QED BY <1>a, <2>1, <3>1, <3>2 DEF AttemptInv
  <2>2. QED BY <1>3, <1>f, <2>1 DEF GetBlockVerbose
<1>4. CASE ScanInputs
  <2>1. CASE upc' \in {"mark", "withdraw"} /\ UNCHANGED <<block, t, o>>
    BY <1>4, <1>a, <1>k, <2>1 DEF ScanInputs, AttemptInv
  <2>2. QED BY <1>4, <1>r, <2>1 DEF ScanInputs
<1>5. CASE Withdraw
  <2>1. CASE upc' = "deposit" /\ UNCHANGED <<block, t, o>>
    BY <1>5, <1>a, <1>k, <2>1 DEF Withdraw, AttemptInv
  <2>2. QED BY <1>5, <1>r, <2>1 DEF Withdraw
<1>6. CASE Deposit
  <2>1. CASE upc' = "inputs" /\ o' = 1 /\ UNCHANGED block
    BY <1>6, <1>a, <1>k, <2>1 DEF Deposit, AttemptInv
  <2>2. CASE o' = o + 1 /\ UNCHANGED <<upc, block, t>>
    <3>1. o' >= 1
      BY <1>a, <2>2
    <3>2. QED BY <1>6, <1>a, <1>k, <2>2, <3>1 DEF Deposit, AttemptInv
  <2>3. QED BY <1>6, <1>r, <2>1, <2>2 DEF Deposit
<1>7. CASE MarkBlock
  <2>1. CASE upc' = "done" /\ UNCHANGED <<block, t, o>>
    BY <1>7, <1>a, <1>k, <2>1 DEF MarkBlock, AttemptInv
  <2>2. QED BY <1>7, <1>r, <2>1 DEF MarkBlock
<1>8. CASE Restart
  BY <1>8, <1>r DEF Restart
<1>9. CASE UNCHANGED vars
  BY <1>9, <1>a, <1>k DEF vars, AttemptInv
<1>10. QED BY <1>1, <1>2, <1>3, <1>4, <1>5, <1>6, <1>7, <1>8, <1>9
           DEF Next, BlockStep

(* Every step keeps the account of the clients that have failed a request. *)
LEMMA RequestNext ==
    ASSUME TypeOK, RequestInv, [Next]_vars
    PROVE  RequestInv'
<1>a. asked \in Nat /\ start \in Nat /\ 0..(0 - 1) = {}
  BY UtxoAssumption DEF TypeOK
<1>r. ASSUME Return PROVE RequestInv'
  BY <1>r DEF Return, RequestInv
<1>z. ASSUME asked' = 0, refused' = {} PROVE RequestInv'
  BY <1>a, <1>z DEF RequestInv
<1>f. ASSUME upc \in {"hash", "block"}, AskNext, start' = start PROVE RequestInv'
  <2>1. CASE asked' = asked + 1 /\ upc' = upc
    <3>1. 0..(asked' - 1) = (0..(asked - 1)) \cup {asked}
      BY <1>a, <2>1
    <3>2. refused' = {(start + k) % Clients : k \in 0..(asked - 1)}
                        \cup {(start + asked) % Clients}
      BY <1>f DEF AskNext, Client, RequestInv
    <3>3. refused' = {(start' + k) % Clients : k \in 0..(asked' - 1)}
      BY <1>f, <3>1, <3>2
    <3>4. QED BY <1>f, <2>1, <3>3 DEF RequestInv
  <2>2. QED BY <1>f, <1>r, <2>1 DEF AskNext
<1>1. CASE Begin
  BY <1>1, <1>z DEF Begin, RequestInv
<1>2. CASE GetBlockHash
  BY <1>2, <1>z, <1>f DEF GetBlockHash
<1>3. CASE GetBlockVerbose
  BY <1>3, <1>z, <1>f DEF GetBlockVerbose
<1>4. CASE ScanInputs \/ Withdraw \/ Deposit \/ MarkBlock \/ Restart
  <2>1. CASE Return
    BY <1>r, <2>1
  <2>2. CASE /\ upc \notin {"hash", "block"} /\ upc' \notin {"hash", "block"}
             /\ asked' = asked
    BY <2>2 DEF RequestInv
  <2>3. QED BY <1>4, <2>1, <2>2
            DEF ScanInputs, Withdraw, Deposit, MarkBlock, Restart
<1>5. CASE UNCHANGED vars
  BY <1>5 DEF vars, RequestInv
<1>6. QED BY <1>1, <1>2, <1>3, <1>4, <1>5 DEF Next, BlockStep

(* Every variable keeps its type, no transaction or output beyond the last *)
(* is indexed, and an attempt works on the block or the beginning of it.   *)
THEOREM TypeCorrect == Spec => [](TypeOK /\ AttemptInv)
BY StructureInit, TypeNext, AttemptNext, PTL DEF Spec

(* As many numbers in a row as there are clients, counted round from any   *)
(* one of them, meet every client.                                         *)
LEMMA WholeRound ==
    ASSUME NEW m \in Nat \ {0}, NEW s \in 0..(m - 1)
    PROVE  {(s + k) % m : k \in 0..(m - 1)} = 0..(m - 1)
<1>1. ASSUME NEW k \in 0..(m - 1) PROVE (s + k) % m \in 0..(m - 1)
  BY <1>1
<1>2. ASSUME NEW c \in 0..(m - 1) PROVE \E k \in 0..(m - 1) : (s + k) % m = c
  <2>1. CASE s <= c
    <3>1. c - s \in 0..(m - 1) /\ s + (c - s) = c /\ c % m = c
      BY <2>1
    <3>2. QED BY <3>1
  <2>2. CASE c < s
    <3>1. c + m - s \in 0..(m - 1) /\ s + (c + m - s) = c + m
      BY <2>2
    <3>2. (c + m) % m = c
      OBVIOUS
    <3>3. QED BY <3>1, <3>2
  <2>3. QED BY <2>1, <2>2
<1>3. QED BY <1>1, <1>2

(* Whichever client nextIndex begins with, an attempt ends with a failed   *)
(* request only when every block API has failed that request.              *)
THEOREM AllClientsFailed == Spec => FailsOver
<1>1. TypeOK /\ RequestInv /\ [Next]_vars
        => [(upc \in {"hash", "block"}) /\ upc' = "idle" /\ crashes' = crashes
               => refused' = 0..(Clients - 1)]_vars
  <2> SUFFICES ASSUME TypeOK, RequestInv, Next, upc \in {"hash", "block"},
                      upc' = "idle", crashes' = crashes
               PROVE  refused' = 0..(Clients - 1)
    OBVIOUS
  <2>1. ~Restart
    BY DEF Restart, TypeOK
  <2>2. AskNext
    BY <2>1 DEF Next, BlockStep, Begin, GetBlockHash, GetBlockVerbose, ScanInputs,
                Withdraw, Deposit, MarkBlock
  <2>3. asked + 1 >= Clients /\ refused' = refused \cup {Client}
    BY <2>2 DEF AskNext
  <2>4. /\ Clients \in Nat \ {0} /\ start \in 0..(Clients - 1)
        /\ asked = Clients - 1
    BY <2>3, UtxoAssumption DEF TypeOK
  <2>5. refused = {(start + k) % Clients : k \in 0..(asked - 1)}
    BY DEF RequestInv
  <2>6. 0..(Clients - 1) = (0..(asked - 1)) \cup {asked}
    BY <2>4
  <2>7. refused' = {(start + k) % Clients : k \in 0..(Clients - 1)}
    BY <2>3, <2>5, <2>6 DEF Client
  <2>8. QED BY <2>4, <2>7, WholeRound
<1>2. Spec => []RequestInv
  <2>1. Init => RequestInv
    BY DEF Init, RequestInv
  <2>2. QED BY <2>1, RequestNext, TypeCorrect, PTL DEF Spec
<1>3. QED BY <1>1, <1>2, TypeCorrect, PTL DEF Spec, FailsOver

-----------------------------------------------------------------------------
(* What is published.                                                      *)

(* Events are published one at a time, by the step that is at them.        *)
LEMMA PublishedBy ==
    ASSUME TypeOK, AttemptInv, [Next]_vars, sent' # sent
    PROVE  \E e \in Events(chain) :
              /\ sent' = [sent EXCEPT ![e] = @ + 1]
              /\ faults' = faults /\ marked' = marked
              /\ \/ /\ upc = "withdraw" /\ e = <<t, 0>> /\ Withdraws(chain[t])
                 \/ /\ upc = "deposit" /\ e = <<t, o>> /\ Deposits(chain[t], o)
                    /\ o \in 1..Len(chain[t].outs)
<1>1. \/ /\ upc = "withdraw" /\ Withdraws(block[t]) /\ Publish(<<t, 0>>)
         /\ faults' = faults /\ marked' = marked
      \/ /\ upc = "deposit" /\ Deposits(block[t], o) /\ o <= Len(block[t].outs)
         /\ Publish(<<t, o>>) /\ faults' = faults /\ marked' = marked
  BY DEF Next, BlockStep, Begin, GetBlockHash, GetBlockVerbose, ScanInputs,
         Withdraw, Deposit, MarkBlock, Restart, vars
<1>h. hash = chain
  BY <1>1 DEF Publish
<1>2. t \in 1..Len(block) /\ t \in 1..Len(chain) /\ block[t] = chain[t]
  <2>1. t \in 1..Len(block)
    BY <1>1 DEF TypeOK
  <2>2. Len(block) \in Nat /\ Len(chain) \in Nat /\ Len(block) <= Len(chain)
    BY <1>h DEF TypeOK, AttemptInv
  <2>3. QED BY <1>h, <2>1, <2>2 DEF AttemptInv
<1>3. Len(chain[t].outs) \in Nat
  BY <1>2, BlockFacts DEF TypeOK
<1>4. CASE upc = "withdraw"
  <2>1. <<t, 0>> \in Events(chain)
    BY <1>2, <1>3 DEF Events
  <2>2. QED BY <1>h, <1>1, <1>2, <1>4, <2>1 DEF Publish
<1>5. CASE upc = "deposit"
  <2>1. o \in 1..Len(chain[t].outs)
    BY <1>1, <1>2, <1>3, <1>5 DEF TypeOK, AttemptInv
  <2>2. <<t, o>> \in Events(chain)
    BY <1>2, <1>3, <2>1 DEF Events
  <2>3. QED BY <1>h, <1>1, <1>2, <1>5, <2>1, <2>2 DEF Publish
<1>6. QED BY <1>1, <1>4, <1>5

(* Nothing but what is owed, for transactions in which one wallet spends:  *)
(* kept by every step.                                                     *)
LEMMA NothingElseNext ==
    ASSUME TypeOK, AttemptInv, NothingElse, [Next]_vars
    PROVE  NothingElse'
<1> SUFFICES ASSUME NEW k \in Events(chain), sent'[k] > 0,
                    Cardinality(InWallets(chain[k[1]])) <= 1
             PROVE  k \in Owed(chain)
  BY ChainStays DEF NothingElse
<1>1. CASE sent'[k] = sent[k]
  BY <1>1 DEF NothingElse
<1>2. CASE sent'[k] # sent[k]
  <2>1. PICK e \in Events(chain) :
              /\ sent' = [sent EXCEPT ![e] = @ + 1]
              /\ faults' = faults /\ marked' = marked
              /\ \/ /\ upc = "withdraw" /\ e = <<t, 0>> /\ Withdraws(chain[t])
                 \/ /\ upc = "deposit" /\ e = <<t, o>> /\ Deposits(chain[t], o)
                    /\ o \in 1..Len(chain[t].outs)
    BY <1>2, PublishedBy
  <2>2. k = e
    BY <1>2, <2>1 DEF TypeOK
  <2>3. chain \in Seq(TxRecords)
    BY DEF TypeOK
  <2>4. t = k[1] /\ t \in 1..Len(chain)
    BY <2>1, <2>2, <2>3, EventFacts
  <2>5. QED BY <2>1, <2>2, <2>3, <2>4, WithdrawalOwed, DepositOwed
<1>3. QED BY <1>1, <1>2

(* What ProcessBlock publishes for a transaction in which at most one      *)
(* watched wallet spends is owed: change is not reported as a deposit, nor *)
(* a transfer between watched wallets as a withdrawal.                     *)
THEOREM OnlyOwedPublished == Spec => []NothingElse
<1>1. Init => NothingElse
  BY DEF Init, NothingElse
<1>2. QED BY <1>1, NothingElseNext, TypeCorrect, PTL DEF Spec

-----------------------------------------------------------------------------
(* What an attempt passes is published.                                    *)

(* Events are not taken back.                                              *)
LEMMA SentGrows ==
    ASSUME TypeOK, AttemptInv, [Next]_vars, NEW e \in Events(chain), sent[e] > 0
    PROVE  sent'[e] > 0
<1>1. sent[e] \in Nat
  BY DEF TypeOK
<1>2. CASE sent' # sent
  <2>1. PICK k \in Events(chain) : sent' = [sent EXCEPT ![k] = @ + 1]
    BY <1>2, PublishedBy
  <2>2. sent'[e] = sent[e] \/ sent'[e] = sent[e] + 1
    BY <2>1 DEF TypeOK
  <2>3. QED BY <1>1, <2>2
<1>3. QED BY <1>2

(* Short of a failure that is swallowed, an attempt passes an event it     *)
(* owes only by publishing it: any other failure ends it.                  *)
LEMMA WorkNext ==
    ASSUME TypeOK, AttemptInv, WorkInv, [Next]_vars
    PROVE  WorkInv'
<1> SUFFICES ASSUME ~Lossy'
             PROVE  /\ upc' \in Walking \cup {"mark"} => block' = chain
                    /\ \A e \in Owed(chain) : Passed(e)' => sent'[e] > 0
  BY ChainStays DEF WorkInv
<1>a. ~Lossy
  BY FaultsGrow
<1>b. upc \in Walking \cup {"mark"} => block = chain
  BY <1>a DEF WorkInv
<1>h. hash = chain
  BY <1>a DEF AttemptInv
<1>1. upc' \in Walking \cup {"mark"} => block' = chain
  <2>1. CASE GetBlockVerbose /\ upc' = "inputs"
    BY <1>h, <2>1, GotBlock DEF GetBlockVerbose
  <2>2. CASE ~ (GetBlockVerbose /\ upc' = "inputs")
    BY <1>b, <2>2
       DEF Next, BlockStep, Begin, GetBlockHash, GetBlockVerbose, AskNext,
           ScanInputs, Withdraw, Deposit, MarkBlock, Restart, Return, vars, Walking
  <2>3. QED BY <2>1, <2>2
<1>2. ASSUME NEW e \in Owed(chain), Passed(e)' PROVE sent'[e] > 0
  <2>a. e \in Events(chain) /\ chain \in Seq(TxRecords)
    BY DEF Owed, TypeOK
  <2>b. /\ e[1] \in 1..Len(chain) /\ e[1] \in Nat /\ e[2] \in Nat
        /\ e = <<e[1], e[2]>> /\ e[2] \in 0..Len(chain[e[1]].outs)
    BY <2>a, EventFacts
  <2>c. t \in Nat /\ o \in Nat /\ t >= 1 /\ o >= 1
    BY DEF TypeOK, AttemptInv
  <2>d. ASSUME Passed(e) PROVE sent'[e] > 0
    BY <1>a, <2>a, <2>d, SentGrows DEF WorkInv
  <2>e. ASSUME sent' = [sent EXCEPT ![e] = @ + 1] PROVE sent'[e] > 0
    <3>1. sent[e] \in Nat /\ sent'[e] = sent[e] + 1
      BY <2>a, <2>e DEF TypeOK
    <3>2. QED BY <3>1
  <2>f. ~Return
    BY <1>2 DEF Return, Passed, Walking
  <2>1. CASE Begin \/ GetBlockHash
    BY <1>2, <2>1, <2>f DEF Begin, GetBlockHash, AskNext, Passed, Walking
  <2>2. CASE GetBlockVerbose
    <3>1. upc = "block" /\ upc' \in {"block", "inputs"} /\ t' = t
      BY <2>2, <2>f DEF GetBlockVerbose, AskNext
    <3>2. t' = 1
      BY <3>1 DEF AttemptInv
    <3>3. QED BY <1>2, <2>b, <3>1, <3>2 DEF Passed, Walking
  <2>3. CASE ScanInputs
    <3>1. CASE t > Len(block)
      <4>1. upc = "inputs" /\ block = chain
        BY <2>3, <1>b DEF ScanInputs, Walking
      <4>2. e[1] < t
        BY <2>a, <2>b, <2>c, <3>1, <4>1
      <4>3. QED BY <2>d, <4>1, <4>2 DEF Passed, Walking
    <3>2. CASE upc = "inputs" /\ upc' = "withdraw" /\ t' = t
      BY <1>2, <2>d, <3>2 DEF Passed, Walking
    <3>3. QED BY <2>3, <2>f, <3>1, <3>2 DEF ScanInputs
  <2>4. CASE Withdraw
    <3>1. /\ upc = "withdraw" /\ upc' = "deposit" /\ t' = t /\ o' = o /\ o = 1
          /\ block = chain
      BY <2>4, <2>f, <1>b DEF Withdraw, AttemptInv, Walking
    <3>2. Passed(e) \/ e = <<t, 0>>
      BY <1>2, <2>b, <3>1 DEF Passed, Walking
    <3>3. CASE e = <<t, 0>>
      <4>1. Withdraws(chain[t])
        BY <2>a, <2>b, <3>3, WithdrawalOwed
      <4>2. QED BY <1>h, <2>4, <2>e, <2>f, <3>1, <3>3, <4>1 DEF Withdraw, Publish
    <3>4. QED BY <2>d, <3>2, <3>3
  <2>5. CASE Deposit
    <3>1. upc = "deposit" /\ block = chain
      BY <2>5, <1>b DEF Deposit, Walking
    <3>2. CASE o > Len(block[t].outs) /\ upc' = "inputs" /\ t' = t + 1
      <4>1. e[1] < t + 1
        BY <1>2, <3>2 DEF Passed, Walking
      <4>2. e[1] = t => e[2] < o
        BY <2>b, <2>c, <3>1, <3>2, BlockFacts, <2>a
      <4>3. Passed(e)
        BY <2>b, <2>c, <3>1, <4>1, <4>2 DEF Passed, Walking
      <4>4. QED BY <2>d, <4>3
    <3>3. CASE /\ o <= Len(block[t].outs) /\ o' = o + 1 /\ upc' = upc /\ t' = t
               /\ IF Deposits(block[t], o) THEN Publish(<<t, o>>) ELSE UNCHANGED sent
      <4>1. Passed(e) \/ e = <<t, o>>
        BY <1>2, <2>b, <2>c, <3>1, <3>3 DEF Passed, Walking
      <4>2. CASE e = <<t, o>>
        <5>1. t = e[1] /\ o = e[2] /\ o \in 1..Len(chain[t].outs)
          BY <2>b, <2>c, <4>2
        <5>2. Deposits(chain[t], o)
          BY <2>a, <2>b, <4>2, <5>1, DepositOwed
        <5>3. QED BY <1>h, <2>e, <3>1, <3>3, <4>2, <5>2 DEF Publish
      <4>3. QED BY <2>d, <4>1, <4>2
    <3>4. QED BY <2>5, <2>f, <3>2, <3>3 DEF Deposit
  <2>6. CASE MarkBlock
    BY <2>6, <2>d DEF MarkBlock, Passed
  <2>7. CASE Restart
    BY <2>7, <2>f DEF Restart
  <2>8. CASE UNCHANGED vars
    BY <1>2, <2>8, <2>d DEF vars, Passed
  <2>9. QED BY <2>1, <2>2, <2>3, <2>4, <2>5, <2>6, <2>7, <2>8 DEF Next, BlockStep
<1>3. QED BY <1>1, <1>2

(* The invariant: short of a failure that is swallowed the attempt works   *)
(* on the whole block, and all it has passed is published.                 *)
THEOREM Inductive == Spec => []IndInv
<1>1. Init => WorkInv
  BY DEF Init, WorkInv, Passed, Walking
<1>2. Spec => []WorkInv
  BY <1>1, WorkNext, TypeCorrect, PTL DEF Spec
<1>3. TypeOK /\ AttemptInv /\ WorkInv /\ NothingElse => IndInv
  BY DEF IndInv
<1>4. QED BY <1>2, <1>3, TypeCorrect, OnlyOwedPublished, PTL

-----------------------------------------------------------------------------
(* Refinement of BlockDelivery.                                            *)

(* A step publishes an event, swallows a failure, marks the block, or does *)
(* nothing that BlockDelivery tells apart.                                 *)
LEMMA DeliveryStep ==
    ASSUME TypeOK, IndInv, [Next]_vars
    PROVE  [Delivery!Next]_Delivery!vars
<1> DEFINE owed == Owed(chain)
           published == {e \in Owed(chain) : sent[e] > 0}
<1>o. owed' = owed /\ chain' = chain
  BY ChainStays
<1>1. CASE sent' # sent
  <2>1. PICK e \in Events(chain) :
              /\ sent' = [sent EXCEPT ![e] = @ + 1]
              /\ faults' = faults /\ marked' = marked
              /\ upc \in {"withdraw", "deposit"}
    BY <1>1, PublishedBy DEF IndInv
  <2>2. ~marked
    BY <2>1 DEF IndInv, AttemptInv
  <2>3. ASSUME NEW k \in owed
        PROVE  sent'[k] > 0 <=> sent[k] > 0 \/ k = e
    <3>1. k \in Events(chain)
      BY DEF Owed
    <3>2. sent[k] \in Nat
      BY <3>1 DEF TypeOK
    <3>3. sent'[k] = IF k = e THEN sent[k] + 1 ELSE sent[k]
      BY <2>1, <3>1 DEF TypeOK
    <3>4. QED BY <3>2, <3>3
  <2>4. published' = {k \in owed : sent'[k] > 0}
    BY <1>o
  <2>5. CASE e \in published \/ e \notin owed
    <3>1. published' = published
      BY <2>3, <2>4, <2>5
    <3>2. QED BY <1>o, <2>1, <3>1 DEF Delivery!vars
  <2>6. CASE e \in owed \ published
    <3>1. published' = published \cup {e}
      BY <2>3, <2>4, <2>6
    <3>2. QED BY <1>o, <2>1, <2>2, <2>6, <3>1 DEF Delivery!Next, Delivery!Publish
  <2>7. QED BY <2>5, <2>6
<1>2. CASE sent' = sent
  <2>1. published' = published
    BY <1>2, <1>o
  <2>2. CASE marked' = marked
    <3>1. CASE Lossy'
      BY <1>o, <2>1, <2>2, <3>1 DEF Lossy, Delivery!Next, Delivery!Lose
    <3>2. CASE ~Lossy'
      <4>1. ~Lossy
        BY <3>2, FaultsGrow
      <4>2. QED BY <1>o, <2>1, <2>2, <3>2, <4>1 DEF Lossy, Delivery!vars
    <3>3. QED BY <3>1, <3>2
  <2>3. CASE marked' # marked
    <3>1. MarkBlock
      BY <2>3 DEF Next, BlockStep, Begin, GetBlockHash, GetBlockVerbose,
                  ScanInputs, Withdraw, Deposit, Restart, vars
    <3>2. upc = "mark"
      BY <3>1 DEF MarkBlock
    <3>3. ~marked
      BY <3>2 DEF IndInv, AttemptInv
    <3>4. marked' = TRUE
      <4>1. marked \in BOOLEAN /\ marked' \in BOOLEAN
        BY <3>1 DEF MarkBlock, TypeOK
      <4>2. QED BY <2>3, <3>3, <4>1
    <3>5. Lossy' <=> Lossy
      BY <3>1 DEF MarkBlock, Fault, Lossy, Swallowed
    <3>6. ~Lossy => published = owed
      BY <3>2 DEF IndInv, WorkInv, Passed
    <3>7. QED BY <1>o, <2>1, <3>3, <3>4, <3>5, <3>6
              DEF Lossy, Delivery!Next, Delivery!Mark
  <2>4. QED BY <2>2, <2>3
<1>3. QED BY <1>1, <1>2

(* Although a retry starts again with the first transaction, the mark of a *)
(* UTXO block is set once, after all the events the block owes, and        *)
(* nothing owed is published behind it, unless an error, an orphan or an   *)
(* empty page was taken for the block.                                     *)
THEOREM Refinement == Spec => ImplementsDelivery
<1>1. Init => Delivery!Init
  <2> SUFFICES ASSUME Init PROVE Delivery!Init
    OBVIOUS
  <2>1. {e \in Owed(chain) : sent[e] > 0} = {}
    BY DEF Init, Owed
  <2>2. QED BY <2>1 DEF Init, Delivery!Init
<1>2. QED BY <1>1, DeliveryStep, TypeCorrect, Inductive, PTL
          DEF Spec, ImplementsDelivery, Delivery!DeliverySpec
=============================================================================
