-------------------------- MODULE SolanaSlotProofs --------------------------
(***************************************************************************)
(* Proofs about SolanaSlot, for every block, number of URLs, width of the  *)
(* shared counter and every sequence of failures, cancellations and        *)
(* crashes: a slot is given up as skipped only after every URL was asked,  *)
(* it is delivered as BlockDelivery says, and the changes of the watched   *)
(* wallets' balances are reported.                                         *)
(***************************************************************************)
EXTENDS SolanaSlot, FiniteSetTheorems, WellFoundedInduction, TLAPS

-----------------------------------------------------------------------------
(* The inductive invariant.                                                *)

(* An answer has made the slot look empty.                                 *)
Lossy == faults.kinds \cap Swallowed # {}

Walking == {"tx", "native", "token"}

(* The attempt has gone past event e.                                      *)
Passed(e) ==
    \/ bpc = "mark"
    \/ bpc \in Walking /\ e[1] < t
    \/ bpc = "native" /\ e \in NativeItems(t) \ todo
    \/ bpc = "token" /\ e \in NativeItems(t)
    \/ bpc = "token" /\ e \in TokenItems(t) \ todo

(* Where the attempt is: a slot in hand is not marked, and what is still   *)
(* to be handled belongs to the phase of the transaction.                  *)
AttemptInv ==
    /\ marked => bpc = "idle"
    /\ bpc \in {"idle", "slot", "block"} => t = 1
    /\ bpc \notin {"native", "token"} => todo = {}
    /\ bpc = "native" => todo \subseteq NativeItems(t)
    /\ bpc = "token" => todo \subseteq TokenItems(t)
    /\ bpc # "mark" => tries < N /\ verdict = "none"

(* While the counter goes up by one, the URLs asked are those at its last  *)
(* values; a slot is taken for skipped at the last URL.                    *)
CallInv ==
    /\ alone => /\ tries <= next
                /\ \A k \in (next - tries)..(next - 1) : k % N \in asked
    /\ verdict = "skipped" => tries = N

(* A slot that was skipped has no block to work on.                        *)
SkippedInv ==
    skipped => bpc \notin Walking /\ \A e \in Owed : sent[e] = 0

(* Until an answer makes a slot look empty, what an attempt has passed is  *)
(* published, under a cancelled context too.                               *)
WorkInv ==
    ~Lossy /\ ~skipped => \A e \in Owed : Passed(e) => sent[e] > 0

IndInv == AttemptInv /\ CallInv /\ SkippedInv /\ WorkInv

-----------------------------------------------------------------------------
(* Remainders.                                                             *)

(* A number is its quotient times the divisor and its remainder.           *)
LEMMA ModDiv ==
    ASSUME NEW m \in Nat \ {0}, NEW x \in Int
    PROVE  /\ x \div m \in Int
           /\ x % m \in 0..(m - 1)
           /\ x = m * (x \div m) + (x % m)
OBVIOUS

(* No other number below the divisor is the remainder.                     *)
LEMMA ModUnique ==
    ASSUME NEW m \in Nat \ {0}, NEW q \in Int, NEW r \in 0..(m - 1)
    PROVE  (m * q + r) % m = r
OBVIOUS

(* Among m numbers in a row there is one for every remainder.              *)
LEMMA ModCover ==
    ASSUME NEW m \in Nat \ {0}, NEW a \in Nat, NEW u \in 0..(m - 1)
    PROVE  \E k \in a..(a + m - 1) : k % m = u
<1> DEFINE q == a \div m
           r == a % m
<1>1. q \in Int /\ r \in 0..(m - 1) /\ a = m * q + r
  BY ModDiv
<1>2. CASE u >= r
  <2>1. (m * q + u) % m = u
    BY <1>1, ModUnique
  <2>2. m * q \in Int
    BY <1>1
  <2>3. m * q + u \in a..(a + m - 1)
    BY <1>1, <1>2, <2>2
  <2>4. QED BY <2>1, <2>3
<1>3. CASE u < r
  <2>1. PICK p \in Int : p = q + 1
    BY <1>1
  <2>2. (m * p + u) % m = u
    BY ModUnique
  <2>3. m * q \in Int /\ m * p = m * q + m
    BY <1>1, <2>1
  <2>4. m * p + u \in a..(a + m - 1)
    BY <1>1, <1>3, <2>3
  <2>5. QED BY <2>2, <2>4
<1>4. QED BY <1>1, <1>2, <1>3

-----------------------------------------------------------------------------
(* Facts about the block, the answers and the failures.                    *)

(* The transactions of the block are numbered.                             *)
LEMMA TxFacts == Len(Tx) \in Nat /\ Txs = 1..Len(Tx)
BY SlotAssumption DEF Txs

(* What is handled for a transaction names it.                             *)
LEMMA ItemFacts ==
    ASSUME NEW n, NEW e \in NativeItems(n) \cup TokenItems(n)
    PROVE  e[1] = n
BY DEF NativeItems, TokenItems

(* An owed event is one its transaction's phases come by.                  *)
LEMMA OwedFacts ==
    ASSUME NEW e \in Owed
    PROVE  /\ e[1] \in Txs /\ e[1] \in Nat /\ e[1] >= 1 /\ e[1] <= Len(Tx)
           /\ ~Tx[e[1]].failed
           /\ e \in NativeItems(e[1]) \cup TokenItems(e[1])
           /\ Reported(e)
<1>1. PICK n \in {m \in Txs : ~Tx[m].failed} : e \in NativeItems(n) \cup TokenItems(n)
  BY DEF Owed
<1>2. e[1] = n
  BY <1>1, ItemFacts
<1>3. Reported(e)
  BY DEF Owed
<1>4. QED BY <1>1, <1>2, <1>3, TxFacts

(* A failure is counted and remembered.                                    *)
LEMMA FaultFacts ==
    ASSUME TypeOK, NEW k \in FaultKinds, Fault(k)
    PROVE  /\ faults' \in [n : Nat, kinds : SUBSET FaultKinds]
           /\ faults'.kinds = faults.kinds \cup {k}
BY DEF TypeOK, Fault

(* What an answer tells: only a skipped slot is called skipped, only a     *)
(* slot with a block has one, and a node that lags or answers null makes   *)
(* the slot look empty.                                                    *)
LEMMA AnswerFacts ==
    ASSUME NEW a, Answers(a)
    PROVE  /\ UNCHANGED faults \/ \E k \in FaultKinds : Fault(k)
           /\ a \in {"lag", "null"} => Lossy'
           /\ a = "skipped" => skipped
           /\ a = "answer" /\ bpc = "block" => ~skipped
<1>1. UNCHANGED faults \/ \E k \in FaultKinds : Fault(k)
  BY DEF Answers, FaultKinds
<1>2. a \in {"lag", "null"} => Lossy'
  BY DEF Answers, Fault, Lossy, Swallowed
<1>3. /\ a = "skipped" => skipped
      /\ a = "answer" /\ bpc = "block" => ~skipped
  BY DEF Answers
<1>4. QED BY <1>1, <1>2, <1>3

(* Failures happen one at a time, and stay.                                *)
LEMMA FaultsGrow ==
    ASSUME TypeOK, [Next]_vars
    PROVE  /\ faults' \in [n : Nat, kinds : SUBSET FaultKinds]
           /\ faults.kinds \subseteq faults'.kinds
           /\ ~Lossy' => ~Lossy
<1>1. UNCHANGED faults \/ \E k \in FaultKinds : Fault(k)
  <2>1. CASE AskNext \/ GetSlot \/ GetBlock
    BY <2>1, AnswerFacts DEF AskNext, GetSlot, GetBlock
  <2>2. CASE \/ Begin \/ Limited \/ StartTx \/ HandleItem \/ PhaseDone
             \/ MarkBlock \/ OtherCall \/ Cancel \/ Restart \/ UNCHANGED vars
    BY <2>2 DEF Begin, Limited, StartTx, HandleItem, PhaseDone, MarkBlock,
                OtherCall, Cancel, Restart, vars, Fails, Works, FaultKinds
  <2>3. QED BY <2>1, <2>2 DEF Next, BlockStep
<1>2. /\ faults' \in [n : Nat, kinds : SUBSET FaultKinds]
      /\ faults.kinds \subseteq faults'.kinds
  BY <1>1, FaultFacts DEF TypeOK
<1>3. QED BY <1>2 DEF Lossy

(* The chain and the URLs stay as they are.                                *)
LEMMA ChainStays ==
    ASSUME [Next]_vars
    PROVE  skipped' = skipped /\ down' = down
BY DEF Next, BlockStep, Begin, Limited, AskNext, GetSlot, GetBlock, StartTx,
       HandleItem, PhaseDone, MarkBlock, OtherCall, Cancel, Restart, vars, chainVars

-----------------------------------------------------------------------------
(* Type correctness.                                                       *)

(* The part of the type that an attempt writes.                            *)
AttemptType ==
    /\ next \in 0..(Counter - 1)
    /\ bpc \in {"idle", "slot", "block", "tx", "native", "token", "mark"}
    /\ tries \in 0..N
    /\ asked \subseteq URLs
    /\ alone \in BOOLEAN
    /\ verdict \in {"none", "empty", "skipped"}
    /\ t \in 1..(Len(Tx) + 1)
    /\ t \in Txs => todo \subseteq NativeItems(t) \cup TokenItems(t)
    /\ bpc \in {"native", "token"} => t <= Len(Tx) /\ ~Tx[t].failed

(* The rest of it.                                                         *)
StoreType ==
    /\ skipped \in BOOLEAN
    /\ down \subseteq URLs
    /\ marked \in BOOLEAN
    /\ sent \in [Owed -> Nat]
    /\ cancelled \in BOOLEAN
    /\ faults \in [n : Nat, kinds : SUBSET FaultKinds]
    /\ crashes \in Nat
    /\ others \in Nat

(* Both together are the type invariant.                                   *)
LEMMA TypeParts == TypeOK <=> AttemptType /\ StoreType
BY DEF TypeOK, AttemptType, StoreType

(* The counter stays below its width, also when it wraps around, and       *)
(* stands at a URL.                                                        *)
LEMMA CounterFacts ==
    ASSUME TypeOK
    PROVE  /\ next \in Nat /\ Counter \in Nat /\ N \in Nat /\ N > 0
           /\ 0 \in 0..(Counter - 1)
           /\ (next + 1) % Counter \in 0..(Counter - 1)
           /\ next % N \in URLs
           /\ next + 1 < Counter => (next + 1) % Counter = next + 1
<1>1. /\ next \in Nat /\ next <= Counter - 1 /\ N \in Nat \ {0}
      /\ Counter \in Nat \ {0}
  BY SlotAssumption DEF TypeOK
<1>2. (next + 1) % Counter \in 0..(Counter - 1)
  BY <1>1, ModDiv
<1>3. next % N \in URLs
  BY <1>1, ModDiv DEF URLs
<1>4. next + 1 < Counter => (next + 1) % Counter = next + 1
  BY <1>1
<1>5. QED BY <1>1, <1>2, <1>3, <1>4

(* The end of an attempt leaves its variables as the next one needs them.  *)
LEMMA ReturnFacts ==
    ASSUME TypeOK, Return, next' \in 0..(Counter - 1)
    PROVE  AttemptType' /\ AttemptInv'
<1>1. /\ bpc' = "idle" /\ tries' = 0 /\ asked' = {} /\ alone' = TRUE
      /\ verdict' = "none" /\ t' = 1 /\ todo' = {}
  BY DEF Return, NewCall
<1>2. 0 \in 0..N /\ 0 < N
  BY CounterFacts
<1>3. 1 \in 1..(Len(Tx) + 1)
  BY TxFacts
<1>4. AttemptType'
  BY <1>1, <1>2, <1>3 DEF AttemptType
<1>5. AttemptInv'
  BY <1>1, <1>2 DEF AttemptInv, NewCall
<1>6. QED BY <1>4, <1>5

(* Asking a URL keeps the types of what is counted and remembered.         *)
LEMMA NextURLFacts ==
    ASSUME TypeOK, NextURL
    PROVE  next' \in 0..(Counter - 1) /\ alone' \in BOOLEAN
<1>1. next' \in 0..(Counter - 1)
  BY CounterFacts DEF NextURL
<1>2. alone' \in BOOLEAN
  BY DEF NextURL, TypeOK
<1>3. QED BY <1>1, <1>2

(* A request, of this call or of another goroutine.                        *)
LEMMA CallAttempt ==
    ASSUME TypeOK, AttemptInv, AskNext \/ GetSlot \/ GetBlock \/ OtherCall
    PROVE  AttemptType' /\ AttemptInv'
<1>a. AttemptType
  BY TypeParts
<1>b. /\ bpc \in {"slot", "block"} /\ ~marked /\ t = 1 /\ todo = {}
      /\ tries < N /\ verdict = "none" /\ marked' = marked
  BY DEF AttemptInv, AskNext, GetSlot, GetBlock, OtherCall
<1>c. /\ tries \in Nat /\ N \in Nat /\ N > 0 /\ 0 \in 0..N
      /\ tries + 1 \in 0..N /\ 1 \in 1..(Len(Tx) + 1)
  BY <1>a, <1>b, CounterFacts, TxFacts DEF AttemptType
<1>d. asked \cup {next % N} \subseteq URLs
  BY <1>a, CounterFacts DEF AttemptType
<1>1. CASE AskNext
  <2>1. /\ next' \in 0..(Counter - 1) /\ alone' \in BOOLEAN
    BY <1>1, NextURLFacts DEF AskNext
  <2>2. /\ tries' = tries + 1 /\ tries + 1 < N /\ asked' = asked \cup {next % N}
        /\ UNCHANGED <<bpc, verdict, t, todo>>
    BY <1>1 DEF AskNext, scanVars
  <2>3. AttemptType'
    BY <1>a, <1>b, <1>c, <1>d, <2>1, <2>2 DEF AttemptType
  <2>4. AttemptInv'
    BY <1>b, <2>2 DEF AttemptInv
  <2>5. QED BY <2>3, <2>4
<1>e. CASE bpc' \in {"block", "tx"} /\ NewCall /\ UNCHANGED scanVars
           /\ next' \in 0..(Counter - 1)
  <2>1. /\ tries' = 0 /\ asked' = {} /\ alone' = TRUE
        /\ verdict' = verdict /\ t' = t /\ todo' = todo
    BY <1>e DEF NewCall, scanVars
  <2>2. AttemptType'
    BY <1>a, <1>b, <1>c, <1>e, <2>1 DEF AttemptType
  <2>3. AttemptInv'
    BY <1>b, <1>c, <1>e, <2>1 DEF AttemptInv
  <2>4. QED BY <2>2, <2>3
<1>2. CASE GetSlot
  <2>1. next' \in 0..(Counter - 1)
    BY <1>2, CounterFacts DEF GetSlot
  <2>2. Return \/ (bpc' = "block" /\ NewCall /\ UNCHANGED scanVars)
    BY <1>2 DEF GetSlot
  <2>3. QED BY <1>e, <2>1, <2>2, ReturnFacts
<1>3. CASE GetBlock
  <2>1. CASE Return /\ next' = (next + 1) % Counter
    BY <2>1, CounterFacts, ReturnFacts
  <2>2. CASE bpc' = "tx" /\ NewCall /\ UNCHANGED scanVars /\ next' = (next + 1) % Counter
    BY <2>2, <1>e, CounterFacts
  <2>3. CASE /\ verdict' \in {"empty", "skipped"}
             /\ bpc' = "mark" /\ NextURL /\ tries' = tries + 1
             /\ asked' = asked \cup {next % N} /\ UNCHANGED <<t, todo>>
    <3>1. /\ next' \in 0..(Counter - 1) /\ alone' \in BOOLEAN
      BY <2>3, NextURLFacts
    <3>2. AttemptType'
      BY <1>a, <1>b, <1>c, <1>d, <2>3, <3>1 DEF AttemptType
    <3>3. AttemptInv'
      BY <1>b, <2>3 DEF AttemptInv
    <3>4. QED BY <3>2, <3>3
  <2>4. QED BY <1>3, <2>1, <2>2, <2>3 DEF GetBlock
<1>4. CASE OtherCall
  <2>1. /\ next' \in 0..(Counter - 1) /\ alone' = FALSE
        /\ UNCHANGED <<bpc, tries, asked, verdict, t, todo>>
    BY <1>4, CounterFacts DEF OtherCall, scanVars
  <2>2. AttemptType'
    BY <1>a, <2>1 DEF AttemptType
  <2>3. AttemptInv'
    BY <1>4, <2>1 DEF AttemptInv, OtherCall
  <2>4. QED BY <2>2, <2>3
<1>5. QED BY <1>1, <1>2, <1>3, <1>4

(* The walk over the transactions stays within the block.                  *)
LEMMA WalkAttempt ==
    ASSUME TypeOK, AttemptInv, StartTx \/ HandleItem \/ PhaseDone
    PROVE  AttemptType' /\ AttemptInv'
<1>a. AttemptType
  BY TypeParts
<1>b. /\ bpc \in Walking /\ ~marked /\ tries < N /\ verdict = "none"
      /\ marked' = marked /\ next' = next
  BY DEF AttemptInv, StartTx, HandleItem, PhaseDone, Walking
<1>c. /\ t \in Nat /\ t >= 1 /\ Len(Tx) \in Nat
      /\ t <= Len(Tx) => t + 1 \in 1..(Len(Tx) + 1)
      /\ t <= Len(Tx) <=> t \in Txs
  BY <1>a, TxFacts DEF AttemptType
<1>1. CASE StartTx
  <2>1. UNCHANGED <<tries, asked, alone, verdict>> /\ todo = {} /\ bpc = "tx"
    BY <1>1 DEF StartTx, callVars, AttemptInv
  <2>2. CASE bpc' = "mark" /\ UNCHANGED <<t, todo>>
    BY <1>a, <1>b, <2>1, <2>2 DEF AttemptType, AttemptInv
  <2>3. CASE t <= Len(Tx) /\ t' = t + 1 /\ UNCHANGED <<bpc, todo>>
    <3>1. AttemptType'
      BY <1>a, <1>b, <1>c, <2>1, <2>3 DEF AttemptType
    <3>2. AttemptInv'
      BY <1>b, <2>1, <2>3 DEF AttemptInv
    <3>3. QED BY <3>1, <3>2
  <2>4. CASE /\ t <= Len(Tx) /\ ~Tx[t].failed /\ bpc' = "native"
             /\ todo' = NativeItems(t) /\ UNCHANGED t
    <3>1. AttemptType'
      BY <1>a, <1>b, <2>1, <2>4 DEF AttemptType
    <3>2. AttemptInv'
      BY <1>b, <2>1, <2>4 DEF AttemptInv
    <3>3. QED BY <3>1, <3>2
  <2>5. QED BY <1>1, <2>2, <2>3, <2>4 DEF StartTx
<1>2. CASE HandleItem
  <2>1. CASE Return
    BY <1>a, <1>b, <2>1, ReturnFacts DEF AttemptType
  <2>2. CASE /\ \E e \in todo : todo' = todo \ {e}
             /\ UNCHANGED <<bpc, callVars, verdict, t>>
    <3>1. UNCHANGED <<bpc, tries, asked, alone, verdict, t>> /\ todo' \subseteq todo
      BY <2>2 DEF callVars
    <3>2. AttemptType'
      BY <1>a, <1>b, <3>1 DEF AttemptType
    <3>3. AttemptInv'
      BY <1>b, <3>1 DEF AttemptInv
    <3>4. QED BY <3>2, <3>3
  <2>3. QED BY <1>2, <2>1, <2>2 DEF HandleItem
<1>3. CASE PhaseDone
  <2>1. UNCHANGED <<tries, asked, alone, verdict>> /\ todo = {} /\ t <= Len(Tx)
        /\ ~Tx[t].failed
    BY <1>3, <1>a DEF PhaseDone, callVars, AttemptType
  <2>2. CASE bpc' = "token" /\ todo' = TokenItems(t) /\ UNCHANGED t
    <3>1. AttemptType'
      BY <1>a, <1>b, <2>1, <2>2 DEF AttemptType
    <3>2. AttemptInv'
      BY <1>b, <2>1, <2>2 DEF AttemptInv
    <3>3. QED BY <3>1, <3>2
  <2>3. CASE bpc' = "tx" /\ t' = t + 1 /\ UNCHANGED todo
    <3>1. AttemptType'
      BY <1>a, <1>b, <1>c, <2>1, <2>3 DEF AttemptType
    <3>2. AttemptInv'
      BY <1>b, <2>1, <2>3 DEF AttemptInv
    <3>3. QED BY <3>1, <3>2
  <2>4. QED BY <1>3, <2>2, <2>3 DEF PhaseDone
<1>4. QED BY <1>1, <1>2, <1>3

(* Every step keeps the attempt in order.                                  *)
LEMMA AttemptNext ==
    ASSUME TypeOK, AttemptInv, [Next]_vars
    PROVE  AttemptType' /\ AttemptInv'
<1>a. AttemptType
  BY TypeParts
<1>1. CASE Begin
  <2>1. /\ bpc = "idle" /\ bpc' = "slot" /\ ~marked
        /\ UNCHANGED <<next, tries, asked, alone, verdict, t, todo, marked>>
    BY <1>1 DEF Begin, callVars, scanVars
  <2>2. QED BY <1>a, <2>1 DEF AttemptType, AttemptInv
<1>2. CASE Limited \/ MarkBlock
  BY <1>2, <1>a, ReturnFacts DEF Limited, MarkBlock, AttemptType
<1>3. CASE Restart
  BY <1>3, CounterFacts, ReturnFacts DEF Restart
<1>4. CASE Cancel \/ UNCHANGED vars
  <2>1. UNCHANGED <<next, bpc, tries, asked, alone, verdict, t, todo, marked>>
    BY <1>4 DEF Cancel, vars, callVars, scanVars
  <2>2. QED BY <1>a, <2>1 DEF AttemptType, AttemptInv
<1>5. QED BY <1>1, <1>2, <1>3, <1>4, CallAttempt, WalkAttempt DEF Next, BlockStep

(* Events are published one at a time, each one owed and up next in the    *)
(* phase the attempt is in.                                                *)
LEMMA PublishedBy ==
    ASSUME TypeOK, AttemptInv, [Next]_vars, sent' # sent
    PROVE  \E e \in Owed :
              /\ HandleItem /\ e \in todo
              /\ sent' = [sent EXCEPT ![e] = @ + 1]
              /\ faults' = faults /\ marked' = marked
<1>1. HandleItem
  BY DEF Next, BlockStep, Begin, Limited, AskNext, GetSlot, GetBlock, StartTx,
         PhaseDone, MarkBlock, OtherCall, Cancel, Restart, vars
<1>2. PICK e \in todo :
         /\ Reported(e) /\ Works
         /\ sent' = [sent EXCEPT ![e] = @ + 1]
  BY <1>1 DEF HandleItem
<1>3. faults' = faults /\ marked' = marked
  BY <1>1, <1>2 DEF HandleItem, Works
<1>4. t \in Txs /\ ~Tx[t].failed
  BY <1>1, TxFacts DEF HandleItem, TypeOK
<1>5. e \in NativeItems(t) \cup TokenItems(t)
  BY <1>2, <1>4 DEF TypeOK
<1>6. e \in Owed
  BY <1>2, <1>4, <1>5 DEF Owed
<1>7. QED BY <1>1, <1>2, <1>3, <1>6

(* The rest keeps its types.                                               *)
LEMMA StoreNext ==
    ASSUME TypeOK, AttemptInv, [Next]_vars
    PROVE  StoreType'
<1>1. skipped' \in BOOLEAN /\ down' \subseteq URLs
  BY ChainStays DEF TypeOK
<1>2. marked' \in BOOLEAN /\ cancelled' \in BOOLEAN
  BY DEF Next, BlockStep, Begin, Limited, AskNext, GetSlot, GetBlock, StartTx,
         HandleItem, PhaseDone, MarkBlock, OtherCall, Cancel, Restart, vars, TypeOK
<1>3. crashes' \in Nat /\ others' \in Nat
  <2>1. crashes' \in {crashes, crashes + 1} /\ others' \in {others, others + 1}
    BY DEF Next, BlockStep, Begin, Limited, AskNext, GetSlot, GetBlock, StartTx,
           HandleItem, PhaseDone, MarkBlock, OtherCall, Cancel, Restart, vars
  <2>2. crashes \in Nat /\ others \in Nat
    BY DEF TypeOK
  <2>3. QED BY <2>1, <2>2
<1>4. sent' \in [Owed -> Nat]
  <2>1. CASE sent' = sent
    BY <2>1 DEF TypeOK
  <2>2. CASE sent' # sent
    <3>1. PICK e \in Owed : sent' = [sent EXCEPT ![e] = @ + 1]
      BY <2>2, PublishedBy
    <3>2. sent \in [Owed -> Nat] /\ sent[e] + 1 \in Nat
      BY DEF TypeOK
    <3>3. QED BY <3>1, <3>2
  <2>3. QED BY <2>1, <2>2
<1>5. QED BY <1>1, <1>2, <1>3, <1>4, FaultsGrow DEF StoreType

(* The types and the order of the attempt hold at the start.               *)
LEMMA StructureInit == Init => TypeOK /\ AttemptInv
<1> SUFFICES ASSUME Init PROVE TypeOK /\ AttemptInv
  OBVIOUS
<1>1. /\ bpc = "idle" /\ tries = 0 /\ asked = {} /\ alone = TRUE
      /\ verdict = "none" /\ t = 1 /\ todo = {} /\ next \in 0..(Counter - 1)
      /\ marked = FALSE
  BY DEF Init
<1>2. 0 \in 0..N /\ 0 < N /\ 1 \in 1..(Len(Tx) + 1)
  BY SlotAssumption, TxFacts
<1>3. AttemptType
  BY <1>1, <1>2 DEF AttemptType
<1>4. AttemptInv
  BY <1>1, <1>2 DEF AttemptInv
<1>5. StoreType
  BY DEF Init, StoreType
<1>6. QED BY <1>3, <1>4, <1>5, TypeParts

(* Every variable keeps its type, no transaction beyond the last is        *)
(* indexed, and a call asks no more URLs than there are.                   *)
THEOREM TypeCorrect == Spec => [](TypeOK /\ AttemptInv)
<1>1. TypeOK /\ AttemptInv /\ [Next]_vars => TypeOK' /\ AttemptInv'
  <2> SUFFICES ASSUME TypeOK, AttemptInv, [Next]_vars
               PROVE  TypeOK' /\ AttemptInv'
    OBVIOUS
  <2>1. AttemptType' /\ StoreType' /\ AttemptInv'
    BY AttemptNext, StoreNext
  <2>2. QED BY <2>1 DEF TypeOK, AttemptType, StoreType
<1>2. QED BY <1>1, StructureInit, PTL DEF Spec

-----------------------------------------------------------------------------
(* Every URL is asked.                                                     *)

(* A call that begins has asked no URL yet.                                *)
LEMMA NewCallFacts ==
    ASSUME TypeOK, TypeOK', NewCall, verdict' = "none"
    PROVE  CallInv'
<1>1. tries' = 0 /\ next' \in Nat
  BY SlotAssumption DEF NewCall, TypeOK
<1>2. \A n \in Nat : 0 <= n /\ (n - 0)..(n - 1) = {}
  OBVIOUS
<1>3. tries' <= next' /\ (next' - tries')..(next' - 1) = {}
  BY <1>1, <1>2
<1>4. QED BY <1>3 DEF CallInv

(* The URL that is asked joins those that were.                            *)
LEMMA AskedFacts ==
    ASSUME TypeOK, CallInv, NextURL, tries' = tries + 1,
           asked' = asked \cup {next % N},
           verdict' = "skipped" => tries + 1 = N
    PROVE  CallInv'
<1>1. verdict' = "skipped" => tries' = N
  OBVIOUS
<1>2. ASSUME alone'
      PROVE  /\ tries' <= next'
             /\ \A k \in (next' - tries')..(next' - 1) : k % N \in asked'
  <2>1. alone /\ next + 1 < Counter
    BY <1>2 DEF NextURL
  <2>2. next' = next + 1 /\ next \in Nat /\ tries \in Nat
    BY <2>1, CounterFacts DEF NextURL, TypeOK
  <2>3. /\ tries <= next
        /\ \A k \in (next - tries)..(next - 1) : k % N \in asked
    BY <2>1 DEF CallInv
  <2>4. tries' <= next'
    BY <2>2, <2>3
  <2>5. ASSUME NEW k \in (next' - tries')..(next' - 1) PROVE k % N \in asked'
    <3>1. k = next \/ k \in (next - tries)..(next - 1)
      BY <2>2, <2>5
    <3>2. QED BY <2>3, <3>1
  <2>6. QED BY <2>4, <2>5
<1>3. QED BY <1>1, <1>2 DEF CallInv

(* Every step keeps the record of the URLs asked.                          *)
LEMMA CallNext ==
    ASSUME TypeOK, TypeOK', AttemptInv, CallInv, [Next]_vars
    PROVE  CallInv'
<1>r. ASSUME Return PROVE CallInv'
  BY <1>r, NewCallFacts DEF Return
<1>s. ASSUME UNCHANGED <<next, callVars, verdict>> PROVE CallInv'
  <2>1. UNCHANGED <<next, tries, asked, alone, verdict>>
    BY <1>s DEF callVars
  <2>2. QED BY <2>1 DEF CallInv
<1>1. CASE AskNext
  <2>1. verdict' = "none"
    BY <1>1 DEF AskNext, scanVars, AttemptInv
  <2>2. QED BY <1>1, <2>1, AskedFacts DEF AskNext
<1>2. CASE GetSlot
  <2>1. CASE NewCall /\ UNCHANGED scanVars
    BY <1>2, <2>1, NewCallFacts DEF GetSlot, scanVars, AttemptInv
  <2>2. QED BY <1>2, <1>r, <2>1 DEF GetSlot
<1>3. CASE GetBlock
  <2>1. CASE NewCall /\ UNCHANGED scanVars
    BY <1>3, <2>1, NewCallFacts DEF GetBlock, scanVars, AttemptInv
  <2>2. CASE /\ verdict' = "empty" \/ (tries + 1 = N /\ verdict' = "skipped")
             /\ NextURL /\ tries' = tries + 1 /\ asked' = asked \cup {next % N}
    BY <2>2, AskedFacts
  <2>3. QED BY <1>3, <1>r, <2>1, <2>2 DEF GetBlock
<1>4. CASE OtherCall
  BY <1>4 DEF OtherCall, scanVars, CallInv
<1>5. CASE HandleItem
  BY <1>5, <1>r, <1>s DEF HandleItem
<1>6. CASE Begin \/ StartTx \/ PhaseDone \/ Cancel \/ UNCHANGED vars
  BY <1>6, <1>s DEF Begin, StartTx, PhaseDone, Cancel, vars, scanVars
<1>7. CASE Limited \/ MarkBlock \/ Restart
  BY <1>7, <1>r DEF Limited, MarkBlock, Restart
<1>8. QED BY <1>1, <1>2, <1>3, <1>4, <1>5, <1>6, <1>7 DEF Next, BlockStep

(* N values of the counter in a row are at all the URLs.                   *)
LEMMA AllAsked == TypeOK /\ CallInv => FailsOver
<1> SUFFICES ASSUME TypeOK, CallInv, verdict = "skipped", alone
             PROVE  asked = URLs
  BY DEF FailsOver
<1>1. /\ tries = N /\ tries <= next
      /\ \A k \in (next - tries)..(next - 1) : k % N \in asked
  BY DEF CallInv
<1>2. next \in Nat /\ N \in Nat \ {0}
  BY SlotAssumption DEF TypeOK
<1>3. ASSUME NEW u \in URLs PROVE u \in asked
  <2>1. PICK a \in Nat : a = next - N
    BY <1>1, <1>2
  <2>2. u \in 0..(N - 1)
    BY DEF URLs
  <2>3. PICK k \in a..(a + N - 1) : k % N = u
    BY <1>2, <2>2, ModCover
  <2>4. k \in (next - tries)..(next - 1)
    BY <1>1, <1>2, <2>1
  <2>5. QED BY <1>1, <2>3, <2>4
<1>4. QED BY <1>3 DEF TypeOK

(* The record of the URLs asked holds throughout.                          *)
LEMMA CallCorrect == Spec => []CallInv
<1>1. Init => CallInv
  <2> SUFFICES ASSUME Init PROVE CallInv
    OBVIOUS
  <2>1. tries = 0 /\ verdict = "none" /\ next \in Nat
    BY SlotAssumption DEF Init
  <2>2. tries <= next /\ (next - tries)..(next - 1) = {}
    BY <2>1
  <2>3. QED BY <2>1, <2>2 DEF CallInv
<1>2. QED BY <1>1, CallNext, TypeCorrect, PTL DEF Spec

(* A slot is given up as skipped only after every URL was asked, whatever  *)
(* their number and wherever the shared counter stood, unless another      *)
(* goroutine's request or the counter's wrapping around came in between.   *)
THEOREM EveryURLAsked == Spec => []FailsOver
BY AllAsked, CallCorrect, TypeCorrect, PTL

-----------------------------------------------------------------------------
(* What an attempt passes is published.                                    *)

(* A slot that was skipped is never walked: no answer is its block.        *)
LEMMA SkippedNext ==
    ASSUME TypeOK, AttemptInv, SkippedInv, [Next]_vars
    PROVE  SkippedInv'
<1> SUFFICES ASSUME skipped
             PROVE  bpc' \notin Walking /\ \A e \in Owed : sent'[e] = 0
  BY ChainStays DEF SkippedInv
<1>1. bpc \notin Walking /\ \A e \in Owed : sent[e] = 0
  BY DEF SkippedInv
<1>2. sent' = sent
  BY <1>1, PublishedBy DEF HandleItem, Walking
<1>3. bpc' \notin Walking
  <2>1. CASE GetBlock
    <3>1. ~Answers("answer")
      BY <2>1, AnswerFacts DEF GetBlock
    <3>2. QED BY <2>1, <3>1 DEF GetBlock, Return, Walking
  <2>2. CASE ~GetBlock
    BY <1>1, <2>2 DEF Next, BlockStep, Begin, Limited, AskNext, GetSlot, StartTx,
          HandleItem, PhaseDone, MarkBlock, OtherCall, Cancel, Restart, vars,
          Return, Walking
  <2>3. QED BY <2>1, <2>2
<1>4. QED BY <1>1, <1>2, <1>3

(* Events are not taken back.                                              *)
LEMMA SentGrows ==
    ASSUME TypeOK, AttemptInv, [Next]_vars, NEW e \in Owed, sent[e] > 0
    PROVE  sent'[e] > 0
<1>1. sent[e] \in Nat
  BY DEF TypeOK
<1>2. CASE sent' # sent
  <2>1. PICK k \in Owed : sent' = [sent EXCEPT ![k] = @ + 1]
    BY <1>2, PublishedBy
  <2>2. sent'[e] = sent[e] \/ sent'[e] = sent[e] + 1
    BY <2>1 DEF TypeOK
  <2>3. QED BY <1>1, <2>2
<1>3. QED BY <1>2

(* Until an answer makes the slot look empty, an attempt passes an event   *)
(* it owes only by publishing it: any other failure ends it.               *)
LEMMA WorkNext ==
    ASSUME TypeOK, AttemptInv, SkippedInv, WorkInv, [Next]_vars
    PROVE  WorkInv'
<1> SUFFICES ASSUME ~Lossy', ~skipped, NEW e \in Owed, Passed(e)'
             PROVE  sent'[e] > 0
  BY ChainStays DEF WorkInv
<1>a. ~Lossy
  BY FaultsGrow
<1>b. /\ e[1] \in Txs /\ e[1] \in Nat /\ e[1] >= 1 /\ e[1] <= Len(Tx)
      /\ ~Tx[e[1]].failed
      /\ e \in NativeItems(e[1]) \cup TokenItems(e[1])
      /\ Reported(e)
  BY OwedFacts
<1>c. t \in Nat /\ t >= 1 /\ Len(Tx) \in Nat
  BY TxFacts DEF TypeOK
<1>d. ASSUME Passed(e) PROVE sent'[e] > 0
  BY <1>a, <1>d, SentGrows DEF WorkInv
<1>f. ~Return
  BY DEF Return, Passed, Walking
<1>1. CASE Begin \/ Limited \/ AskNext \/ OtherCall \/ GetSlot
  <2>1. bpc' \in {"slot", "block"}
    BY <1>1, <1>f DEF Begin, Limited, AskNext, OtherCall, GetSlot
  <2>2. QED BY <2>1 DEF Passed, Walking
<1>2. CASE GetBlock
  <2>1. CASE bpc' = "mark"
    <3>1. \E a \in {"null", "lag", "skipped"} : Answers(a)
      BY <1>2, <1>f, <2>1 DEF GetBlock, IsSkippedSlotError
    <3>2. QED BY <3>1, AnswerFacts
  <2>2. CASE bpc' = "tx" /\ UNCHANGED scanVars
    <3>1. t' = 1
      BY <1>2, <2>2 DEF GetBlock, scanVars, AttemptInv
    <3>2. QED BY <1>b, <2>2, <3>1 DEF Passed, Walking
  <2>3. QED BY <1>2, <1>f, <2>1, <2>2 DEF GetBlock
<1>3. CASE StartTx
  <2>1. CASE t > Len(Tx)
    <3>1. e[1] < t /\ bpc = "tx"
      BY <1>3, <1>b, <1>c, <2>1 DEF StartTx
    <3>2. QED BY <1>d, <3>1 DEF Passed, Walking
  <2>2. CASE t <= Len(Tx) /\ Tx[t].failed /\ t' = t + 1 /\ UNCHANGED bpc
    <3>1. bpc = "tx" /\ e[1] < t + 1
      BY <1>3, <2>2 DEF StartTx, Passed, Walking
    <3>2. e[1] # t
      BY <1>b, <2>2
    <3>3. e[1] < t
      BY <1>b, <1>c, <3>1, <3>2
    <3>4. QED BY <1>d, <3>1, <3>3 DEF Passed, Walking
  <2>3. CASE bpc' = "native" /\ todo' = NativeItems(t) /\ t' = t
    <3>1. e[1] < t
      BY <2>3 DEF Passed, Walking
    <3>2. QED BY <1>3, <1>d, <3>1 DEF StartTx, Passed, Walking
  <2>4. QED BY <1>3, <2>1, <2>2, <2>3 DEF StartTx
<1>4. CASE HandleItem
  <2>1. PICK k \in todo :
           /\ todo' = todo \ {k} /\ bpc' = bpc /\ t' = t
           /\ \/ ~Reported(k)
              \/ sent' = [sent EXCEPT ![k] = @ + 1]
    BY <1>4, <1>f DEF HandleItem
  <2>2. CASE e = k
    <3>1. sent' = [sent EXCEPT ![e] = @ + 1]
      BY <1>b, <2>1, <2>2
    <3>2. sent[e] \in Nat /\ sent'[e] = sent[e] + 1
      BY <3>1 DEF TypeOK
    <3>3. QED BY <3>2
  <2>3. CASE e # k
    <3>1. Passed(e)
      BY <2>1, <2>3 DEF Passed, Walking
    <3>2. QED BY <1>d, <3>1
  <2>4. QED BY <2>2, <2>3
<1>5. CASE PhaseDone
  <2>1. CASE bpc = "native" /\ bpc' = "token" /\ todo' = TokenItems(t) /\ t' = t
    <3>1. e[1] < t \/ e \in NativeItems(t)
      BY <2>1 DEF Passed, Walking
    <3>2. QED BY <1>5, <1>d, <2>1, <3>1 DEF PhaseDone, Passed, Walking
  <2>2. CASE bpc = "token" /\ bpc' = "tx" /\ t' = t + 1
    <3>1. e[1] < t + 1
      BY <2>2 DEF Passed, Walking
    <3>2. e[1] < t \/ e[1] = t
      BY <1>b, <1>c, <3>1
    <3>3. QED BY <1>5, <1>b, <1>d, <2>2, <3>2 DEF PhaseDone, Passed, Walking
  <2>3. QED BY <1>5, <2>1, <2>2 DEF PhaseDone
<1>6. CASE MarkBlock \/ Restart
  BY <1>6, <1>f DEF MarkBlock, Restart
<1>7. CASE Cancel \/ UNCHANGED vars
  <2>1. UNCHANGED <<bpc, t, todo>>
    BY <1>7 DEF Cancel, vars, scanVars
  <2>2. QED BY <1>d, <2>1 DEF Passed
<1>8. QED BY <1>1, <1>2, <1>3, <1>4, <1>5, <1>6, <1>7 DEF Next, BlockStep

(* The invariant: a skipped slot is never walked, and short of an answer   *)
(* that makes a slot look empty all that an attempt has passed is          *)
(* published.                                                              *)
THEOREM Inductive == Spec => []IndInv
<1>1. Init => SkippedInv /\ WorkInv
  BY DEF Init, SkippedInv, WorkInv, Passed, Walking
<1>2. Spec => [](SkippedInv /\ WorkInv)
  BY <1>1, SkippedNext, WorkNext, TypeCorrect, PTL DEF Spec
<1>3. AttemptInv /\ CallInv /\ SkippedInv /\ WorkInv => IndInv
  BY DEF IndInv
<1>4. QED BY <1>2, <1>3, TypeCorrect, CallCorrect, PTL

-----------------------------------------------------------------------------
(* Refinement of BlockDelivery.                                            *)

(* A step publishes an event, makes the slot look empty, marks it, or does *)
(* nothing that BlockDelivery tells apart.                                 *)
LEMMA DeliveryStep ==
    ASSUME TypeOK, IndInv, [Next]_vars
    PROVE  [Delivery!Next]_Delivery!vars
<1> DEFINE owed == IF skipped THEN {} ELSE Owed
           published == {e \in Owed : sent[e] > 0}
<1>o. owed' = owed
  BY ChainStays
<1>1. CASE sent' # sent
  <2>1. PICK e \in Owed :
              /\ HandleItem
              /\ sent' = [sent EXCEPT ![e] = @ + 1]
              /\ faults' = faults /\ marked' = marked
    BY <1>1, PublishedBy DEF IndInv
  <2>2. ~marked /\ ~skipped
    BY <2>1 DEF IndInv, AttemptInv, SkippedInv, HandleItem, Walking
  <2>3. ASSUME NEW k \in Owed
        PROVE  sent'[k] > 0 <=> sent[k] > 0 \/ k = e
    <3>1. sent[k] \in Nat
      BY DEF TypeOK
    <3>2. sent'[k] = IF k = e THEN sent[k] + 1 ELSE sent[k]
      BY <2>1 DEF TypeOK
    <3>3. QED BY <3>1, <3>2
  <2>4. published' = {k \in Owed : sent'[k] > 0}
    OBVIOUS
  <2>5. CASE e \in published
    <3>1. published' = published
      BY <2>3, <2>4, <2>5
    <3>2. QED BY <1>o, <2>1, <3>1 DEF Delivery!vars
  <2>6. CASE e \notin published
    <3>1. published' = published \cup {e}
      BY <2>3, <2>4, <2>6
    <3>2. e \in owed
      BY <2>2
    <3>3. QED BY <1>o, <2>1, <2>2, <2>6, <3>1, <3>2 DEF Delivery!Next, Delivery!Publish
  <2>7. QED BY <2>5, <2>6
<1>2. CASE sent' = sent
  <2>1. published' = published
    BY <1>2
  <2>2. CASE marked' = marked
    <3>1. CASE Lossy'
      BY <1>o, <2>1, <2>2, <3>1 DEF Lossy, Delivery!Next, Delivery!Lose
    <3>2. CASE ~Lossy'
      <4>1. ~Lossy
        BY <3>2, FaultsGrow
      <4>2. QED BY <1>o, <2>1, <2>2, <3>2, <4>1 DEF Lossy, Delivery!vars
    <3>3. QED BY <3>1, <3>2
  <2>3. CASE marked' # marked
    <3>1. MarkBlock
      BY <2>3 DEF Next, BlockStep, Begin, Limited, AskNext, GetSlot, GetBlock,
                  StartTx, HandleItem, PhaseDone, OtherCall, Cancel, Restart, vars
    <3>2. bpc = "mark"
      BY <3>1 DEF MarkBlock
    <3>3. ~marked
      BY <3>2 DEF IndInv, AttemptInv
    <3>4. marked' = TRUE
      BY <2>3, <3>1 DEF MarkBlock
    <3>5. Lossy' <=> Lossy
      BY <3>1 DEF MarkBlock, Fails, Works, Fault, Lossy, Swallowed
    <3>6. CASE skipped
      <4>1. published = {} /\ owed = {}
        BY <3>6 DEF IndInv, SkippedInv
      <4>2. QED BY <1>o, <2>1, <3>3, <3>4, <3>5, <4>1
                DEF Lossy, Delivery!Next, Delivery!Mark
    <3>7. CASE ~skipped
      <4>1. ~Lossy => published = owed
        BY <3>2, <3>7 DEF IndInv, WorkInv, Passed
      <4>2. QED BY <1>o, <2>1, <3>3, <3>4, <3>5, <4>1
                DEF Lossy, Delivery!Next, Delivery!Mark
    <3>8. QED BY <3>6, <3>7
  <2>4. QED BY <2>2, <2>3
<1>3. QED BY <1>1, <1>2

(* Through failing URLs, retries from the first transaction, cancellation  *)
(* and crashes, a slot with a block is marked once, after all it owes, and *)
(* a skipped slot without any event, unless a lagging node or a null       *)
(* answer made the slot look empty.                                        *)
THEOREM Refinement == Spec => ImplementsDelivery
<1>1. Init => Delivery!Init
  <2> SUFFICES ASSUME Init PROVE Delivery!Init
    OBVIOUS
  <2>1. {e \in Owed : sent[e] > 0} = {}
    BY DEF Init
  <2>2. QED BY <2>1 DEF Init, Delivery!Init
<1>2. QED BY <1>1, DeliveryStep, TypeCorrect, Inductive, PTL
          DEF Spec, ImplementsDelivery, Delivery!DeliverySpec

-----------------------------------------------------------------------------
(* Places in a sequence, and sums over them.                               *)

(* A set of naturals that is not empty has a least element.                *)
LEMMA LeastNumber ==
    ASSUME NEW B \in SUBSET Nat, B # {}
    PROVE  \E m \in B : \A k \in B : m <= k
<1>1. PICK m \in B : \A k \in B : <<k, m>> \notin OpToRel(<, Nat)
  BY WFMin, NatLessThanWellFounded, Zenon
<1>2. ASSUME NEW k \in B PROVE m <= k
  <2>1. ~(k < m)
    BY <1>1 DEF OpToRel
  <2>2. QED BY <2>1
<1>3. QED BY <1>2

(* The last of some places in a sequence is one of them.                   *)
LEMMA LastPlace ==
    ASSUME NEW n \in Nat, NEW S \in SUBSET (1..n), S # {}
    PROVE  Max(S) \in S
<1> DEFINE B == {b \in Nat : \A i \in S : i <= b}
<1>1. n \in B /\ \A i \in S : i \in Nat
  OBVIOUS
<1>2. PICK b \in B : \A c \in B : b <= c
  BY <1>1, LeastNumber
<1>3. b \in S
  <2> SUFFICES ASSUME b \notin S PROVE FALSE
    OBVIOUS
  <2>1. \A i \in S : i <= b - 1 /\ i \in Nat /\ i >= 1
    BY <1>2
  <2>2. b - 1 \in B
    <3>1. PICK i \in S : TRUE
      OBVIOUS
    <3>2. i <= b - 1 /\ i >= 1 /\ i \in Nat /\ b \in Nat
      BY <1>2, <2>1
    <3>3. b - 1 \in Nat
      BY <3>2
    <3>4. QED BY <2>1, <3>3
  <2>3. QED BY <1>2, <2>2
<1>4. \E x \in S : \A y \in S : x >= y
  BY <1>1, <1>2, <1>3
<1>5. QED BY <1>4 DEF Max

(* The recursion of the library's sum, over the subsets in D.              *)
Sums(all, D, g) ==
    g = [u \in D |-> IF u = {} THEN 0
                     ELSE LET x == CHOOSE x \in u : TRUE
                          IN all[x].amount + g[u \ {x}]]

(* The subsets of a finite set with no more than k elements.               *)
Small(S, k) == {u \in SUBSET S : Cardinality(u) <= k}

(* Without the element that is chosen from it a set has one element fewer. *)
LEMMA Fewer ==
    ASSUME NEW S, IsFiniteSet(S), NEW u \in SUBSET S, u # {}
    PROVE  LET x == CHOOSE x \in u : TRUE
           IN /\ x \in u
              /\ u \ {x} \in SUBSET S
              /\ Cardinality(u) \in Nat
              /\ Cardinality(u \ {x}) = Cardinality(u) - 1
              /\ Cardinality(u \ {x}) \in Nat
<1> DEFINE x == CHOOSE x \in u : TRUE
<1>1. x \in u
  OBVIOUS
<1>2. IsFiniteSet(u)
  BY FS_Subset
<1> HIDE DEF x
<1>3. IsFiniteSet(u \ {x}) /\ Cardinality(u \ {x}) = Cardinality(u) - 1
  BY <1>1, <1>2, FS_RemoveElement
<1>4. Cardinality(u) \in Nat /\ Cardinality(u \ {x}) \in Nat
  BY <1>2, <1>3, FS_CardinalityType
<1>5. u \ {x} \in SUBSET S
  OBVIOUS
<1>6. QED BY <1>1, <1>3, <1>4, <1>5 DEF x

(* The recursion has a solution.                                           *)
LEMMA SumsExist ==
    ASSUME NEW all, NEW S, IsFiniteSet(S)
    PROVE  \A k \in Nat : \E g : Sums(all, Small(S, k), g)
<1> DEFINE B == {k \in Nat : ~\E g : Sums(all, Small(S, k), g)}
<1> SUFFICES ASSUME B # {} PROVE FALSE
  OBVIOUS
<1>1. PICK m \in B : \A k \in B : m <= k
  BY LeastNumber
<1>2. m # 0
  <2> DEFINE g == [u \in Small(S, 0) |-> 0]
  <2>1. ASSUME NEW u \in Small(S, 0) PROVE u = {}
    <3>1. IsFiniteSet(u) /\ Cardinality(u) <= 0
      BY FS_Subset DEF Small
    <3>2. Cardinality(u) = 0
      BY <3>1, FS_CardinalityType
    <3>3. QED BY <3>1, <3>2, FS_EmptySet
  <2>2. g = [u \in Small(S, 0) |-> IF u = {} THEN 0
                     ELSE LET x == CHOOSE x \in u : TRUE
                          IN all[x].amount + g[u \ {x}]]
    BY <2>1
  <2>3. Sums(all, Small(S, 0), g)
    BY <2>2 DEF Sums
  <2>4. QED BY <2>3
<1>3. m - 1 \in Nat /\ m - 1 \notin B
  BY <1>1, <1>2
<1>4. PICK g : Sums(all, Small(S, m - 1), g)
  BY <1>3
<1> DEFINE Term(f, u) == IF u = {} THEN 0
                         ELSE LET x == CHOOSE x \in u : TRUE
                              IN all[x].amount + f[u \ {x}]
           h == [u \in Small(S, m) |-> Term(g, u)]
<1>5. ASSUME NEW u \in Small(S, m) PROVE Term(g, u) = Term(h, u)
  <2>1. CASE u # {}
    <3> DEFINE x == CHOOSE x \in u : TRUE
               v == u \ {x}
    <3>1. v \in SUBSET S /\ Cardinality(v) <= m - 1
      BY <2>1, Fewer DEF Small
    <3>2. v \in Small(S, m - 1)
      BY <3>1 DEF Small
    <3>3. v \in Small(S, m)
      <4>1. IsFiniteSet(v)
        BY <3>1, FS_Subset
      <4>2. Cardinality(v) \in Nat
        BY <4>1, FS_CardinalityType
      <4>3. QED BY <3>1, <4>2 DEF Small
    <3> HIDE DEF x, v
    <3>4. g[v] = Term(g, v)
      BY <1>4, <3>2 DEF Sums
    <3>5. h[v] = Term(g, v)
      BY <3>3
    <3>6. QED BY <3>4, <3>5 DEF x, v
  <2>2. QED BY <2>1
<1>6. h = [u \in Small(S, m) |-> Term(h, u)]
  BY <1>5
<1>7. Sums(all, Small(S, m), h)
  BY <1>6 DEF Sums
<1>8. QED BY <1>7

(* A sum of natural numbers over a finite set is a natural number.         *)
LEMMA SumIsNatural ==
    ASSUME NEW all, NEW S, IsFiniteSet(S), \A i \in S : all[i].amount \in Nat
    PROVE  Total(all, S) \in Nat
<1> DEFINE g == CHOOSE g : Sums(all, SUBSET S, g)
<1>1. Total(all, S) = g[S]
  BY Zenon DEF Total, MapThenSumSet, MapThenFoldSet, Sums
<1>2. Sums(all, SUBSET S, g)
  <2>1. Cardinality(S) \in Nat
    BY FS_CardinalityType
  <2>2. Small(S, Cardinality(S)) = SUBSET S
    BY FS_Subset DEF Small
  <2>3. \E f : Sums(all, Small(S, Cardinality(S)), f)
    BY <2>1, SumsExist
  <2>4. \E f : Sums(all, SUBSET S, f)
    BY <2>2, <2>3
  <2>5. QED BY <2>4, Zenon
<1> HIDE DEF g
<1> DEFINE B == {k \in Nat : \E u \in SUBSET S : Cardinality(u) = k /\ g[u] \notin Nat}
<1>3. B = {}
  <2> SUFFICES ASSUME B # {} PROVE FALSE
    OBVIOUS
  <2>1. PICK m \in B : \A k \in B : m <= k
    BY LeastNumber
  <2>2. PICK u \in SUBSET S : Cardinality(u) = m /\ g[u] \notin Nat
    BY <2>1
  <2>3. g[u] = IF u = {} THEN 0
               ELSE LET x == CHOOSE x \in u : TRUE
                    IN all[x].amount + g[u \ {x}]
    BY <1>2 DEF Sums
  <2>4. u # {}
    BY <2>2, <2>3
  <2> DEFINE x == CHOOSE x \in u : TRUE
             v == u \ {x}
  <2>5. x \in S /\ v \in SUBSET S /\ Cardinality(v) = m - 1 /\ m - 1 \in Nat
    <3>1. /\ x \in u
          /\ v \in SUBSET S
          /\ Cardinality(u) \in Nat
          /\ Cardinality(v) = Cardinality(u) - 1
          /\ Cardinality(v) \in Nat
      BY <2>4, Fewer
    <3> HIDE DEF x, v
    <3>2. QED BY <2>2, <3>1
  <2>6. g[u] = all[x].amount + g[v]
    BY <2>3, <2>4
  <2> HIDE DEF x, v
  <2>7. g[v] \in Nat
    BY <2>1, <2>5
  <2>8. QED BY <2>2, <2>5, <2>6, <2>7
<1>4. Cardinality(S) \in Nat /\ S \in SUBSET S
  BY FS_CardinalityType
<1>5. QED BY <1>1, <1>3, <1>4

-----------------------------------------------------------------------------
(* Balance changes.                                                        *)

(* Short of an answer that made the slot look empty, all that a marked     *)
(* slot with a block owes has been published.                              *)
MarkInv == marked /\ ~skipped /\ ~Lossy => \A e \in Owed : sent[e] > 0

(* The mark comes after the attempt has passed everything.                 *)
LEMMA MarkNext ==
    ASSUME TypeOK, IndInv, MarkInv, [Next]_vars
    PROVE  MarkInv'
<1> SUFFICES ASSUME marked', ~skipped, ~Lossy', NEW e \in Owed
             PROVE  sent'[e] > 0
  BY ChainStays DEF MarkInv
<1>1. ~Lossy
  BY FaultsGrow
<1>2. CASE marked
  BY <1>1, <1>2, SentGrows DEF MarkInv, IndInv
<1>3. CASE ~marked
  <2>1. MarkBlock
    BY <1>3 DEF Next, BlockStep, Begin, Limited, AskNext, GetSlot, GetBlock,
                StartTx, HandleItem, PhaseDone, OtherCall, Cancel, Restart, vars
  <2>2. sent[e] > 0
    BY <1>1, <2>1 DEF MarkBlock, IndInv, WorkInv, Passed
  <2>3. QED BY <2>2, SentGrows DEF IndInv
<1>4. QED BY <1>2, <1>3

(* So it always is.                                                        *)
LEMMA MarkCorrect == Spec => []MarkInv
<1>1. Init => MarkInv
  BY DEF Init, MarkInv
<1>2. QED BY <1>1, MarkNext, TypeCorrect, Inductive, PTL DEF Spec

(* The instructions and balances of a transaction.                         *)
LEMMA BlockTypes ==
    ASSUME NEW n \in Txs
    PROVE  /\ InstructionsOf(Tx[n]) \in Seq(Instructions)
           /\ BalancesOf(Tx[n]) \in Seq(Balances)
<1>1. Tx[n] \in TxRecords
  BY SlotAssumption DEF Txs
<1>2. QED BY <1>1 DEF TxRecords, InstructionsOf, BalancesOf

(* The parts of a transfer.                                                *)
LEMMA InstructionTypes ==
    ASSUME NEW n \in Txs, NEW kind, NEW i \in TransfersOf(Tx[n], kind)
    PROVE  LET move == InstructionsOf(Tx[n])[i] IN
           move.from \in Accounts /\ move.to \in Accounts /\ move.amount \in Nat
<1> DEFINE all == InstructionsOf(Tx[n])
<1>1. i \in DOMAIN all
  BY DEF TransfersOf
<1>2. all \in Seq(Instructions)
  BY BlockTypes
<1> HIDE DEF all
<1>3. all[i] \in Instructions
  BY <1>1, <1>2
<1>4. QED BY <1>3 DEF all, Instructions

(* What tokenAccountMetadata tells about an account stands in the          *)
(* balances.                                                               *)
LEMMA MetadataFacts ==
    ASSUME NEW n \in Txs, NEW a \in Accounts
    PROVE  LET all == BalancesOf(Tx[n]) IN
           /\ OwnerOf(n, a) # None =>
                 \E j \in DOMAIN all :
                    all[j].account = a /\ all[j].owner = OwnerOf(n, a)
           /\ MintOf(n, a) # None =>
                 \E j \in DOMAIN all :
                    all[j].account = a /\ all[j].mint = MintOf(n, a)
<1> DEFINE all == BalancesOf(Tx[n])
           entries == {i \in DOMAIN all : all[i].account = a}
           owned == {i \in entries : all[i].owner # None}
<1>1. Len(all) \in Nat /\ DOMAIN all = 1..Len(all)
  BY BlockTypes
<1>2. /\ OwnerOf(n, a) = IF owned = {} THEN None ELSE all[Max(owned)].owner
      /\ MintOf(n, a) = IF entries = {} THEN None ELSE all[Max(entries)].mint
  BY DEF OwnerOf, MintOf, TokenAccountMetadata
<1>3. owned # {} => Max(owned) \in owned
  BY <1>1, LastPlace
<1>4. entries # {} => Max(entries) \in entries
  BY <1>1, LastPlace
<1>5. QED BY <1>2, <1>3, <1>4

(* A transfer from an account of a configured token's mint is looked up as *)
(* one of that token, and its known parties hold that token.               *)
LEMMA TransferFacts ==
    ASSUME MintsAgree, NEW n \in Txs, NEW i \in TransfersOf(Tx[n], "token"),
           MintOf(n, InstructionsOf(Tx[n])[i].from) \in Tokens
    PROVE  LET move == InstructionsOf(Tx[n])[i]
               m == MintOf(n, move.from) IN
           /\ MintMoved(n, move) = m
           /\ \A a \in {move.from, move.to} :
                 OwnerOf(n, a) # None =>
                    <<OwnerOf(n, a), m>> \in Holdings(Tx[n])
<1> DEFINE all == BalancesOf(Tx[n])
           move == InstructionsOf(Tx[n])[i]
           m == MintOf(n, move.from)
<1>1. move.from \in Accounts /\ move.to \in Accounts
  BY InstructionTypes
<1>2. PICK k \in Mints :
         /\ move.mint \in {None, k}
         /\ \A j \in DOMAIN all :
               all[j].account \in {move.from, move.to} => all[j].mint = k
  BY DEF MintsAgree
<1>3. m # None
  BY SlotAssumption
<1>4. m = k
  BY <1>1, <1>2, <1>3, MetadataFacts
<1>5. MintMoved(n, move) = m
  BY <1>2, <1>3, <1>4 DEF MintMoved
<1>6. ASSUME NEW a \in {move.from, move.to}, OwnerOf(n, a) # None
      PROVE  <<OwnerOf(n, a), m>> \in Holdings(Tx[n])
  <2>1. PICK j \in DOMAIN all :
           all[j].account = a /\ all[j].owner = OwnerOf(n, a)
    BY <1>1, <1>6, MetadataFacts
  <2>2. all[j].mint = m
    BY <1>2, <1>4, <2>1
  <2>3. QED BY <1>6, <2>1, <2>2 DEF Holdings
<1>7. QED BY <1>5, <1>6

(* Where what the instructions move accounts for a change, one of them     *)
(* moves tokens between the wallet and another.                            *)
LEMMA OneSided ==
    ASSUME NEW n \in Txs, NEW h, Net(n, h) # 0
    PROVE  \E i \in TransfersOf(Tx[n], "token") :
              LET move == InstructionsOf(Tx[n])[i]
                  from == OwnerOf(n, move.from)
                  to == OwnerOf(n, move.to) IN
              /\ MintOf(n, move.from) = h[2]
              /\ from # None /\ to # None
              /\ (from = h[1]) # (to = h[1])
<1> DEFINE all == InstructionsOf(Tx[n])
           known == {i \in TransfersOf(Tx[n], "token") :
                        /\ MintOf(n, all[i].from) = h[2]
                        /\ None \notin {OwnerOf(n, all[i].from),
                                        OwnerOf(n, all[i].to)}}
           In == {i \in known : OwnerOf(n, all[i].to) = h[1]}
           Out == {i \in known : OwnerOf(n, all[i].from) = h[1]}
<1>1. Len(all) \in Nat /\ DOMAIN all = 1..Len(all)
  BY BlockTypes
<1>2. known \subseteq 1..Len(all)
  BY <1>1 DEF TransfersOf
<1>3. IsFiniteSet(In)
  <2>1. IsFiniteSet(1..Len(all))
    BY <1>1, FS_Interval
  <2>2. In \in SUBSET (1..Len(all))
    BY <1>2
  <2> HIDE DEF In
  <2>3. QED BY <2>1, <2>2, FS_Subset
<1>4. \A i \in In : all[i].amount \in Nat
  BY InstructionTypes
<1>5. Net(n, h) = Total(all, In) - Total(all, Out)
  BY DEF Net
<1>6. Total(all, In) \in Nat
  <2> HIDE DEF all, In
  <2>1. QED BY <1>3, <1>4, SumIsNatural
<1>7. In # Out
  <2> SUFFICES ASSUME In = Out PROVE FALSE
    OBVIOUS
  <2>1. Net(n, h) = Total(all, In) - Total(all, In)
    BY <1>5
  <2> HIDE DEF all, In, Out
  <2>2. QED BY <1>6, <2>1
<1>8. PICK i \in known : (i \in In) # (i \in Out)
  BY <1>7
<1>9. QED BY <1>8

(* A change of a balance owes an event about its wallet.                   *)
LEMMA ChangeOwes ==
    ASSUME MintsAgree, NEW c \in Changes
    PROVE  \E e \in Owed :
              /\ e[1] = c[1]
              /\ e[2] \in {"token", "delta"}
              /\ c[2][1] \in {Parties(e)[1], Parties(e)[2]}
<1> DEFINE n == c[1]
           h == c[2]
<1>1. n \in Txs /\ ~Tx[n].failed /\ h \in Holdings(Tx[n])
  BY DEF Changes
<1>2. /\ h[1] \in Watched
      /\ \A g \in Holdings(Tx[n]) : g[1] \in Watched => g[1] = h[1]
      /\ Delta(Tx[n], h) # 0
      /\ TransfersOf(Tx[n], "token") = {} \/ Net(n, h) = Delta(Tx[n], h)
  BY DEF Changes
<1> HIDE DEF n, h
<1>3. ASSUME NEW e \in TokenItems(n), Reported(e) PROVE e \in Owed
  BY <1>1, <1>3 DEF Owed
<1>4. CASE TransfersOf(Tx[n], "token") = {}
  <2> DEFINE e == <<n, "delta", h>>
  <2>1. e \in TokenItems(n)
    BY <1>1, <1>4 DEF TokenItems
  <2>2. Reported(e)
    BY <1>2 DEF Reported, LookedUp
  <2>3. Parties(e) = <<h[1], h[1]>>
    BY DEF Parties
  <2>4. QED BY <1>3, <2>1, <2>2, <2>3 DEF n, h
<1>5. CASE TransfersOf(Tx[n], "token") # {}
  <2>1. Net(n, h) # 0
    BY <1>2, <1>5
  <2>2. PICK i \in TransfersOf(Tx[n], "token") :
           LET move == InstructionsOf(Tx[n])[i]
               from == OwnerOf(n, move.from)
               to == OwnerOf(n, move.to) IN
           /\ MintOf(n, move.from) = h[2]
           /\ from # None /\ to # None
           /\ (from = h[1]) # (to = h[1])
    BY <1>1, <2>1, OneSided
  <2> DEFINE e == <<n, "token", i>>
             move == InstructionsOf(Tx[n])[i]
             from == OwnerOf(n, move.from)
             to == OwnerOf(n, move.to)
  <2>3. e \in TokenItems(n)
    BY <1>5 DEF TokenItems
  <2>4. h[2] \in Tokens
    BY <1>1 DEF Holdings
  <2>5. /\ MintMoved(n, move) = h[2]
        /\ <<from, h[2]>> \in Holdings(Tx[n])
        /\ <<to, h[2]>> \in Holdings(Tx[n])
    BY <1>1, <2>2, <2>4, TransferFacts
  <2>6. Parties(e) = <<from, to>>
    BY DEF Parties
  <2>7. LookedUp(e)
    BY <2>2, <2>4, <2>5, <2>6 DEF LookedUp
  <2>8. (from \in Watched => from = h[1]) /\ (to \in Watched => to = h[1])
    BY <1>2, <2>5
  <2>9. (from \in Watched) # (to \in Watched)
    BY <1>2, <2>2, <2>8
  <2>10. Reported(e)
    BY <2>6, <2>7, <2>9 DEF Reported
  <2>11. h[1] \in {Parties(e)[1], Parties(e)[2]}
    BY <2>2, <2>6
  <2>12. QED BY <1>3, <2>3, <2>10, <2>11 DEF n, h
<1>6. QED BY <1>4, <1>5

(* In a marked slot every change of a watched wallet's balance of a        *)
(* configured token has an event about that wallet, be it read from the    *)
(* instructions or from the balances, for every block the token programs   *)
(* allow.                                                                  *)
THEOREM ChangesReported == MintsAgree => (Spec => []BalanceChangesReported)
<1> SUFFICES ASSUME MintsAgree PROVE Spec => []BalanceChangesReported
  OBVIOUS
<1>1. ASSUME TypeOK, MarkInv PROVE BalanceChangesReported
  <2> SUFFICES ASSUME marked, ~skipped, ~Lossy, NEW c \in Changes
               PROVE  \E e \in DOMAIN sent :
                         /\ e[1] = c[1]
                         /\ e[2] \in {"token", "delta"}
                         /\ c[2][1] \in {Parties(e)[1], Parties(e)[2]}
                         /\ sent[e] > 0
    BY DEF BalanceChangesReported, Lossy
  <2>1. DOMAIN sent = Owed
    BY <1>1 DEF TypeOK
  <2>2. \A e \in Owed : sent[e] > 0
    BY <1>1 DEF MarkInv
  <2>3. QED BY <2>1, <2>2, ChangeOwes
<1>2. QED BY <1>1, MarkCorrect, TypeCorrect, PTL
=============================================================================
