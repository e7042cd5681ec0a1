----------------------------- MODULE SolanaSlot -----------------------------
(***************************************************************************)
(* One slot of Solana on its way through processBlockSafely and            *)
(* ProcessBlock (internal/blockchain/solana/processor.go) to its mark: the *)
(* height, the block, then the transactions one after the other, first the *)
(* transfers of SOL, then those of tokens, which are taken from the        *)
(* instructions or, where no instruction is a token transfer, from the     *)
(* changes of the token balances.                                          *)
(*                                                                         *)
(* Both requests go through Client.call (client.go), which asks each URL   *)
(* once, beginning where a counter shared by all goroutines stands, until  *)
(* one answers without an error.  A slot without a block is an error of    *)
(* getBlock that the processor recognises by its text.                     *)
(***************************************************************************)
EXTENDS Integers, Sequences, FiniteSets, FiniteSetsExt

CONSTANTS
    Tx,          \* the transactions of the slot's block, in order
    Watched,     \* the addresses in the wallet index
    Accounts,    \* wallets, token accounts and their owners
    Mints,       \* the mints that occur
    Tokens,      \* tokenByMint: the mints of the configuration
    None,        \* the empty string
    N,           \* the number of RPC URLs
    Counter,     \* how many values the shared counter has (2^32)
    Faults,      \* the kinds of failure this instance lets happen
    MaxFaults,   \* bound: how many failures happen
    MaxCrashes,  \* bound: how many times the process dies
    MaxOthers    \* bound: how often another goroutine moves the counter

(* request: an answer is an error of any other kind;  lag: the node does   *)
(* not have the block, and its error says "not available";  null: the      *)
(* node's result is null;  redis: a Redis command fails;  lookup: a wallet *)
(* lookup fails;  publish: an event is not published;  stop: the tracker's *)
(* context is cancelled.                                                   *)
FaultKinds == {"request", "lag", "null", "redis", "lookup", "publish", "stop"}

(* Those after which the slot counts as empty although it is not.          *)
Swallowed == {"lag", "null"}

(* An instruction, parsed by the node or decoded from its data: a transfer *)
(* of the system program or of a token program, or something else.  mint   *)
(* is None in a token transfer that does not name it.                      *)
Instructions ==
    [kind : {"system", "token", "other"}, from : Accounts, to : Accounts,
     mint : Mints \cup {None}, amount : Nat]

(* An entry of preTokenBalances or postTokenBalances.                      *)
Balances ==
    [account : Accounts, owner : Accounts \cup {None}, mint : Mints,
     amount : Nat]

(* failed: meta.err is set, or there is no signature;  outer, inner: the   *)
(* message's instructions and those their programs called.                 *)
TxRecords ==
    [failed : BOOLEAN, outer : Seq(Instructions), inner : Seq(Instructions),
     pre : Seq(Balances), post : Seq(Balances)]

Txs == 1..Len(Tx)
URLs == 0..(N - 1)

ASSUME SlotAssumption ==
    /\ Tx \in Seq(TxRecords)
    /\ Watched \subseteq Accounts
    /\ Tokens \subseteq Mints
    /\ None \notin Accounts \cup Mints
    /\ N \in Nat \ {0}
    /\ Counter \in Nat \ {0}
    /\ Faults \subseteq FaultKinds
    /\ MaxFaults \in Nat
    /\ MaxCrashes \in Nat
    /\ MaxOthers \in Nat

VARIABLES
    skipped,    \* the chain has no block in this slot
    down,       \* the URLs that never answer
    next,       \* the counter shared by all calls
    bpc,        \* where the worker is
    tries,      \* the URLs this call has asked
    asked,      \* history: which
    alone,      \* history: the counter went up by one from URL to URL
    verdict,    \* history: what ProcessBlock took the slot for
    t,          \* the transaction ProcessBlock is at
    todo,       \* its transfers, or balance changes, still to be handled
    marked,     \* Redis: the slot's bit in processed_blocks
    sent,       \* the events published, each with how often
    cancelled,  \* the tracker's context
    faults,     \* history: how many failures happened, and of which kinds
    crashes,
    others

chainVars == <<skipped, down>>
callVars  == <<tries, asked, alone>>
scanVars  == <<verdict, t, todo>>
vars == <<chainVars, next, bpc, callVars, scanVars, marked, sent, cancelled,
          faults, crashes, others>>

-----------------------------------------------------------------------------
(* The transfers of a transaction.                                         *)

InstructionsOf(tx) == tx.outer \o tx.inner
BalancesOf(tx) == tx.pre \o tx.post

(* nativeTransfers and tokenTransfers, by their places: the outer          *)
(* instructions come first; a transfer of nothing is no transfer.          *)
TransfersOf(tx, kind) ==
    LET all == InstructionsOf(tx)
    IN {i \in DOMAIN all : all[i].kind = kind /\ all[i].amount > 0}

(* tokenAccountMetadata: the balances after the transaction override those *)
(* before it; an entry without an owner tells nothing about it.            *)
TokenAccountMetadata ==
    [n \in Txs |-> [a \in Accounts |->
        LET all == BalancesOf(Tx[n])
            entries == {i \in DOMAIN all : all[i].account = a}
            owned == {i \in entries : all[i].owner # None}
        IN [owner |-> IF owned = {} THEN None ELSE all[Max(owned)].owner,
            mint |-> IF entries = {} THEN None ELSE all[Max(entries)].mint]]]

OwnerOf(n, a) == TokenAccountMetadata[n][a].owner
MintOf(n, a) == TokenAccountMetadata[n][a].mint

(* Mutant of MintMoved: the accounts are not consulted.                    *)
MintMovedStated(n, i) == i.mint

(* The mint a token transfer moves, from the instruction or its accounts.  *)
MintMoved(n, i) ==
    CASE i.mint # None           -> i.mint
      [] MintOf(n, i.from) # None -> MintOf(n, i.from)
      [] OTHER                   -> MintOf(n, i.to)

(* What the entries of a sequence at some places amount to.                *)
Total(entries, places) ==
    MapThenSumSet(LAMBDA i : entries[i].amount, places)

(* tokenDeltas: what a wallet's accounts of a mint hold after, less what   *)
(* they held before.  A holding is an owner with a mint.                   *)
Aggregate(balances, h) ==
    Total(balances, {i \in DOMAIN balances :
                        <<balances[i].owner, balances[i].mint>> = h})

Delta(tx, h) == Aggregate(tx.post, h) - Aggregate(tx.pre, h)

Holdings(tx) ==
    LET all == BalancesOf(tx)
    IN {<<all[i].owner, all[i].mint>> :
           i \in {j \in DOMAIN all : /\ all[j].owner # None
                                     /\ all[j].mint \in Tokens}}

-----------------------------------------------------------------------------
(* What is handled, <<transaction, phase, which>>: a transfer of SOL or of *)
(* tokens with its place, or a holding with its change.                    *)

NativeItems(n) ==
    {<<n, "native", i>> : i \in TransfersOf(Tx[n], "system")}

(* processTokenTransfers.                                                  *)
TokenItems(n) ==
    IF TransfersOf(Tx[n], "token") # {}
    THEN {<<n, "token", i>> : i \in TransfersOf(Tx[n], "token")}
    ELSE {<<n, "delta", h>> : h \in Holdings(Tx[n])}

(* The wallets that give and take.                                         *)
Parties(e) ==
    LET n == e[1] IN
    CASE e[2] = "native" ->
           LET i == InstructionsOf(Tx[n])[e[3]] IN <<i.from, i.to>>
      [] e[2] = "token" ->
           LET i == InstructionsOf(Tx[n])[e[3]]
           IN <<OwnerOf(n, i.from), OwnerOf(n, i.to)>>
      [] e[2] = "delta" -> <<e[3][1], e[3][1]>>

(* Whether the wallet index is asked about the parties at all.             *)
LookedUp(e) ==
    LET n == e[1] IN
    CASE e[2] = "native" -> TRUE
      [] e[2] = "token" ->
           /\ MintMoved(n, InstructionsOf(Tx[n])[e[3]]) \in Tokens
           /\ None \notin {Parties(e)[1], Parties(e)[2]}
      [] e[2] = "delta" -> Delta(Tx[n], e[3]) # 0

(* A deposit, or a withdrawal: one party is watched and the other is not;  *)
(* a balance change has one party.                                         *)
Reported(e) ==
    /\ LookedUp(e)
    /\ IF e[2] = "delta" THEN e[3][1] \in Watched
       ELSE (Parties(e)[1] \in Watched) # (Parties(e)[2] \in Watched)

(* What the block owes to the users of the watched wallets.                *)
Owed ==
    {e \in UNION {NativeItems(n) \cup TokenItems(n) :
                     n \in {m \in Txs : ~Tx[m].failed}} : Reported(e)}

-----------------------------------------------------------------------------
(* The chain, the URLs that are out of service for good, and where earlier *)
(* calls have left the counter, are what they are.                         *)
Init ==
    /\ skipped \in BOOLEAN
    /\ down \in SUBSET URLs \ {URLs}
    /\ next \in 0..(Counter - 1)
    /\ bpc = "idle"
    /\ tries = 0
    /\ asked = {}
    /\ alone = TRUE
    /\ verdict = "none"
    /\ t = 1
    /\ todo = {}
    /\ marked = FALSE
    /\ sent = [e \in Owed |-> 0]
    /\ cancelled = FALSE
    /\ faults = [n |-> 0, kinds |-> {}]
    /\ crashes = 0
    /\ others = 0

Fault(kind) ==
    /\ kind \in Faults
    /\ faults.n < MaxFaults
    /\ faults' = [n |-> faults.n + 1, kinds |-> faults.kinds \cup {kind}]

(* A call with the context fails, by itself or because that is cancelled.  *)
Fails(kind) == (cancelled /\ UNCHANGED faults) \/ Fault(kind)
Works == ~cancelled /\ UNCHANGED faults

(* Another call begins, with every URL still to be asked.                  *)
NewCall == tries' = 0 /\ asked' = {} /\ alone' = TRUE

(* processBlockSafely is over; what follows is a later job.                *)
Return ==
    /\ bpc' = "idle"
    /\ NewCall
    /\ verdict' = "none"
    /\ t' = 1
    /\ todo' = {}

(* processBlockSafely looks at a slot that is not marked.                  *)
Begin ==
    /\ bpc = "idle"
    /\ ~marked
    /\ ~cancelled
    /\ bpc' = "slot"
    /\ UNCHANGED <<chainVars, next, callVars, scanVars, marked, sent, cancelled,
                   faults, crashes, others>>

-----------------------------------------------------------------------------
(* Client.call.                                                            *)

(* Mutant of NextURL: the counter is only read.                            *)
NextURLStays == next' = next /\ alone' = alone

(* AddUint32 takes the counter's place; it wraps around.                   *)
NextURL ==
    /\ next' = (next + 1) % Counter
    /\ alone' = (alone /\ next + 1 < Counter)

(* What the URL at the counter answers, by callURL: an error of some other *)
(* kind, that it does not have the block, that the slot was skipped, null, *)
(* or the height or the block.                                             *)
Answers(a) ==
    LET up == ~cancelled /\ (next % N) \notin down
        none == bpc = "block" /\ skipped
    IN \/ a = "error" /\ ~up /\ UNCHANGED faults
       \/ a = "error" /\ up /\ Fault("request")
       \/ a = "lag" /\ bpc = "block" /\ up /\ Fault("lag")
       \/ a = "null" /\ up /\ Fault("null")
       \/ a = "skipped" /\ none /\ up /\ UNCHANGED faults
       \/ a = "answer" /\ ~none /\ up /\ UNCHANGED faults

Errors == {"error", "lag", "skipped"}

(* limiter.Wait fails when the context is cancelled, before any URL.       *)
Limited ==
    /\ bpc \in {"slot", "block"}
    /\ tries = 0
    /\ cancelled
    /\ Return
    /\ UNCHANGED <<chainVars, next, marked, sent, cancelled, faults, crashes,
                   others>>

(* An error, and there are URLs left to ask.                               *)
AskNext ==
    /\ bpc \in {"slot", "block"}
    /\ tries > 0 \/ ~cancelled
    /\ tries + 1 < N
    /\ \E a \in Errors : Answers(a)
    /\ NextURL
    /\ tries' = tries + 1
    /\ asked' = asked \cup {next % N}
    /\ UNCHANGED <<chainVars, bpc, scanVars, marked, sent, cancelled, crashes,
                   others>>

(* GetSlot ends: with null the height is 0 and the slot not yet confirmed. *)
GetSlot ==
    /\ bpc = "slot"
    /\ tries > 0 \/ ~cancelled
    /\ next' = (next + 1) % Counter
    /\ \/ /\ Answers("answer")
          /\ bpc' = "block"
          /\ NewCall
          /\ UNCHANGED scanVars
       \/ Answers("null") /\ Return
       \/ tries + 1 = N /\ (\E a \in Errors : Answers(a)) /\ Return
    /\ UNCHANGED <<chainVars, marked, sent, cancelled, crashes, others>>

(* Mutant of IsSkippedSlotError: the node's other wording is not known.    *)
IsSkippedSlotErrorWorded(a) == a = "lag"

(* Mutant of IsSkippedSlotError: every error of getBlock is taken for it.  *)
IsSkippedSlotErrorAny(a) == a \in Errors

(* The error says "was skipped" or "not available".                        *)
IsSkippedSlotError(a) == a \in {"lag", "skipped"}

(* GetBlock ends, and the last URL's error decides: a slot that is taken   *)
(* for skipped, or for one without a block, is complete.                   *)
GetBlock ==
    /\ bpc = "block"
    /\ tries > 0 \/ ~cancelled
    /\ \/ /\ Answers("answer")
          /\ bpc' = "tx"
          /\ NewCall
          /\ next' = (next + 1) % Counter
          /\ UNCHANGED scanVars
       \/ /\ \/ Answers("null") /\ verdict' = "empty"
             \/ /\ tries + 1 = N
                /\ \E a \in Errors : Answers(a) /\ IsSkippedSlotError(a)
                /\ verdict' = "skipped"
          /\ bpc' = "mark"
          /\ NextURL
          /\ tries' = tries + 1
          /\ asked' = asked \cup {next % N}
          /\ UNCHANGED <<t, todo>>
       \/ /\ tries + 1 = N
          /\ \E a \in Errors : Answers(a) /\ ~IsSkippedSlotError(a)
          /\ next' = (next + 1) % Counter
          /\ Return
    /\ UNCHANGED <<chainVars, marked, sent, cancelled, crashes, others>>

(* A request of another goroutine, for another slot or the height, between *)
(* two of this call's.  Between calls it only moves where the next begins, *)
(* which is arbitrary already.                                             *)
OtherCall ==
    /\ others < MaxOthers
    /\ bpc \in {"slot", "block"}
    /\ others' = others + 1
    /\ next' = (next + 1) % Counter
    /\ alone' = FALSE
    /\ UNCHANGED <<chainVars, bpc, tries, asked, scanVars, marked, sent,
                   cancelled, faults, crashes>>

-----------------------------------------------------------------------------
(* The transactions.                                                       *)

(* A failed transaction has no transfers.                                  *)
StartTx ==
    /\ bpc = "tx"
    /\ \/ t > Len(Tx) /\ bpc' = "mark" /\ UNCHANGED <<t, todo>>
       \/ t <= Len(Tx) /\ Tx[t].failed /\ t' = t + 1 /\ UNCHANGED <<bpc, todo>>
       \/ /\ t <= Len(Tx)
          /\ ~Tx[t].failed
          /\ bpc' = "native"
          /\ todo' = NativeItems(t)
          /\ UNCHANGED t
    /\ UNCHANGED <<chainVars, next, callVars, verdict, marked, sent, cancelled,
                   faults, crashes, others>>

(* The transfers in their order, balance changes in that of a Go map.      *)
UpNext(e) == e[2] # "delta" => \A f \in todo : e[3] <= f[3]

(* processNativeDeltas, processTokenInstructionTransfers and               *)
(* processTokenDeltas: the wallets are looked up and the event is          *)
(* published; what fails ends ProcessBlock.  A wallet that is not watched  *)
(* needs no Redis as a rule, so a cancelled context does not stop those.   *)
HandleItem ==
    /\ bpc \in {"native", "token"}
    /\ \E e \in todo :
          /\ UpNext(e)
          /\ \/ /\ LookedUp(e)
                /\ Fails("lookup")
                /\ Return
                /\ UNCHANGED sent
             \/ /\ Reported(e)
                /\ ~cancelled
                /\ Fault("publish")
                /\ Return
                /\ UNCHANGED sent
             \/ /\ ~Reported(e)
                /\ \/ ~cancelled
                   \/ ~LookedUp(e)
                   \/ {Parties(e)[1], Parties(e)[2]} \cap Watched = {}
                /\ todo' = todo \ {e}
                /\ UNCHANGED <<bpc, callVars, verdict, t, sent, faults>>
             \/ /\ Reported(e)
                /\ Works
                /\ todo' = todo \ {e}
                /\ sent' = [sent EXCEPT ![e] = @ + 1]
                /\ UNCHANGED <<bpc, callVars, verdict, t>>
    /\ UNCHANGED <<chainVars, next, marked, cancelled, crashes, others>>

(* The native transfers are done, then the tokens.                         *)
PhaseDone ==
    /\ todo = {}
    /\ \/ bpc = "native" /\ bpc' = "token" /\ todo' = TokenItems(t) /\ UNCHANGED t
       \/ bpc = "token" /\ bpc' = "tx" /\ t' = t + 1 /\ UNCHANGED todo
    /\ UNCHANGED <<chainVars, next, callVars, verdict, marked, sent, cancelled,
                   faults, crashes, others>>

(* MarkBlockProcessed, in processBlockSafely.                              *)
MarkBlock ==
    /\ bpc = "mark"
    /\ Return
    /\ \/ Fails("redis") /\ UNCHANGED marked
       \/ ~cancelled /\ Fault("redis") /\ marked' = TRUE
       \/ Works /\ marked' = TRUE
    /\ UNCHANGED <<chainVars, next, sent, cancelled, crashes, others>>

-----------------------------------------------------------------------------
(* The tracker's Stop cancels the context of every call.                   *)
Cancel ==
    /\ ~cancelled
    /\ Fault("stop")
    /\ cancelled' = TRUE
    /\ UNCHANGED <<chainVars, next, bpc, callVars, scanVars, marked, sent,
                   crashes, others>>

(* The process dies, or has stopped, and is started again.                 *)
Restart ==
    /\ crashes < MaxCrashes
    /\ crashes' = crashes + 1
    /\ Return
    /\ next' = 0
    /\ cancelled' = FALSE
    /\ UNCHANGED <<chainVars, marked, sent, faults, others>>

BlockStep ==
    \/ Begin
    \/ Limited
    \/ AskNext
    \/ GetSlot
    \/ GetBlock
    \/ StartTx
    \/ HandleItem
    \/ PhaseDone
    \/ MarkBlock

Next == BlockStep \/ OtherCall \/ Cancel \/ Restart

Spec == Init /\ [][Next]_vars

(* The worker runs, and comes back to a slot that is not marked            *)
(* (BlockTracker!CatchesUp).                                               *)
FairSpec == Spec /\ WF_vars(BlockStep)

-----------------------------------------------------------------------------
(* Properties.                                                             *)

(* Every variable holds a value of its Go type, and no transaction beyond  *)
(* the last and no URL twice as often as there are is ever touched.        *)
TypeOK ==
    /\ skipped \in BOOLEAN
    /\ down \subseteq URLs
    /\ next \in 0..(Counter - 1)
    /\ bpc \in {"idle", "slot", "block", "tx", "native", "token", "mark"}
    /\ tries \in 0..N
    /\ asked \subseteq URLs
    /\ alone \in BOOLEAN
    /\ verdict \in {"none", "empty", "skipped"}
    /\ t \in 1..(Len(Tx) + 1)
    /\ t \in Txs => todo \subseteq NativeItems(t) \cup TokenItems(t)
    /\ bpc \in {"native", "token"} => t <= Len(Tx) /\ ~Tx[t].failed
    /\ marked \in BOOLEAN
    /\ sent \in [Owed -> Nat]
    /\ cancelled \in BOOLEAN
    /\ faults \in [n : Nat, kinds : SUBSET FaultKinds]
    /\ crashes \in Nat
    /\ others \in Nat

(* ProcessBlock keeps what every network promises of a block: a skipped    *)
(* slot owes nothing, a slot with a block is marked once, after all it     *)
(* owes, whatever is asked again, repeated, cancelled or cut short; except *)
(* after an answer that made the slot look empty.                          *)
Delivery ==
    INSTANCE BlockDelivery
        WITH owed <- IF skipped THEN {} ELSE Owed,
             published <- {e \in Owed : sent[e] > 0},
             marked <- marked,
             lossy <- faults.kinds \cap Swallowed # {}

ImplementsDelivery == Delivery!DeliverySpec

(* A slot is given up as skipped only after every URL was asked: one       *)
(* node's opinion never decides while another could have the block.  It    *)
(* takes the counter to go up by one from URL to URL, so neither a request *)
(* of another goroutine in between nor the counter's wrapping around.      *)
FailsOver == verdict = "skipped" /\ alone => asked = URLs

(* What the token transfers of a transaction whose accounts are all known  *)
(* add to a holding, less what they take from it.                          *)
Net(n, h) ==
    LET all == InstructionsOf(Tx[n])
        known == {i \in TransfersOf(Tx[n], "token") :
                     /\ MintOf(n, all[i].from) = h[2]
                     /\ None \notin {OwnerOf(n, all[i].from),
                                     OwnerOf(n, all[i].to)}}
    IN Total(all, {i \in known : OwnerOf(n, all[i].to) = h[1]})
       - Total(all, {i \in known : OwnerOf(n, all[i].from) = h[1]})

(* What the token programs see to: a transfer moves a token between        *)
(* accounts of one mint, which is the one the instruction names, if any.   *)
MintsAgree ==
    \A n \in Txs : \A i \in TransfersOf(Tx[n], "token") :
       LET move == InstructionsOf(Tx[n])[i]
           all == BalancesOf(Tx[n])
       IN \E m \in Mints :
             /\ move.mint \in {None, m}
             /\ \A j \in DOMAIN all :
                   all[j].account \in {move.from, move.to} => all[j].mint = m

(* The holdings, each with its transaction, of the one watched wallet in   *)
(* it whose amount changes, where the instructions, if any move tokens,    *)
(* account for the change.                                                 *)
Changes ==
    {c \in UNION {{n} \X Holdings(Tx[n]) : n \in {m \in Txs : ~Tx[m].failed}} :
        LET tx == Tx[c[1]]
            h == c[2]
        IN /\ h[1] \in Watched
           /\ \A g \in Holdings(tx) : g[1] \in Watched => g[1] = h[1]
           /\ Delta(tx, h) # 0
           /\ TransfersOf(tx, "token") = {} \/ Net(c[1], h) = Delta(tx, h)}

(* The balances of a transaction before and after it, which the network    *)
(* vouches for, against what was read from its instructions: in a marked   *)
(* slot a configured token whose amount in one watched wallet has changed  *)
(* has an event about that wallet, be it from the instructions, if they    *)
(* account for the change, or from the balances, if there are none.        *)
BalanceChangesReported ==
    marked /\ ~skipped /\ faults.kinds \cap Swallowed = {} =>
    \A c \in Changes : \E e \in DOMAIN sent :
       /\ e[1] = c[1]
       /\ e[2] \in {"token", "delta"}
       /\ c[2][1] \in {Parties(e)[1], Parties(e)[2]}
       /\ sent[e] > 0

(* The slot is marked in the end, however its finitely many failures fall, *)
(* unless the tracker is stopped for good; also a skipped one, which takes *)
(* a live node's word as the last: the counter stands behind the URL that  *)
(* has just told the height, which is therefore asked last.                *)
EventuallyMarked == <>marked \/ <>[]cancelled
=============================================================================
