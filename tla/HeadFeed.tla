------------------------------ MODULE HeadFeed ------------------------------
(***************************************************************************)
(* The subscription to new blocks of one network, a goroutine that         *)
(* blockSubscriptionLoop (internal/blockchain/base/tracker.go) starts and  *)
(* does not wait for: SubscribeToNewBlocks of bitcoin/processor.go and     *)
(* SubscribeToSlots of solana/client.go, which connect again and again,    *)
(* and SubscribeToNewBlocks of ethereum/processor.go, which does not.      *)
(*                                                                         *)
(* Heights go through a channel to the tracker's loop.  What is lost here  *)
(* is found by polling (BlockTracker).  Time is counted only where the     *)
(* goroutine waits on purpose, in the unit of the constants.               *)
(***************************************************************************)
EXTENDS Integers

CONSTANTS
    QueueCap,     \* the capacity of the channel
    BaseBackoff,  \* baseBackoff
    MaxBackoff,   \* maxBackoff
    Width,        \* the bits of a time.Duration (64)
    MaxFaults     \* bound: how many failures the network produces

(* What 1 becomes when it is shifted to the left n times.                  *)
PowerOf2[n \in Nat] == IF n = 0 THEN 1 ELSE 2 * PowerOf2[n - 1]

(* The base wait is positive, and the longest fits into a time.Duration.   *)
ASSUME FeedAssumption ==
    /\ QueueCap \in Nat
    /\ BaseBackoff \in Nat \ {0}
    /\ MaxBackoff \in Nat
    /\ BaseBackoff <= MaxBackoff
    /\ Width \in Nat \ {0}
    /\ MaxBackoff < PowerOf2[Width - 1]
    /\ MaxFaults \in Nat

(* TRON has no subscription: it returns an error like a network without a  *)
(* configured URL.                                                         *)
Kinds == {"bitcoin", "solana", "ethereum", "none"}

VARIABLES
    kind,        \* whose code it is
    fpc,         \* where the goroutine is
    attempts,    \* attempt
    delay,       \* the delay of the timer
    conn,        \* the connection, as the network has left it
    guarded,     \* its closing goroutine waits for the context (Bitcoin)
    stale,       \* how many such goroutines wait for earlier connections
    ch,          \* how many heights are in the channel
    consuming,   \* whether the tracker's loop still reads them
    cancelled,   \* the context
    faults,      \* failures so far
    dials,       \* history: dials so far, without Bitcoin's first retries
    waited,      \* history: the time waited before them
    overflowed   \* history: a delay has overflowed

connVars == <<conn, guarded, stale>>
histVars == <<dials, waited, overflowed>>
feedVars == <<kind, fpc, attempts, delay, connVars, ch, consuming, cancelled,
              faults, histVars>>

-----------------------------------------------------------------------------
(* What a shift to the left leaves of a number in two's complement.        *)
ShiftLeft(x, n) ==
    LET low == (x * PowerOf2[n]) % PowerOf2[Width]
    IN IF low < PowerOf2[Width - 1] THEN low ELSE low - PowerOf2[Width]

Overflows(a) == BaseBackoff * PowerOf2[a - 1] >= PowerOf2[Width - 1]

(* The delay before a dial that follows an attempt which failed.           *)
Backoff(a) ==
    LET d == ShiftLeft(BaseBackoff, a - 1)
    IN IF d > MaxBackoff THEN MaxBackoff ELSE d

FeedInit ==
    /\ kind \in Kinds
    /\ fpc = "start"
    /\ attempts = 0
    /\ delay = 0
    /\ conn = "none"
    /\ guarded = FALSE
    /\ stale = 0
    /\ ch = 0
    /\ consuming = TRUE
    /\ cancelled = FALSE
    /\ faults = 0
    /\ dials = 0
    /\ waited = 0
    /\ overflowed = FALSE

Fault == faults < MaxFaults /\ faults' = faults + 1

(* The connection is closed and the goroutine leaves it.                   *)
Close ==
    /\ conn' = "none"
    /\ guarded' = FALSE
    /\ stale' = IF guarded THEN stale + 1 ELSE stale

Return == fpc' = "returned" /\ UNCHANGED attempts

(* The retry that follows a connection or the first dial: the comments in  *)
(* Bitcoin's loop call it immediate.                                       *)
FirstRetry == kind = "bitcoin" /\ attempts = 1

(* Mutant of Retry: a failure is not counted, and no retry waits.          *)
RetryUncounted ==
    IF kind = "ethereum" THEN Return
    ELSE fpc' = "loop" /\ UNCHANGED attempts

(* Around the loop once more; Ethereum's code has none.                    *)
Retry ==
    IF kind = "ethereum" THEN Return
    ELSE fpc' = "loop" /\ attempts' = attempts + 1

-----------------------------------------------------------------------------
Start ==
    /\ fpc = "start"
    /\ fpc' = CASE kind = "none" -> "returned"
                [] kind = "ethereum" -> "dial"
                [] OTHER -> "loop"
    /\ UNCHANGED <<kind, attempts, delay, connVars, ch, consuming, cancelled,
                   faults, histVars>>

(* The head of the loop.                                                   *)
LoopHead ==
    /\ fpc = "loop"
    /\ \/ cancelled /\ fpc' = "returned" /\ UNCHANGED <<delay, overflowed>>
       \/ /\ ~cancelled
          /\ attempts = 0
          /\ fpc' = "dial"
          /\ UNCHANGED <<delay, overflowed>>
       \/ /\ ~cancelled
          /\ attempts > 0
          /\ fpc' = "wait"
          /\ delay' = Backoff(attempts)
          /\ overflowed' = (overflowed \/ Overflows(attempts))
    /\ UNCHANGED <<kind, attempts, connVars, ch, consuming, cancelled, faults,
                   dials, waited>>

(* The timer fires, at once if its delay is not positive, or the context   *)
(* is done.                                                                *)
Wait ==
    /\ fpc = "wait"
    /\ \/ cancelled /\ fpc' = "returned" /\ UNCHANGED waited
       \/ /\ fpc' = "dial"
          /\ waited' = waited + (IF delay > 0 /\ ~FirstRetry THEN delay ELSE 0)
    /\ UNCHANGED <<kind, attempts, delay, connVars, ch, consuming, cancelled,
                   faults, dials, overflowed>>

(* No dialer sets a timeout for the handshake: a peer that accepts the     *)
(* connection and never answers the upgrade keeps the goroutine in it, and *)
(* the context, which Ethereum's dial does not take anyway, ends only what *)
(* comes before that answer is waited for.  Bitcoin is connected from here *)
(* on and does not look at what becomes of its request.                    *)
Dial ==
    /\ fpc = "dial"
    /\ dials' = IF FirstRetry THEN dials ELSE dials + 1
    /\ \/ /\ cancelled /\ kind # "ethereum"
          /\ Return
          /\ UNCHANGED <<connVars, faults>>
       \/ /\ Fault
          /\ Retry
          /\ UNCHANGED connVars
       \/ /\ ~cancelled \/ kind = "ethereum"
          /\ Fault
          /\ fpc' = "handshake"
          /\ UNCHANGED <<attempts, connVars>>
       \/ /\ ~cancelled \/ kind = "ethereum"
          /\ conn' = "open"
          /\ guarded' = (kind = "bitcoin")
          /\ IF kind = "bitcoin" THEN fpc' = "read" /\ attempts' = 0
             ELSE fpc' = "subscribe" /\ UNCHANGED attempts
          /\ UNCHANGED <<stale, faults>>
    /\ UNCHANGED <<kind, delay, ch, consuming, cancelled, waited, overflowed>>

(* Solana's slotSubscribe, Ethereum's SubscribeNewHead: the latter takes   *)
(* the context.                                                            *)
Subscribe ==
    /\ fpc = "subscribe"
    /\ \/ /\ kind = "ethereum" /\ cancelled
          /\ Close /\ Return
          /\ UNCHANGED faults
       \/ Fault /\ Close /\ Retry
       \/ /\ ~(kind = "ethereum" /\ cancelled)
          /\ fpc' = "read"
          /\ attempts' = 0
          /\ UNCHANGED <<connVars, faults>>
    /\ UNCHANGED <<kind, delay, ch, consuming, cancelled, histVars>>

-----------------------------------------------------------------------------
(* The read loop.                                                          *)

(* Mutant of Send: the goroutine waits until the channel has room.         *)
SendBlocking == ch < QueueCap /\ ch' = ch + 1

(* A height goes into the channel, or is dropped if that is full.          *)
Send == IF ch < QueueCap THEN ch' = ch + 1 ELSE UNCHANGED ch

(* A height arrives.  Bitcoin then sends a ping that is due, which may     *)
(* fail, and looks at the context before it reads on, Solana looks at the  *)
(* context.                                                                *)
Receive ==
    /\ fpc = "read"
    /\ conn = "open"
    /\ Send
    /\ \/ /\ kind = "bitcoin"
          /\ Fault
          /\ Close
          /\ Retry
       \/ /\ kind # "ethereum" /\ cancelled
          /\ Close
          /\ Return
          /\ UNCHANGED faults
       \/ /\ kind = "ethereum" \/ ~cancelled
          /\ UNCHANGED <<fpc, attempts, connVars, faults>>
    /\ UNCHANGED <<kind, delay, consuming, cancelled, histVars>>

(* Mutant of ReadFails: nobody connects again.                             *)
ReadFailsForGood ==
    /\ fpc = "read"
    /\ conn \in {"broken", "closed"}
    /\ Close
    /\ Return
    /\ UNCHANGED <<kind, delay, ch, consuming, cancelled, faults, histVars>>

(* Mutant of ReadFails: a broken connection is left open.                  *)
ReadFailsUnclosed ==
    /\ fpc = "read"
    /\ conn \in {"broken", "closed"}
    /\ IF cancelled THEN Return ELSE Retry
    /\ UNCHANGED <<kind, delay, connVars, ch, consuming, cancelled, faults,
                   histVars>>

(* The connection is gone, or its closing goroutine has closed it.         *)
ReadFails ==
    /\ fpc = "read"
    /\ conn \in {"broken", "closed"}
    /\ Close
    /\ IF cancelled THEN Return ELSE Retry
    /\ UNCHANGED <<kind, delay, ch, consuming, cancelled, faults, histVars>>

(* Ethereum waits for the context in the same select.                      *)
Done ==
    /\ fpc = "read"
    /\ kind = "ethereum"
    /\ cancelled
    /\ Close
    /\ Return
    /\ UNCHANGED <<kind, delay, ch, consuming, cancelled, faults, histVars>>

(* The goroutine Bitcoin starts for every connection, and which outlives   *)
(* it: it waits for the context only.                                      *)
CloserCloses ==
    /\ cancelled
    /\ guarded
    /\ guarded' = FALSE
    /\ conn' = "closed"
    /\ UNCHANGED <<kind, fpc, attempts, delay, stale, ch, consuming, cancelled,
                   faults, histVars>>

CloserEnds ==
    /\ cancelled
    /\ stale > 0
    /\ stale' = stale - 1
    /\ UNCHANGED <<kind, fpc, attempts, delay, conn, guarded, ch, consuming,
                   cancelled, faults, histVars>>

-----------------------------------------------------------------------------
(* blockSubscriptionLoop takes a height, until the context is done.        *)
Consume ==
    /\ consuming
    /\ ch > 0
    /\ ch' = ch - 1
    /\ UNCHANGED <<kind, fpc, attempts, delay, connVars, consuming, cancelled,
                   faults, histVars>>

LoopEnds ==
    /\ consuming
    /\ cancelled
    /\ consuming' = FALSE
    /\ UNCHANGED <<kind, fpc, attempts, delay, connVars, ch, cancelled, faults,
                   histVars>>

(* The peer closes the connection, or keeps it and sends no height any     *)
(* more, be it nothing at all or other messages, which are skipped.        *)
Drop ==
    /\ conn = "open"
    /\ fpc = "read"
    /\ Fault
    /\ conn' \in {"broken", "silent"}
    /\ UNCHANGED <<kind, fpc, attempts, delay, guarded, stale, ch, consuming,
                   cancelled, histVars>>

(* The tracker's Stop.                                                     *)
Cancel ==
    /\ ~cancelled
    /\ cancelled' = TRUE
    /\ UNCHANGED <<kind, fpc, attempts, delay, connVars, ch, consuming, faults,
                   histVars>>

FeedStep ==
    \/ Start
    \/ LoopHead
    \/ Wait
    \/ Dial
    \/ Subscribe
    \/ Receive
    \/ ReadFails
    \/ Done

CloserStep == CloserCloses \/ CloserEnds
LoopStep == Consume \/ LoopEnds

FeedNext == FeedStep \/ CloserStep \/ LoopStep \/ Drop \/ Cancel

FeedSpec == FeedInit /\ [][FeedNext]_feedVars

(* Goroutines run, timers fire, a dial ends unless its handshake is never  *)
(* answered, and a connection that is not silent brings another height.  A *)
(* select takes one of its ready cases at random, so a context that is     *)
(* done is noticed beside any traffic.                                     *)
FairFeedSpec ==
    /\ FeedSpec
    /\ WF_feedVars(FeedStep)
    /\ WF_feedVars(Done)
    /\ WF_feedVars(CloserStep)
    /\ WF_feedVars(LoopStep)
    /\ WF_feedVars(LoopEnds)

-----------------------------------------------------------------------------
(* Properties.                                                             *)

(* Every variable holds a value of its Go type, and the channel never more *)
(* than its capacity.                                                      *)
FeedTypeOK ==
    /\ kind \in Kinds
    /\ fpc \in {"start", "loop", "wait", "dial", "handshake", "subscribe", "read",
                "returned"}
    /\ attempts \in Nat
    /\ delay \in -PowerOf2[Width - 1]..(PowerOf2[Width - 1] - 1)
    /\ conn \in {"none", "open", "broken", "silent", "closed"}
    /\ guarded \in BOOLEAN
    /\ stale \in Nat
    /\ ch \in 0..QueueCap
    /\ consuming \in BOOLEAN
    /\ cancelled \in BOOLEAN
    /\ faults \in 0..MaxFaults
    /\ dials \in Nat
    /\ waited \in Nat
    /\ overflowed \in BOOLEAN

(* Whatever makes it connect again, a dial that fails, a request that      *)
(* cannot be written, a ping or a read, the goroutine waits at least the   *)
(* base delay between two dials and at most the cap: an endpoint that      *)
(* accepts and drops Solana's connections, or answers none of Bitcoin's    *)
(* dials, is not dialled in a tight loop.  It does not speak of Bitcoin's  *)
(* first retries, which the comments promise to be immediate.  It ends     *)
(* when the shift overflows; with 64 bits and 250 ms that is the 37th      *)
(* failure in a row, and from the 58th on the delay is 0.                  *)
RateLimited ==
    /\ dials * BaseBackoff <= waited + BaseBackoff \/ overflowed
    /\ waited <= dials * MaxBackoff + MaxBackoff

(* The connection is closed on every way out of the read loop: none stays  *)
(* open behind the next dial or the return.                                *)
ConnectionClosed == fpc \notin {"subscribe", "read"} => conn = "none"

(* Waits that not even a cancelled context ends.                           *)
Stuck ==
    \/ fpc = "handshake"
    \/ kind = "solana" /\ fpc = "read" /\ conn = "silent"

(* After Stop the goroutine ends, although nobody empties the channel any  *)
(* more; only a dial whose handshake is never answered stays, on every     *)
(* network, and Solana's read from a silent peer.  The closing goroutines  *)
(* that Bitcoin's connections have left behind end in any case.            *)
StopsOnCancel ==
    cancelled ~> (fpc = "returned" \/ Stuck) /\ ~guarded /\ stale = 0

(* After finitely many failures Bitcoin and Solana are subscribed again    *)
(* and stay it, until Stop; a peer that has fallen silent counts as one.   *)
(* One that never answers the handshake ends the subscription for good:    *)
(* the goroutine does not come back to its loop.                           *)
Listens ==
    kind \in {"bitcoin", "solana"} =>
        \/ <>[](fpc = "read")
        \/ <>[](fpc = "handshake")
        \/ <>cancelled
=============================================================================
