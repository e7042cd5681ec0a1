--------------------------- MODULE ProgressLedger ---------------------------
(***************************************************************************)
(* What the tracker and its Redis progress promise, without queues,        *)
(* workers, marks or failures: blocks are scanned in any order once they   *)
(* have their confirmations, and the checkpoint from which a restart       *)
(* resumes may be put, up or down, only where nothing below it is missing. *)
(* The starting point is chosen once, by the first run.                    *)
(***************************************************************************)
EXTENDS Integers

CONSTANTS Blocks, Heights, Confirmations

VARIABLES tip, base, started, done, hwm

ledgerVars == <<tip, base, started, done, hwm>>

(* Nothing has been started, or a first run has chosen where.              *)
LedgerInit ==
    /\ tip \in Blocks
    /\ base \in Heights
    /\ base <= tip
    /\ started = (base > 0)
    /\ done = {}
    /\ hwm = base

(* The chain gets one block longer.                                        *)
Grow ==
    /\ tip' = tip + 1
    /\ UNCHANGED <<base, started, done, hwm>>

(* The first run starts at a height of the chain.                          *)
Begin(h) ==
    /\ ~started
    /\ h <= tip
    /\ base' = h
    /\ hwm' = h
    /\ started' = TRUE
    /\ UNCHANGED <<tip, done>>

(* A confirmed block is scanned, perhaps not for the first time.           *)
Scan(b) ==
    /\ b + Confirmations <= tip
    /\ done' = done \cup {b}
    /\ UNCHANGED <<tip, base, started, hwm>>

(* The checkpoint is put at v: everything from the starting point is done. *)
Checkpoint(v) ==
    /\ \A b \in Blocks : base < b /\ b <= v => b \in done
    /\ started => v > 0
    /\ hwm' = v
    /\ UNCHANGED <<tip, base, started, done>>

LedgerNext ==
    \/ Grow
    \/ \E h \in Heights : Begin(h) \/ Checkpoint(h)
    \/ \E b \in Blocks : Scan(b)

LedgerSpec == LedgerInit /\ [][LedgerNext]_ledgerVars
=============================================================================
