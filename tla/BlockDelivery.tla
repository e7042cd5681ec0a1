--------------------------- MODULE BlockDelivery ---------------------------
(***************************************************************************)
(* What ProcessBlock of every network promises about one block: the events *)
(* the block owes are published in some order, each perhaps more than      *)
(* once; its mark is set once, when all of them are out; and nothing of it *)
(* is published after that, since nobody looks at a marked block again.    *)
(*                                                                         *)
(* The promise ends where the code gives up an event for lost although it  *)
(* is not: a failure it logs and goes on from.  Each network's module says *)
(* which failures those are and maps them to lossy.                        *)
(***************************************************************************)
VARIABLES
    owed,       \* the events the block owes; it does not change
    published,  \* those published at least once
    marked,     \* the block's bit in processed_blocks
    lossy       \* a failure has happened that the code swallows

vars == <<owed, published, marked, lossy>>

Init ==
    /\ published = {}
    /\ marked = FALSE
    /\ lossy = FALSE

Publish ==
    /\ ~marked
    /\ \E e \in owed \ published : published' = published \cup {e}
    /\ UNCHANGED <<owed, marked, lossy>>

Lose ==
    /\ lossy' = TRUE
    /\ UNCHANGED <<owed, published, marked>>

Mark ==
    /\ ~marked
    /\ lossy \/ published = owed
    /\ marked' = TRUE
    /\ UNCHANGED <<owed, published, lossy>>

Next == Publish \/ Lose \/ Mark

DeliverySpec == Init /\ [][Next]_vars
=============================================================================
