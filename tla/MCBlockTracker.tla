--------------------------- MODULE MCBlockTracker ---------------------------
(* Small instances of BlockTracker for TLC: workers are model values, one  *)
(* for each of the two channels.                                           *)
EXTENDS BlockTracker
=============================================================================
