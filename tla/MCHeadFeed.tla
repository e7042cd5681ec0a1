----------------------------- MODULE MCHeadFeed -----------------------------
(* Small numbers for TLC: a six bit duration overflows at the fifth        *)
(* failure in a row and is 0 from the sixth on.                            *)
EXTENDS HeadFeed
=============================================================================
