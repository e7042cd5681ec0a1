---------------------------- MODULE MCTronClient ----------------------------
(* The pool for TLC: its configuration gives every constant its value.     *)
EXTENDS TronClient
=============================================================================
