--------------------------- MODULE MCRpcProviders ---------------------------
(* The pool for TLC: its configuration gives every constant its value.     *)
EXTENDS RpcProviders
=============================================================================
