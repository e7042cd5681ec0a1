------------------------------ MODULE MCService ------------------------------
(* Three blocks, one more than the two workers that both limits start, so  *)
(* that a third worker would show.                                         *)
EXTENDS Service

MCNetworks == {[kind |-> "evm", limit |-> 2], [kind |-> "utxo", limit |-> 1]}
=============================================================================
