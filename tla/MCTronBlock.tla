----------------------------- MODULE MCTronBlock -----------------------------
(* A block of four transactions for TLC: a TRX deposit; a transaction that *)
(* calls tokens twice, with a withdrawal and a foreign transfer in its     *)
(* logs, next to a contract nobody handles; a failed one; a TRX withdrawal *)
(* followed by a token call whose receipt failed.                          *)
EXTENDS TronBlock

MCAddresses == {"w", "x"}
MCWatched == {"w"}

Call(kind, from, to) == [kind |-> kind, from |-> from, to |-> to]
Move(from, to) == [from |-> from, to |-> to]

MCBlock ==
    <<[ok |-> TRUE, result |-> TRUE, logs |-> <<>>,
       contracts |-> <<Call("trx", "x", "w")>>],
      [ok |-> TRUE, result |-> TRUE,
       logs |-> <<Move("w", "x"), Move("x", "x")>>,
       contracts |-> <<Call("other", "x", "x"), Call("token", "x", "x"),
                       Call("token", "x", "x")>>],
      [ok |-> FALSE, result |-> TRUE, logs |-> <<>>,
       contracts |-> <<Call("trx", "x", "w")>>],
      [ok |-> TRUE, result |-> FALSE, logs |-> <<Move("x", "w")>>,
       contracts |-> <<Call("trx", "w", "x"), Call("token", "x", "x")>>]>>
=============================================================================
