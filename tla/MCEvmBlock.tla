----------------------------- MODULE MCEvmBlock -----------------------------
(* A block of five transactions, in two batches: one of nobody's; a token  *)
(* call whose receipt holds a withdrawal and a transfer between two        *)
(* foreign addresses; one of an unsupported type; a failed one; a deposit. *)
EXTENDS EvmBlock

MCAddresses == {"w", "x"}
MCWatched == {"w"}

Plain(from, to) ==
    [supported |-> TRUE, plain |-> TRUE, direct |-> FALSE, ok |-> TRUE,
     from |-> from, to |-> to, logs |-> <<>>]

TokenCall(logs) ==
    [supported |-> TRUE, plain |-> FALSE, direct |-> TRUE, ok |-> TRUE,
     from |-> "x", to |-> "x", logs |-> logs]

MCBlock ==
    <<Plain("x", "x"),
      TokenCall(<<[from |-> "w", to |-> "x"], [from |-> "x", to |-> "x"]>>),
      [Plain("x", "w") EXCEPT !.supported = FALSE],
      [Plain("x", "w") EXCEPT !.ok = FALSE],
      Plain("x", "w")>>
=============================================================================
