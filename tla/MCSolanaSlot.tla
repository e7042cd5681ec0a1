---------------------------- MODULE MCSolanaSlot ----------------------------
(* A block of four transactions for TLC: a deposit of SOL with inner       *)
(* transfers abroad and of nothing; a failed one; a token withdrawal that  *)
(* does not name its mint, next to one to an account nobody owns; a        *)
(* deposit that only the balances show, together with a token nobody       *)
(* configured.                                                             *)
EXTENDS SolanaSlot

MCAccounts == {"w", "x", "aw", "bw", "ax", "an"}
MCWatched == {"w"}
MCMints == {"m", "q"}
MCTokens == {"m"}

Do(kind, from, to, mint, amount) ==
    [kind |-> kind, from |-> from, to |-> to, mint |-> mint, amount |-> amount]
Holds(account, owner, mint, amount) ==
    [account |-> account, owner |-> owner, mint |-> mint, amount |-> amount]

MCBlock ==
    <<[failed |-> FALSE, pre |-> <<>>, post |-> <<>>,
       outer |-> <<Do("system", "x", "w", None, 1)>>,
       inner |-> <<Do("system", "x", "x", None, 2),
                   Do("system", "x", "w", None, 0)>>],
      [failed |-> TRUE, pre |-> <<>>, post |-> <<>>,
       outer |-> <<Do("system", "x", "w", None, 1)>>, inner |-> <<>>],
      [failed |-> FALSE,
       pre |-> <<Holds("aw", "w", "m", 2), Holds("ax", "x", "m", 1)>>,
       post |-> <<Holds("aw", "w", "m", 0), Holds("ax", "x", "m", 2),
                  Holds("an", None, "m", 1)>>,
       outer |-> <<Do("token", "aw", "ax", None, 2),
                   Do("token", "ax", "an", "m", 1)>>,
       inner |-> <<>>],
      [failed |-> FALSE,
       pre |-> <<Holds("aw", "w", "m", 1), Holds("ax", "x", "m", 2)>>,
       post |-> <<Holds("aw", "w", "m", 3), Holds("bw", "w", "q", 1)>>,
       outer |-> <<Do("other", "x", "x", None, 2)>>, inner |-> <<>>]>>

(* The block is one the token programs allow.                              *)
ASSUME MCMintsAgree == MintsAgree
=============================================================================
