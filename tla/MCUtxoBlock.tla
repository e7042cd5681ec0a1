----------------------------- MODULE MCUtxoBlock -----------------------------
(* Blocks for TLC: transactions over two wallets, one of which has two     *)
(* addresses, and a foreign address.                                       *)
EXTENDS UtxoBlock, TLC

MCAddresses == {"a1", "a2", "b", "x"}
MCWallet == ("a1" :> "A") @@ ("a2" :> "A") @@ ("b" :> "B")

Out(a) == [addr |-> a, value |-> 1]

Inputs == {<<>>, <<"none">>, <<"x">>, <<"a1">>, <<"a1", "a2">>, <<"x", "a1">>,
           <<"a1", "b">>, <<"b", "x">>}

OutputPairs ==
    LET outs == {Out("a1"), Out("b"), Out("x"), [addr |-> "x", value |-> 0],
                 [addr |-> "none", value |-> 0]}
    IN {<<p, q>> : p \in {Out("a1"), Out("x"), [addr |-> "none", value |-> 0]},
                   q \in outs}

OneTxBlocks == {<<[ins |-> i, outs |-> p]>> : i \in Inputs, p \in OutputPairs}

(* A withdrawal with change, then an internal transfer and a deposit.      *)
TwoTxBlock ==
    <<[ins |-> <<"a1">>, outs |-> <<Out("x"), Out("a2")>>],
      [ins |-> <<"a2", "x">>, outs |-> <<Out("b")>>]>>

(* A deposit in a block that is left by the main chain.                    *)
MCOrphans == {<<[ins |-> <<"x">>, outs |-> <<Out("b")>>]>>}

MCBlocks == OneTxBlocks \cup {TwoTxBlock}
=============================================================================
