---------------------------- MODULE MCWalletIndex ----------------------------
(* Two networks, one of which folds the case of addresses, and two         *)
(* spellings: one address of the first network, two of the second.  The    *)
(* hashes of one select a bit of the other's in the same word.             *)
EXTENDS WalletIndex, TLC

ClientSymmetry == Permutations(Clients)

MCSpellings == {"a", "A"}
MCCanon == [s \in MCSpellings |-> "a"]
MCHash == ("a" :> {<<1, 1>>}) @@ ("A" :> {<<1, 1>>, <<1, 2>>})
=============================================================================
