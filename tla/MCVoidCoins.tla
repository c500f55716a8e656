----------------------------- MODULE MCVoidCoins -----------------------------
(* Every stake feeds the jackpot with one coin. *)
EXTENDS VoidCoins, TLC

MCContribution == [s \in Stakes |-> 1]
MCGrants == {1, -1}

Symmetry == Permutations(Players) \cup Permutations(Workers) \cup Permutations(Winnings)
================================================================================
