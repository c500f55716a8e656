----------------------------- MODULE MCPlayerMarket -----------------------------
(* Small instances of PlayerMarket: prices of half a coin and a coin, a sum *)
(* a buyer states a hundredth off, and the ordinary fee of two percent.     *)
EXTENDS PlayerMarket, TLC

MCPrices == {50, 100}
MCReserves == {101, 200}
MCFeePerMille == [p \in Players |-> 20]

Symmetry == Permutations(Players) \cup Permutations(Workers)
================================================================================
