---------------------------- MODULE MCTraderTrades ----------------------------
(* Slots of three pieces of which a player may take two, so that both the shelf
   and the share run out. *)
EXTENDS TraderTrades, TLC

MCVisitOf == [s \in Stocks |-> CHOOSE v \in Visits : TRUE]
MCQtyTotal == [s \in Stocks |-> 3]
MCCap == [s \in Stocks |-> 2]

\* For liveness: one slot of each visit, so that requests can be refused after
\* their sweep and two of them can wait for each other's slot.
MCVisitEach ==
    CHOOSE f \in [Stocks -> Visits] : \A a, b \in Stocks : a # b => f[a] # f[b]

\* A slot of a single piece, which one reservation empties.
MCOnePiece == [s \in Stocks |-> 1]

Symmetry == Permutations(Players) \cup Permutations(Txs) \cup Permutations(Workers)
            \cup Permutations(Stocks)
================================================================================
