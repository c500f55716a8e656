SPECIFICATION Spec
CONSTANTS
    Players = {p1, p2}
    Workers = {w1, w2}
    MaxOrders = 3
    MaxOverdue = 1
    MaxAmount = 2
    Prices <- MCPrices
    Reserves <- MCReserves
    FeePerMille <- MCFeePerMille
    MaxActive = 2
    MaxVolume = 2
    None = None
SYMMETRY Symmetry
INVARIANTS
    TypeOK
    GoodsConserved
    MoneyConserved
    OvershootBounded
PROPERTIES
    NoMissedMatch
    BestPriceFirst
    ClosedIsFinal
