SPECIFICATION Spec
CONSTANTS
    Players = {p1, p2}
    Workers = {w1, w2}
    MaxOrders = 4
    MaxOverdue = 0
    MaxAmount = 1
    Prices <- MCPrices
    Reserves <- MCReserves
    FeePerMille <- MCFeePerMille
    MaxActive = 2
    MaxVolume = 4
    None = None
SYMMETRY Symmetry
INVARIANTS
    NoWaitCycle
