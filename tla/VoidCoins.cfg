SPECIFICATION Spec
CONSTANTS
    Players = {p1, p2}
    Workers = {w1, w2}
    Winnings = {x1, x2}
    Values = {2, 4}
    Stakes = {1}
    FreeStake = 1
    MaxMultiplier = 2
    PotFloor = 1
    Contribution <- MCContribution
    Price = 1
    Grants <- MCGrants
    StartCoins = 1
    MaxRequests = 3
    MaxDay = 3
    None = None
SYMMETRY Symmetry
CHECK_DEADLOCK FALSE
INVARIANTS
    TypeOK
    CoinsAccounted
    NoncesCount
    FreeSpinsDaily
    PaidOnce
PROPERTY WinningsSpent
