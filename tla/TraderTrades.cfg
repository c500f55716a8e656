SPECIFICATION Spec
CONSTANTS
    Players = {p1, p2}
    Visits = {v1}
    Stocks = {s1}
    VisitOf <- MCVisitOf
    QtyTotal <- MCQtyTotal
    Cap <- MCCap
    Txs = {t1, t2, t3}
    Workers = {w1, w2}
    MaxQty = 2
    Queues = {TRUE}
    None = None
SYMMETRY Symmetry
INVARIANTS
    TypeOK
    ReadsHold
    StockConserved
    PlayerWithinCap
    ActionAgrees
PROPERTY SettledIsFinal
