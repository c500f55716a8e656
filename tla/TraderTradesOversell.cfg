SPECIFICATION Spec
CONSTANTS
    Players = {p1, p2}
    Visits = {v1}
    Stocks = {s1, s2}
    VisitOf <- MCVisitOf
    QtyTotal <- MCQtyTotal
    Cap <- MCCap
    Txs = {t1, t2}
    Workers = {w1, w2}
    MaxQty = 2
    Queues = {TRUE, FALSE}
    None = None
SYMMETRY Symmetry
INVARIANT NoOversell
