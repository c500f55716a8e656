SPECIFICATION FairSpec
CONSTANTS
    Players = {p1}
    Visits = {v1, v2}
    Stocks = {s1, s2}
    VisitOf <- MCVisitEach
    QtyTotal <- MCOnePiece
    Cap <- MCOnePiece
    Txs = {t1, t2}
    Workers = {w1, w2}
    MaxQty = 1
    Queues = {FALSE}
    None = None
PROPERTY ReservationsEnd
