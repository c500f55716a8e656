------------------------------ MODULE PlayerMarket ------------------------------
(***************************************************************************)
(* The order book of one item of the player market                         *)
(* (services/player_market_service.py): sell and buy orders that are       *)
(* matched when they are placed, cancelled by their owner or swept away    *)
(* after ORDER_EXPIRY_DAYS.  Orders of different items never meet.         *)
(*                                                                         *)
(* Requests are PostgreSQL transactions at READ COMMITTED.  Placing an     *)
(* order counts the owner's orders, inserts the new row, selects the       *)
(* orders it can trade with and locks them one after the other (FOR UPDATE *)
(* in the order of the ORDER BY): a row another request holds is waited    *)
(* for, and looked at again once it is free.  Nobody sees the new row      *)
(* before the commit.  Orders are numbered in the order of created_at,     *)
(* which is the time their transaction began.  Money is in hundredths of a *)
(* coin.                                                                   *)
(***************************************************************************)
EXTENDS Integers, FiniteSets, FiniteSetsExt

CONSTANTS
    Players,     \* player names
    Workers,     \* database sessions that serve requests at the same time
    MaxOrders,   \* how many orders a run may begin to place
    MaxOverdue,  \* how many orders of a run may grow overdue
    MaxAmount,   \* the largest amount of a request
    Prices,      \* unit prices of the requests
    Reserves,    \* the sums a buyer's plugin may say it has reserved
    FeePerMille, \* market fee of a seller, after premium and research discount
    MaxActive,   \* MAX_ACTIVE_SELL_PER_PLAYER, MAX_ACTIVE_BUY_PER_PLAYER
    MaxVolume,   \* MAX_VOLUME_PER_PLAYER_PER_ITEM
    None         \* no player, no lock holder

ASSUME MarketConstants ==
    /\ MaxOrders \in Nat
    /\ MaxOverdue \in Nat
    /\ MaxAmount \in Nat \ {0}
    /\ Prices \subseteq Nat \ {0}
    /\ Reserves \subseteq Nat
    /\ FeePerMille \in [Players -> 0..20]
    /\ MaxActive \in Nat \ {0}
    /\ MaxVolume \in Nat \ {0}
    /\ IsFiniteSet(Workers) /\ Workers # {}
    /\ None \notin Players \cup Workers

VARIABLES
    orders,      \* the order rows, as committed
    clock,       \* the number of the order whose placing began last
    overdue,     \* active orders whose expires_at has passed
    deliveries,  \* rows of pending_deliveries
    delivered,   \* those the plugin has acknowledged
    answers,     \* what the plugin was told to hand out at once, in a response
    pc,          \* what the request of a worker does next
    job,         \* the order it is placing
    book,        \* the orders its SELECT ... FOR UPDATE found
    seen,        \* history: the active orders there were when it did
    lock         \* the worker that holds the row lock of an order

table == <<orders, deliveries, answers>>
request == <<pc, job, book, seen, lock>>
vars == <<table, clock, overdue, delivered, request>>

OrderIds == 1..MaxOrders
ActiveStatuses == {"active", "partially_filled"}
Closed == {"filled", "cancelled", "expired"}

NoOrder == [side |-> "none", owner |-> None, price |-> 0, total |-> 0, remaining |-> 0,
            filled |-> 0, reserved |-> 0, status |-> "none"]
NoJob == [id |-> 0, order |-> NoOrder]

SumOf(S, Op(_)) == SumFunctionOnSet([x \in S |-> Op(x)], S)
Least(a, b) == IF a < b THEN a ELSE b
FromZero(n) == IF n < 0 THEN 0 ELSE n

\* n tenths of a percent of `sum`, rounded half up to a hundredth of a coin.
PerMille(sum, n) == (sum * n + 500) \div 1000

\* The cancel fee, half a percent.
CancelFee(sum) == PerMille(sum, 5)

--------------------------------------------------------------------------------
(* What the queries of the service return. *)

IsActive(o) == orders[o].status \in ActiveStatuses

Mine(w) == {o \in OrderIds : lock[o] = w}

ActiveOf(p, side) ==
    {o \in OrderIds : IsActive(o) /\ orders[o].owner = p /\ orders[o].side = side}

Volume(p, side) == SumOf(ActiveOf(p, side), LAMBDA o : orders[o].remaining)

\* Mutant of WithinLimits: the volume of the orders that rest is forgotten.
WithinLimitsAlone(p, side, amount) ==
    /\ Cardinality(ActiveOf(p, side)) < MaxActive
    /\ amount <= MaxVolume

\* The two limits, read without any lock.
WithinLimits(p, side, amount) ==
    /\ Cardinality(ActiveOf(p, side)) < MaxActive
    /\ Volume(p, side) + amount <= MaxVolume

\* Mutant of Crosses: an equal price does not match.
CrossesStrictly(new, old) ==
    IF new.side = "sell" THEN old.price > new.price ELSE old.price < new.price

Crosses(new, old) ==
    IF new.side = "sell" THEN old.price >= new.price ELSE old.price <= new.price

\* The order can trade with the one that is being placed.
Matches(new, o) ==
    /\ IsActive(o)
    /\ orders[o].side # new.side
    /\ orders[o].remaining > 0
    /\ Crosses(new, orders[o])

\* Mutant of Ahead: oldest first, whatever the price.
AheadByAge(new, a, b) == a < b

\* ORDER BY unit_price (best for the new order first), created_at.
Ahead(new, a, b) ==
    \/ orders[a].price # orders[b].price /\ (orders[a].price > orders[b].price <=> new.side = "sell")
    \/ orders[a].price = orders[b].price /\ a < b

\* Mutant of NextRows: no ORDER BY, any row is locked first.
NextRowsUnordered(w) == {o \in book[w] : lock[o] # w}

\* The row the SELECT ... FOR UPDATE of a worker locks next.
NextRows(w) ==
    {o \in book[w] : /\ lock[o] # w
                     /\ \A a \in book[w] : lock[a] # w => ~Ahead(job[w].order, a, o)}

--------------------------------------------------------------------------------
(* The matching of a new order against the rows its worker has locked.     *)

\* The rows it trades with; an order of the same player is passed over.
Partners(w) ==
    {o \in Mine(w) : Matches(job[w].order, o) /\ orders[o].owner # job[w].order.owner}

\* Mutant of Fill: what earlier partners took is not deducted.
FillAfresh(w, o) == Least(job[w].order.total, orders[o].remaining)

\* The amount traded with partner o: what the partners ahead of it have left over.
Fill(w, o) ==
    LET ahead == {a \in Partners(w) : Ahead(job[w].order, a, o)}
        taken == SumOf(ahead, LAMBDA a : orders[a].remaining)
    IN  Least(FromZero(job[w].order.total - taken), orders[o].remaining)

Filled(w) == SumOf(Partners(w), LAMBDA o : Fill(w, o))

\* What a trade of n pieces takes of a buy order's reserve: its own price,
\* whatever price the trade is executed at.
Spent(order, n) == order.price * n

\* _execute_trade, the part that updates one order.
Traded(order, n) ==
    [order EXCEPT
        !.remaining = @ - n,
        !.filled = @ + n,
        !.reserved = IF order.side = "buy" THEN FromZero(@ - Spent(order, n)) ELSE 0,
        !.status = IF order.remaining = n THEN "filled"
                   ELSE IF order.filled + n > 0 THEN "partially_filled" ELSE "active"]

\* Something one party is to be given: `amount` pieces or coins, net of `fee`.
Handout(kind, s, b, amount, fee) ==
    [kind |-> kind, sell |-> s, buy |-> b, amount |-> amount, fee |-> fee]

\* _execute_trade, the part that pays: what a trade of the new order with o
\* gives to seller and buyer, at the price of the resting order o.
Payouts(w, o) ==
    LET new == job[w].order
        n == Fill(w, o)
        s == IF new.side = "sell" THEN job[w].id ELSE o
        b == IF new.side = "sell" THEN o ELSE job[w].id
        seller == IF new.side = "sell" THEN new.owner ELSE orders[o].owner
        bid == IF new.side = "sell" THEN orders[o].price ELSE new.price
        gross == orders[o].price * n
        fee == PerMille(gross, FeePerMille[seller])
        over == FromZero((bid - orders[o].price) * n)
    IN  {Handout("items", s, b, n, 0), Handout("proceeds", s, b, gross - fee, fee)}
        \cup (IF over > 0 THEN {Handout("overpay", s, b, over, 0)} ELSE {})

\* The side a handout of a trade goes to.
Receiver(h) == IF h.kind = "proceeds" THEN "sell" ELSE "buy"

--------------------------------------------------------------------------------
Release(w) ==
    /\ pc' = [pc EXCEPT ![w] = "idle"]
    /\ job' = [job EXCEPT ![w] = NoJob]
    /\ book' = [book EXCEPT ![w] = {}]
    /\ seen' = [seen EXCEPT ![w] = {}]
    /\ lock' = [o \in OrderIds |-> IF lock[o] = w THEN None ELSE lock[o]]

Tolerance(sum) == PerMille(sum, 10)

(* create_sell_order, create_buy_order *)

\* The limits are checked; a refused order leaves nothing behind.
BeginCreate(w, side, p, price, amount, reserved) ==
    /\ pc[w] = "idle"
    /\ clock < MaxOrders
    /\ side = "buy" =>
          /\ reserved - price * amount <= Tolerance(price * amount)
          /\ price * amount - reserved <= Tolerance(price * amount)
    /\ side = "sell" => reserved = 0
    /\ WithinLimits(p, side, amount)
    /\ clock' = clock + 1
    /\ pc' = [pc EXCEPT ![w] = "insert"]
    /\ job' = [job EXCEPT ![w] =
          [id |-> clock + 1,
           order |-> [side |-> side, owner |-> p, price |-> price, total |-> amount,
                      remaining |-> amount, filled |-> 0, reserved |-> reserved,
                      status |-> "active"]]]
    /\ UNCHANGED <<table, overdue, delivered, book, seen, lock>>

\* The row is inserted and the SELECT ... FOR UPDATE takes its snapshot.
Look(w) ==
    /\ pc[w] = "insert"
    /\ pc' = [pc EXCEPT ![w] = "match"]
    /\ book' = [book EXCEPT ![w] = {o \in OrderIds : Matches(job[w].order, o)}]
    /\ seen' = [seen EXCEPT ![w] = {o \in OrderIds : IsActive(o)}]
    /\ UNCHANGED <<table, clock, overdue, delivered, job, lock>>

LockRow(w, o) ==
    /\ pc[w] = "match"
    /\ o \in NextRows(w)
    /\ lock[o] = None
    /\ lock' = [lock EXCEPT ![o] = w]
    /\ UNCHANGED <<table, clock, overdue, delivered, pc, job, book, seen>>

\* All candidates are locked: the order is matched and everything committed.
\* The party that placed it is paid by its plugin out of the response, the
\* other finds a pending delivery.
CommitCreate(w) ==
    LET new == job[w].order
        payouts == UNION {Payouts(w, o) : o \in {a \in Partners(w) : Fill(w, a) > 0}}
    IN
    /\ pc[w] = "match"
    /\ NextRows(w) = {}
    /\ orders' = [o \in OrderIds |->
                    IF o = job[w].id THEN Traded(new, Filled(w))
                    ELSE IF o \in Partners(w) /\ Fill(w, o) > 0
                         THEN Traded(orders[o], Fill(w, o))
                         ELSE orders[o]]
    /\ answers' = answers \cup {h \in payouts : Receiver(h) = new.side}
    /\ deliveries' = deliveries \cup {h \in payouts : Receiver(h) # new.side}
    /\ Release(w)
    /\ UNCHANGED <<clock, overdue, delivered>>

--------------------------------------------------------------------------------
(* cancel_sell_order, cancel_buy_order *)

\* Mutant of Cancellable: the status is not checked under the lock.
CancellableAlways(o, p) == lock[o] = None /\ orders[o].owner = p

Cancellable(o, p) == lock[o] = None /\ orders[o].owner = p /\ IsActive(o)

Close(o, status) == [orders[o] EXCEPT !.status = status, !.remaining = 0, !.reserved = 0]

\* Mutants of Rest: the filled part comes back too; the reserve is paid out
\* as the buyer's plugin stated it.
RestTotal(o) == IF orders[o].side = "sell" THEN orders[o].total ELSE orders[o].price * orders[o].remaining
RestReserve(o) == IF orders[o].side = "sell" THEN orders[o].remaining ELSE orders[o].reserved

\* What is left of an order: pieces of a sell order, coins of a buy order.
Rest(o) == orders[o].remaining * (IF orders[o].side = "sell" THEN 1 ELSE orders[o].price)

Refund(o, fee) ==
    IF orders[o].side = "sell"
    THEN Handout("refund", o, 0, Rest(o), 0)
    ELSE Handout("refund", 0, o, Rest(o) - fee, fee)

\* The row lock is taken, the order closed and the rest handed out by the
\* plugin: one step, as the request waits for nothing else.
Cancel(o, p) ==
    /\ Cancellable(o, p)
    /\ orders' = [orders EXCEPT ![o] = Close(o, "cancelled")]
    /\ answers' = answers \cup {Refund(o, CancelFee(Rest(o)))}
    /\ UNCHANGED <<clock, overdue, delivered, deliveries, request>>

--------------------------------------------------------------------------------
(* expire_orders: first the sell orders, then the buy orders, passing over *)
(* what others have locked.                                                *)

GrowOverdue(o) ==
    /\ IsActive(o)
    /\ o \notin overdue
    /\ Cardinality(overdue) < MaxOverdue
    /\ overdue' = overdue \cup {o}
    /\ UNCHANGED <<table, clock, delivered, request>>

Due(side) == {o \in overdue : IsActive(o) /\ orders[o].side = side /\ lock[o] = None}

BeginExpire(w) ==
    /\ pc[w] = "idle"
    /\ pc' = [pc EXCEPT ![w] = "expire"]
    /\ lock' = [o \in OrderIds |-> IF o \in Due("sell") THEN w ELSE lock[o]]
    /\ UNCHANGED <<table, clock, overdue, delivered, job, book, seen>>

CommitExpire(w) ==
    LET swept == Mine(w) \cup Due("buy") IN
    /\ pc[w] = "expire"
    /\ orders' = [o \in OrderIds |-> IF o \in swept THEN Close(o, "expired") ELSE orders[o]]
    /\ deliveries' = deliveries \cup {Refund(o, 0) : o \in {a \in swept : Rest(a) > 0}}
    /\ Release(w)
    /\ UNCHANGED <<clock, overdue, delivered, answers>>

--------------------------------------------------------------------------------
\* ack_deliveries: the plugin has handed a delivery over.
Ack(h) ==
    /\ h \in deliveries \ delivered
    /\ delivered' = delivered \cup {h}
    /\ UNCHANGED <<table, clock, overdue, request>>

\* A lost connection or a killed worker: the transaction is rolled back.
Abort(w) == pc[w] # "idle" /\ Release(w) /\ UNCHANGED <<table, clock, overdue, delivered>>

Init ==
    /\ orders = [o \in OrderIds |-> NoOrder]
    /\ clock = 0
    /\ overdue = {}
    /\ deliveries = {}
    /\ delivered = {}
    /\ answers = {}
    /\ pc = [w \in Workers |-> "idle"]
    /\ job = [w \in Workers |-> NoJob]
    /\ book = [w \in Workers |-> {}]
    /\ seen = [w \in Workers |-> {}]
    /\ lock = [o \in OrderIds |-> None]

Start(w) ==
    \/ \E side \in {"sell", "buy"}, p \in Players, price \in Prices, amount \in 1..MaxAmount,
          reserved \in Reserves \cup {0} : BeginCreate(w, side, p, price, amount, reserved)
    \/ BeginExpire(w)

Advance(w) ==
    \/ Look(w)
    \/ \E o \in OrderIds : LockRow(w, o)
    \/ CommitCreate(w)
    \/ CommitExpire(w)

Next ==
    \/ \E w \in Workers : Start(w) \/ Advance(w) \/ Abort(w)
    \/ \E o \in OrderIds, p \in Players : Cancel(o, p)
    \/ \E o \in OrderIds : GrowOverdue(o)
    \/ \E h \in deliveries : Ack(h)

Spec == Init /\ [][Next]_vars

--------------------------------------------------------------------------------
(* Properties. *)

Rows == [side : {"none", "sell", "buy"}, owner : Players \cup {None}, price : Nat, total : Nat,
         remaining : Nat, filled : Nat, reserved : Nat,
         status : {"none"} \cup ActiveStatuses \cup Closed]

Handouts == [kind : {"items", "proceeds", "overpay", "refund"}, sell : Nat, buy : Nat,
             amount : Nat, fee : Nat]

TypeOK ==
    /\ orders \in [OrderIds -> Rows]
    /\ clock \in 0..MaxOrders
    /\ overdue \subseteq OrderIds
    /\ deliveries \subseteq Handouts
    /\ delivered \subseteq deliveries
    /\ answers \subseteq Handouts
    /\ pc \in [Workers -> {"idle", "insert", "match", "expire"}]
    /\ job \in [Workers -> [id : 0..MaxOrders, order : Rows]]
    /\ book \in [Workers -> SUBSET OrderIds]
    /\ seen \in [Workers -> SUBSET OrderIds]
    /\ lock \in [OrderIds -> Workers \cup {None}]

Placed(side) == {o \in OrderIds : orders[o].side = side}

\* What an order has handed out, through responses and deliveries together.
Out(H, kinds) == SumOf({h \in H : h.kind \in kinds}, LAMBDA h : h.amount + h.fee)

\* Every piece a seller put into the market is still in the order, or went to
\* a buyer or back to the seller exactly once, by a response or by a delivery
\* and never by both, whatever matchings, cancellations and expiry sweeps race
\* for the row; and buyers were given what their orders say was filled
\* (player_market_service.py:292-295, 690-691, 776-780).
GoodsConserved ==
    /\ \A o \in Placed("sell") :
          orders[o].total = orders[o].remaining
              + Out({h \in deliveries : h.sell = o}, {"items", "refund"})
              + Out({h \in answers : h.sell = o}, {"items", "refund"})
    /\ \A o \in Placed("buy") :
          orders[o].filled = Out({h \in deliveries : h.buy = o}, {"items"})
                             + Out({h \in answers : h.buy = o}, {"items"})

\* The coins of a buy order: what sellers, fees, overpay and refunds took of it
\* and what its rest is worth add up to the price of the whole order, at
\* whichever of the two prices its trades were executed
\* (player_market_service.py:784-799, 327-336, 636).
MoneyConserved ==
    \A o \in Placed("buy") :
        orders[o].price * orders[o].total = orders[o].price * orders[o].remaining
            + Out({h \in deliveries : h.buy = o}, {"proceeds", "overpay", "refund"})
            + Out({h \in answers : h.buy = o}, {"proceeds", "overpay", "refund"})

\* However its trades were priced, the funds an active buy order holds in
\* reserve differ from what its rest costs by no more than the one percent
\* that was accepted when it was placed (player_market_service.py:203-208, 852-860).
ReserveCoversRest ==
    \A o \in Placed("buy") : IsActive(o) =>
        LET rest == orders[o].price * orders[o].remaining
            slack == Tolerance(orders[o].price * orders[o].total)
        IN  rest - slack <= orders[o].reserved /\ orders[o].reserved <= rest + slack

Placing(p, side) == {w \in Workers : job[w].order.owner = p /\ job[w].order.side = side}

\* The limits are checked without a lock, so requests that run at the same time
\* may overshoot them; but only by what those requests can add, never by a
\* sequence of requests however long (player_market_service.py:134-157, 210-233).
OvershootBounded ==
    \A p \in Players, side \in {"sell", "buy"} :
        /\ Cardinality(ActiveOf(p, side)) + Cardinality(Placing(p, side))
              <= MaxActive + Cardinality(Workers) - 1
        /\ Volume(p, side) + SumOf(Placing(p, side), LAMBDA w : job[w].order.total)
              <= MaxVolume + (Cardinality(Workers) - 1) * MaxAmount

Appears(w) ==
    /\ pc[w] = "match"
    /\ orders[job[w].id].status = "none"
    /\ orders'[job[w].id].status # "none"

\* An order that comes to rest crosses no order of another player that was in
\* the book when its request looked: only two orders placed at the same time
\* can cross each other and both rest (player_market_service.py:663-697).
NoMissedMatch ==
    [][\A w \in Workers : Appears(w) =>
          \A o \in seen[w] :
              LET s == IF job[w].order.side = "sell" THEN job[w].order ELSE orders[o]
                  b == IF job[w].order.side = "sell" THEN orders[o] ELSE job[w].order
              IN  /\ orders'[job[w].id].status \in ActiveStatuses
                  /\ orders'[o].status \in ActiveStatuses
                  /\ s.side = "sell" /\ b.side = "buy" /\ s.price <= b.price
                  => s.owner = b.owner]_vars

\* A resting order is traded only once everything its request could see at a
\* better price, or at the same price and older, is used up or gone, although
\* rows are waited for one by one (player_market_service.py:671, 722).
BestPriceFirst ==
    [][\A w \in Workers : Appears(w) =>
          \A a, o \in seen[w] :
              /\ orders'[o].filled > orders[o].filled
              /\ orders[a].owner # job[w].order.owner
              /\ orders[a].side = orders[o].side
              /\ \/ orders[a].price = orders[o].price /\ a < o
                 \/ job[w].order.side = "sell" /\ orders[a].price > orders[o].price
                 \/ job[w].order.side = "buy" /\ orders[a].price < orders[o].price
              => orders'[a].status \notin ActiveStatuses]_vars

\* An order that is filled, cancelled or expired stays exactly as it is: a
\* matching that has found it while it was active, a second cancellation or a
\* sweep comes too late (player_market_service.py:281, 324, 613, 669).
ClosedIsFinal ==
    [][\A o \in OrderIds : orders[o].status \in Closed => orders'[o] = orders[o]]_vars

\* The rows are locked in one order, so requests that match against the same
\* orders never wait for each other in a circle; a sweep waits for nobody
\* (player_market_service.py:671-672, 722-723, 612).
NoWaitCycle ==
    \A D \in (SUBSET Workers) \ {{}} :
        \E w \in D : \A o \in NextRows(w) : lock[o] \notin D
================================================================================
