--------------------------- MODULE PlayerMarketProofs ---------------------------
(***************************************************************************)
(* Proofs about the order book, for any number of players, sessions and    *)
(* orders and any prices: nothing is lost or handed out twice, orders that *)
(* cross are matched at the best price first, limits hold but for what     *)
(* sessions that run at the same time can add, what is closed stays as it  *)
(* is, and requests never wait for each other in a circle.                 *)
(*                                                                         *)
(* Inv says who may write which row; the other parts of the invariant IInv *)
(* say what the rows, the requests and the handouts add up to.             *)
(***************************************************************************)
EXTENDS PlayerMarket, SumLemmas

Fields == {"side", "owner", "price", "total", "remaining", "filled", "reserved", "status"}
Sides == {"sell", "buy"}

\* What every row and every order that is being placed looks like.
Shaped(order) == DOMAIN order = Fields /\ order.price \in Int

Shapes ==
    /\ clock \in Nat
    /\ DOMAIN orders = OrderIds
    /\ \A o \in OrderIds : Shaped(orders[o])
    /\ \A o \in OrderIds : orders[o].status # "none" => orders[o].side \in Sides
    /\ pc \in [Workers -> {"idle", "insert", "match", "expire"}]
    /\ DOMAIN job = Workers
    /\ book \in [Workers -> SUBSET OrderIds]
    /\ lock \in [OrderIds -> Workers \cup {None}]

Creating == {"insert", "match"}

\* The order that is being placed has a number of its own and no row yet.
Ids ==
    /\ \A o \in OrderIds : o > clock => orders[o].status = "none"
    /\ \A w \in Workers : pc[w] \in Creating =>
          /\ job[w].id \in OrderIds /\ job[w].id <= clock /\ orders[job[w].id].status = "none"
          /\ Shaped(job[w].order) /\ job[w].order.side \in Sides
    /\ \A w, v \in Workers : w # v /\ pc[w] \in Creating /\ pc[v] \in Creating => job[w].id # job[v].id

\* A request has locked a part of its book from the front; a sweep has locked
\* orders that are active.
Books ==
    /\ \A w \in Workers : pc[w] # "match" => book[w] = {}
    /\ \A w \in Workers : \A o \in book[w] :
          orders[o].status # "none" /\ orders[o].side # job[w].order.side
    /\ \A w \in Workers, o \in OrderIds : lock[o] = w =>
          \/ pc[w] = "match" /\ o \in book[w]
          \/ pc[w] = "expire" /\ IsActive(o)
    /\ \A w \in Workers : \A a, o \in book[w] :
          lock[a] = w /\ lock[o] # w => Ahead(job[w].order, a, o)

Inv == Shapes /\ Ids /\ Books

--------------------------------------------------------------------------------
(* What steps do to the rows. *)

\* A row is changed but stays the row of the same order.
Alters(o) ==
    /\ IsActive(o)
    /\ Shaped(orders'[o]) /\ orders'[o].status # "none"
    /\ orders'[o].side = orders[o].side /\ orders'[o].price = orders[o].price

LEMMA TradedIs ==
    ASSUME NEW order, Shaped(order), NEW n
    PROVE  /\ Shaped(Traded(order, n))
           /\ Traded(order, n).side = order.side /\ Traded(order, n).price = order.price
           /\ Traded(order, n).status \in {"filled", "partially_filled", "active"}
BY DEF Traded, Shaped, Fields

LEMMA CloseIs ==
    ASSUME Shapes, NEW o \in OrderIds, NEW status
    PROVE  /\ Shaped(Close(o, status))
           /\ Close(o, status).side = orders[o].side /\ Close(o, status).price = orders[o].price
           /\ Close(o, status).status = status
BY DEF Close, Shaped, Fields, Shapes

\* Who commits writes only rows he has locked or nobody has, and the new one.
LEMMA CommitsAlter ==
    ASSUME Inv, NEW w \in Workers, CommitCreate(w) \/ CommitExpire(w)
    PROVE  /\ DOMAIN orders' = OrderIds /\ Release(w) /\ clock' = clock
           /\ \A o \in OrderIds :
                 \/ orders'[o] = orders[o]
                 \/ lock[o] \in {w, None} /\ Alters(o)
                 \/ /\ pc[w] = "match" /\ o = job[w].id
                    /\ Shaped(orders'[o]) /\ orders'[o].side \in Sides /\ orders'[o].status # "none"
<1> USE DEF Inv
<1>1. CASE CommitCreate(w)
    <2>1. pc[w] = "match" BY <1>1 DEF CommitCreate
    <2>2. Shaped(job[w].order) /\ job[w].order.side \in Sides BY <2>1 DEF Ids, Creating
    <2>3. orders' = [o \in OrderIds |->
                       IF o = job[w].id THEN Traded(job[w].order, Filled(w))
                       ELSE IF o \in Partners(w) /\ Fill(w, o) > 0
                            THEN Traded(orders[o], Fill(w, o))
                            ELSE orders[o]]
        BY <1>1 DEF CommitCreate
    <2>4. ASSUME NEW o \in OrderIds, o # job[w].id, orders'[o] # orders[o]
          PROVE  lock[o] \in {w, None} /\ Alters(o)
        <3>1. o \in Partners(w) /\ orders'[o] = Traded(orders[o], Fill(w, o)) BY <2>3, <2>4
        <3>2. lock[o] = w /\ IsActive(o) BY <3>1 DEF Partners, Mine, Matches
        <3>3. Shaped(orders[o]) BY DEF Shapes
        <3> QED BY <3>1, <3>2, <3>3, TradedIs DEF Alters
    <2>5. ASSUME NEW o \in OrderIds, o = job[w].id
          PROVE  Shaped(orders'[o]) /\ orders'[o].side \in Sides /\ orders'[o].status # "none"
        <3>1. orders'[o] = Traded(job[w].order, Filled(w)) BY <2>3, <2>5
        <3> QED BY <2>2, <3>1, TradedIs
    <2>6. Release(w) /\ clock' = clock BY <1>1 DEF CommitCreate
    <2> QED BY <2>1, <2>3, <2>4, <2>5, <2>6
<1>2. CASE CommitExpire(w)
    <2>1. /\ pc[w] = "expire" /\ Release(w) /\ clock' = clock
          /\ orders' = [o \in OrderIds |->
                          IF o \in Mine(w) \cup Due("buy") THEN Close(o, "expired") ELSE orders[o]]
        BY <1>2 DEF CommitExpire
    <2>2. ASSUME NEW o \in OrderIds, orders'[o] # orders[o]
          PROVE  lock[o] \in {w, None} /\ Alters(o)
        <3>1. o \in Mine(w) \cup Due("buy") /\ orders'[o] = Close(o, "expired") BY <2>1, <2>2
        <3>2. lock[o] \in {w, None} /\ IsActive(o) BY <2>1, <3>1 DEF Mine, Due, Books
        <3> QED BY <3>1, <3>2, CloseIs DEF Alters
    <2> QED BY <2>1, <2>2
<1> QED BY <1>1, <1>2

LEMMA CancelAlters ==
    ASSUME Inv, NEW c \in OrderIds, NEW p, Cancel(c, p)
    PROVE  /\ DOMAIN orders' = OrderIds
           /\ \A o \in OrderIds : orders'[o] = orders[o] \/ (lock[o] = None /\ Alters(o))
           /\ UNCHANGED <<clock, request>>
<1>1. lock[c] = None /\ IsActive(c) /\ orders' = [orders EXCEPT ![c] = Close(c, "cancelled")]
      /\ UNCHANGED <<clock, request>>
    BY DEF Cancel, Cancellable
<1>2. DOMAIN orders = OrderIds BY DEF Inv, Shapes
<1>3. orders'[c] = Close(c, "cancelled") /\ \A o \in OrderIds \ {c} : orders'[o] = orders[o] BY <1>1, <1>2
<1>4. Alters(c) BY <1>1, <1>3, CloseIs DEF Inv, Alters
<1>5. DOMAIN orders' = OrderIds BY <1>1, <1>2
<1>6. ASSUME NEW o \in OrderIds PROVE orders'[o] = orders[o] \/ (lock[o] = None /\ Alters(o))
    <2>1. CASE o = c BY <1>1, <1>4, <2>1
    <2>2. CASE o # c BY <1>3, <2>2
    <2> QED BY <2>1, <2>2
<1> QED BY <1>1, <1>5, <1>6

\* The steps that leave the rows alone.
LEMMA RowsLeft ==
    ASSUME NEW w \in Workers, Start(w) \/ Look(w) \/ (\E o \in OrderIds : LockRow(w, o)) \/ Abort(w)
    PROVE  orders' = orders
BY DEF Start, BeginCreate, BeginExpire, Look, LockRow, Abort, table

--------------------------------------------------------------------------------
(* Closed orders. *)

LEMMA StepIsFinal ==
    ASSUME Inv, [Next]_vars, NEW o \in OrderIds, orders[o].status \in Closed
    PROVE  orders'[o] = orders[o]
<1>1. ~IsActive(o) /\ orders[o].status # "none" BY DEF Closed, IsActive, ActiveStatuses
<1>2. CASE UNCHANGED vars \/ (\E a \in OrderIds : GrowOverdue(a)) \/ (\E h \in deliveries : Ack(h))
    BY <1>2 DEF vars, table, GrowOverdue, Ack
<1>3. ASSUME NEW c \in OrderIds, NEW p, Cancel(c, p) PROVE orders'[o] = orders[o]
    BY <1>1, <1>3, CancelAlters DEF Alters
<1>4. ASSUME NEW w \in Workers, CommitCreate(w) \/ CommitExpire(w) PROVE orders'[o] = orders[o]
    <2>1. pc[w] = "match" => o # job[w].id BY <1>1 DEF Inv, Ids, Creating
    <2> QED BY <1>1, <1>4, <2>1, CommitsAlter DEF Alters
<1> QED BY <1>2, <1>3, <1>4, RowsLeft DEF Next, Advance

--------------------------------------------------------------------------------
(* The invariant. *)

\* What an order is does not change once it has a row.
Keeps(o) ==
    /\ Shaped(orders'[o])
    /\ orders'[o].status # "none" => orders'[o].side \in Sides
    /\ orders[o].status # "none" =>
          /\ orders'[o].status # "none"
          /\ orders'[o].side = orders[o].side /\ orders'[o].price = orders[o].price

LEMMA SameKeeps ==
    ASSUME Inv, NEW o \in OrderIds, orders'[o] = orders[o] \/ Alters(o)
    PROVE  Keeps(o) /\ (orders[o].status = "none" => orders'[o].status = "none")
<1>1. Shaped(orders[o]) /\ (orders[o].status # "none" => orders[o].side \in Sides) BY DEF Inv, Shapes
<1>2. IsActive(o) => orders[o].status # "none" BY DEF IsActive, ActiveStatuses
<1> QED BY <1>1, <1>2 DEF Keeps, Alters

LEMMA AheadOrAfter ==
    ASSUME Inv, NEW new, NEW a \in OrderIds, NEW o \in OrderIds, a # o
    PROVE  Ahead(new, a, o) \/ Ahead(new, o, a)
<1>1. orders[a].price \in Int /\ orders[o].price \in Int /\ a \in Int /\ o \in Int
    BY DEF Inv, Shapes, Shaped, OrderIds
<1> QED BY <1>1 DEF Ahead

\* The request of a worker ends.
LEMMA ReleaseKeeps ==
    ASSUME Inv, NEW w \in Workers, Release(w), clock' = clock, DOMAIN orders' = OrderIds,
           \A o \in OrderIds : Keeps(o),
           \A o \in OrderIds :
              \/ orders'[o] = orders[o]
              \/ lock[o] \in {w, None} /\ Alters(o)
              \/ pc[w] = "match" /\ o = job[w].id
    PROVE  Inv'
<1> USE DEF Inv
<1>1. /\ \A v \in Workers \ {w} : pc'[v] = pc[v] /\ job'[v] = job[v] /\ book'[v] = book[v]
      /\ pc'[w] = "idle" /\ book'[w] = {}
      /\ \A o \in OrderIds : lock'[o] = IF lock[o] = w THEN None ELSE lock[o]
    BY DEF Release, Shapes
<1>2. Shapes'
    <2>1. /\ pc' \in [Workers -> {"idle", "insert", "match", "expire"}]
          /\ DOMAIN job' = Workers
          /\ book' \in [Workers -> SUBSET OrderIds]
          /\ lock' \in [OrderIds -> Workers \cup {None}]
        BY DEF Release, Shapes
    <2>2. clock' \in Nat BY DEF Shapes
    <2> QED BY <2>1, <2>2 DEF Shapes, Keeps
<1>3. ASSUME NEW o \in OrderIds, orders[o].status = "none", ~(pc[w] = "match" /\ o = job[w].id)
      PROVE  orders'[o].status = "none"
    BY <1>3, SameKeeps
<1>4. Ids'
    <2>1. ASSUME NEW o \in OrderIds, o > clock' PROVE orders'[o].status = "none"
        <3>1. orders[o].status = "none" BY <2>1 DEF Ids
        <3>2. ~(pc[w] = "match" /\ o = job[w].id) BY <2>1 DEF Ids, Creating, OrderIds, Shapes
        <3> QED BY <1>3, <3>1, <3>2
    <2>2. ASSUME NEW v \in Workers, pc'[v] \in Creating
          PROVE  /\ v # w /\ pc[v] \in Creating /\ job'[v] = job[v]
                 /\ job[v].id \in OrderIds /\ job[v].id <= clock' /\ orders'[job[v].id].status = "none"
                 /\ Shaped(job[v].order) /\ job[v].order.side \in Sides
        <3>1. v # w /\ pc[v] \in Creating /\ job'[v] = job[v] BY <1>1, <2>2 DEF Creating
        <3>2. ~(pc[w] = "match" /\ job[v].id = job[w].id) BY <3>1 DEF Ids, Creating
        <3>3. job[v].id \in OrderIds /\ orders[job[v].id].status = "none" BY <3>1 DEF Ids
        <3>4. orders'[job[v].id].status = "none" BY <1>3, <3>2, <3>3
        <3> QED BY <3>1, <3>3, <3>4 DEF Ids
    <2> QED BY <2>1, <2>2 DEF Ids
<1>5. Books'
    <2>1. ASSUME NEW v \in Workers, pc'[v] # "match" PROVE book'[v] = {}
        <3>1. CASE v = w BY <1>1, <3>1
        <3>2. CASE v # w BY <1>1, <2>1, <3>2 DEF Books
        <3> QED BY <3>1, <3>2
    <2>2. ASSUME NEW v \in Workers, NEW o \in book'[v]
          PROVE  /\ v # w /\ o \in OrderIds /\ o \in book[v] /\ job'[v] = job[v]
                 /\ orders'[o].status # "none" /\ orders'[o].side # job'[v].order.side
                 /\ orders'[o].price = orders[o].price
        <3>1. v # w /\ o \in book[v] /\ job'[v] = job[v] BY <1>1
        <3>2. o \in OrderIds BY <3>1 DEF Shapes
        <3> QED BY <3>1, <3>2 DEF Books, Keeps
    <2>3. ASSUME NEW v \in Workers, NEW o \in OrderIds, lock'[o] = v
          PROVE  (pc'[v] = "match" /\ o \in book'[v]) \/ (pc'[v] = "expire" /\ IsActive(o)')
        <3>1. v # w /\ lock[o] = v /\ v # None BY <1>1, <2>3, MarketConstants
        <3>2. pc'[v] = pc[v] /\ book'[v] = book[v] BY <1>1, <3>1
        <3>3. CASE pc[v] = "match" /\ o \in book[v] BY <3>2, <3>3
        <3>4. CASE pc[v] = "expire" /\ IsActive(o)
            <4>1. ~(pc[w] = "match" /\ o = job[w].id)
                BY <3>4 DEF Ids, Creating, IsActive, ActiveStatuses
            <4>2. orders'[o] = orders[o] BY <3>1, <4>1
            <4> QED BY <3>2, <3>4, <4>2 DEF IsActive
        <3> QED BY <3>1, <3>3, <3>4 DEF Books
    <2>4. ASSUME NEW v \in Workers, NEW a \in book'[v], NEW o \in book'[v], lock'[a] = v, lock'[o] # v
          PROVE  Ahead(job[v].order, a, o)' /\ job'[v].order = job[v].order
        <3>1. /\ a \in OrderIds /\ o \in OrderIds /\ a \in book[v] /\ o \in book[v] /\ v # w
              /\ orders'[a].price = orders[a].price /\ orders'[o].price = orders[o].price
            BY <2>2
        <3>2. lock[a] = v /\ lock[o] # v BY <1>1, <2>4, <3>1, MarketConstants
        <3>3. Ahead(job[v].order, a, o) BY <3>1, <3>2 DEF Books
        <3> QED BY <1>1, <3>1, <3>3 DEF Ahead
    <2>5. ASSUME NEW v \in Workers, NEW a \in book'[v], NEW o \in book'[v], lock'[a] = v, lock'[o] # v
          PROVE  Ahead(job[v].order, a, o)'
        BY <2>4, <2>5
    <2> QED BY <2>1, <2>2, <2>3, <2>5 DEF Books
<1> QED BY <1>2, <1>4, <1>5

LEMMA CommitsKeep ==
    ASSUME Inv, NEW w \in Workers, CommitCreate(w) \/ CommitExpire(w)
    PROVE  Inv'
<1>1. ASSUME NEW o \in OrderIds PROVE Keeps(o)
    <2>1. CASE orders'[o] = orders[o] \/ Alters(o) BY <2>1, SameKeeps
    <2>2. CASE /\ pc[w] = "match" /\ o = job[w].id
               /\ Shaped(orders'[o]) /\ orders'[o].side \in Sides /\ orders'[o].status # "none"
        BY <2>2 DEF Keeps, Inv, Ids, Creating
    <2> QED BY <2>1, <2>2, CommitsAlter
<1> QED BY <1>1, CommitsAlter, ReleaseKeeps

LEMMA AbortsKeep ==
    ASSUME Inv, NEW w \in Workers, Abort(w)
    PROVE  Inv'
<1>1. Release(w) /\ clock' = clock /\ orders' = orders BY DEF Abort, table
<1>2. \A o \in OrderIds : Keeps(o) BY <1>1, SameKeeps
<1> QED BY <1>1, <1>2, ReleaseKeeps DEF Inv, Shapes

LEMMA CancelKeeps ==
    ASSUME Inv, NEW c \in OrderIds, NEW p, Cancel(c, p)
    PROVE  Inv'
<1> USE DEF Inv, request
<1>1. /\ DOMAIN orders' = OrderIds /\ UNCHANGED <<clock, pc, job, book, lock>>
      /\ \A o \in OrderIds : orders'[o] = orders[o] \/ (lock[o] = None /\ Alters(o))
    BY CancelAlters
<1>2. \A o \in OrderIds : Keeps(o) /\ (orders[o].status = "none" => orders'[o].status = "none")
    BY <1>1, SameKeeps
<1>3. Shapes' BY <1>1, <1>2 DEF Shapes, Keeps
<1>4. Ids' BY <1>1, <1>2 DEF Ids
<1>5. Books'
    <2>1. ASSUME NEW w \in Workers, NEW o \in book[w]
          PROVE  /\ o \in OrderIds /\ orders'[o].status # "none"
                 /\ orders'[o].side # job[w].order.side /\ orders'[o].price = orders[o].price
        <3>1. o \in OrderIds BY DEF Shapes
        <3> QED BY <1>2, <3>1 DEF Books, Keeps
    <2>2. ASSUME NEW w \in Workers, NEW o \in OrderIds, lock[o] = w, IsActive(o)
          PROVE  IsActive(o)'
        BY <1>1, <2>2, MarketConstants DEF IsActive
    <2>3. ASSUME NEW w \in Workers, NEW a \in book[w], NEW o \in book[w], lock[a] = w, lock[o] # w
          PROVE  Ahead(job[w].order, a, o)'
        <3>1. Ahead(job[w].order, a, o) BY <2>3 DEF Books
        <3>2. orders'[a].price = orders[a].price /\ orders'[o].price = orders[o].price BY <2>1
        <3> QED BY <1>1, <3>1, <3>2 DEF Ahead
    <2>4. \A w \in Workers, o \in OrderIds : lock[o] = w =>
             \/ pc[w] = "match" /\ o \in book[w]
             \/ pc[w] = "expire" /\ IsActive(o)'
        BY <2>2 DEF Books
    <2> QED BY <1>1, <2>1, <2>3, <2>4 DEF Books
<1> QED BY <1>3, <1>4, <1>5

LEMMA BeginCreateKeeps ==
    ASSUME Inv, NEW w \in Workers, NEW side \in Sides, NEW p, NEW price \in Prices,
           NEW amount, NEW reserved, BeginCreate(w, side, p, price, amount, reserved)
    PROVE  Inv'
<1> USE DEF Inv
<1> DEFINE order == [side |-> side, owner |-> p, price |-> price, total |-> amount,
                     remaining |-> amount, filled |-> 0, reserved |-> reserved, status |-> "active"]
<1>1. Shaped(order) /\ order.side = side BY MarketConstants DEF Shaped, Fields
<1>2. /\ pc[w] = "idle" /\ clock < MaxOrders /\ clock' = clock + 1
      /\ pc' = [pc EXCEPT ![w] = "insert"]
      /\ job' = [job EXCEPT ![w] = [id |-> clock + 1, order |-> order]]
      /\ UNCHANGED <<orders, book, lock>>
    BY DEF BeginCreate, table
<1> HIDE DEF order
<1>3. /\ \A v \in Workers \ {w} : pc'[v] = pc[v] /\ job'[v] = job[v]
      /\ pc'[w] = "insert" /\ job'[w].id = clock + 1 /\ job'[w].order = order
    BY <1>2 DEF Shapes
<1>4. Shapes' BY <1>2 DEF Shapes
<1>5. Ids'
    <2>1. \A o \in OrderIds : o > clock' => orders'[o].status = "none"
        BY <1>2 DEF Ids, Shapes, OrderIds
    <2>2. ASSUME NEW v \in Workers, pc'[v] \in Creating, v # w
          PROVE  /\ pc[v] \in Creating /\ job'[v] = job[v]
                 /\ job'[v].id \in OrderIds /\ job'[v].id <= clock' /\ job'[v].id # clock + 1
                 /\ orders'[job'[v].id].status = "none"
                 /\ Shaped(job'[v].order) /\ job'[v].order.side \in Sides
        <3>1. pc[v] \in Creating /\ job'[v] = job[v] BY <1>3, <2>2
        <3>2. /\ job[v].id \in OrderIds /\ job[v].id <= clock /\ orders[job[v].id].status = "none"
              /\ Shaped(job[v].order) /\ job[v].order.side \in Sides
            BY <3>1 DEF Ids
        <3> QED BY <1>2, <3>1, <3>2 DEF Shapes, OrderIds
    <2>3. \A o \in OrderIds : orders[o].status = "none" \/ o <= clock BY DEF Ids, Shapes, OrderIds
    <2>4. clock + 1 \in OrderIds BY <1>2, MarketConstants DEF OrderIds, Shapes
    <2> QED BY <1>1, <1>2, <1>3, <2>1, <2>2, <2>3, <2>4 DEF Ids, Shapes
<1>6. Books'
    <2>1. book[w] = {} BY <1>2 DEF Books
    <2>2. \A v \in Workers : pc'[v] # "match" => book[v] = {} BY <1>3, <2>1 DEF Books
    <2>3. ASSUME NEW v \in Workers, v # w
          PROVE  /\ pc'[v] = pc[v] /\ job'[v] = job[v]
                 /\ \A a, o \in OrderIds : Ahead(job[v].order, a, o)' <=> Ahead(job[v].order, a, o)
        BY <1>2, <1>3, <2>3 DEF Ahead
    <2>4. ASSUME NEW v \in Workers, NEW o \in OrderIds, lock[o] = v
          PROVE  v # w /\ (IsActive(o)' <=> IsActive(o))
        BY <1>2, <2>4 DEF Books, IsActive
    <2>5. ASSUME NEW v \in Workers, NEW a \in book[v], NEW o \in book[v], lock[a] = v, lock[o] # v
          PROVE  Ahead(job[v].order, a, o)'
        <3>1. v # w /\ a \in OrderIds /\ o \in OrderIds BY <2>1 DEF Shapes
        <3> QED BY <2>3, <2>5, <3>1 DEF Books
    <2>6. \A v \in Workers : \A o \in book[v] :
             orders'[o].status # "none" /\ orders'[o].side # job'[v].order.side
        BY <1>2, <2>1, <2>3 DEF Books
    <2>7. \A v \in Workers, o \in OrderIds : lock[o] = v =>
             \/ pc'[v] = "match" /\ o \in book[v]
             \/ pc'[v] = "expire" /\ IsActive(o)'
        BY <2>3, <2>4 DEF Books
    <2> QED BY <1>2, <2>2, <2>5, <2>6, <2>7 DEF Books
<1> QED BY <1>4, <1>5, <1>6

LEMMA LookKeeps ==
    ASSUME Inv, NEW w \in Workers, Look(w)
    PROVE  Inv'
<1> USE DEF Inv
<1>1. /\ pc[w] = "insert" /\ pc' = [pc EXCEPT ![w] = "match"]
      /\ book' = [book EXCEPT ![w] = {o \in OrderIds : Matches(job[w].order, o)}]
      /\ UNCHANGED <<orders, clock, job, lock>>
    BY DEF Look, table
<1>2. /\ \A v \in Workers \ {w} : pc'[v] = pc[v] /\ book'[v] = book[v]
      /\ pc'[w] = "match" /\ \A o \in book'[w] : o \in OrderIds /\ Matches(job[w].order, o)
    BY <1>1 DEF Shapes
<1>3. Shapes' BY <1>1 DEF Shapes
<1>4. Ids' BY <1>1, <1>2 DEF Ids, Creating
<1>5. \A o \in OrderIds : lock[o] # w BY <1>1 DEF Books
<1>6. Books'
    <2>1. \A v \in Workers : pc'[v] # "match" => book'[v] = {} BY <1>2 DEF Books
    <2>2. ASSUME NEW v \in Workers, NEW o \in book'[v]
          PROVE  orders'[o].status # "none" /\ orders'[o].side # job'[v].order.side
        <3>1. CASE v = w BY <1>1, <1>2, <3>1 DEF Matches, IsActive, ActiveStatuses
        <3>2. CASE v # w BY <1>1, <1>2, <3>2 DEF Books
        <3> QED BY <3>1, <3>2
    <2>3. ASSUME NEW v \in Workers, NEW o \in OrderIds, lock[o] = v
          PROVE  (pc'[v] = "match" /\ o \in book'[v]) \/ (pc'[v] = "expire" /\ IsActive(o)')
        BY <1>1, <1>2, <1>5, <2>3 DEF Books, IsActive
    <2>4. ASSUME NEW v \in Workers, NEW a \in book'[v], NEW o \in book'[v], lock'[a] = v, lock'[o] # v
          PROVE  Ahead(job[v].order, a, o)'
        <3>1. v # w BY <1>1, <1>2, <1>5, <2>4
        <3>2. a \in book[v] /\ o \in book[v] BY <1>2, <3>1
        <3>3. Ahead(job[v].order, a, o) BY <1>1, <2>4, <3>2 DEF Books
        <3> QED BY <1>1, <3>3 DEF Ahead
    <2> QED BY <1>1, <2>1, <2>2, <2>3, <2>4 DEF Books
<1> QED BY <1>3, <1>4, <1>6

LEMMA LockRowKeeps ==
    ASSUME Inv, NEW w \in Workers, NEW r \in OrderIds, LockRow(w, r)
    PROVE  Inv'
<1> USE DEF Inv
<1>1. /\ pc[w] = "match" /\ r \in NextRows(w) /\ lock[r] = None /\ lock' = [lock EXCEPT ![r] = w]
      /\ UNCHANGED <<orders, clock, pc, job, book>>
    BY DEF LockRow, table
<1>2. \A o \in OrderIds : lock'[o] = IF o = r THEN w ELSE lock[o] BY <1>1 DEF Shapes
<1>3. Shapes' BY <1>1 DEF Shapes
<1>4. Ids' BY <1>1 DEF Ids
<1>5. /\ r \in book[w]
      /\ \A a \in book[w] : lock[a] # w => ~Ahead(job[w].order, a, r)
    BY <1>1 DEF NextRows
<1>6. Books'
    <2>1. ASSUME NEW v \in Workers, NEW o \in OrderIds, lock'[o] = v
          PROVE  (pc[v] = "match" /\ o \in book[v]) \/ (pc[v] = "expire" /\ IsActive(o))
        BY <1>1, <1>2, <1>5, <2>1 DEF Books
    <2>2. ASSUME NEW v \in Workers, NEW a \in book[v], NEW o \in book[v], lock'[a] = v, lock'[o] # v
          PROVE  Ahead(job[v].order, a, o)
        <3>1. a \in OrderIds /\ o \in OrderIds BY DEF Shapes
        <3>2. CASE a = r
            <4>1. v = w /\ o # r /\ lock[o] # w BY <1>2, <2>2, <3>1, <3>2
            <4>2. ~Ahead(job[w].order, o, r) BY <1>5, <4>1
            <4> QED BY <3>1, <3>2, <4>1, <4>2, AheadOrAfter
        <3>3. CASE a # r
            <4>1. lock[a] = v /\ lock[o] # v BY <1>1, <1>2, <2>2, <3>1, <3>3, MarketConstants
            <4> QED BY <4>1 DEF Books
        <3> QED BY <3>2, <3>3
    <2>3. ASSUME NEW v \in Workers, NEW a \in book[v], NEW o \in book[v], lock'[a] = v, lock'[o] # v
          PROVE  Ahead(job[v].order, a, o)'
        BY <1>1, <2>2, <2>3 DEF Ahead
    <2> QED BY <1>1, <2>1, <2>3 DEF Books, IsActive
<1> QED BY <1>3, <1>4, <1>6

LEMMA BeginExpireKeeps ==
    ASSUME Inv, NEW w \in Workers, BeginExpire(w)
    PROVE  Inv'
<1> USE DEF Inv
<1>1. /\ pc[w] = "idle" /\ pc' = [pc EXCEPT ![w] = "expire"]
      /\ lock' = [o \in OrderIds |-> IF o \in Due("sell") THEN w ELSE lock[o]]
      /\ UNCHANGED <<orders, clock, job, book>>
    BY DEF BeginExpire, table
<1>2. /\ \A v \in Workers \ {w} : pc'[v] = pc[v]
      /\ pc'[w] = "expire"
      /\ \A o \in OrderIds : \/ lock'[o] = lock[o]
                             \/ lock'[o] = w /\ lock[o] = None /\ IsActive(o)
    BY <1>1 DEF Shapes, Due
<1>3. Shapes' BY <1>1 DEF Shapes
<1>4. Ids' BY <1>1, <1>2 DEF Ids, Creating
<1>5. book[w] = {} /\ \A o \in OrderIds : lock[o] # w BY <1>1 DEF Books
<1>6. Books'
    <2>1. \A v \in Workers : pc'[v] # "match" => book[v] = {} BY <1>2, <1>5 DEF Books
    <2>2. ASSUME NEW v \in Workers, NEW o \in OrderIds, lock'[o] = v
          PROVE  (pc'[v] = "match" /\ o \in book[v]) \/ (pc'[v] = "expire" /\ IsActive(o))
        <3>1. CASE lock'[o] = w /\ lock[o] = None /\ IsActive(o) BY <1>2, <2>2, <3>1
        <3>2. CASE lock'[o] = lock[o] BY <1>2, <1>5, <2>2, <3>2 DEF Books
        <3> QED BY <1>2, <3>1, <3>2
    <2>3. ASSUME NEW v \in Workers, NEW a \in book[v], NEW o \in book[v], lock'[a] = v, lock'[o] # v
          PROVE  Ahead(job[v].order, a, o)'
        <3>1. v # w /\ a \in OrderIds /\ o \in OrderIds BY <1>5 DEF Shapes
        <3>2. lock[a] = v BY <1>2, <2>3, <3>1
        <3>3. lock[o] # v BY <1>2, <2>3, <3>1, MarketConstants
        <3>4. Ahead(job[v].order, a, o) BY <3>2, <3>3 DEF Books
        <3> QED BY <1>1, <3>4 DEF Ahead
    <2> QED BY <1>1, <2>1, <2>2, <2>3 DEF Books, IsActive
<1> QED BY <1>3, <1>4, <1>6

LEMMA InvInit == Init => Inv
<1> SUFFICES ASSUME Init PROVE Inv OBVIOUS
<1> USE DEF Init
<1>1. Shapes BY DEF Shapes, Shaped, NoOrder, Fields
<1>2. Ids BY DEF Ids, NoOrder, Creating
<1>3. Books BY MarketConstants DEF Books
<1> QED BY <1>1, <1>2, <1>3 DEF Inv

LEMMA InvNext == Inv /\ [Next]_vars => Inv'
<1> SUFFICES ASSUME Inv, [Next]_vars PROVE Inv' OBVIOUS
<1>1. CASE UNCHANGED vars \/ (\E o \in OrderIds : GrowOverdue(o)) \/ (\E h \in deliveries : Ack(h))
    <2>1. UNCHANGED <<orders, clock, pc, job, book, lock>>
        BY <1>1 DEF vars, table, request, GrowOverdue, Ack
    <2>2. Shapes' /\ Ids' BY <2>1 DEF Inv, Shapes, Ids
    <2>3. Books' BY <2>1 DEF Inv, Books, IsActive, Ahead
    <2> QED BY <2>2, <2>3 DEF Inv
<1>2. ASSUME NEW o \in OrderIds, NEW p, Cancel(o, p) PROVE Inv' BY <1>2, CancelKeeps
<1>3. ASSUME NEW w \in Workers, Start(w) PROVE Inv'
    BY <1>3, BeginCreateKeeps, BeginExpireKeeps DEF Start, Sides
<1>4. ASSUME NEW w \in Workers, Advance(w) PROVE Inv'
    BY <1>4, LookKeeps, LockRowKeeps, CommitsKeep DEF Advance
<1>5. ASSUME NEW w \in Workers, Abort(w) PROVE Inv' BY <1>5, AbortsKeep
<1> QED BY <1>1, <1>2, <1>3, <1>4, <1>5 DEF Next

\* An order that is filled, cancelled or expired stays exactly as it is, for any
\* number of requests that have found it while it was active
\* (player_market_service.py:281, 324, 613, 669).
THEOREM ClosedStaysFinal == Spec => ClosedIsFinal
<1>1. Inv /\ [Next]_vars => [\A o \in OrderIds : orders[o].status \in Closed => orders'[o] = orders[o]]_vars
    BY StepIsFinal
<1> QED BY <1>1, InvInit, InvNext, PTL DEF Spec, ClosedIsFinal

--------------------------------------------------------------------------------
(* Waiting. *)

\* How many orders come after one for the matching of a new order.
After(new, o) == {a \in OrderIds : Ahead(new, o, a)}
Rank(new, o) == Cardinality(After(new, o))

LEMMA AfterIsFewer ==
    ASSUME Inv, NEW new, NEW a \in OrderIds, NEW o \in OrderIds, a # o, Ahead(new, a, o)
    PROVE  Rank(new, o) \in Nat /\ Rank(new, a) \in Nat /\ Rank(new, o) < Rank(new, a)
<1>1. \A b \in OrderIds : b \in Int /\ orders[b].price \in Int
    BY DEF Inv, Shapes, Shaped, OrderIds
<1>2. IsFiniteSet(OrderIds) BY FS_Interval, MarketConstants DEF OrderIds
<1>3. IsFiniteSet(After(new, a)) /\ IsFiniteSet(After(new, o)) BY <1>2, FS_Subset DEF After
<1>4. After(new, o) \subseteq After(new, a)
    <2>1. ASSUME NEW b \in OrderIds, Ahead(new, o, b) PROVE Ahead(new, a, b)
        BY <1>1, <2>1 DEF Ahead
    <2> QED BY <2>1 DEF After
<1>5. o \in After(new, a) /\ o \notin After(new, o) BY <1>1 DEF After, Ahead
<1>6. Cardinality(After(new, o)) \in Nat /\ Cardinality(After(new, a)) \in Nat
    BY <1>3, FS_CardinalityType
<1>7. Cardinality(After(new, o)) # Cardinality(After(new, a)) /\ Cardinality(After(new, o)) <= Cardinality(After(new, a))
    BY <1>3, <1>4, <1>5, FS_Subset
<1> QED BY <1>6, <1>7 DEF Rank

\* Who waits in a circle waits for one who matches an order of the same side,
\* and who waits further back.
LEMMA WaitsFurtherBack ==
    ASSUME Inv, NEW D \in SUBSET Workers,
           NEW w \in D, NEW o \in NextRows(w), lock[o] \in D,
           NEW r \in NextRows(lock[o])
    PROVE  /\ o \in OrderIds /\ r \in OrderIds /\ r # o
           /\ job[lock[o]].order.side = job[w].order.side
           /\ Ahead(job[w].order, o, r)
<1> DEFINE v == lock[o]
<1> USE DEF Inv
<1>1. o \in book[w] /\ r \in book[v] /\ lock[r] # v /\ v \in Workers /\ w \in Workers
    BY DEF NextRows
<1>2. o \in OrderIds /\ r \in OrderIds BY <1>1 DEF Shapes
<1>3. pc[v] = "match" /\ o \in book[v] BY <1>1, <1>2 DEF Books
<1>4. pc[w] = "match" BY <1>1 DEF Books
<1>5. /\ orders[o].side \in Sides /\ job[v].order.side \in Sides /\ job[w].order.side \in Sides
      /\ orders[o].side # job[v].order.side /\ orders[o].side # job[w].order.side
    BY <1>1, <1>2, <1>3, <1>4 DEF Shapes, Ids, Books, Creating
<1>6. job[v].order.side = job[w].order.side BY <1>5 DEF Sides
<1>7. Ahead(job[v].order, o, r) BY <1>1, <1>3 DEF Books
<1>8. Ahead(job[w].order, o, r) BY <1>6, <1>7 DEF Ahead
<1> QED BY <1>1, <1>2, <1>6, <1>8

LEMMA InvNoWaitCycle == Inv => NoWaitCycle
<1> SUFFICES ASSUME Inv, NEW D \in SUBSET Workers, D # {},
                    \A w \in D : \E o \in NextRows(w) : lock[o] \in D
             PROVE  FALSE
    BY DEF NoWaitCycle
<1>1. PICK w0 \in D : TRUE OBVIOUS
<1> DEFINE new == job[w0].order
           Awaited == {o \in OrderIds : \E w \in D : /\ job[w].order.side = new.side
                                                   /\ o \in NextRows(w) /\ lock[o] \in D}
           Ranks == {Rank(new, o) : o \in Awaited}
<1>2. ASSUME NEW o \in Awaited
      PROVE  \E r \in Awaited : r # o /\ Ahead(new, o, r)
    <2>1. PICK w \in D : job[w].order.side = new.side /\ o \in NextRows(w) /\ lock[o] \in D OBVIOUS
    <2>2. PICK r \in NextRows(lock[o]) : lock[r] \in D BY <2>1
    <2>3. /\ r \in OrderIds /\ r # o /\ job[lock[o]].order.side = job[w].order.side
          /\ Ahead(job[w].order, o, r)
        BY <2>1, <2>2, WaitsFurtherBack
    <2>4. r \in Awaited BY <2>1, <2>2, <2>3
    <2>5. Ahead(new, o, r) BY <2>1, <2>3 DEF Ahead
    <2> QED BY <2>3, <2>4, <2>5
<1>3. \A o \in Awaited : \E r \in Awaited :
         Rank(new, o) \in Nat /\ Rank(new, r) \in Nat /\ Rank(new, r) < Rank(new, o)
    <2>1. Awaited \subseteq OrderIds OBVIOUS
    <2> HIDE DEF Awaited, new
    <2> QED BY <1>2, <2>1, AfterIsFewer
<1>4. Awaited # {}
    <2>1. PICK o \in NextRows(w0) : lock[o] \in D OBVIOUS
    <2>2. o \in OrderIds BY <2>1 DEF NextRows, Inv, Shapes
    <2> QED BY <2>1, <2>2
<1> HIDE DEF Awaited, new
<1>5. Ranks \subseteq Nat /\ Ranks # {} BY <1>3, <1>4
<1>6. PICK n \in Ranks : \A m \in Ranks : ~(m < n) BY <1>5, LeastNumber
<1> QED BY <1>3, <1>6

\* Requests lock rows in one order, so however many match orders of the book at
\* the same time, they never wait for each other in a circle
\* (player_market_service.py:671-672, 722-723).
THEOREM NobodyWaitsInACircle == Spec => []NoWaitCycle
<1>1. Spec => []Inv BY InvInit, InvNext, PTL DEF Spec
<1> QED BY <1>1, InvNoWaitCycle, PTL

--------------------------------------------------------------------------------
(* Matching.  The rows a request has locked are lined up in the order of the     *)
(* ORDER BY; each takes what those ahead of it have left over.                   *)

LEMMA OrdersFinite == IsFiniteSet(OrderIds) /\ \A o \in OrderIds : o \in Nat \ {0}
BY FS_Interval, MarketConstants DEF OrderIds

LEMMA AheadIsStrict ==
    ASSUME Inv, NEW new, NEW a \in OrderIds, NEW b \in OrderIds, NEW c \in OrderIds
    PROVE  /\ ~Ahead(new, a, a)
           /\ Ahead(new, a, b) => ~Ahead(new, b, a)
           /\ Ahead(new, a, b) /\ Ahead(new, b, c) => Ahead(new, a, c)
<1>1. \A o \in OrderIds : o \in Int /\ orders[o].price \in Int
    BY DEF Inv, Shapes, Shaped, OrderIds
<1> QED BY <1>1 DEF Ahead

\* Of some orders one is last, and one is first.
LEMMA LastOf ==
    ASSUME Inv, NEW new, NEW B \in SUBSET OrderIds, B # {}
    PROVE  \E o \in B : \A a \in B : a # o => Ahead(new, a, o)
<1> DEFINE Ranks == {Rank(new, o) : o \in B}
<1>1. \A o \in OrderIds : Rank(new, o) \in Nat
    <2>1. ASSUME NEW o \in OrderIds PROVE IsFiniteSet(After(new, o))
        BY OrdersFinite, FS_Subset DEF After
    <2> QED BY <2>1, FS_CardinalityType DEF Rank
<1>2. PICK n \in Ranks : \A m \in Ranks : ~(m < n)
    <2>1. Ranks \subseteq Nat /\ Ranks # {} BY <1>1
    <2> HIDE DEF Ranks
    <2> QED BY <2>1, LeastNumber
<1>3. PICK o \in B : n = Rank(new, o) BY <1>2
<1>4. ASSUME NEW a \in B, a # o PROVE Ahead(new, a, o)
    <2>1. ~(Rank(new, a) < Rank(new, o)) BY <1>2, <1>3
    <2>2. ~Ahead(new, o, a) BY <1>4, <2>1, AfterIsFewer
    <2> QED BY <1>4, <2>2, AheadOrAfter
<1> QED BY <1>4

LEMMA FirstOf ==
    ASSUME Inv, NEW new, NEW B \in SUBSET OrderIds, B # {}
    PROVE  \E o \in B : \A a \in B : ~Ahead(new, a, o)
<1> DEFINE Ranks == {MaxOrders - Rank(new, o) : o \in B}
<1>1. \A o \in OrderIds : Rank(new, o) \in Nat /\ Rank(new, o) <= MaxOrders
    <2>1. ASSUME NEW o \in OrderIds
          PROVE  IsFiniteSet(After(new, o)) /\ Cardinality(After(new, o)) <= Cardinality(OrderIds)
        BY OrdersFinite, FS_Subset DEF After
    <2>2. Cardinality(OrderIds) = MaxOrders BY FS_Interval, MarketConstants DEF OrderIds
    <2> QED BY <2>1, <2>2, FS_CardinalityType DEF Rank
<1>2. PICK n \in Ranks : \A m \in Ranks : ~(m < n)
    <2>1. Ranks \subseteq Nat /\ Ranks # {} BY <1>1, MarketConstants
    <2> HIDE DEF Ranks
    <2> QED BY <2>1, LeastNumber
<1>3. PICK o \in B : n = MaxOrders - Rank(new, o) BY <1>2
<1>4. ASSUME NEW a \in B, Ahead(new, a, o) PROVE FALSE
    <2>1. ~(MaxOrders - Rank(new, a) < MaxOrders - Rank(new, o)) BY <1>2, <1>3
    <2>2. a # o BY <1>4, AheadIsStrict
    <2>3. Rank(new, o) < Rank(new, a) BY <1>4, <2>2, AfterIsFewer
    <2> QED BY <1>1, <2>1, <2>3, MarketConstants
<1> QED BY <1>4

\* When there is no next row, all are locked.
LEMMA AllLocked ==
    ASSUME Inv, NEW w \in Workers, NextRows(w) = {}
    PROVE  \A o \in book[w] : lock[o] = w
<1> DEFINE B == {o \in book[w] : lock[o] # w}
<1>1. ASSUME B # {} PROVE FALSE
    <2>1. B \in SUBSET OrderIds BY DEF Inv, Shapes
    <2> HIDE DEF B
    <2>2. PICK o \in B : \A a \in B : ~Ahead(job[w].order, a, o) BY <1>1, <2>1, FirstOf
    <2>3. o \in NextRows(w) BY <2>2 DEF B, NextRows
    <2> QED BY <2>3
<1> QED BY <1>1

Line(w, o) == {a \in Partners(w) : Ahead(job[w].order, a, o)}
Stock(w) == [o \in Partners(w) |-> orders[o].remaining]
Share(w) == [o \in Partners(w) |-> Fill(w, o)]

\* What the partners have left and what is asked for are amounts.
Counted(w) == job[w].order.total \in Nat /\ \A o \in Partners(w) : orders[o].remaining \in Nat

LEMMA PartnersAre ==
    ASSUME NEW w \in Workers
    PROVE  /\ Partners(w) \subseteq OrderIds /\ IsFiniteSet(Partners(w))
           /\ \A o : Line(w, o) \subseteq Partners(w) /\ IsFiniteSet(Line(w, o))
<1>1. Partners(w) \subseteq OrderIds /\ \A o : Line(w, o) \subseteq Partners(w)
    BY DEF Partners, Mine, Line
<1> QED BY <1>1, OrdersFinite, FS_Subset

LEMMA FillIs ==
    ASSUME Inv, NEW w \in Workers, Counted(w), NEW o \in Partners(w)
    PROVE  LET taken == SumFunctionOnSet(Stock(w), Line(w, o))
           IN  /\ taken \in Nat
               /\ Fill(w, o) = Least(FromZero(job[w].order.total - taken), orders[o].remaining)
               /\ Fill(w, o) \in Nat /\ Fill(w, o) <= orders[o].remaining
<1> DEFINE taken == SumFunctionOnSet(Stock(w), Line(w, o))
           left == [a \in Line(w, o) |-> orders[a].remaining]
<1>1. Line(w, o) \subseteq Partners(w) /\ IsFiniteSet(Line(w, o)) BY PartnersAre
<1>2. \A a \in Line(w, o) : Stock(w)[a] \in Nat /\ left[a] = Stock(w)[a] BY <1>1 DEF Stock, Counted
<1>3. Fill(w, o) = Least(FromZero(job[w].order.total - SumFunctionOnSet(left, Line(w, o))), orders[o].remaining)
    BY DEF Fill, SumOf, Line
<1> HIDE DEF left
<1>4. SumFunctionOnSet(left, Line(w, o)) = taken BY <1>1, <1>2, SumSame
<1>5. taken \in Nat BY <1>1, <1>2, SumNat
<1>6. orders[o].remaining \in Nat /\ job[w].order.total \in Nat BY DEF Counted
<1> HIDE DEF taken
<1>7. Fill(w, o) = Least(FromZero(job[w].order.total - taken), orders[o].remaining) BY <1>3, <1>4
<1>8. Fill(w, o) \in Nat /\ Fill(w, o) <= orders[o].remaining BY <1>5, <1>6, <1>7 DEF Least, FromZero
<1> QED BY <1>5, <1>7, <1>8 DEF taken

\* The partners up to some place take all they have, or all that is asked for.
LEMMA SharesUpTo ==
    ASSUME Inv, NEW w \in Workers, Counted(w), NEW S \in SUBSET Partners(w),
           \A o \in S : Line(w, o) \subseteq S
    PROVE  SumFunctionOnSet(Share(w), S) = Least(job[w].order.total, SumFunctionOnSet(Stock(w), S))
<1> DEFINE new == job[w].order
           Good(T) == SumFunctionOnSet(Share(w), T) = Least(new.total, SumFunctionOnSet(Stock(w), T))
           B == {T \in SUBSET S : (\A o \in T : Line(w, o) \subseteq T) /\ ~Good(T)}
<1>1. Partners(w) \subseteq OrderIds /\ IsFiniteSet(Partners(w)) /\ IsFiniteSet(S) BY PartnersAre, FS_Subset
<1>2. \A o \in Partners(w) : /\ Stock(w)[o] = orders[o].remaining /\ Stock(w)[o] \in Nat
                             /\ Share(w)[o] = Fill(w, o) /\ Share(w)[o] \in Nat
    BY FillIs DEF Stock, Share, Counted
<1>3. new.total \in Nat BY DEF Counted
<1>4. ASSUME B # {} PROVE FALSE
    <2>1. PICK T \in B : \A U \in SUBSET T : U # T => U \notin B
        <3>1. B \subseteq SUBSET S OBVIOUS
        <3> HIDE DEF B
        <3> QED BY <1>1, <1>4, <3>1, LeastSet
    <2>2. /\ T \in SUBSET S /\ IsFiniteSet(T) /\ T \subseteq OrderIds
          /\ \A o \in T : Line(w, o) \subseteq T
        BY <1>1, <2>1, FS_Subset
    <2>3. T # {}
        <3>1. SumFunctionOnSet(Share(w), {}) = 0 /\ SumFunctionOnSet(Stock(w), {}) = 0 BY SumEmpty
        <3>2. Least(new.total, 0) = 0 BY <1>3 DEF Least
        <3>3. Good({}) BY <3>1, <3>2
        <3> QED BY <2>1, <3>3
    <2>4. PICK p \in T : \A a \in T : a # p => Ahead(new, a, p) BY <2>2, <2>3, LastOf
    <2> DEFINE R == T \ {p}
    <2>5. R = Line(w, p)
        <3>1. Line(w, p) \subseteq T BY <2>2
        <3>2. p \notin Line(w, p) BY <2>2, AheadIsStrict DEF Line
        <3>3. R \subseteq Line(w, p) BY <2>2, <2>4 DEF Line
        <3> QED BY <3>1, <3>2, <3>3
    <2>6. \A o \in R : Line(w, o) \subseteq R
        <3>1. ASSUME NEW o \in R, p \in Line(w, o) PROVE FALSE
            <4>1. Ahead(new, p, o) /\ Ahead(new, o, p) BY <2>4, <3>1 DEF Line
            <4> QED BY <2>2, <4>1, AheadIsStrict
        <3> QED BY <2>2, <3>1
    <2>7. Good(R) BY <2>1, <2>2, <2>6
    <2> DEFINE share == SumFunctionOnSet(Share(w), R)
               stock == SumFunctionOnSet(Stock(w), R)
    <2>8. IsFiniteSet(R) /\ R \subseteq Partners(w) BY <2>2, FS_Subset
    <2>9. stock \in Nat BY <1>2, <2>8, SumNat
    <2>10. /\ SumFunctionOnSet(Share(w), T) = Share(w)[p] + share
           /\ SumFunctionOnSet(Stock(w), T) = Stock(w)[p] + stock
        <3>1. \A a \in T : Share(w)[a] \in Int /\ Stock(w)[a] \in Int BY <1>2, <2>2
        <3> QED BY <2>2, <2>4, <3>1, SumTakeOut
    <2>11. /\ p \in Partners(w) /\ orders[p].remaining \in Nat
           /\ Share(w)[p] = Least(FromZero(new.total - stock), orders[p].remaining)
           /\ Stock(w)[p] = orders[p].remaining
        BY <1>2, <2>2, <2>5, FillIs
    <2>12. share = Least(new.total, stock) BY <2>7
    <2> HIDE DEF share, stock, new, R
    <2>13. Share(w)[p] + share = Least(new.total, Stock(w)[p] + stock)
        BY <1>3, <2>9, <2>11, <2>12 DEF Least, FromZero
    <2> QED BY <2>1, <2>10, <2>13
<1>5. Good(S) BY <1>4
<1> QED BY <1>5

\* No more is traded than was asked for.
LEMMA FilledIs ==
    ASSUME Inv, NEW w \in Workers, Counted(w)
    PROVE  /\ Filled(w) = SumFunctionOnSet(Share(w), Partners(w))
           /\ Filled(w) = Least(job[w].order.total, SumFunctionOnSet(Stock(w), Partners(w)))
           /\ Filled(w) \in 0..job[w].order.total
<1>1. IsFiniteSet(Partners(w)) /\ \A o \in Partners(w) : Line(w, o) \subseteq Partners(w) BY PartnersAre
<1>2. Filled(w) = SumFunctionOnSet(Share(w), Partners(w)) BY DEF Filled, SumOf, Share
<1>3. SumFunctionOnSet(Stock(w), Partners(w)) \in Nat
    <2>1. \A o \in Partners(w) : Stock(w)[o] \in Nat BY DEF Stock, Counted
    <2> QED BY <1>1, <2>1, SumNat
<1>4. Filled(w) = Least(job[w].order.total, SumFunctionOnSet(Stock(w), Partners(w)))
    BY <1>1, <1>2, SharesUpTo
<1> QED BY <1>2, <1>3, <1>4 DEF Counted, Least

\* Who trades with a partner that keeps something has what was asked for.
LEMMA PartlyTaken ==
    ASSUME Inv, NEW w \in Workers, Counted(w), NEW o \in Partners(w), Fill(w, o) < orders[o].remaining
    PROVE  Filled(w) = job[w].order.total
<1> DEFINE total == job[w].order.total
           S == Line(w, o) \cup {o}
           taken == SumFunctionOnSet(Stock(w), Line(w, o))
<1>1. Partners(w) \subseteq OrderIds /\ IsFiniteSet(Partners(w)) BY PartnersAre
<1>2. S \in SUBSET Partners(w) /\ IsFiniteSet(S) BY <1>1, PartnersAre, FS_Subset
<1>3. o \notin Line(w, o) BY <1>1, AheadIsStrict DEF Line
<1>4. \A a \in S : Line(w, a) \subseteq S
    <2>1. ASSUME NEW a \in Line(w, o), NEW b \in Line(w, a) PROVE b \in Line(w, o)
        BY <1>1, <2>1, AheadIsStrict DEF Line
    <2> QED BY <2>1
<1>5. SumFunctionOnSet(Share(w), S) = Least(total, SumFunctionOnSet(Stock(w), S)) BY <1>2, <1>4, SharesUpTo
<1>6. \A a \in Partners(w) : /\ Stock(w)[a] = orders[a].remaining /\ Stock(w)[a] \in Nat
                             /\ Share(w)[a] \in Nat
    BY FillIs DEF Stock, Share, Counted
<1>7. SumFunctionOnSet(Stock(w), S) = orders[o].remaining + taken
    <2>1. S \ {o} = Line(w, o) BY <1>3
    <2>2. \A a \in S : Stock(w)[a] \in Int BY <1>2, <1>6
    <2> QED BY <1>2, <1>6, <2>1, <2>2, SumTakeOut
<1>8. /\ taken \in Nat /\ total \in Nat /\ orders[o].remaining \in Nat
      /\ Fill(w, o) = Least(FromZero(total - taken), orders[o].remaining)
    BY FillIs DEF Counted
<1>9. SumFunctionOnSet(Share(w), S) <= SumFunctionOnSet(Share(w), Partners(w)) BY <1>1, <1>2, <1>6, SumGrows
<1>10. Filled(w) = SumFunctionOnSet(Share(w), Partners(w)) /\ Filled(w) \in 0..total BY FilledIs
<1> HIDE DEF total, S, taken
<1>11. SumFunctionOnSet(Share(w), S) = total BY <1>5, <1>7, <1>8 DEF Least, FromZero
<1> QED BY <1>8, <1>9, <1>10, <1>11 DEF total

\* Who is traded with finds nothing left by those ahead of him.
LEMMA UsedUpAhead ==
    ASSUME Inv, NEW w \in Workers, Counted(w), NEW o \in Partners(w), NEW a \in Line(w, o), Fill(w, o) > 0
    PROVE  Fill(w, a) = orders[a].remaining
<1> DEFINE total == job[w].order.total
           S == Line(w, a) \cup {a}
           before == SumFunctionOnSet(Stock(w), Line(w, a))
           taken == SumFunctionOnSet(Stock(w), Line(w, o))
<1>1. Partners(w) \subseteq OrderIds /\ a \in Partners(w) /\ IsFiniteSet(Line(w, o)) /\ Line(w, o) \subseteq Partners(w)
    BY PartnersAre
<1>2. a \notin Line(w, a) BY <1>1, AheadIsStrict DEF Line
<1>3. S \in SUBSET Line(w, o) /\ IsFiniteSet(S)
    <2>1. ASSUME NEW b \in Line(w, a) PROVE b \in Line(w, o)
        BY <1>1, <2>1, AheadIsStrict DEF Line
    <2>2. S \in SUBSET Line(w, o) BY <2>1
    <2> QED BY <1>1, <2>2, FS_Subset
<1>4. \A b \in Line(w, o) : Stock(w)[b] = orders[b].remaining /\ Stock(w)[b] \in Nat
    BY <1>1 DEF Stock, Counted
<1>5. SumFunctionOnSet(Stock(w), S) = orders[a].remaining + before
    <2>1. S \ {a} = Line(w, a) BY <1>2
    <2>2. \A b \in S : Stock(w)[b] \in Int BY <1>3, <1>4
    <2> QED BY <1>3, <1>4, <2>1, <2>2, SumTakeOut
<1>6. SumFunctionOnSet(Stock(w), S) <= taken BY <1>1, <1>3, <1>4, SumGrows
<1>7. /\ taken \in Nat /\ total \in Nat /\ orders[o].remaining \in Nat /\ orders[a].remaining \in Nat
      /\ Fill(w, o) = Least(FromZero(total - taken), orders[o].remaining)
    BY <1>1, FillIs DEF Counted
<1>8. before \in Nat /\ Fill(w, a) = Least(FromZero(total - before), orders[a].remaining) BY <1>1, FillIs
<1> HIDE DEF total, S, before, taken
<1> QED BY <1>5, <1>6, <1>7, <1>8 DEF Least, FromZero

--------------------------------------------------------------------------------
(* Orders as rows. *)

\* What a buyer has reserved differs from the price of the rest by no more than
\* was accepted.
Covered(r) ==
    r.side = "buy" => LET rest == r.price * r.remaining
                          slack == Tolerance(r.price * r.total)
                      IN  rest - slack <= r.reserved /\ r.reserved <= rest + slack

PlacedRow(r) ==
    /\ r \in Rows
    /\ r.side \in Sides /\ r.owner \in Players /\ r.price \in Prices /\ r.total \in 1..MaxAmount
    /\ r.remaining <= r.total
    /\ r.status # "none"
    /\ r.status \in ActiveStatuses => r.remaining > 0 /\ r.filled + r.remaining = r.total /\ Covered(r)
    /\ r.status \in Closed => r.remaining = 0

RowTypes ==
    /\ orders \in [OrderIds -> Rows]
    /\ \A o \in OrderIds : orders[o] = NoOrder \/ PlacedRow(orders[o])
    /\ overdue \subseteq OrderIds

JobTypes ==
    /\ job \in [Workers -> [id : 0..MaxOrders, order : Rows]]
    /\ \A w \in Workers : pc[w] \in Creating =>
          /\ PlacedRow(job[w].order) /\ job[w].order.status = "active"
          /\ job[w].order.filled = 0 /\ job[w].order.remaining = job[w].order.total
    /\ \A w \in Workers : pc[w] \notin Creating => job[w] = NoJob

LEMMA NoOrderIs ==
    /\ NoOrder \in Rows /\ NoOrder.status = "none" /\ NoOrder.side = "none" /\ NoOrder.owner = None
    /\ NoOrder.total = 0
BY DEF NoOrder, Rows

LEMMA NoJobIs ==
    /\ NoJob \in [id : 0..MaxOrders, order : Rows]
    /\ NoJob.order.side = "none" /\ NoJob.order.owner = None /\ NoJob.order.total = 0
<1>1. 0 \in 0..MaxOrders BY MarketConstants
<1> QED BY <1>1, NoOrderIs DEF NoJob

LEMMA TradedRow ==
    ASSUME NEW r, PlacedRow(r), r.status \in ActiveStatuses, NEW n \in Nat, n <= r.remaining
    PROVE  LET t == Traded(r, n) IN
           /\ PlacedRow(t) /\ t.owner = r.owner /\ t.total = r.total /\ t.price = r.price /\ t.side = r.side
           /\ t.remaining = r.remaining - n /\ t.filled = r.filled + n
           /\ t.status \in ActiveStatuses <=> n < r.remaining
<1> DEFINE t == Traded(r, n)
<1>1. /\ r \in Rows /\ r.side \in Sides /\ r.owner \in Players /\ r.price \in Prices /\ r.total \in 1..MaxAmount
      /\ r.remaining <= r.total /\ r.remaining > 0 /\ r.filled + r.remaining = r.total /\ Covered(r)
    BY DEF PlacedRow
<1>2. r.price \in Nat /\ r.remaining \in Nat /\ r.filled \in Nat /\ r.reserved \in Nat /\ r.total \in Nat
    BY <1>1, MarketConstants DEF Rows
<1>3. r.price * n \in Nat /\ r.price * r.total \in Nat /\ r.price * r.remaining \in Nat
    BY <1>2
<1>4. /\ t.owner = r.owner /\ t.total = r.total /\ t.price = r.price /\ t.side = r.side
      /\ t.remaining = r.remaining - n /\ t.filled = r.filled + n
      /\ t.reserved = IF r.side = "buy" THEN FromZero(r.reserved - r.price * n) ELSE 0
      /\ t.status = IF r.remaining = n THEN "filled"
                    ELSE IF r.filled + n > 0 THEN "partially_filled" ELSE "active"
    BY <1>1 DEF Traded, Spent, Rows
<1>5. t.reserved \in Nat /\ t.remaining \in Nat /\ t.filled \in Nat BY <1>2, <1>3, <1>4 DEF FromZero
<1>6. t.status \in {"filled", "partially_filled", "active"} /\ (t.status \in ActiveStatuses <=> n < r.remaining)
    BY <1>2, <1>4 DEF ActiveStatuses
<1>7. t \in Rows
    <2>1. t.status \in {"none"} \cup ActiveStatuses \cup Closed BY <1>6 DEF ActiveStatuses, Closed
    <2>2. t = [r EXCEPT !.remaining = t.remaining, !.filled = t.filled, !.reserved = t.reserved, !.status = t.status]
        BY <1>1, <1>4, Zenon DEF Traded
    <2> HIDE DEF t
    <2> QED BY <1>1, <1>4, <1>5, <2>1, <2>2 DEF Rows
<1>8. Covered(t)
    <2> DEFINE tolerance == Tolerance(r.price * r.total)
               rest == r.price * r.remaining
               spent == r.price * n
    <2>1. tolerance \in Int /\ tolerance >= 0 BY <1>3 DEF Tolerance, PerMille
    <2>2. r.price * (r.remaining - n) = rest - spent BY <1>2
    <2>3. r.price * (r.remaining - n) \in Nat BY <1>2
    <2>4. r.side = "buy" => rest - tolerance <= r.reserved /\ r.reserved <= rest + tolerance
        BY <1>1 DEF Covered
    <2>5. rest \in Int /\ spent \in Int BY <1>3
    <2> HIDE DEF tolerance, rest, spent
    <2>6. r.side = "buy" => /\ (rest - spent) - tolerance <= FromZero(r.reserved - spent)
                            /\ FromZero(r.reserved - spent) <= (rest - spent) + tolerance
        BY <1>2, <2>1, <2>2, <2>3, <2>4, <2>5 DEF FromZero
    <2> HIDE DEF t
    <2> QED BY <1>4, <2>2, <2>6 DEF Covered, tolerance, spent
<1> HIDE DEF t
<1>9. PlacedRow(t)
    <2>1. t.remaining <= t.total /\ t.status # "none" BY <1>1, <1>2, <1>4, <1>6
    <2>2. t.status \in ActiveStatuses => t.remaining > 0 /\ t.filled + t.remaining = t.total
        BY <1>1, <1>2, <1>4, <1>6
    <2>3. t.status \in Closed => t.remaining = 0
        <3>1. t.status \in Closed => t.status \notin ActiveStatuses BY DEF Closed, ActiveStatuses
        <3> QED BY <1>2, <1>4, <1>6, <3>1
    <2> QED BY <1>1, <1>4, <1>7, <1>8, <2>1, <2>2, <2>3 DEF PlacedRow
<1> QED BY <1>4, <1>6, <1>9 DEF t

LEMMA CloseRow ==
    ASSUME RowTypes, NEW o \in OrderIds, IsActive(o), NEW status \in {"cancelled", "expired"}
    PROVE  LET c == Close(o, status) IN
           /\ PlacedRow(orders[o])
           /\ PlacedRow(c) /\ c.owner = orders[o].owner /\ c.total = orders[o].total
           /\ c.price = orders[o].price /\ c.side = orders[o].side
           /\ c.remaining = 0 /\ c.filled = orders[o].filled /\ c.status = status
<1>1. PlacedRow(orders[o]) BY NoOrderIs DEF RowTypes, IsActive, ActiveStatuses
<1>2. orders[o] \in Rows /\ orders[o].total \in 1..MaxAmount BY <1>1 DEF PlacedRow
<1> DEFINE c == Close(o, status)
<1>3. /\ c \in Rows /\ c.owner = orders[o].owner /\ c.total = orders[o].total
      /\ c.price = orders[o].price /\ c.side = orders[o].side
      /\ c.remaining = 0 /\ c.filled = orders[o].filled /\ c.status = status
    BY <1>2 DEF Close, Rows, Closed
<1>4. status \notin ActiveStatuses /\ status # "none" BY DEF ActiveStatuses
<1> HIDE DEF c
<1>5. PlacedRow(c) BY <1>1, <1>3, <1>4, MarketConstants DEF PlacedRow
<1> QED BY <1>1, <1>3, <1>5 DEF c

\* What a request finds when it has locked its rows and writes.
LEMMA CommitIs ==
    ASSUME Inv, RowTypes, JobTypes, NEW w \in Workers, CommitCreate(w)
    PROVE  LET new == job[w].order  id == job[w].id IN
           /\ id \in OrderIds /\ id \notin Partners(w) /\ orders[id] = NoOrder
           /\ PlacedRow(new) /\ new.status = "active" /\ new.filled = 0 /\ new.remaining = new.total
           /\ Counted(w)
           /\ Filled(w) \in Nat /\ Filled(w) <= new.total
           /\ \A a \in Partners(w) :
                 /\ a \in OrderIds /\ PlacedRow(orders[a]) /\ IsActive(a)
                 /\ orders[a].side # new.side /\ orders[a].owner # new.owner /\ Crosses(new, orders[a])
                 /\ Fill(w, a) \in Nat /\ Fill(w, a) <= orders[a].remaining
           /\ orders'[id] = Traded(new, Filled(w))
           /\ \A a \in Partners(w) : orders'[a] = Traded(orders[a], Fill(w, a)) \/ (Fill(w, a) = 0 /\ orders'[a] = orders[a])
           /\ \A o \in OrderIds \ {id} : o \notin Partners(w) => orders'[o] = orders[o]
<1> DEFINE new == job[w].order
           id == job[w].id
<1>1. pc[w] \in Creating BY DEF CommitCreate, Creating
<1>2. id \in OrderIds /\ orders[id].status = "none" BY <1>1 DEF Inv, Ids
<1>3. PlacedRow(new) /\ new.status = "active" /\ new.filled = 0 /\ new.remaining = new.total
    BY <1>1 DEF JobTypes
<1>4. orders[id] = NoOrder BY <1>2 DEF RowTypes, PlacedRow
<1>5. \A a \in Partners(w) :
         /\ a \in OrderIds /\ IsActive(a)
         /\ orders[a].side # new.side /\ orders[a].owner # new.owner /\ Crosses(new, orders[a])
    BY DEF Partners, Matches, Mine
<1>6. \A a \in Partners(w) : PlacedRow(orders[a])
    BY <1>5, NoOrderIs DEF RowTypes, IsActive, ActiveStatuses
<1>7. Counted(w)
    <2>1. new.total \in Nat BY <1>3, MarketConstants DEF PlacedRow
    <2>2. \A a \in Partners(w) : orders[a].remaining \in Nat BY <1>6 DEF PlacedRow, Rows
    <2> QED BY <2>1, <2>2 DEF Counted
<1>8. \A a \in Partners(w) : Fill(w, a) \in Nat /\ Fill(w, a) <= orders[a].remaining BY <1>7, FillIs
<1>9. Filled(w) \in Nat /\ Filled(w) <= new.total BY <1>7, FilledIs DEF Counted
<1>10. id \notin Partners(w) BY <1>2, <1>5 DEF IsActive, ActiveStatuses
<1>11. orders' = [o \in OrderIds |->
                    IF o = id THEN Traded(new, Filled(w))
                    ELSE IF o \in Partners(w) /\ Fill(w, o) > 0 THEN Traded(orders[o], Fill(w, o))
                    ELSE orders[o]]
    BY DEF CommitCreate
<1>12. orders'[id] = Traded(new, Filled(w)) BY <1>2, <1>11
<1>13. \A a \in Partners(w) :
          orders'[a] = Traded(orders[a], Fill(w, a)) \/ (Fill(w, a) = 0 /\ orders'[a] = orders[a])
    BY <1>5, <1>8, <1>10, <1>11
<1>14. \A o \in OrderIds \ {id} : o \notin Partners(w) => orders'[o] = orders[o] BY <1>11
<1> QED BY <1>2, <1>3, <1>4, <1>5, <1>6, <1>7, <1>8, <1>9, <1>10, <1>12, <1>13, <1>14

\* What a sweep finds.
LEMMA SweepIs ==
    ASSUME Inv, RowTypes, NEW w \in Workers, CommitExpire(w)
    PROVE  LET swept == Mine(w) \cup Due("buy") IN
           /\ swept \subseteq OrderIds /\ \A o \in swept : IsActive(o)
           /\ \A o \in OrderIds : orders'[o] = IF o \in swept THEN Close(o, "expired") ELSE orders[o]
           /\ deliveries' = deliveries \cup {Refund(o, 0) : o \in {a \in swept : Rest(a) > 0}}
           /\ UNCHANGED <<answers, delivered, clock, overdue>>
<1> DEFINE swept == Mine(w) \cup Due("buy")
<1>1. /\ pc[w] = "expire"
      /\ orders' = [o \in OrderIds |-> IF o \in swept THEN Close(o, "expired") ELSE orders[o]]
      /\ deliveries' = deliveries \cup {Refund(o, 0) : o \in {a \in swept : Rest(a) > 0}}
      /\ UNCHANGED <<answers, delivered, clock, overdue>>
    BY DEF CommitExpire
<1>2. \A o \in Mine(w) : o \in OrderIds /\ IsActive(o) BY <1>1 DEF Mine, Inv, Books
<1>3. \A o \in Due("buy") : IsActive(o) BY DEF Due
<1>4. Due("buy") \subseteq OrderIds BY DEF Due, RowTypes
<1> QED BY <1>1, <1>2, <1>3, <1>4

\* The steps that touch neither rows nor handouts.
LEMMA TableLeft ==
    ASSUME [Next]_vars,
           ~(\E w \in Workers : CommitCreate(w) \/ CommitExpire(w)),
           ~(\E o \in OrderIds, p \in Players : Cancel(o, p))
    PROVE  UNCHANGED table
<1>1. ASSUME NEW w \in Workers, Start(w) PROVE UNCHANGED table
    BY <1>1 DEF Start, BeginCreate, BeginExpire
<1>2. ASSUME NEW w \in Workers, Advance(w) PROVE UNCHANGED table
    BY <1>2 DEF Advance, Look, LockRow
<1>3. ASSUME NEW w \in Workers, Abort(w) PROVE UNCHANGED table BY <1>3 DEF Abort
<1>4. ASSUME NEW o \in OrderIds, GrowOverdue(o) PROVE UNCHANGED table BY <1>4 DEF GrowOverdue
<1>5. ASSUME NEW h \in deliveries, Ack(h) PROVE UNCHANGED table BY <1>5 DEF Ack
<1>6. CASE UNCHANGED vars BY <1>6 DEF vars
<1> QED BY <1>1, <1>2, <1>3, <1>4, <1>5, <1>6 DEF Next

LEMMA OverdueKept ==
    ASSUME RowTypes, [Next]_vars
    PROVE  overdue' \subseteq OrderIds
<1>1. ASSUME NEW w \in Workers, Start(w) \/ Advance(w) \/ Abort(w) PROVE UNCHANGED overdue
    BY <1>1 DEF Start, BeginCreate, BeginExpire, Advance, Look, LockRow, CommitCreate, CommitExpire, Abort
<1>2. ASSUME NEW o \in OrderIds, NEW p, Cancel(o, p) PROVE UNCHANGED overdue BY <1>2 DEF Cancel
<1>3. ASSUME NEW o \in OrderIds, GrowOverdue(o) PROVE overdue' = overdue \cup {o} BY <1>3 DEF GrowOverdue
<1>4. ASSUME NEW h \in deliveries, Ack(h) PROVE UNCHANGED overdue BY <1>4 DEF Ack
<1>5. CASE UNCHANGED vars BY <1>5 DEF vars, RowTypes
<1> QED BY <1>1, <1>2, <1>3, <1>4, <1>5 DEF Next, RowTypes

LEMMA RowTypesKept ==
    ASSUME Inv, RowTypes, JobTypes, [Next]_vars
    PROVE  RowTypes'
<1>1. overdue' \subseteq OrderIds BY OverdueKept
<1>2. ASSUME orders' \in [OrderIds -> Rows] \/ DOMAIN orders' = OrderIds, orders' = [o \in OrderIds |-> orders'[o]],
             \A o \in OrderIds : orders'[o] = orders[o] \/ PlacedRow(orders'[o])
      PROVE  RowTypes'
    <2>1. \A o \in OrderIds : orders'[o] \in Rows BY <1>2 DEF RowTypes, PlacedRow
    <2> QED BY <1>1, <1>2, <2>1 DEF RowTypes, PlacedRow
<1>3. ASSUME NEW w \in Workers, CommitCreate(w) PROVE RowTypes'
    <2>1. ASSUME NEW o \in OrderIds PROVE orders'[o] = orders[o] \/ PlacedRow(orders'[o])
        <3>1. CASE o = job[w].id
            <4>1. /\ orders'[o] = Traded(job[w].order, Filled(w)) /\ Filled(w) \in Nat
                  /\ PlacedRow(job[w].order) /\ job[w].order.status \in ActiveStatuses
                  /\ Filled(w) <= job[w].order.remaining
                BY <1>3, <3>1, CommitIs DEF ActiveStatuses
            <4> QED BY <4>1, TradedRow
        <3>2. CASE o \in Partners(w)
            <4>1. /\ orders'[o] = Traded(orders[o], Fill(w, o)) \/ orders'[o] = orders[o]
                  /\ Fill(w, o) \in Nat /\ Fill(w, o) <= orders[o].remaining
                  /\ PlacedRow(orders[o]) /\ orders[o].status \in ActiveStatuses
                BY <1>3, <3>2, CommitIs DEF IsActive
            <4> QED BY <4>1, TradedRow
        <3>3. CASE o # job[w].id /\ o \notin Partners(w) BY <1>3, <3>3, CommitIs
        <3> QED BY <3>1, <3>2, <3>3
    <2>2. DOMAIN orders' = OrderIds /\ orders' = [o \in OrderIds |-> orders'[o]] BY <1>3 DEF CommitCreate
    <2> QED BY <1>2, <2>1, <2>2
<1>4. ASSUME NEW w \in Workers, CommitExpire(w) PROVE RowTypes'
    <2>1. ASSUME NEW o \in OrderIds PROVE orders'[o] = orders[o] \/ PlacedRow(orders'[o])
        BY <1>4, SweepIs, CloseRow
    <2>2. DOMAIN orders' = OrderIds /\ orders' = [o \in OrderIds |-> orders'[o]] BY <1>4 DEF CommitExpire
    <2> QED BY <1>2, <2>1, <2>2
<1>5. ASSUME NEW c \in OrderIds, NEW p \in Players, Cancel(c, p) PROVE RowTypes'
    <2>1. IsActive(c) /\ orders' = [orders EXCEPT ![c] = Close(c, "cancelled")]
        BY <1>5 DEF Cancel, Cancellable
    <2>2. PlacedRow(Close(c, "cancelled")) BY <2>1, CloseRow
    <2>3. \A o \in OrderIds : orders'[o] = orders[o] \/ PlacedRow(orders'[o])
        BY <2>1, <2>2 DEF RowTypes
    <2>4. DOMAIN orders' = OrderIds /\ orders' = [o \in OrderIds |-> orders'[o]] BY <2>1 DEF RowTypes
    <2> QED BY <1>2, <2>3, <2>4
<1>6. CASE UNCHANGED table BY <1>1, <1>6 DEF RowTypes, table
<1> QED BY <1>3, <1>4, <1>5, <1>6, TableLeft

\* The jobs of requests.
LEMMA JobTypesKept ==
    ASSUME Inv, RowTypes, JobTypes, [Next]_vars
    PROVE  JobTypes'
<1>1. ASSUME NEW w \in Workers, Release(w) PROVE JobTypes'
    <2>1. /\ job' = [job EXCEPT ![w] = NoJob]
          /\ \A v \in Workers \ {w} : pc'[v] = pc[v] /\ job'[v] = job[v]
          /\ pc'[w] = "idle" /\ job'[w] = NoJob
        BY <1>1 DEF Release, Inv, Shapes
    <2>2. job' \in [Workers -> [id : 0..MaxOrders, order : Rows]] BY <2>1, NoJobIs DEF JobTypes
    <2>3. "idle" \notin Creating BY DEF Creating
    <2> QED BY <2>1, <2>2, <2>3 DEF JobTypes
<1>2. ASSUME NEW w \in Workers, NEW side \in {"sell", "buy"}, NEW p \in Players, NEW price \in Prices,
             NEW amount \in 1..MaxAmount, NEW reserved \in Reserves \cup {0},
             BeginCreate(w, side, p, price, amount, reserved)
      PROVE  JobTypes'
    <2> DEFINE order == [side |-> side, owner |-> p, price |-> price, total |-> amount, remaining |-> amount,
                         filled |-> 0, reserved |-> reserved, status |-> "active"]
    <2>1. /\ pc' = [pc EXCEPT ![w] = "insert"] /\ clock < MaxOrders
          /\ job' = [job EXCEPT ![w] = [id |-> clock + 1, order |-> order]]
          /\ side = "buy" => /\ reserved - price * amount <= Tolerance(price * amount)
                             /\ price * amount - reserved <= Tolerance(price * amount)
        BY <1>2 DEF BeginCreate
    <2>2. order \in Rows BY MarketConstants DEF Rows, ActiveStatuses
    <2>3. Covered(order)
        <3> DEFINE rest == price * amount
                   slack == Tolerance(rest)
        <3>1. price \in Nat /\ amount \in Nat /\ reserved \in Nat BY MarketConstants
        <3>2. rest \in Nat BY <3>1
        <3>3. slack \in Int BY <3>2 DEF Tolerance, PerMille
        <3> HIDE DEF slack
        <3>4. side = "buy" => reserved - rest <= slack /\ rest - reserved <= slack BY <2>1 DEF slack
        <3> HIDE DEF rest
        <3>5. side = "buy" => rest - slack <= reserved /\ reserved <= rest + slack BY <3>1, <3>2, <3>3, <3>4
        <3> QED BY <3>5 DEF Covered, rest, slack
    <2>4. PlacedRow(order)
        <3>1. amount \in Nat /\ amount > 0 /\ amount <= amount /\ 0 + amount = amount BY MarketConstants
        <3>2. "active" \in ActiveStatuses /\ "active" \notin Closed BY DEF ActiveStatuses, Closed
        <3>3. /\ order.side = side /\ order.owner = p /\ order.price = price /\ order.total = amount
              /\ order.remaining = amount /\ order.filled = 0 /\ order.status = "active"
            OBVIOUS
        <3> HIDE DEF order
        <3> QED BY <2>2, <2>3, <3>1, <3>2, <3>3 DEF PlacedRow, Sides
    <2>5. order.status = "active" /\ order.filled = 0 /\ order.remaining = order.total OBVIOUS
    <2>6. clock + 1 \in 0..MaxOrders BY <2>1, MarketConstants DEF Inv, Shapes
    <2> HIDE DEF order
    <2>7. job' \in [Workers -> [id : 0..MaxOrders, order : Rows]] BY <2>1, <2>2, <2>6 DEF JobTypes
    <2>8. /\ \A v \in Workers \ {w} : pc'[v] = pc[v] /\ job'[v] = job[v]
          /\ pc'[w] \in Creating /\ job'[w].order = order
        BY <2>1 DEF Inv, Shapes, Creating
    <2> QED BY <2>4, <2>5, <2>7, <2>8 DEF JobTypes
<1>3. ASSUME UNCHANGED job, \A v \in Workers : pc'[v] \in Creating <=> pc[v] \in Creating PROVE JobTypes'
    BY <1>3 DEF JobTypes
<1>4. ASSUME NEW w \in Workers, BeginExpire(w) \/ Look(w) PROVE JobTypes'
    <2>1. /\ UNCHANGED job
          /\ \/ pc[w] = "idle" /\ pc' = [pc EXCEPT ![w] = "expire"]
             \/ pc[w] = "insert" /\ pc' = [pc EXCEPT ![w] = "match"]
        BY <1>4 DEF BeginExpire, Look
    <2>2. \A v \in Workers : pc'[v] \in Creating <=> pc[v] \in Creating
        BY <2>1 DEF Inv, Shapes, Creating
    <2> QED BY <1>3, <2>1, <2>2
<1>5. ASSUME NEW w \in Workers, NEW o, LockRow(w, o) PROVE JobTypes' BY <1>3, <1>5 DEF LockRow
<1>6. ASSUME NEW w \in Workers, Start(w) PROVE JobTypes' BY <1>2, <1>4, <1>6 DEF Start
<1>7. ASSUME NEW w \in Workers, Advance(w) \/ Abort(w) PROVE JobTypes'
    BY <1>1, <1>4, <1>5, <1>7 DEF Advance, Abort, CommitCreate, CommitExpire
<1>8. CASE \/ UNCHANGED vars \/ (\E o \in OrderIds, p \in Players : Cancel(o, p))
           \/ (\E o \in OrderIds : GrowOverdue(o)) \/ (\E h \in deliveries : Ack(h))
    BY <1>3, <1>8 DEF vars, request, Cancel, GrowOverdue, Ack
<1> QED BY <1>6, <1>7, <1>8 DEF Next

--------------------------------------------------------------------------------
(* Handouts. *)

\* What was handed out names orders that are there; who got a refund is closed.
Handed ==
    /\ IsFiniteSet(deliveries) /\ IsFiniteSet(answers)
    /\ deliveries \subseteq Handouts /\ answers \subseteq Handouts /\ delivered \subseteq deliveries
    /\ \A h \in deliveries \cup answers : \A o \in OrderIds :
          h.sell = o \/ h.buy = o =>
             orders[o].status # "none" /\ (h.kind = "refund" => orders[o].status \in Closed)

\* What a handout takes of the pieces of sell order o, what it fills of buy
\* order o, and what it takes of its coins.
Goods(o) == [h \in Handouts |-> IF h.sell = o /\ h.kind \in {"items", "refund"} THEN h.amount + h.fee ELSE 0]
Pieces(o) == [h \in Handouts |-> IF h.buy = o /\ h.kind = "items" THEN h.amount + h.fee ELSE 0]
Coins(o) ==
    [h \in Handouts |-> IF h.buy = o /\ h.kind \in {"proceeds", "overpay", "refund"} THEN h.amount + h.fee ELSE 0]

Sum(f, H) == SumFunctionOnSet(f, H)

LEMMA ValuesAre ==
    ASSUME NEW o
    PROVE  \A h \in Handouts : Goods(o)[h] \in Nat /\ Pieces(o)[h] \in Nat /\ Coins(o)[h] \in Nat
BY DEF Goods, Pieces, Coins, Handouts

LEMMA SumsAre ==
    ASSUME NEW H, H \subseteq Handouts, IsFiniteSet(H), NEW o
    PROVE  /\ Out({h \in H : h.sell = o}, {"items", "refund"}) = Sum(Goods(o), H)
           /\ Out({h \in H : h.buy = o}, {"items"}) = Sum(Pieces(o), H)
           /\ Out({h \in H : h.buy = o}, {"proceeds", "overpay", "refund"}) = Sum(Coins(o), H)
           /\ Sum(Goods(o), H) \in Nat /\ Sum(Pieces(o), H) \in Nat /\ Sum(Coins(o), H) \in Nat
<1>1. ASSUME NEW f, NEW A \in SUBSET H, \A h \in A : h.amount \in Int /\ h.fee \in Int,
             \A h \in H : f[h] = IF h \in A THEN h.amount + h.fee ELSE 0
      PROVE  SumFunctionOnSet([h \in A |-> h.amount + h.fee], A) = Sum(f, H)
    <2> DEFINE g == [h \in A |-> h.amount + h.fee]
    <2>1. /\ \A h \in A : g[h] \in Int
          /\ \A h \in H : f[h] = IF h \in A THEN g[h] ELSE 0
        BY <1>1
    <2> HIDE DEF g
    <2>2. SumFunctionOnSet(f, H) = SumFunctionOnSet(g, A) BY <2>1, SumPart
    <2> QED BY <2>2 DEF Sum, g
<1>2. \A h \in H : h.amount \in Int /\ h.fee \in Int BY DEF Handouts
<1>3. Out({h \in H : h.sell = o}, {"items", "refund"}) = Sum(Goods(o), H)
    <2> DEFINE A == {h \in {k \in H : k.sell = o} : h.kind \in {"items", "refund"}}
    <2>1. \A h \in H : Goods(o)[h] = IF h \in A THEN h.amount + h.fee ELSE 0 BY DEF Goods
    <2>2. SumFunctionOnSet([h \in A |-> h.amount + h.fee], A) = Sum(Goods(o), H) BY <1>1, <1>2, <2>1
    <2> QED BY <2>2 DEF Out, SumOf
<1>4. Out({h \in H : h.buy = o}, {"items"}) = Sum(Pieces(o), H)
    <2> DEFINE A == {h \in {k \in H : k.buy = o} : h.kind \in {"items"}}
    <2>1. \A h \in H : Pieces(o)[h] = IF h \in A THEN h.amount + h.fee ELSE 0 BY DEF Pieces
    <2>2. SumFunctionOnSet([h \in A |-> h.amount + h.fee], A) = Sum(Pieces(o), H) BY <1>1, <1>2, <2>1
    <2> QED BY <2>2 DEF Out, SumOf
<1>5. Out({h \in H : h.buy = o}, {"proceeds", "overpay", "refund"}) = Sum(Coins(o), H)
    <2> DEFINE A == {h \in {k \in H : k.buy = o} : h.kind \in {"proceeds", "overpay", "refund"}}
    <2>1. \A h \in H : Coins(o)[h] = IF h \in A THEN h.amount + h.fee ELSE 0 BY DEF Coins
    <2>2. SumFunctionOnSet([h \in A |-> h.amount + h.fee], A) = Sum(Coins(o), H) BY <1>1, <1>2, <2>1
    <2> QED BY <2>2 DEF Out, SumOf
<1>6. Sum(Goods(o), H) \in Nat /\ Sum(Pieces(o), H) \in Nat /\ Sum(Coins(o), H) \in Nat
    <2>1. \A h \in H : Goods(o)[h] \in Nat /\ Pieces(o)[h] \in Nat /\ Coins(o)[h] \in Nat BY ValuesAre
    <2> QED BY <2>1, SumNat DEF Sum
<1> QED BY <1>3, <1>4, <1>5, <1>6

\* New handouts add to what was handed out.
LEMMA SumsGrow ==
    ASSUME NEW f, \A h \in Handouts : f[h] \in Nat,
           NEW H, H \subseteq Handouts, IsFiniteSet(H), NEW N, N \subseteq Handouts, IsFiniteSet(N), H \cap N = {}
    PROVE  IsFiniteSet(H \cup N) /\ Sum(f, H \cup N) = Sum(f, H) + Sum(f, N)
<1>1. IsFiniteSet(H \cup N) BY FS_Union
<1>2. \A h \in H \cup N : f[h] \in Int OBVIOUS
<1> QED BY <1>1, <1>2, SumUnion DEF Sum

\* No fee is more than what it is taken of.
LEMMA PerMilleIs ==
    ASSUME NEW sum \in Nat
    PROVE  /\ CancelFee(sum) \in Nat /\ CancelFee(sum) <= sum
           /\ \A n \in 0..20 : PerMille(sum, n) \in Nat /\ PerMille(sum, n) <= sum
<1>1. ASSUME NEW n \in 0..20 PROVE PerMille(sum, n) \in Nat /\ PerMille(sum, n) <= sum
    <2> DEFINE part == sum * n
    <2>1. sum * (20 - n) \in Nat /\ sum * (20 - n) = sum * 20 - sum * n /\ part \in Nat OBVIOUS
    <2>2. part <= sum * 20 BY <2>1
    <2>3. (part + 500) \div 1000 \in Nat /\ (part + 500) \div 1000 <= sum
        <3> HIDE DEF part
        <3> QED BY <2>1, <2>2
    <2> QED BY <2>3 DEF PerMille
<1>2. CancelFee(sum) = PerMille(sum, 5) BY DEF CancelFee
<1> QED BY <1>1, <1>2

\* A refund gives back the rest of its order, for a fee or without.
LEMMA RefundIs ==
    ASSUME RowTypes, NEW o \in OrderIds, IsActive(o), NEW fee \in {0, CancelFee(Rest(o))}
    PROVE  LET r == Refund(o, fee) IN
           /\ Rest(o) \in Nat /\ Rest(o) > 0
           /\ r \in Handouts /\ r.kind = "refund"
           /\ \A k \in OrderIds : r.sell = k \/ r.buy = k <=> k = o
           /\ \A k \in OrderIds :
                 /\ Goods(k)[r] = IF k = o /\ orders[k].side = "sell" THEN orders[k].remaining ELSE 0
                 /\ Pieces(k)[r] = 0
                 /\ Coins(k)[r] = IF k = o /\ orders[k].side = "buy" THEN orders[k].price * orders[k].remaining ELSE 0
<1> DEFINE r == Refund(o, fee)
           rest == Rest(o)
<1>1. PlacedRow(orders[o]) /\ orders[o].remaining > 0
    BY NoOrderIs DEF RowTypes, IsActive, ActiveStatuses, PlacedRow
<1>2. orders[o].price \in Nat \ {0} /\ orders[o].remaining \in Nat /\ orders[o].side \in Sides
    BY <1>1, MarketConstants DEF PlacedRow, Rows
<1>3. /\ orders[o].side = "sell" => rest = orders[o].remaining
      /\ orders[o].side = "buy" => rest = orders[o].price * orders[o].remaining
    BY <1>2 DEF Rest
<1>4. rest \in Nat /\ rest > 0 BY <1>1, <1>2, <1>3 DEF Sides
<1>5. fee \in Nat /\ fee <= rest
    <2>1. 0 \in Nat /\ 0 <= rest BY <1>4
    <2> HIDE DEF rest
    <2>2. CancelFee(rest) \in Nat /\ CancelFee(rest) <= rest BY <1>4, PerMilleIs
    <2> QED BY <2>1, <2>2 DEF rest
<1>6. o \in Nat \ {0} /\ \A k \in OrderIds : k \in Nat \ {0} BY OrdersFinite
<1>7. /\ orders[o].side = "sell" => r = Handout("refund", o, 0, rest, 0)
      /\ orders[o].side = "buy" => r = Handout("refund", 0, o, rest - fee, fee)
    BY <1>2 DEF Refund, Sides
<1> HIDE DEF r, rest
<1>8. CASE orders[o].side = "sell"
    <2>1. r \in Handouts /\ r.kind = "refund" /\ r.sell = o /\ r.buy = 0 /\ r.amount + r.fee = rest
        BY <1>4, <1>6, <1>7, <1>8 DEF Handout, Handouts
    <2> QED BY <1>3, <1>4, <1>6, <1>8, <2>1 DEF Goods, Pieces, Coins, r, rest
<1>9. CASE orders[o].side = "buy"
    <2>1. r \in Handouts /\ r.kind = "refund" /\ r.sell = 0 /\ r.buy = o /\ r.amount + r.fee = rest
        <3>1. rest - fee \in Nat /\ (rest - fee) + fee = rest BY <1>4, <1>5
        <3> QED BY <1>5, <1>6, <1>7, <1>9, <3>1 DEF Handout, Handouts
    <2> QED BY <1>3, <1>4, <1>6, <1>9, <2>1 DEF Goods, Pieces, Coins, r, rest
<1> QED BY <1>2, <1>8, <1>9 DEF Sides

\* Whom a trade with partner a makes seller and whom buyer, and the buyer's price.
Seller(w, a) == IF job[w].order.side = "sell" THEN job[w].id ELSE a
Buyer(w, a) == IF job[w].order.side = "sell" THEN a ELSE job[w].id
Bid(w, a) == IF job[w].order.side = "sell" THEN orders[a].price ELSE job[w].order.price

\* A trade hands out the pieces it fills, and of the buyer's coins what his own
\* price says: to the seller, as fee, and back to him what the price was below it.
LEMMA PayoutsAre ==
    ASSUME Inv, RowTypes, JobTypes, NEW w \in Workers, CommitCreate(w), NEW a \in Partners(w), Fill(w, a) > 0
    PROVE  /\ Payouts(w, a) \subseteq Handouts /\ IsFiniteSet(Payouts(w, a))
           /\ \A h \in Payouts(w, a) : /\ h.kind # "refund" /\ Receiver(h) \in Sides
                                       /\ h.sell = Seller(w, a) /\ h.buy = Buyer(w, a)
           /\ \A k \in OrderIds :
                 /\ Sum(Goods(k), Payouts(w, a)) = IF k = Seller(w, a) THEN Fill(w, a) ELSE 0
                 /\ Sum(Pieces(k), Payouts(w, a)) = IF k = Buyer(w, a) THEN Fill(w, a) ELSE 0
                 /\ Sum(Coins(k), Payouts(w, a)) = IF k = Buyer(w, a) THEN Bid(w, a) * Fill(w, a) ELSE 0
<1> DEFINE new == job[w].order
           n == Fill(w, a)
           s == Seller(w, a)
           b == Buyer(w, a)
           bid == Bid(w, a)
           seller == IF new.side = "sell" THEN new.owner ELSE orders[a].owner
           gross == orders[a].price * n
           fee == PerMille(gross, FeePerMille[seller])
           over == FromZero((bid - orders[a].price) * n)
           i == Handout("items", s, b, n, 0)
           p == Handout("proceeds", s, b, gross - fee, fee)
           v == Handout("overpay", s, b, over, 0)
           V == IF over > 0 THEN {v} ELSE {}
           P == {i, p} \cup V
<1>1. Payouts(w, a) = P BY DEF Payouts, Seller, Buyer, Bid
<1>2. /\ job[w].id \in OrderIds /\ PlacedRow(new)
      /\ a \in OrderIds /\ PlacedRow(orders[a]) /\ orders[a].side # new.side /\ Crosses(new, orders[a])
      /\ n \in Nat
    BY CommitIs
<1>3. new.price \in Nat \ {0} /\ orders[a].price \in Nat \ {0} /\ new.side \in Sides /\ orders[a].side \in Sides
    BY <1>2, MarketConstants DEF PlacedRow
<1>4. s \in Nat /\ b \in Nat BY <1>2, OrdersFinite DEF Seller, Buyer
<1>5. bid \in Nat /\ bid - orders[a].price \in Nat
    BY <1>2, <1>3 DEF Bid, Crosses, Sides
<1>6. gross \in Nat /\ bid * n \in Nat /\ over = bid * n - gross /\ over \in Nat
    <2> DEFINE price == orders[a].price
    <2>1. price \in Nat /\ bid \in Nat /\ bid - price \in Nat /\ n \in Nat BY <1>2, <1>3, <1>5
    <2> HIDE DEF price, bid, n
    <2>2. price * n \in Nat /\ bid * n \in Nat /\ (bid - price) * n \in Nat BY <2>1
    <2>3. (bid - price) * n = bid * n - price * n BY <2>1
    <2>4. FromZero((bid - price) * n) = bid * n - price * n BY <2>2, <2>3 DEF FromZero
    <2> QED BY <2>2, <2>3, <2>4 DEF price
<1>7. fee \in Nat /\ gross - fee \in Nat
    <2>1. seller \in Players BY <1>2 DEF PlacedRow
    <2>2. FeePerMille[seller] \in 0..20 BY <2>1, MarketConstants
    <2> HIDE DEF gross, seller
    <2>3. fee \in Nat /\ fee <= gross BY <1>6, <2>2, PerMilleIs
    <2> HIDE DEF fee
    <2> QED BY <1>6, <2>3
<1>8. /\ i \in Handouts /\ i.kind = "items" /\ i.sell = s /\ i.buy = b /\ i.amount + i.fee = n
      /\ v \in Handouts /\ v.kind = "overpay" /\ v.sell = s /\ v.buy = b /\ v.amount + v.fee = over
    <2> HIDE DEF n, over, s, b
    <2> QED BY <1>2, <1>4, <1>6 DEF Handout, Handouts
<1>9. p \in Handouts /\ p.kind = "proceeds" /\ p.sell = s /\ p.buy = b /\ p.amount + p.fee = gross
    <2> HIDE DEF gross, fee, s, b
    <2>1. (gross - fee) + fee = gross BY <1>6, <1>7
    <2> QED BY <1>4, <1>7, <2>1 DEF Handout, Handouts
<1>10. P \subseteq Handouts /\ IsFiniteSet(P)
    <2>1. P = {i, p, v} \/ P = {i, p} OBVIOUS
    <2> HIDE DEF i, p, v
    <2>2. IsFiniteSet({i, p, v}) /\ IsFiniteSet({i, p})
        <3>1. IsFiniteSet({}) BY FS_EmptySet
        <3>2. IsFiniteSet({v}) BY FS_Singleton
        <3>3. IsFiniteSet({p}) BY FS_Singleton
        <3>4. IsFiniteSet({v} \cup {p}) BY <3>2, FS_AddElement
        <3>5. IsFiniteSet(({v} \cup {p}) \cup {i}) BY <3>4, FS_AddElement
        <3>6. IsFiniteSet({p} \cup {i}) BY <3>3, FS_AddElement
        <3>7. ({v} \cup {p}) \cup {i} = {i, p, v} /\ {p} \cup {i} = {i, p} OBVIOUS
        <3> QED BY <3>5, <3>6, <3>7
    <2> HIDE DEF P
    <2> QED BY <1>8, <1>9, <2>1, <2>2
<1> HIDE DEF i, p, v
<1>11. \A h \in P : h \in {i, p, v} OBVIOUS
<1>12. /\ i \in P /\ p \in P /\ (v \in P <=> over > 0) /\ i # p /\ i # v /\ p # v
    BY <1>8, <1>9
<1> HIDE DEF P, n, s, b, bid, gross, over
<1>13. ASSUME NEW k \in OrderIds
       PROVE  /\ Sum(Goods(k), P) = IF k = s THEN n ELSE 0
              /\ Sum(Pieces(k), P) = IF k = b THEN n ELSE 0
              /\ Sum(Coins(k), P) = IF k = b THEN bid * n ELSE 0
    <2>1. /\ Goods(k)[i] = IF k = s THEN n ELSE 0
          /\ Goods(k)[p] = 0 /\ Goods(k)[v] = 0
          /\ Pieces(k)[i] = IF k = b THEN n ELSE 0
          /\ Pieces(k)[p] = 0 /\ Pieces(k)[v] = 0
          /\ Coins(k)[i] = 0
          /\ Coins(k)[p] = IF k = b THEN gross ELSE 0
          /\ Coins(k)[v] = IF k = b THEN over ELSE 0
        BY <1>8, <1>9 DEF Goods, Pieces, Coins
    <2>2. Sum(Goods(k), P) = Goods(k)[i]
        <3>1. Goods(k)[i] \in Int /\ \A h \in P \ {i} : Goods(k)[h] = 0 BY <1>2, <1>11, <2>1 DEF n
        <3> QED BY <1>10, <1>12, <3>1, SumOnly DEF Sum
    <2>3. Sum(Pieces(k), P) = Pieces(k)[i]
        <3>1. Pieces(k)[i] \in Int /\ \A h \in P \ {i} : Pieces(k)[h] = 0 BY <1>2, <1>11, <2>1 DEF n
        <3> QED BY <1>10, <1>12, <3>1, SumOnly DEF Sum
    <2>4. Sum(Coins(k), P) = IF k = b THEN bid * n ELSE 0
        <3>1. \A h \in P : Coins(k)[h] \in Int BY <1>10, ValuesAre
        <3>2. Sum(Coins(k), P) = Coins(k)[p] + Sum(Coins(k), P \ {p}) BY <1>10, <1>12, <3>1, SumTakeOut DEF Sum
        <3>3. IsFiniteSet(P \ {p}) BY <1>10, FS_Subset
        <3>4. Sum(Coins(k), P \ {p}) = IF k = b THEN over ELSE 0
            <4>1. CASE over > 0
                <5>1. v \in P \ {p} /\ \A h \in (P \ {p}) \ {v} : Coins(k)[h] = 0
                    BY <1>11, <1>12, <2>1, <4>1
                <5>2. Coins(k)[v] \in Int BY <1>6, <2>1
                <5>3. Sum(Coins(k), P \ {p}) = Coins(k)[v] BY <3>3, <5>1, <5>2, SumOnly DEF Sum
                <5> QED BY <2>1, <5>3
            <4>2. CASE ~(over > 0)
                <5>1. over = 0 BY <1>6, <4>2
                <5>2. \A h \in P \ {p} : Coins(k)[h] = 0 BY <1>11, <1>12, <2>1, <4>2
                <5>3. Sum(Coins(k), P \ {p}) = 0 BY <3>3, <5>2, SumZero DEF Sum
                <5> QED BY <5>1, <5>3
            <4> QED BY <4>1, <4>2
        <3> QED BY <1>6, <2>1, <3>2, <3>4
    <2> QED BY <2>1, <2>2, <2>3, <2>4
<1>14. \A h \in P : h.kind # "refund" /\ Receiver(h) \in Sides /\ h.sell = s /\ h.buy = b
    BY <1>8, <1>9, <1>11 DEF Receiver, Sides
<1> QED BY <1>1, <1>10, <1>13, <1>14 DEF n, s, b, bid

\* The partners something is traded with, and all that is handed out to them.
Trades(w) == {a \in Partners(w) : Fill(w, a) > 0}
AllPayouts(w) == UNION {Payouts(w, a) : a \in Trades(w)}

LEMMA TradesAre ==
    ASSUME Inv, RowTypes, JobTypes, NEW w \in Workers, CommitCreate(w)
    PROVE  /\ IsFiniteSet(Trades(w)) /\ Trades(w) \subseteq Partners(w)
           /\ Sum(Share(w), Trades(w)) = Filled(w)
           /\ \A a \in Trades(w) : Share(w)[a] = Fill(w, a) /\ Share(w)[a] \in Int
<1>1. Trades(w) \in SUBSET Partners(w) /\ IsFiniteSet(Partners(w)) BY PartnersAre DEF Trades
<1>2. \A a \in Partners(w) : Fill(w, a) \in Nat BY CommitIs
<1>3. \A a \in Partners(w) : Share(w)[a] = Fill(w, a) BY DEF Share
<1>4. \A a \in Partners(w) : Share(w)[a] = IF a \in Trades(w) THEN Share(w)[a] ELSE 0
    BY <1>2, <1>3 DEF Trades
<1>5. \A a \in Trades(w) : Share(w)[a] \in Int BY <1>1, <1>2, <1>3
<1>6. SumFunctionOnSet(Share(w), Partners(w)) = SumFunctionOnSet(Share(w), Trades(w))
    <2> DEFINE S == Partners(w)
               T == Trades(w)
               f == Share(w)
    <2>1. IsFiniteSet(S) /\ T \in SUBSET S /\ \A x \in T : f[x] \in Int BY <1>1, <1>5
    <2>2. \A x \in S : f[x] = IF x \in T THEN f[x] ELSE 0 BY <1>4
    <2> HIDE DEF S, T, f
    <2>3. SumFunctionOnSet(f, S) = SumFunctionOnSet(f, T) BY <2>1, <2>2, SumPart
    <2> QED BY <2>3 DEF S, T, f
<1>7. Filled(w) = SumFunctionOnSet(Share(w), Partners(w)) BY CommitIs, FilledIs
<1>8. IsFiniteSet(Trades(w)) BY <1>1, FS_Subset
<1> QED BY <1>1, <1>3, <1>5, <1>6, <1>7, <1>8 DEF Sum

\* What a value adds up to over all payouts is a sum over the partners.
LEMMA PayoutsAddUp ==
    ASSUME Inv, RowTypes, JobTypes, NEW w \in Workers, CommitCreate(w),
           NEW f, \A h \in Handouts : f[h] \in Nat,
           NEW q, \A a \in Trades(w) : q[a] = Sum(f, Payouts(w, a))
    PROVE  /\ IsFiniteSet(AllPayouts(w)) /\ AllPayouts(w) \subseteq Handouts
           /\ Sum(f, AllPayouts(w)) = Sum(q, Trades(w))
<1> DEFINE T == Trades(w)
           P == [a \in T |-> Payouts(w, a)]
<1>1. IsFiniteSet(T) /\ T \subseteq Partners(w) BY TradesAre
<1>2. \A a \in T : P[a] = Payouts(w, a) /\ Fill(w, a) > 0 BY DEF Trades
<1>3. \A a \in T : P[a] \subseteq Handouts /\ IsFiniteSet(P[a]) BY <1>1, <1>2, PayoutsAre
<1>4. \A a \in T : \A h \in P[a] : h.sell = Seller(w, a) /\ h.buy = Buyer(w, a) BY <1>1, <1>2, PayoutsAre
<1>5. \A a, b \in T : a # b => P[a] \cap P[b] = {}
    BY <1>4 DEF Seller, Buyer
<1>6. AllPayouts(w) = AllOf(P, T) BY <1>2 DEF AllPayouts, AllOf
<1>7. \A a \in T : q[a] = SumFunctionOnSet(f, P[a]) BY <1>2 DEF Sum
<1>8. \A h \in Handouts : f[h] \in Int OBVIOUS
<1> HIDE DEF T, P
<1>9. /\ IsFiniteSet(AllOf(P, T)) /\ AllOf(P, T) \subseteq Handouts
      /\ SumFunctionOnSet(f, AllOf(P, T)) = SumFunctionOnSet(q, T)
    <2>1. SumsApart(Handouts, f, T, P, q) BY <1>1, <1>3, <1>5, <1>7, <1>8 DEF SumsApart
    <2> QED BY <2>1, SumDisjoint
<1> QED BY <1>6, <1>9 DEF T, Sum

\* How much of an order a matching trades.
Moved(w, k) == IF k = job[w].id THEN Filled(w) ELSE IF k \in Partners(w) THEN Fill(w, k) ELSE 0
Order(w, k) == IF k = job[w].id THEN job[w].order ELSE orders[k]

LEMMA PayoutSums ==
    ASSUME Inv, RowTypes, JobTypes, NEW w \in Workers, CommitCreate(w), NEW k \in OrderIds
    PROVE  LET N == AllPayouts(w) IN
           /\ Order(w, k).side = "sell" => Sum(Goods(k), N) = Moved(w, k)
           /\ Order(w, k).side = "buy" => /\ Sum(Pieces(k), N) = Moved(w, k)
                                          /\ Sum(Coins(k), N) = Order(w, k).price * Moved(w, k)
<1> DEFINE T == Trades(w)
           N == AllPayouts(w)
           id == job[w].id
           new == job[w].order
           goods == [a \in T |-> IF k = Seller(w, a) THEN Fill(w, a) ELSE 0]
           pieces == [a \in T |-> IF k = Buyer(w, a) THEN Fill(w, a) ELSE 0]
           coins == [a \in T |-> IF k = Buyer(w, a) THEN Bid(w, a) * Fill(w, a) ELSE 0]
<1>1. /\ id \in OrderIds /\ id \notin Partners(w) /\ PlacedRow(new)
      /\ \A a \in Partners(w) : /\ a \in OrderIds /\ PlacedRow(orders[a]) /\ orders[a].side # new.side
                                /\ Fill(w, a) \in Nat
    BY CommitIs
<1>2. new.side \in Sides /\ new.price \in Nat /\ \A a \in Partners(w) : orders[a].side \in Sides /\ orders[a].price \in Nat
    BY <1>1, MarketConstants DEF PlacedRow
<1>3. /\ IsFiniteSet(T) /\ T \subseteq Partners(w) /\ Sum(Share(w), T) = Filled(w)
      /\ \A a \in T : Share(w)[a] = Fill(w, a) /\ Share(w)[a] \in Int
    BY TradesAre
<1>4. Sum(Goods(k), N) = Sum(goods, T)
    <2>1. \A a \in T : goods[a] = Sum(Goods(k), Payouts(w, a)) BY <1>3, PayoutsAre DEF Trades
    <2> HIDE DEF goods
    <2> QED BY <2>1, ValuesAre, PayoutsAddUp
<1>5. Sum(Pieces(k), N) = Sum(pieces, T)
    <2>1. \A a \in T : pieces[a] = Sum(Pieces(k), Payouts(w, a)) BY <1>3, PayoutsAre DEF Trades
    <2> HIDE DEF pieces
    <2> QED BY <2>1, ValuesAre, PayoutsAddUp
<1>6. Sum(Coins(k), N) = Sum(coins, T)
    <2>1. \A a \in T : coins[a] = Sum(Coins(k), Payouts(w, a)) BY <1>3, PayoutsAre DEF Trades
    <2> HIDE DEF coins
    <2> QED BY <2>1, ValuesAre, PayoutsAddUp
\* The new order trades with all of them.
<1>7. CASE k = id
    <2>1. Order(w, k) = new /\ Moved(w, k) = Filled(w) BY <1>7 DEF Order, Moved
    <2>2. CASE new.side = "sell"
        <3>1. \A a \in T : goods[a] = Share(w)[a] BY <1>3, <1>7, <2>2 DEF Seller
        <3> HIDE DEF goods
        <3>2. Sum(goods, T) = Sum(Share(w), T) BY <1>3, <3>1, SumSame DEF Sum
        <3> QED BY <1>3, <1>4, <2>1, <2>2, <3>2
    <2>3. CASE new.side = "buy"
        <3>1. \A a \in T : pieces[a] = Share(w)[a] /\ coins[a] = new.price * Share(w)[a]
            BY <1>3, <1>7, <2>3 DEF Buyer, Bid
        <3> HIDE DEF pieces, coins
        <3>2. Sum(pieces, T) = Sum(Share(w), T) BY <1>3, <3>1, SumSame DEF Sum
        <3>3. Sum(coins, T) = new.price * Sum(Share(w), T)
            <4> DEFINE c == new.price
            <4>1. c \in Int /\ \A a \in T : Share(w)[a] \in Int /\ coins[a] = c * Share(w)[a] BY <1>2, <1>3, <3>1
            <4> HIDE DEF c
            <4>2. Sum(coins, T) = c * Sum(Share(w), T) BY <1>3, <4>1, SumScale DEF Sum
            <4> QED BY <4>2 DEF c
        <3> QED BY <1>3, <1>5, <1>6, <2>1, <2>3, <3>2, <3>3
    <2> QED BY <1>2, <2>2, <2>3 DEF Sides
\* A partner trades with the new order only.
<1>8. CASE k \in T
    <2>1. k # id /\ Order(w, k) = orders[k] /\ Moved(w, k) = Fill(w, k) BY <1>1, <1>3, <1>8 DEF Order, Moved
    <2>2. Fill(w, k) \in Int /\ orders[k].price * Fill(w, k) \in Int BY <1>1, <1>2, <1>3, <1>8
    <2>3. CASE orders[k].side = "sell"
        <3>1. new.side = "buy" BY <1>1, <1>2, <1>3, <1>8, <2>3 DEF Sides
        <3>2. goods[k] = Fill(w, k) /\ \A a \in T \ {k} : goods[a] = 0 BY <1>8, <2>1, <3>1 DEF Seller
        <3> HIDE DEF goods
        <3>3. Sum(goods, T) = goods[k] BY <1>3, <1>8, <2>2, <3>2, SumOnly DEF Sum
        <3> QED BY <1>4, <2>1, <2>3, <3>2, <3>3
    <2>4. CASE orders[k].side = "buy"
        <3>1. new.side = "sell" BY <1>1, <1>2, <1>3, <1>8, <2>4 DEF Sides
        <3>2. /\ pieces[k] = Fill(w, k) /\ coins[k] = orders[k].price * Fill(w, k)
              /\ \A a \in T \ {k} : pieces[a] = 0 /\ coins[a] = 0
            BY <1>8, <2>1, <3>1 DEF Buyer, Bid
        <3> HIDE DEF pieces, coins
        <3>3. Sum(pieces, T) = pieces[k] BY <1>3, <1>8, <2>2, <3>2, SumOnly DEF Sum
        <3>4. Sum(coins, T) = coins[k] BY <1>3, <1>8, <2>2, <3>2, SumOnly DEF Sum
        <3> QED BY <1>5, <1>6, <2>1, <2>4, <3>2, <3>3, <3>4
    <2> QED BY <1>2, <1>3, <1>8, <2>1, <2>3, <2>4 DEF Sides
<1>9. CASE k # id /\ k \notin T
    <2>1. Moved(w, k) = 0 /\ Order(w, k) = orders[k] BY <1>1, <1>9 DEF Moved, Trades, Order
    <2>2. \A a \in T : goods[a] = 0 /\ pieces[a] = 0 /\ coins[a] = 0 BY <1>9 DEF Seller, Buyer
    <2> HIDE DEF goods, pieces, coins
    <2>3. Sum(goods, T) = 0 /\ Sum(pieces, T) = 0 /\ Sum(coins, T) = 0 BY <1>3, <2>2, SumZero DEF Sum
    <2>4. orders[k].side = "buy" => orders[k].price \in Nat
        BY NoOrderIs, MarketConstants DEF RowTypes, PlacedRow
    <2>5. orders[k].side = "buy" => orders[k].price * 0 = 0 BY <2>4
    <2> QED BY <1>4, <1>5, <1>6, <2>1, <2>3, <2>5
<1> QED BY <1>7, <1>8, <1>9

--------------------------------------------------------------------------------
(* Accounts.  What an order was placed for is what is left of it and what was    *)
(* handed out.                                                                   *)

AccountOf(r, k, D, A) ==
    /\ r.side = "sell" => r.total = r.remaining + Sum(Goods(k), D) + Sum(Goods(k), A)
    /\ r.side = "buy" =>
          /\ r.filled = Sum(Pieces(k), D) + Sum(Pieces(k), A)
          /\ r.price * r.total = r.price * r.remaining + Sum(Coins(k), D) + Sum(Coins(k), A)

Accounts == \A k \in OrderIds : AccountOf(orders[k], k, deliveries, answers)

\* Handouts that are new: N in deliveries, M in answers.
Adds(N, M) ==
    /\ N \subseteq Handouts /\ M \subseteq Handouts /\ IsFiniteSet(N) /\ IsFiniteSet(M)
    /\ deliveries \cap N = {} /\ answers \cap M = {}
    /\ deliveries' = deliveries \cup N /\ answers' = answers \cup M

\* Row r of order k becomes t, and what it loses is handed out.
Hands(r, t, k, N, M) ==
    /\ t.side = r.side /\ t.total = r.total /\ t.price = r.price
    /\ r.side = "sell" => r.remaining = t.remaining + Sum(Goods(k), N) + Sum(Goods(k), M)
    /\ r.side = "buy" =>
          /\ t.filled = r.filled + Sum(Pieces(k), N) + Sum(Pieces(k), M)
          /\ r.price * r.remaining = t.price * t.remaining + Sum(Coins(k), N) + Sum(Coins(k), M)

LEMMA SumsAdd ==
    ASSUME Handed, NEW N, NEW M, Adds(N, M)
    PROVE  /\ IsFiniteSet(deliveries') /\ IsFiniteSet(answers')
           /\ deliveries' \subseteq Handouts /\ answers' \subseteq Handouts
           /\ \A f : (\A h \in Handouts : f[h] \in Nat) =>
                 /\ Sum(f, deliveries') = Sum(f, deliveries) + Sum(f, N)
                 /\ Sum(f, answers') = Sum(f, answers) + Sum(f, M)
<1>1. /\ deliveries \subseteq Handouts /\ answers \subseteq Handouts
      /\ IsFiniteSet(deliveries) /\ IsFiniteSet(answers)
    BY DEF Handed
<1>2. ASSUME NEW f, \A h \in Handouts : f[h] \in Nat
      PROVE  /\ Sum(f, deliveries') = Sum(f, deliveries) + Sum(f, N)
             /\ Sum(f, answers') = Sum(f, answers) + Sum(f, M)
    BY <1>1, <1>2, SumsGrow DEF Adds
<1>3. IsFiniteSet(deliveries') /\ IsFiniteSet(answers') BY <1>1, FS_Union DEF Adds
<1>4. deliveries' \subseteq Handouts /\ answers' \subseteq Handouts BY <1>1 DEF Adds
<1> QED BY <1>2, <1>3, <1>4

LEMMA AccountMoves ==
    ASSUME Handed, NEW N, NEW M, Adds(N, M), NEW k, NEW r \in Rows, NEW t \in Rows,
           AccountOf(r, k, deliveries, answers), Hands(r, t, k, N, M)
    PROVE  AccountOf(t, k, deliveries', answers')
<1>1. ASSUME NEW f, \A h \in Handouts : f[h] \in Nat
      PROVE  /\ Sum(f, deliveries) \in Nat /\ Sum(f, answers) \in Nat /\ Sum(f, N) \in Nat /\ Sum(f, M) \in Nat
             /\ Sum(f, deliveries') = Sum(f, deliveries) + Sum(f, N)
             /\ Sum(f, answers') = Sum(f, answers) + Sum(f, M)
    <2>1. Sum(f, deliveries) \in Nat /\ Sum(f, answers) \in Nat
        <3>1. \A h \in deliveries \cup answers : f[h] \in Nat BY <1>1 DEF Handed
        <3> QED BY <3>1, SumNat DEF Handed, Sum
    <2>2. Sum(f, N) \in Nat /\ Sum(f, M) \in Nat
        <3>1. \A h \in N \cup M : f[h] \in Nat BY <1>1 DEF Adds
        <3> QED BY <3>1, SumNat DEF Adds, Sum
    <2> QED BY <1>1, <2>1, <2>2, SumsAdd
<1>2. r.remaining \in Nat /\ t.remaining \in Nat /\ r.price \in Nat /\ r.total \in Nat /\ r.filled \in Nat
    BY DEF Rows
<1>3. r.price * r.remaining \in Nat /\ r.price * t.remaining \in Nat /\ r.price * r.total \in Nat BY <1>2
<1>4. r.side = "sell" => t.total = t.remaining + Sum(Goods(k), deliveries') + Sum(Goods(k), answers')
    BY <1>1, <1>2, ValuesAre DEF AccountOf, Hands
<1>5. r.side = "buy" => t.filled = Sum(Pieces(k), deliveries') + Sum(Pieces(k), answers')
    BY <1>1, <1>2, ValuesAre DEF AccountOf, Hands
<1>6. r.side = "buy" => t.price * t.total = t.price * t.remaining + Sum(Coins(k), deliveries') + Sum(Coins(k), answers')
    <2>1. /\ Sum(Coins(k), deliveries) \in Nat /\ Sum(Coins(k), answers) \in Nat
          /\ Sum(Coins(k), N) \in Nat /\ Sum(Coins(k), M) \in Nat
          /\ Sum(Coins(k), deliveries') = Sum(Coins(k), deliveries) + Sum(Coins(k), N)
          /\ Sum(Coins(k), answers') = Sum(Coins(k), answers) + Sum(Coins(k), M)
        BY <1>1, ValuesAre
    <2> DEFINE whole == r.price * r.total
               before == r.price * r.remaining
               after == r.price * t.remaining
    <2>2. whole \in Nat /\ before \in Nat /\ after \in Nat BY <1>3
    <2>3. r.side = "buy" => /\ whole = before + Sum(Coins(k), deliveries) + Sum(Coins(k), answers)
                            /\ before = after + Sum(Coins(k), N) + Sum(Coins(k), M)
                            /\ t.price * t.total = whole /\ t.price * t.remaining = after
        BY DEF AccountOf, Hands
    <2> HIDE DEF whole, before, after
    <2> QED BY <2>1, <2>2, <2>3
<1> QED BY <1>4, <1>5, <1>6 DEF AccountOf, Hands

\* Nothing was handed out to an order that is not there.
LEMMA NothingYet ==
    ASSUME Handed, NEW k \in OrderIds, orders[k].status = "none"
    PROVE  /\ Sum(Goods(k), deliveries) = 0 /\ Sum(Pieces(k), deliveries) = 0 /\ Sum(Coins(k), deliveries) = 0
           /\ Sum(Goods(k), answers) = 0 /\ Sum(Pieces(k), answers) = 0 /\ Sum(Coins(k), answers) = 0
<1>1. \A h \in deliveries \cup answers : h.sell # k /\ h.buy # k BY DEF Handed
<1>2. \A h \in deliveries \cup answers : Goods(k)[h] = 0 /\ Pieces(k)[h] = 0 /\ Coins(k)[h] = 0
    <2>1. deliveries \cup answers \subseteq Handouts BY DEF Handed
    <2> QED BY <1>1, <2>1 DEF Goods, Pieces, Coins
<1> QED BY <1>2, SumZero DEF Handed, Sum

\* What a matching hands out is new and names only orders it trades.
LEMMA CreateHands ==
    ASSUME Inv, RowTypes, JobTypes, Handed, NEW w \in Workers, CommitCreate(w)
    PROVE  \E N, M :
              /\ Adds(N, M) /\ delivered' = delivered
              /\ \A h \in N \cup M : /\ h.kind # "refund"
                                     /\ \A k \in OrderIds : h.sell = k \/ h.buy = k => k = job[w].id \/ k \in Partners(w)
              /\ \A f : (\A h \in Handouts : f[h] \in Nat) => Sum(f, N) + Sum(f, M) = Sum(f, AllPayouts(w))
<1> DEFINE P == AllPayouts(w)
           new == job[w].order
           M == {h \in P : Receiver(h) = new.side}
           N == {h \in P : Receiver(h) # new.side}
<1>1. /\ job[w].id \in OrderIds /\ orders[job[w].id].status = "none"
      /\ \A a \in Partners(w) : a \in OrderIds
    BY CommitIs, NoOrderIs
<1>2. IsFiniteSet(P) /\ P \subseteq Handouts
    <2>1. \E q : \A a \in Trades(w) : q[a] = Sum(Goods(None), Payouts(w, a))
        <3> DEFINE q == [a \in Trades(w) |-> Sum(Goods(None), Payouts(w, a))]
        <3>1. \A a \in Trades(w) : q[a] = Sum(Goods(None), Payouts(w, a)) OBVIOUS
        <3> QED BY <3>1
    <2> QED BY <2>1, ValuesAre, PayoutsAddUp
<1>3. \A h \in P : \E a \in Trades(w) : a \in Partners(w) /\ h \in Payouts(w, a) BY DEF AllPayouts, Trades
<1>4. ASSUME NEW h \in P
      PROVE  /\ h.kind # "refund" /\ (h.sell = job[w].id \/ h.buy = job[w].id)
             /\ \A k \in OrderIds : h.sell = k \/ h.buy = k => k = job[w].id \/ k \in Partners(w)
    <2>1. PICK a \in Trades(w) : a \in Partners(w) /\ h \in Payouts(w, a) BY <1>3
    <2>2. h.kind # "refund" /\ h.sell = Seller(w, a) /\ h.buy = Buyer(w, a) BY <2>1, PayoutsAre DEF Trades
    <2> QED BY <2>1, <2>2 DEF Seller, Buyer
<1>5. P \cap (deliveries \cup answers) = {} BY <1>1, <1>4 DEF Handed
<1>6. answers' = answers \cup M /\ deliveries' = deliveries \cup N /\ delivered' = delivered
    BY DEF CommitCreate, AllPayouts, Trades
<1>7. N \cup M = P /\ N \cap M = {} OBVIOUS
<1> HIDE DEF N, M, P
<1>8. IsFiniteSet(N) /\ IsFiniteSet(M) /\ N \subseteq Handouts /\ M \subseteq Handouts BY <1>2, <1>7, FS_Subset
<1>9. Adds(N, M) BY <1>5, <1>6, <1>7, <1>8 DEF Adds
<1>10. ASSUME NEW f, \A h \in Handouts : f[h] \in Nat PROVE Sum(f, N) + Sum(f, M) = Sum(f, P)
    BY <1>7, <1>8, <1>10, SumsGrow
<1> QED BY <1>4, <1>6, <1>7, <1>9, <1>10 DEF P

\* Who is closed stays, who has a row keeps it.
LEMMA NamesStay ==
    ASSUME Inv, [Next]_vars, Handed, NEW N, NEW M, Adds(N, M), delivered' \subseteq deliveries',
           \A h \in N \cup M : \A o \in OrderIds : h.sell = o \/ h.buy = o =>
              orders'[o].status # "none" /\ (h.kind = "refund" => orders'[o].status \in Closed),
           \A o \in OrderIds : orders[o].status # "none" => orders'[o].status # "none"
    PROVE  Handed'
<1>1. \A o \in OrderIds : orders[o].status \in Closed => orders'[o].status \in Closed BY StepIsFinal
<1>2. ASSUME NEW h \in deliveries' \cup answers', NEW o \in OrderIds, h.sell = o \/ h.buy = o
      PROVE  orders'[o].status # "none" /\ (h.kind = "refund" => orders'[o].status \in Closed)
    <2>1. CASE h \in N \cup M BY <1>2, <2>1
    <2>2. CASE h \in deliveries \cup answers BY <1>1, <1>2, <2>2 DEF Handed
    <2> QED BY <1>2, <2>1, <2>2 DEF Adds
<1> QED BY <1>2, SumsAdd DEF Handed

LEMMA CreateAccounts ==
    ASSUME Inv, RowTypes, JobTypes, Handed, Accounts, NEW w \in Workers, CommitCreate(w), [Next]_vars
    PROVE  Handed' /\ Accounts'
<1> DEFINE new == job[w].order
           id == job[w].id
<1>1. PICK N, M :
         /\ Adds(N, M) /\ delivered' = delivered
         /\ \A h \in N \cup M : /\ h.kind # "refund"
                                /\ \A k \in OrderIds : h.sell = k \/ h.buy = k => k = id \/ k \in Partners(w)
         /\ \A f : (\A h \in Handouts : f[h] \in Nat) => Sum(f, N) + Sum(f, M) = Sum(f, AllPayouts(w))
    BY CreateHands
<1>2. /\ id \in OrderIds /\ id \notin Partners(w) /\ orders[id] = NoOrder
      /\ PlacedRow(new) /\ new.status = "active" /\ new.filled = 0 /\ new.remaining = new.total
      /\ Filled(w) \in Nat /\ Filled(w) <= new.total /\ orders'[id] = Traded(new, Filled(w))
      /\ \A a \in Partners(w) :
            /\ a \in OrderIds /\ PlacedRow(orders[a]) /\ orders[a].status \in ActiveStatuses
            /\ Fill(w, a) \in Nat /\ Fill(w, a) <= orders[a].remaining
            /\ orders'[a] = Traded(orders[a], Fill(w, a)) \/ (Fill(w, a) = 0 /\ orders'[a] = orders[a])
      /\ \A o \in OrderIds \ {id} : o \notin Partners(w) => orders'[o] = orders[o]
    BY CommitIs DEF IsActive
<1>3. RowTypes' BY RowTypesKept
\* Each row loses what was traded.
<1>4. ASSUME NEW k \in OrderIds
      PROVE  LET r == Order(w, k)
                 t == orders'[k]
             IN  /\ r \in Rows /\ t \in Rows /\ Moved(w, k) \in Nat
                 /\ t.side = r.side /\ t.total = r.total /\ t.price = r.price
                 /\ t.remaining = r.remaining - Moved(w, k) /\ t.filled = r.filled + Moved(w, k)
                 /\ k = id \/ k \in Partners(w) => t.status # "none"
    <2>1. orders[k] \in Rows /\ orders'[k] \in Rows BY <1>3 DEF RowTypes
    <2>2. CASE k = id
        <3>1. Order(w, k) = new /\ Moved(w, k) = Filled(w) /\ new \in Rows BY <1>2, <2>2 DEF Order, Moved, PlacedRow
        <3>2. new.status \in ActiveStatuses BY <1>2 DEF ActiveStatuses
        <3>3. /\ PlacedRow(orders'[k]) /\ orders'[k].total = new.total /\ orders'[k].price = new.price
              /\ orders'[k].side = new.side /\ orders'[k].remaining = new.remaining - Filled(w)
              /\ orders'[k].filled = new.filled + Filled(w)
            BY <1>2, <2>2, <3>2, TradedRow
        <3>4. orders'[k].status # "none" BY <3>3 DEF PlacedRow
        <3> QED BY <1>2, <2>1, <3>1, <3>3, <3>4
    <2>3. CASE k \in Partners(w)
        <3>1. Order(w, k) = orders[k] /\ Moved(w, k) = Fill(w, k) BY <1>2, <2>3 DEF Order, Moved
        <3>2. CASE orders'[k] = Traded(orders[k], Fill(w, k))
            <4>1. /\ PlacedRow(orders'[k]) /\ orders'[k].total = orders[k].total /\ orders'[k].price = orders[k].price
                  /\ orders'[k].side = orders[k].side /\ orders'[k].remaining = orders[k].remaining - Fill(w, k)
                  /\ orders'[k].filled = orders[k].filled + Fill(w, k)
                BY <1>2, <2>3, <3>2, TradedRow
            <4>2. orders'[k].status # "none" BY <4>1 DEF PlacedRow
            <4> QED BY <1>2, <2>1, <2>3, <3>1, <4>1, <4>2
        <3>3. CASE Fill(w, k) = 0 /\ orders'[k] = orders[k]
            <4>1. orders[k].remaining - 0 = orders[k].remaining /\ orders[k].filled + 0 = orders[k].filled
                BY <2>1 DEF Rows
            <4>2. orders[k].status # "none" BY <1>2, <2>3 DEF ActiveStatuses
            <4> QED BY <2>1, <3>1, <3>3, <4>1, <4>2
        <3> QED BY <1>2, <2>3, <3>2, <3>3
    <2>4. CASE k # id /\ k \notin Partners(w)
        <3>1. Order(w, k) = orders[k] /\ Moved(w, k) = 0 /\ orders'[k] = orders[k] BY <1>2, <2>4 DEF Order, Moved
        <3>2. orders[k].remaining - 0 = orders[k].remaining /\ orders[k].filled + 0 = orders[k].filled
            BY <2>1 DEF Rows
        <3> QED BY <2>1, <2>4, <3>1, <3>2
    <2> QED BY <2>2, <2>3, <2>4
<1>5. ASSUME NEW k \in OrderIds PROVE AccountOf(Order(w, k), k, deliveries, answers)
    <2>1. CASE k # id BY <2>1 DEF Order, Accounts
    <2>2. CASE k = id
        <3>1. new.total \in Nat /\ new.price \in Nat
            <4>1. new \in Rows BY <1>2 DEF PlacedRow
            <4> HIDE DEF new
            <4> QED BY <4>1 DEF Rows
        <3>2. new.price * new.total \in Nat BY <3>1
        <3>3. orders[k].status = "none" BY <1>2, <2>2, NoOrderIs
        <3>4. Order(w, k) = new BY <2>2 DEF Order
        <3>5. new.total = new.total + 0 + 0 /\ new.price * new.total = new.price * new.total + 0 + 0 /\ 0 = 0 + 0
            BY <3>1, <3>2
        <3> QED BY <1>2, <3>3, <3>4, <3>5, NothingYet DEF AccountOf
    <2> QED BY <2>1, <2>2
<1>6. ASSUME NEW k \in OrderIds PROVE Hands(Order(w, k), orders'[k], k, N, M)
    <2> DEFINE r == Order(w, k)
               t == orders'[k]
               m == Moved(w, k)
    <2>1. /\ r \in Rows /\ t \in Rows /\ m \in Nat
          /\ t.side = r.side /\ t.total = r.total /\ t.price = r.price
          /\ t.remaining = r.remaining - m /\ t.filled = r.filled + m
        BY <1>4
    <2>2. /\ r.side = "sell" => Sum(Goods(k), N) + Sum(Goods(k), M) = m
          /\ r.side = "buy" => /\ Sum(Pieces(k), N) + Sum(Pieces(k), M) = m
                               /\ Sum(Coins(k), N) + Sum(Coins(k), M) = r.price * m
        BY <1>1, PayoutSums, ValuesAre
    <2>3. \A f : (\A h \in Handouts : f[h] \in Nat) => Sum(f, N) \in Nat /\ Sum(f, M) \in Nat
        <3>1. \A f : (\A h \in Handouts : f[h] \in Nat) => \A h \in N \cup M : f[h] \in Nat BY <1>1 DEF Adds
        <3> QED BY <1>1, <3>1, SumNat DEF Adds, Sum
    <2>4. /\ Sum(Goods(k), N) \in Nat /\ Sum(Goods(k), M) \in Nat
          /\ Sum(Pieces(k), N) \in Nat /\ Sum(Pieces(k), M) \in Nat
          /\ Sum(Coins(k), N) \in Nat /\ Sum(Coins(k), M) \in Nat
        BY <2>3, ValuesAre
    <2>5. r.remaining \in Nat /\ r.filled \in Nat /\ r.price \in Nat BY <2>1 DEF Rows
    <2> HIDE DEF r, t, m
    <2>6. r.price * r.remaining = r.price * t.remaining + r.price * m
        <3>1. r.price * (r.remaining - m) + r.price * m = r.price * r.remaining BY <2>1, <2>5
        <3> QED BY <2>1, <3>1
    <2>7. r.price * t.remaining \in Int
        <3>1. t.remaining \in Nat BY <2>1 DEF Rows
        <3> QED BY <2>5, <3>1
    <2>8. r.side = "sell" => r.remaining = t.remaining + Sum(Goods(k), N) + Sum(Goods(k), M)
        BY <2>1, <2>2, <2>4, <2>5
    <2>9. r.side = "buy" => t.filled = r.filled + Sum(Pieces(k), N) + Sum(Pieces(k), M)
        BY <2>1, <2>2, <2>4, <2>5
    <2>10. r.side = "buy" => r.price * r.remaining = t.price * t.remaining + Sum(Coins(k), N) + Sum(Coins(k), M)
        <3> DEFINE before == r.price * r.remaining
                   after == r.price * t.remaining
                   moved == r.price * m
        <3>1. r.side = "buy" => Sum(Coins(k), N) + Sum(Coins(k), M) = moved BY <2>2
        <3>2. before = after + moved /\ after \in Int /\ t.price * t.remaining = after BY <2>1, <2>6, <2>7
        <3> HIDE DEF before, after, moved
        <3>3. r.side = "buy" => before = after + Sum(Coins(k), N) + Sum(Coins(k), M)
            BY <2>4, <3>1, <3>2
        <3> QED BY <3>2, <3>3 DEF before
    <2>11. Hands(r, t, k, N, M) BY <2>1, <2>8, <2>9, <2>10 DEF Hands
    <2> QED BY <2>11 DEF r, t
<1>7. Accounts'
    <2>1. \A k \in OrderIds : AccountOf(orders'[k], k, deliveries', answers')
        BY <1>1, <1>4, <1>5, <1>6, AccountMoves
    <2> QED BY <2>1 DEF Accounts, AccountOf, Sum, Goods, Pieces, Coins
<1>8. Handed'
    <2>1. \A h \in N \cup M : \A o \in OrderIds : h.sell = o \/ h.buy = o =>
             orders'[o].status # "none" /\ (h.kind = "refund" => orders'[o].status \in Closed)
        BY <1>1, <1>4
    <2>2. \A o \in OrderIds : orders[o].status # "none" => orders'[o].status # "none" BY <1>2, <1>4
    <2>3. delivered' \subseteq deliveries' BY <1>1 DEF Adds, Handed
    <2> QED BY <1>1, <2>1, <2>2, <2>3, NamesStay
<1> QED BY <1>7, <1>8

\* A closed order is refunded what is left of it.
LEMMA RefundHands ==
    ASSUME RowTypes, NEW o \in OrderIds, IsActive(o), NEW fee \in {0, CancelFee(Rest(o))},
           NEW status \in {"cancelled", "expired"}, NEW N, N \subseteq Handouts, IsFiniteSet(N),
           Refund(o, fee) \in N, \A h \in N \ {Refund(o, fee)} : h.sell # o /\ h.buy # o
    PROVE  LET t == Close(o, status) IN
           /\ orders[o] \in Rows /\ t \in Rows
           /\ Hands(orders[o], t, o, N, {}) /\ Hands(orders[o], t, o, {}, N)
<1> DEFINE t == Close(o, status)
           r == orders[o]
           h0 == Refund(o, fee)
<1>1. /\ r \in Rows /\ t \in Rows /\ t.total = r.total /\ t.price = r.price /\ t.side = r.side
      /\ t.remaining = 0 /\ t.filled = r.filled
    BY CloseRow DEF PlacedRow
<1>2. /\ Goods(o)[h0] = IF r.side = "sell" THEN r.remaining ELSE 0
      /\ Pieces(o)[h0] = 0
      /\ Coins(o)[h0] = IF r.side = "buy" THEN r.price * r.remaining ELSE 0
    BY RefundIs
<1>3. r.remaining \in Nat /\ r.price \in Nat /\ r.filled \in Nat BY <1>1 DEF Rows
<1>4. r.price * r.remaining \in Nat /\ r.price * 0 = 0 BY <1>3
<1> HIDE DEF h0
<1>5. \A h \in N \ {h0} : Goods(o)[h] = 0 /\ Pieces(o)[h] = 0 /\ Coins(o)[h] = 0
    BY DEF h0, Goods, Pieces, Coins
<1>6. h0 \in N BY DEF h0
<1>7. Goods(o)[h0] \in Int /\ Pieces(o)[h0] \in Int /\ Coins(o)[h0] \in Int BY <1>2, <1>3, <1>4
<1>8. /\ Sum(Goods(o), N) = Goods(o)[h0] /\ Sum(Pieces(o), N) = Pieces(o)[h0]
      /\ Sum(Coins(o), N) = Coins(o)[h0]
    BY <1>5, <1>6, <1>7, SumOnly DEF Sum
<1>9. Sum(Goods(o), {}) = 0 /\ Sum(Pieces(o), {}) = 0 /\ Sum(Coins(o), {}) = 0 BY SumEmpty DEF Sum
<1> DEFINE worth == r.price * r.remaining
<1>10. r.side = "buy" => Coins(o)[h0] = worth BY <1>2
<1>11. r.side = "buy" => worth = t.price * t.remaining + Sum(Coins(o), N) + 0
    <2>1. t.price * t.remaining = 0 BY <1>1, <1>4
    <2>2. worth \in Nat BY <1>4
    <2> HIDE DEF worth
    <2> QED BY <1>8, <1>10, <2>1, <2>2
<1>12. r.side = "buy" => worth = t.price * t.remaining + 0 + Sum(Coins(o), N)
    <2>1. t.price * t.remaining = 0 BY <1>1, <1>4
    <2>2. worth \in Nat BY <1>4
    <2> HIDE DEF worth
    <2> QED BY <1>8, <1>10, <2>1, <2>2
<1>13. /\ r.side = "sell" => r.remaining = t.remaining + Sum(Goods(o), N) + 0
       /\ r.side = "sell" => r.remaining = t.remaining + 0 + Sum(Goods(o), N)
       /\ t.filled = r.filled + Sum(Pieces(o), N) + 0
       /\ t.filled = r.filled + 0 + Sum(Pieces(o), N)
    <2> HIDE DEF t, r
    <2> QED BY <1>1, <1>2, <1>3, <1>8
<1> HIDE DEF t
<1>14. Hands(r, t, o, N, {}) /\ Hands(r, t, o, {}, N)
    BY <1>1, <1>9, <1>11, <1>12, <1>13 DEF Hands
<1> QED BY <1>1, <1>14 DEF t

\* Nothing is handed out for an order that is not named.
LEMMA OthersHand ==
    ASSUME RowTypes, NEW k \in OrderIds, NEW N, N \subseteq Handouts, IsFiniteSet(N),
           \A h \in N : h.sell # k /\ h.buy # k
    PROVE  orders[k] \in Rows /\ Hands(orders[k], orders[k], k, N, {}) /\ Hands(orders[k], orders[k], k, {}, N)
<1>1. \A h \in N : Goods(k)[h] = 0 /\ Pieces(k)[h] = 0 /\ Coins(k)[h] = 0
    BY DEF Goods, Pieces, Coins
<1>2. Sum(Goods(k), N) = 0 /\ Sum(Pieces(k), N) = 0 /\ Sum(Coins(k), N) = 0 BY <1>1, SumZero DEF Sum
<1>3. Sum(Goods(k), {}) = 0 /\ Sum(Pieces(k), {}) = 0 /\ Sum(Coins(k), {}) = 0 BY SumEmpty DEF Sum
<1>4. orders[k] \in Rows BY DEF RowTypes
<1>5. orders[k].price * orders[k].remaining \in Int /\ orders[k].remaining \in Int /\ orders[k].filled \in Int
    BY <1>4 DEF Rows
<1> QED BY <1>2, <1>3, <1>4, <1>5 DEF Hands

LEMMA CancelAccounts ==
    ASSUME Inv, RowTypes, JobTypes, Handed, Accounts, NEW c \in OrderIds, NEW p \in Players, Cancel(c, p), [Next]_vars
    PROVE  Handed' /\ Accounts'
<1> DEFINE r == Refund(c, CancelFee(Rest(c)))
<1>1. /\ IsActive(c) /\ orders' = [orders EXCEPT ![c] = Close(c, "cancelled")]
      /\ answers' = answers \cup {r} /\ UNCHANGED <<delivered, deliveries>>
    BY DEF Cancel, Cancellable
<1>2. \A o \in OrderIds : orders'[o] = IF o = c THEN Close(c, "cancelled") ELSE orders[o] BY <1>1 DEF RowTypes
<1>3. /\ r \in Handouts /\ r.kind = "refund" /\ \A k \in OrderIds : r.sell = k \/ r.buy = k <=> k = c
    BY <1>1, RefundIs
<1>4. r \notin answers
    <2>1. orders[c].status \notin Closed BY <1>1 DEF IsActive, ActiveStatuses, Closed
    <2> HIDE DEF r
    <2> QED BY <1>3, <2>1 DEF Handed
<1>5. RowTypes' BY RowTypesKept
<1>6. IsFiniteSet({r}) /\ IsFiniteSet({}) BY FS_Singleton, FS_EmptySet
<1>7. Adds({}, {r})
    <2> HIDE DEF r
    <2> QED BY <1>1, <1>3, <1>4, <1>6 DEF Adds
<1>8. ASSUME NEW k \in OrderIds
      PROVE  orders[k] \in Rows /\ orders'[k] \in Rows /\ Hands(orders[k], orders'[k], k, {}, {r})
    <2>1. CASE k = c
        <3>1. r \in {r} /\ \A h \in {r} \ {r} : h.sell # c /\ h.buy # c OBVIOUS
        <3>2. {r} \subseteq Handouts BY <1>3
        <3>3. orders[c] \in Rows /\ Close(c, "cancelled") \in Rows /\ Hands(orders[c], Close(c, "cancelled"), c, {}, {r})
            BY <1>1, <1>6, <3>1, <3>2, RefundHands
        <3> QED BY <1>2, <2>1, <3>3
    <2>2. CASE k # c
        <3> HIDE DEF r
        <3>1. {r} \subseteq Handouts /\ \A h \in {r} : h.sell # k /\ h.buy # k BY <1>3, <2>2
        <3> QED BY <1>2, <1>6, <2>2, <3>1, OthersHand
    <2> QED BY <2>1, <2>2
<1> HIDE DEF r
<1>9. Accounts'
    <2>1. \A k \in OrderIds : AccountOf(orders'[k], k, deliveries', answers')
        BY <1>7, <1>8, AccountMoves DEF Accounts
    <2> QED BY <2>1 DEF Accounts, AccountOf, Sum, Goods, Pieces, Coins
<1>10. Handed'
    <2>1. orders'[c].status = "cancelled" BY <1>1, <1>2, CloseRow
    <2>2. \A h \in {} \cup {r} : \A o \in OrderIds : h.sell = o \/ h.buy = o =>
             orders'[o].status # "none" /\ (h.kind = "refund" => orders'[o].status \in Closed)
        BY <1>3, <2>1 DEF Closed
    <2>3. \A o \in OrderIds : orders[o].status # "none" => orders'[o].status # "none" BY <1>2, <2>1
    <2>4. delivered' \subseteq deliveries' BY <1>1 DEF Handed
    <2> QED BY <1>7, <2>2, <2>3, <2>4, NamesStay
<1> QED BY <1>9, <1>10

LEMMA SweepAccounts ==
    ASSUME Inv, RowTypes, JobTypes, Handed, Accounts, NEW w \in Workers, CommitExpire(w), [Next]_vars
    PROVE  Handed' /\ Accounts'
<1> DEFINE swept == Mine(w) \cup Due("buy")
           N == {Refund(o, 0) : o \in {a \in swept : Rest(a) > 0}}
<1>1. /\ swept \subseteq OrderIds /\ \A o \in swept : IsActive(o)
      /\ \A o \in OrderIds : orders'[o] = IF o \in swept THEN Close(o, "expired") ELSE orders[o]
      /\ deliveries' = deliveries \cup N /\ UNCHANGED <<answers, delivered>>
    BY SweepIs
<1>2. \A o \in swept : /\ Rest(o) > 0 /\ Refund(o, 0) \in Handouts /\ Refund(o, 0).kind = "refund"
                       /\ \A k \in OrderIds : Refund(o, 0).sell = k \/ Refund(o, 0).buy = k <=> k = o
    BY <1>1, RefundIs
<1>3. N = {Refund(o, 0) : o \in swept} BY <1>2
<1>4. N \subseteq Handouts /\ IsFiniteSet(N) /\ IsFiniteSet({})
    <2>1. IsFiniteSet(swept) BY <1>1, OrdersFinite, FS_Subset
    <2> DEFINE F == [o \in swept |-> Refund(o, 0)]
               T == {F[o] : o \in swept}
    <2>2. T = N BY <1>3
    <2>3. F \in Surjection(swept, T) BY DEF Surjection
    <2>4. \A h \in N : \E o \in swept : h = Refund(o, 0) BY <1>3
    <2>5. N \subseteq Handouts BY <1>2, <2>4
    <2> HIDE DEF N, T, F, swept
    <2>6. IsFiniteSet(T) BY <2>1, <2>3, FS_Surjection
    <2> QED BY <2>2, <2>5, <2>6, FS_EmptySet
<1>5. \A h \in N : \E o \in swept : h = Refund(o, 0) BY <1>3
<1>6. N \cap deliveries = {}
    <2>1. ASSUME NEW h \in N, h \in deliveries PROVE FALSE
        <3>1. PICK o \in swept : h = Refund(o, 0) BY <1>5
        <3>2. o \in OrderIds /\ h.kind = "refund" /\ (h.sell = o \/ h.buy = o) BY <1>1, <1>2, <3>1
        <3>3. orders[o].status \notin Closed BY <1>1 DEF IsActive, ActiveStatuses, Closed
        <3> QED BY <2>1, <3>2, <3>3 DEF Handed
    <2> QED BY <2>1
<1>7. Adds(N, {})
    <2> HIDE DEF N
    <2> QED BY <1>1, <1>4, <1>6 DEF Adds
<1>8. RowTypes' BY RowTypesKept
<1>9. ASSUME NEW k \in OrderIds
      PROVE  orders[k] \in Rows /\ orders'[k] \in Rows /\ Hands(orders[k], orders'[k], k, N, {})
    <2>1. CASE k \in swept
        <3>1. Refund(k, 0) \in N BY <1>3, <2>1
        <3>2. \A h \in N \ {Refund(k, 0)} : h.sell # k /\ h.buy # k
            <4>1. ASSUME NEW h \in N, h # Refund(k, 0) PROVE h.sell # k /\ h.buy # k
                <5>1. PICK o \in swept : h = Refund(o, 0) BY <1>5
                <5>2. o # k BY <4>1, <5>1
                <5> QED BY <1>2, <5>1, <5>2
            <4> QED BY <4>1
        <3> HIDE DEF N, swept
        <3>3. orders[k] \in Rows /\ Close(k, "expired") \in Rows /\ Hands(orders[k], Close(k, "expired"), k, N, {})
            BY <1>1, <1>4, <2>1, <3>1, <3>2, RefundHands
        <3> QED BY <1>1, <2>1, <3>3
    <2>2. CASE k \notin swept
        <3>1. \A h \in N : h.sell # k /\ h.buy # k
            <4>1. ASSUME NEW h \in N PROVE h.sell # k /\ h.buy # k
                <5>1. PICK o \in swept : h = Refund(o, 0) BY <1>5
                <5> QED BY <1>2, <2>2, <5>1
            <4> QED BY <4>1
        <3> HIDE DEF N, swept
        <3>2. orders[k] \in Rows /\ Hands(orders[k], orders[k], k, N, {}) BY <1>4, <3>1, OthersHand
        <3> QED BY <1>1, <2>2, <3>2
    <2> QED BY <2>1, <2>2
<1>10. \A o \in swept : orders'[o].status = "expired" BY <1>1, CloseRow
<1>11. \A h \in N \cup {} : \A o \in OrderIds : h.sell = o \/ h.buy = o =>
          orders'[o].status # "none" /\ (h.kind = "refund" => orders'[o].status \in Closed)
    <2>1. ASSUME NEW h \in N, NEW o \in OrderIds, h.sell = o \/ h.buy = o
          PROVE  orders'[o].status # "none" /\ orders'[o].status \in Closed
        <3>1. PICK k \in swept : h = Refund(k, 0) BY <1>5
        <3>2. o \in swept BY <1>2, <2>1, <3>1
        <3> QED BY <1>10, <3>2 DEF Closed
    <2> QED BY <2>1
<1>12. \A o \in OrderIds : orders[o].status # "none" => orders'[o].status # "none" BY <1>1, <1>10
<1>13. delivered' \subseteq deliveries' BY <1>1 DEF Handed
<1> HIDE DEF N, swept
<1>14. Accounts'
    <2>1. \A k \in OrderIds : AccountOf(orders'[k], k, deliveries', answers')
        BY <1>7, <1>9, AccountMoves DEF Accounts
    <2> QED BY <2>1 DEF Accounts, AccountOf, Sum, Goods, Pieces, Coins
<1>15. Handed' BY <1>7, <1>11, <1>12, <1>13, NamesStay
<1> QED BY <1>14, <1>15

LEMMA AccountsKept ==
    ASSUME Inv, RowTypes, JobTypes, Handed, Accounts, [Next]_vars
    PROVE  Handed' /\ Accounts'
<1>1. ASSUME UNCHANGED table, delivered' \subseteq deliveries PROVE Handed' /\ Accounts'
    <2>1. Handed' BY <1>1 DEF Handed, table
    <2> QED BY <1>1, <2>1 DEF Accounts, AccountOf, Sum, Goods, Pieces, Coins, table
<1>2. ASSUME UNCHANGED table PROVE delivered' \subseteq deliveries
    <2>1. ASSUME NEW w \in Workers, Start(w) \/ Advance(w) \/ Abort(w) PROVE delivered' = delivered
        BY <2>1 DEF Start, BeginCreate, BeginExpire, Advance, Look, LockRow, CommitCreate, CommitExpire, Abort
    <2>2. ASSUME NEW o \in OrderIds, NEW p, Cancel(o, p) PROVE delivered' = delivered BY <2>2 DEF Cancel
    <2>3. ASSUME NEW o \in OrderIds, GrowOverdue(o) PROVE delivered' = delivered BY <2>3 DEF GrowOverdue
    <2>4. ASSUME NEW h \in deliveries, Ack(h) PROVE delivered' = delivered \cup {h} BY <2>4 DEF Ack
    <2>5. CASE UNCHANGED vars BY <2>5 DEF vars, Handed
    <2>6. delivered \subseteq deliveries BY DEF Handed
    <2> QED BY <2>1, <2>2, <2>3, <2>4, <2>5, <2>6 DEF Next
<1> QED BY <1>1, <1>2, CreateAccounts, SweepAccounts, CancelAccounts, TableLeft

--------------------------------------------------------------------------------
(* What a request has seen. *)

\* Every order keeps what it is.
LEMMA AllKeep ==
    ASSUME Inv, [Next]_vars
    PROVE  \A o \in OrderIds : Keeps(o)
<1>1. CASE UNCHANGED vars \/ (\E o \in OrderIds : GrowOverdue(o)) \/ (\E h \in deliveries : Ack(h))
    <2>1. orders' = orders BY <1>1 DEF vars, table, GrowOverdue, Ack
    <2> QED BY <2>1, SameKeeps
<1>2. ASSUME NEW c \in OrderIds, NEW p, Cancel(c, p) PROVE \A o \in OrderIds : Keeps(o)
    BY <1>2, CancelAlters, SameKeeps
<1>3. ASSUME NEW w \in Workers, CommitCreate(w) \/ CommitExpire(w), NEW o \in OrderIds PROVE Keeps(o)
    <2>1. CASE orders'[o] = orders[o] \/ Alters(o) BY <2>1, SameKeeps
    <2>2. CASE /\ pc[w] = "match" /\ o = job[w].id
               /\ Shaped(orders'[o]) /\ orders'[o].side \in Sides /\ orders'[o].status # "none"
        BY <2>2 DEF Keeps, Inv, Ids, Creating
    <2> QED BY <1>3, <2>1, <2>2, CommitsAlter
<1>4. ASSUME NEW w \in Workers, Start(w) \/ Look(w) \/ (\E o \in OrderIds : LockRow(w, o)) \/ Abort(w)
      PROVE  \A o \in OrderIds : Keeps(o)
    BY <1>4, RowsLeft, SameKeeps
<1> QED BY <1>1, <1>2, <1>3, <1>4 DEF Next, Advance

\* Of the orders there were when it looked, a request has in its book all that
\* its own can trade with.
Sights ==
    /\ clock <= MaxOrders
    /\ seen \in [Workers -> SUBSET OrderIds]
    /\ \A w \in Workers : \A o \in seen[w] :
          /\ pc[w] = "match" /\ orders[o].status # "none"
          /\ orders[o].side # job[w].order.side /\ Crosses(job[w].order, orders[o]) => o \in book[w]

LEMMA SightsKept ==
    ASSUME Inv, RowTypes, JobTypes, Sights, [Next]_vars
    PROVE  Sights'
<1>1. ASSUME NEW o \in OrderIds, orders[o].status # "none"
      PROVE  /\ orders'[o].status # "none" /\ orders'[o].side = orders[o].side /\ orders'[o].price = orders[o].price
    BY <1>1, AllKeep DEF Keeps
<1>2. ASSUME NEW w \in Workers, NEW o \in seen[w]
      PROVE  /\ pc[w] = "match" /\ orders'[o].status # "none"
             /\ orders'[o].side # job[w].order.side /\ Crosses(job[w].order, orders'[o]) => o \in book[w]
    BY <1>1, <1>2 DEF Sights, Crosses
<1>3. clock' <= MaxOrders
    <2>1. ASSUME NEW w \in Workers, Start(w) PROVE clock' = clock \/ (clock < MaxOrders /\ clock' = clock + 1)
        BY <2>1 DEF Start, BeginCreate, BeginExpire
    <2>2. ASSUME NEW w \in Workers, Advance(w) \/ Abort(w) PROVE clock' = clock
        BY <2>2 DEF Advance, Abort, Look, LockRow, CommitCreate, CommitExpire
    <2>3. ASSUME NEW o \in OrderIds, NEW p, Cancel(o, p) PROVE clock' = clock BY <2>3 DEF Cancel
    <2>4. CASE UNCHANGED vars \/ (\E o \in OrderIds : GrowOverdue(o)) \/ (\E h \in deliveries : Ack(h))
        BY <2>4 DEF vars, GrowOverdue, Ack, Sights
    <2> QED BY <2>1, <2>2, <2>3, <2>4, MarketConstants DEF Next, Sights, Inv, Shapes
\* The request of a worker goes on or ends, and the others stay where they are.
<1>4. ASSUME NEW w \in Workers, seen' \in [Workers -> SUBSET OrderIds],
             \A v \in Workers \ {w} : /\ pc'[v] = pc[v] /\ job'[v] = job[v]
                                      /\ book'[v] = book[v] /\ seen'[v] = seen[v],
             seen'[w] = {} \/ (/\ seen'[w] = seen[w] /\ pc'[w] = pc[w]
                               /\ job'[w] = job[w] /\ book'[w] = book[w])
      PROVE  Sights'
    <2>1. ASSUME NEW v \in Workers, NEW o \in seen'[v]
          PROVE  /\ pc'[v] = "match" /\ orders'[o].status # "none"
                 /\ orders'[o].side # job'[v].order.side /\ Crosses(job'[v].order, orders'[o]) => o \in book'[v]
        BY <1>2, <1>4, <2>1
    <2> QED BY <1>3, <1>4, <2>1 DEF Sights, Crosses
<1>5. ASSUME NEW w \in Workers, Release(w) PROVE Sights'
    <2>1. /\ seen' = [seen EXCEPT ![w] = {}] /\ seen'[w] = {}
          /\ \A v \in Workers \ {w} : /\ pc'[v] = pc[v] /\ job'[v] = job[v]
                                      /\ book'[v] = book[v] /\ seen'[v] = seen[v]
        BY <1>5 DEF Release, Inv, Shapes, Sights
    <2>2. seen' \in [Workers -> SUBSET OrderIds] BY <2>1 DEF Sights
    <2> QED BY <1>4, <2>1, <2>2
<1>6. ASSUME NEW w \in Workers, Start(w) PROVE Sights'
    <2>1. /\ pc[w] = "idle" /\ UNCHANGED <<book, seen>>
          /\ \A v \in Workers \ {w} : pc'[v] = pc[v] /\ job'[v] = job[v]
        BY <1>6 DEF Start, BeginCreate, BeginExpire, Inv, Shapes
    <2>2. seen[w] = {} BY <2>1 DEF Sights
    <2> QED BY <1>4, <2>1, <2>2 DEF Sights
<1>7. ASSUME NEW w \in Workers, Look(w) PROVE Sights'
    <2>1. /\ pc' = [pc EXCEPT ![w] = "match"] /\ UNCHANGED <<orders, job>>
          /\ book' = [book EXCEPT ![w] = {o \in OrderIds : Matches(job[w].order, o)}]
          /\ seen' = [seen EXCEPT ![w] = {o \in OrderIds : IsActive(o)}]
        BY <1>7 DEF Look, table
    <2>2. seen' \in [Workers -> SUBSET OrderIds] BY <2>1 DEF Sights
    <2>3. \A v \in Workers \ {w} : pc'[v] = pc[v] /\ book'[v] = book[v] /\ seen'[v] = seen[v]
        BY <2>1 DEF Inv, Shapes, Sights
    <2>4. /\ pc'[w] = "match" /\ book'[w] = {o \in OrderIds : Matches(job[w].order, o)}
          /\ seen'[w] = {o \in OrderIds : IsActive(o)}
        BY <2>1 DEF Inv, Shapes, Sights
    <2>5. ASSUME NEW o \in seen'[w]
          PROVE  /\ orders[o].status # "none"
                 /\ orders[o].side # job[w].order.side /\ Crosses(job[w].order, orders[o]) => o \in book'[w]
        <3>1. o \in OrderIds /\ IsActive(o) /\ orders[o].status \in ActiveStatuses BY <2>4, <2>5 DEF IsActive
        <3>2. orders[o].status # "none" BY <3>1 DEF ActiveStatuses
        <3>3. orders[o].remaining > 0 BY <3>1, <3>2, NoOrderIs DEF RowTypes, PlacedRow
        <3> QED BY <2>4, <3>1, <3>2, <3>3 DEF Matches
    <2>6. ASSUME NEW v \in Workers, NEW o \in seen'[v]
          PROVE  /\ pc'[v] = "match" /\ orders'[o].status # "none"
                 /\ orders'[o].side # job'[v].order.side /\ Crosses(job'[v].order, orders'[o]) => o \in book'[v]
        <3>1. CASE v = w BY <2>1, <2>4, <2>5, <2>6, <3>1
        <3>2. CASE v # w BY <1>2, <2>1, <2>3, <2>6, <3>2
        <3> QED BY <3>1, <3>2
    <2> QED BY <1>3, <2>2, <2>6 DEF Sights, Crosses
<1>8. ASSUME UNCHANGED <<pc, job, book, seen>> PROVE Sights'
    <2>1. PICK w \in Workers : TRUE BY MarketConstants
    <2> QED BY <1>4, <1>8, <2>1 DEF Sights
<1>9. ASSUME NEW w \in Workers, Advance(w) \/ Abort(w) PROVE Sights'
    BY <1>5, <1>7, <1>8, <1>9 DEF Advance, Abort, LockRow, CommitCreate, CommitExpire
<1>10. CASE \/ UNCHANGED vars \/ (\E o \in OrderIds, p \in Players : Cancel(o, p))
            \/ (\E o \in OrderIds : GrowOverdue(o)) \/ (\E h \in deliveries : Ack(h))
    BY <1>8, <1>10 DEF vars, request, Cancel, GrowOverdue, Ack
<1> QED BY <1>6, <1>9, <1>10 DEF Next

--------------------------------------------------------------------------------
(* Matching, seen from the book. *)

\* An order gets its row when its own request commits.
LEMMA AppearsIs ==
    ASSUME Inv, [Next]_vars, NEW w \in Workers, Appears(w)
    PROVE  CommitCreate(w)
<1> DEFINE id == job[w].id
<1>1. pc[w] = "match" /\ id \in OrderIds /\ orders[id].status = "none" /\ orders'[id].status # "none"
    BY DEF Appears, Inv, Ids, Creating
<1>2. orders'[id] # orders[id] /\ ~Alters(id) BY <1>1 DEF Alters, IsActive, ActiveStatuses
<1>3. ASSUME NEW v \in Workers, CommitCreate(v) \/ CommitExpire(v) PROVE CommitCreate(w)
    <2>1. pc[v] = "match" /\ id = job[v].id BY <1>1, <1>2, <1>3, CommitsAlter
    <2>2. v = w BY <1>1, <2>1 DEF Inv, Ids, Creating
    <2> QED BY <1>3, <2>1, <2>2 DEF CommitExpire
<1>4. ASSUME NEW c \in OrderIds, NEW p, Cancel(c, p) PROVE FALSE BY <1>1, <1>2, <1>4, CancelAlters
<1>5. orders' # orders BY <1>1
<1>6. ~(UNCHANGED vars \/ (\E o \in OrderIds : GrowOverdue(o)) \/ (\E h \in deliveries : Ack(h)))
    BY <1>5 DEF vars, table, GrowOverdue, Ack
<1> QED BY <1>3, <1>4, <1>5, <1>6, RowsLeft DEF Next, Advance

\* What it saw, crosses and finds active, another player's, it trades with.
LEMMA SeenArePartners ==
    ASSUME Inv, RowTypes, JobTypes, Sights, [Next]_vars, NEW w \in Workers, CommitCreate(w),
           NEW o \in seen[w], orders[o].side # job[w].order.side, Crosses(job[w].order, orders[o]),
           orders[o].owner # job[w].order.owner, orders'[o].status \in ActiveStatuses
    PROVE  /\ o \in Partners(w) /\ Fill(w, o) < orders[o].remaining
           /\ orders'[job[w].id].status \notin ActiveStatuses
<1> DEFINE new == job[w].order
           id == job[w].id
<1>1. o \in OrderIds /\ orders[o].status # "none" /\ o \in book[w] BY DEF Sights
<1>2. lock[o] = w
    <2>1. NextRows(w) = {} BY DEF CommitCreate
    <2> QED BY <1>1, <2>1, AllLocked
<1>3. orders[o].status \notin Closed
    <2>1. ActiveStatuses \cap Closed = {} BY DEF ActiveStatuses, Closed
    <2> QED BY <1>1, <2>1, StepIsFinal
<1>4. PlacedRow(orders[o]) /\ orders[o].remaining > 0 /\ IsActive(o)
    <2>1. PlacedRow(orders[o]) BY <1>1, NoOrderIs DEF RowTypes
    <2>2. IsActive(o) BY <1>1, <1>3, <2>1 DEF PlacedRow, Rows, IsActive
    <2> QED BY <2>1, <2>2 DEF PlacedRow, IsActive
<1>5. o \in Partners(w) BY <1>1, <1>2, <1>4 DEF Partners, Mine, Matches
<1>6. Fill(w, o) < orders[o].remaining
    <2>1. Fill(w, o) \in Nat /\ Fill(w, o) <= orders[o].remaining
          /\ (orders'[o] = Traded(orders[o], Fill(w, o)) \/ Fill(w, o) = 0)
        BY <1>5, CommitIs
    <2>2. CASE orders'[o] = Traded(orders[o], Fill(w, o))
        BY <1>4, <2>1, <2>2, TradedRow DEF IsActive
    <2>3. CASE Fill(w, o) = 0 BY <1>4, <2>3
    <2> QED BY <2>1, <2>2, <2>3
<1>7. Filled(w) = new.total BY <1>5, <1>6, CommitIs, PartlyTaken
<1>8. /\ orders'[id] = Traded(new, Filled(w)) /\ Filled(w) \in Nat /\ new.remaining = new.total
      /\ PlacedRow(new) /\ new.status = "active"
    BY CommitIs
<1>9. orders'[id].status \notin ActiveStatuses
    <2>1. new.remaining \in Nat /\ new.status \in ActiveStatuses BY <1>8 DEF PlacedRow, Rows, ActiveStatuses
    <2> HIDE DEF new, id
    <2> QED BY <1>7, <1>8, <2>1, TradedRow
<1> QED BY <1>5, <1>6, <1>9

LEMMA StepMatchesAll ==
    ASSUME Inv, RowTypes, JobTypes, Sights, [Next]_vars, NEW w \in Workers, Appears(w), NEW o \in seen[w]
    PROVE  LET s == IF job[w].order.side = "sell" THEN job[w].order ELSE orders[o]
               b == IF job[w].order.side = "sell" THEN orders[o] ELSE job[w].order
           IN  /\ orders'[job[w].id].status \in ActiveStatuses
               /\ orders'[o].status \in ActiveStatuses
               /\ s.side = "sell" /\ b.side = "buy" /\ s.price <= b.price
               => s.owner = b.owner
<1> DEFINE new == job[w].order
           s == IF new.side = "sell" THEN new ELSE orders[o]
           b == IF new.side = "sell" THEN orders[o] ELSE new
<1> SUFFICES ASSUME orders'[job[w].id].status \in ActiveStatuses, orders'[o].status \in ActiveStatuses,
                    s.side = "sell", b.side = "buy", s.price <= b.price, s.owner # b.owner
             PROVE  FALSE
    OBVIOUS
<1>1. CommitCreate(w) BY AppearsIs
<1>2. new.price \in Int /\ orders[o].price \in Int
    BY <1>1 DEF Inv, Ids, Shapes, Shaped, Sights, CommitCreate, Creating
<1>3. orders[o].side # new.side /\ orders[o].owner # new.owner /\ Crosses(new, orders[o])
    BY <1>2 DEF Crosses
<1> QED BY <1>1, <1>3, SeenArePartners

LEMMA StepTakesBest ==
    ASSUME Inv, RowTypes, JobTypes, Sights, [Next]_vars, NEW w \in Workers, Appears(w),
           NEW a \in seen[w], NEW o \in seen[w],
           orders'[o].filled > orders[o].filled,
           orders[a].owner # job[w].order.owner,
           orders[a].side = orders[o].side,
           \/ orders[a].price = orders[o].price /\ a < o
           \/ job[w].order.side = "sell" /\ orders[a].price > orders[o].price
           \/ job[w].order.side = "buy" /\ orders[a].price < orders[o].price
    PROVE  orders'[a].status \notin ActiveStatuses
<1> DEFINE new == job[w].order
<1> SUFFICES ASSUME orders'[a].status \in ActiveStatuses PROVE FALSE OBVIOUS
<1>1. CommitCreate(w) BY AppearsIs
<1>2. o \in OrderIds /\ a \in OrderIds /\ orders[o].status # "none" BY DEF Sights
<1>3. new.price \in Int /\ orders[o].price \in Int /\ orders[a].price \in Int /\ new.side \in Sides
    BY <1>1, <1>2 DEF Inv, Ids, Shapes, Shaped, CommitCreate, Creating
<1>4. orders[o] \in Rows /\ orders[o].filled \in Nat BY <1>2 DEF RowTypes, Rows
<1>5. o \in Partners(w) /\ Fill(w, o) > 0
    <2>1. o # job[w].id BY <1>1, <1>2, CommitIs, NoOrderIs
    <2>2. o \in Partners(w) BY <1>1, <1>2, <1>4, <2>1, CommitIs
    <2>3. Fill(w, o) # 0
        <3>1. ASSUME Fill(w, o) = 0, orders'[o] = Traded(orders[o], Fill(w, o)) PROVE FALSE
            <4>1. PlacedRow(orders[o]) /\ orders[o].status \in ActiveStatuses /\ Fill(w, o) <= orders[o].remaining
                BY <1>1, <2>2, CommitIs DEF IsActive
            <4>2. orders'[o].filled = orders[o].filled + Fill(w, o) BY <3>1, <4>1, TradedRow
            <4> QED BY <1>4, <3>1, <4>2
        <3> QED BY <1>1, <1>4, <2>2, <3>1, CommitIs
    <2>4. Fill(w, o) \in Nat BY <1>1, <2>2, CommitIs
    <2> QED BY <2>2, <2>3, <2>4
<1>6. orders[o].side # new.side /\ Crosses(new, orders[o]) BY <1>1, <1>5, CommitIs
<1>7. orders[a].side # new.side /\ Crosses(new, orders[a]) /\ Ahead(new, a, o)
    BY <1>3, <1>6 DEF Crosses, Ahead, Sides
<1>8. a \in Partners(w) /\ Fill(w, a) < orders[a].remaining BY <1>1, <1>7, SeenArePartners
<1>9. a \in Line(w, o) BY <1>7, <1>8 DEF Line
<1>10. Fill(w, a) = orders[a].remaining BY <1>1, <1>5, <1>9, CommitIs, UsedUpAhead
<1>11. Fill(w, a) \in Nat BY <1>1, <1>8, CommitIs
<1> QED BY <1>8, <1>10, <1>11

--------------------------------------------------------------------------------
(* The limits. *)

Rests == [o \in OrderIds |-> orders[o].remaining]
Loads == [w \in Workers |-> job[w].order.total]

Bounded ==
    \A p \in Players, side \in Sides :
        /\ Cardinality(ActiveOf(p, side)) + Cardinality(Placing(p, side))
              <= MaxActive + Cardinality(Workers) - 1
        /\ SumFunctionOnSet(Rests, ActiveOf(p, side)) + SumFunctionOnSet(Loads, Placing(p, side))
              <= MaxVolume + (Cardinality(Workers) - 1) * MaxAmount

\* The sets and sums the limits are about.
LEMMA LimitsAre ==
    ASSUME RowTypes, JobTypes, NEW p, NEW side
    PROVE  /\ ActiveOf(p, side) \subseteq OrderIds /\ IsFiniteSet(ActiveOf(p, side))
           /\ Placing(p, side) \subseteq Workers /\ IsFiniteSet(Placing(p, side))
           /\ \A o \in OrderIds : Rests[o] = orders[o].remaining /\ Rests[o] \in Nat
           /\ \A w \in Workers : Loads[w] = job[w].order.total /\ Loads[w] \in 0..MaxAmount /\ Loads[w] \in Nat
           /\ Cardinality(ActiveOf(p, side)) \in Nat /\ Cardinality(Placing(p, side)) \in Nat
           /\ SumFunctionOnSet(Rests, ActiveOf(p, side)) \in Nat
           /\ SumFunctionOnSet(Loads, Placing(p, side)) \in Nat
           /\ Volume(p, side) = SumFunctionOnSet(Rests, ActiveOf(p, side))
<1>1. ActiveOf(p, side) \in SUBSET OrderIds /\ Placing(p, side) \in SUBSET Workers BY DEF ActiveOf, Placing
<1>2. IsFiniteSet(ActiveOf(p, side)) /\ IsFiniteSet(Placing(p, side))
    BY <1>1, OrdersFinite, MarketConstants, FS_Subset
<1>3. \A o \in OrderIds : Rests[o] = orders[o].remaining /\ Rests[o] \in Nat BY DEF Rests, RowTypes, Rows
<1>4. ASSUME NEW w \in Workers
      PROVE  Loads[w] = job[w].order.total /\ Loads[w] \in 0..MaxAmount /\ Loads[w] \in Nat
    <2>1. CASE pc[w] \in Creating BY <2>1, MarketConstants DEF Loads, JobTypes, PlacedRow
    <2>2. CASE pc[w] \notin Creating BY <2>2, NoJobIs, MarketConstants DEF Loads, JobTypes
    <2> QED BY <2>1, <2>2
<1>5. Cardinality(ActiveOf(p, side)) \in Nat /\ Cardinality(Placing(p, side)) \in Nat
    BY <1>2, FS_CardinalityType
<1>6. /\ SumFunctionOnSet(Rests, ActiveOf(p, side)) \in Nat
      /\ SumFunctionOnSet(Loads, Placing(p, side)) \in Nat
    <2>1. \A o \in ActiveOf(p, side) : Rests[o] \in Nat BY <1>1, <1>3
    <2>2. \A w \in Placing(p, side) : Loads[w] \in Nat BY <1>1, <1>4
    <2> QED BY <1>2, <2>1, <2>2, SumNat
<1>7. Volume(p, side) = SumFunctionOnSet(Rests, ActiveOf(p, side))
    <2> DEFINE rests == [o \in ActiveOf(p, side) |-> orders[o].remaining]
    <2>1. \A o \in ActiveOf(p, side) : rests[o] = Rests[o] BY <1>1, <1>3
    <2>2. Volume(p, side) = SumFunctionOnSet(rests, ActiveOf(p, side)) BY DEF Volume, SumOf
    <2> HIDE DEF rests
    <2> QED BY <1>2, <2>1, <2>2, SumSame
<1> QED BY <1>1, <1>2, <1>3, <1>4, <1>5, <1>6, <1>7

\* Orders that were active before, with no more left than they had, count for no
\* more than all of them did.
LEMMA FewerOrders ==
    ASSUME RowTypes, RowTypes', JobTypes, NEW p, NEW side, NEW R \in SUBSET ActiveOf(p, side),
           \A o \in R : orders'[o].remaining <= orders[o].remaining
    PROVE  /\ IsFiniteSet(R) /\ Cardinality(R) \in Nat /\ Cardinality(R) <= Cardinality(ActiveOf(p, side))
           /\ SumFunctionOnSet(Rests', R) \in Nat
           /\ SumFunctionOnSet(Rests', R) <= SumFunctionOnSet(Rests, ActiveOf(p, side))
<1>1. /\ ActiveOf(p, side) \subseteq OrderIds /\ IsFiniteSet(ActiveOf(p, side))
      /\ \A o \in OrderIds : Rests[o] = orders[o].remaining /\ Rests[o] \in Nat
    BY LimitsAre
<1>2. \A o \in OrderIds : Rests'[o] = orders'[o].remaining /\ Rests'[o] \in Nat BY DEF Rests, RowTypes, Rows
<1>3. IsFiniteSet(R) /\ Cardinality(R) <= Cardinality(ActiveOf(p, side)) BY <1>1, FS_Subset
<1>4. Cardinality(R) \in Nat BY <1>3, FS_CardinalityType
<1>5. \A o \in R : Rests'[o] \in Nat BY <1>1, <1>2
<1>6. SumFunctionOnSet(Rests', R) \in Nat BY <1>3, <1>5, SumNat
<1>7. SumFunctionOnSet(Rests', R) <= SumFunctionOnSet(Rests, ActiveOf(p, side))
    <2>1. /\ \A o \in ActiveOf(p, side) : Rests[o] \in Nat
          /\ \A o \in R : Rests'[o] \in Int /\ Rests'[o] <= Rests[o]
        BY <1>1, <1>2
    <2> QED BY <1>1, <2>1, SumShrinks
<1> QED BY <1>3, <1>4, <1>6, <1>7

LEMMA FewerJobs ==
    ASSUME RowTypes, JobTypes, NEW p, NEW side, NEW Q \in SUBSET Placing(p, side),
           \A w \in Q : job'[w] = job[w]
    PROVE  /\ IsFiniteSet(Q) /\ Cardinality(Q) \in Nat /\ Cardinality(Q) <= Cardinality(Placing(p, side))
           /\ SumFunctionOnSet(Loads', Q) = SumFunctionOnSet(Loads, Q)
           /\ SumFunctionOnSet(Loads', Q) \in Nat
           /\ SumFunctionOnSet(Loads', Q) <= SumFunctionOnSet(Loads, Placing(p, side))
<1>1. /\ Placing(p, side) \subseteq Workers /\ IsFiniteSet(Placing(p, side))
      /\ \A w \in Workers : Loads[w] = job[w].order.total /\ Loads[w] \in Nat
    BY LimitsAre
<1>2. IsFiniteSet(Q) /\ Cardinality(Q) <= Cardinality(Placing(p, side)) BY <1>1, FS_Subset
<1>3. Cardinality(Q) \in Nat BY <1>2, FS_CardinalityType
<1>4. \A w \in Q : Loads'[w] = Loads[w] /\ Loads[w] \in Nat BY <1>1 DEF Loads
<1>5. SumFunctionOnSet(Loads', Q) = SumFunctionOnSet(Loads, Q) BY <1>2, <1>4, SumSame
<1>6. SumFunctionOnSet(Loads, Q) \in Nat BY <1>2, <1>4, SumNat
<1>7. SumFunctionOnSet(Loads, Q) <= SumFunctionOnSet(Loads, Placing(p, side))
    <2>1. \A w \in Placing(p, side) : Loads[w] \in Nat BY <1>1
    <2> QED BY <1>1, <2>1, SumGrows
<1> QED BY <1>2, <1>3, <1>5, <1>6, <1>7

\* An order is active only if it was, with no more left.
Lowered(o) ==
    IsActive(o)' => /\ IsActive(o) /\ orders'[o].remaining <= orders[o].remaining
                    /\ orders'[o].owner = orders[o].owner /\ orders'[o].side = orders[o].side

\* A request is placing an order only if it was, and the same.
Same(w) == job'[w] = job[w] \/ job'[w] = NoJob

LEMMA BoundedLower ==
    ASSUME RowTypes, RowTypes', JobTypes, Bounded,
           \A o \in OrderIds : Lowered(o), \A w \in Workers : Same(w)
    PROVE  Bounded'
<1> SUFFICES ASSUME NEW p \in Players, NEW side \in Sides
             PROVE  /\ Cardinality(ActiveOf(p, side)') + Cardinality(Placing(p, side)')
                          <= MaxActive + Cardinality(Workers) - 1
                    /\ SumFunctionOnSet(Rests', ActiveOf(p, side)') + SumFunctionOnSet(Loads', Placing(p, side)')
                          <= MaxVolume + (Cardinality(Workers) - 1) * MaxAmount
    BY DEF Bounded
<1> DEFINE R == ActiveOf(p, side)'
           Q == Placing(p, side)'
           load == (Cardinality(Workers) - 1) * MaxAmount
<1>1. R \in SUBSET ActiveOf(p, side) /\ \A o \in R : orders'[o].remaining <= orders[o].remaining
    BY DEF ActiveOf, Lowered
<1>2. Q \in SUBSET Placing(p, side) /\ \A w \in Q : job'[w] = job[w]
    <2>1. p # None /\ NoJob.order.owner = None BY NoJobIs, MarketConstants
    <2> QED BY <2>1 DEF Placing, Same
<1>3. /\ Cardinality(ActiveOf(p, side)) + Cardinality(Placing(p, side)) <= MaxActive + Cardinality(Workers) - 1
      /\ SumFunctionOnSet(Rests, ActiveOf(p, side)) + SumFunctionOnSet(Loads, Placing(p, side)) <= MaxVolume + load
    BY DEF Bounded
<1>4. /\ Cardinality(ActiveOf(p, side)) \in Nat /\ Cardinality(Placing(p, side)) \in Nat
      /\ SumFunctionOnSet(Rests, ActiveOf(p, side)) \in Nat /\ SumFunctionOnSet(Loads, Placing(p, side)) \in Nat
    BY LimitsAre
<1>5. Cardinality(Workers) \in Nat /\ MaxActive \in Nat /\ MaxVolume \in Nat /\ MaxAmount \in Nat
    BY MarketConstants, FS_CardinalityType
<1>6. load \in Int BY <1>5
<1> HIDE DEF R, Q, load
<1>7. /\ Cardinality(R) \in Nat /\ Cardinality(R) <= Cardinality(ActiveOf(p, side))
      /\ SumFunctionOnSet(Rests', R) \in Nat
      /\ SumFunctionOnSet(Rests', R) <= SumFunctionOnSet(Rests, ActiveOf(p, side))
    BY <1>1, FewerOrders
<1>8. /\ Cardinality(Q) \in Nat /\ Cardinality(Q) <= Cardinality(Placing(p, side))
      /\ SumFunctionOnSet(Loads', Q) \in Nat
      /\ SumFunctionOnSet(Loads', Q) <= SumFunctionOnSet(Loads, Placing(p, side))
    BY <1>2, FewerJobs
<1>9. /\ Cardinality(R) + Cardinality(Q) <= MaxActive + Cardinality(Workers) - 1
      /\ SumFunctionOnSet(Rests', R) + SumFunctionOnSet(Loads', Q) <= MaxVolume + load
    BY <1>3, <1>4, <1>5, <1>6, <1>7, <1>8
<1> QED BY <1>9 DEF R, Q, load

\* The matched order rests with no more than its request asked for.
LEMMA BoundedCommit ==
    ASSUME Inv, RowTypes, RowTypes', JobTypes, Bounded, NEW w \in Workers, CommitCreate(w)
    PROVE  Bounded'
<1> SUFFICES ASSUME NEW p \in Players, NEW side \in Sides
             PROVE  /\ Cardinality(ActiveOf(p, side)') + Cardinality(Placing(p, side)')
                          <= MaxActive + Cardinality(Workers) - 1
                    /\ SumFunctionOnSet(Rests', ActiveOf(p, side)') + SumFunctionOnSet(Loads', Placing(p, side)')
                          <= MaxVolume + (Cardinality(Workers) - 1) * MaxAmount
    BY DEF Bounded
<1> DEFINE new == job[w].order
           id == job[w].id
           A == ActiveOf(p, side)'
           R == A \ {id}
           Q == Placing(p, side)'
           load == (Cardinality(Workers) - 1) * MaxAmount
<1>1. /\ id \in OrderIds /\ id \notin Partners(w) /\ PlacedRow(new) /\ new.status = "active"
      /\ new.remaining = new.total /\ Filled(w) \in Nat /\ Filled(w) <= new.total
      /\ orders'[id] = Traded(new, Filled(w))
      /\ \A a \in Partners(w) :
            /\ a \in OrderIds /\ PlacedRow(orders[a]) /\ IsActive(a)
            /\ Fill(w, a) \in Nat /\ Fill(w, a) <= orders[a].remaining
            /\ orders'[a] = Traded(orders[a], Fill(w, a)) \/ (Fill(w, a) = 0 /\ orders'[a] = orders[a])
      /\ \A o \in OrderIds \ {id} : o \notin Partners(w) => orders'[o] = orders[o]
    BY CommitIs
<1>2. /\ PlacedRow(orders'[id]) /\ orders'[id].owner = new.owner /\ orders'[id].side = new.side
      /\ orders'[id].remaining = new.total - Filled(w)
    <2>1. new.status \in ActiveStatuses BY <1>1 DEF ActiveStatuses
    <2> HIDE DEF new, id
    <2> QED BY <1>1, <2>1, TradedRow
<1>3. ASSUME NEW o \in OrderIds \ {id} PROVE Lowered(o)
    <2>1. orders[o].remaining \in Nat BY DEF RowTypes, Rows
    <2>2. CASE orders'[o] = orders[o] BY <2>1, <2>2 DEF Lowered, IsActive
    <2>3. CASE o \in Partners(w) /\ orders'[o] = Traded(orders[o], Fill(w, o))
        <3>1. /\ orders'[o].owner = orders[o].owner /\ orders'[o].side = orders[o].side
              /\ orders'[o].remaining = orders[o].remaining - Fill(w, o) /\ Fill(w, o) \in Nat /\ IsActive(o)
            BY <1>1, <2>3, TradedRow DEF IsActive
        <3> QED BY <2>1, <3>1 DEF Lowered
    <2> QED BY <1>1, <2>2, <2>3
<1>4. /\ job' = [job EXCEPT ![w] = NoJob] /\ job'[w] = NoJob
      /\ \A v \in Workers \ {w} : job'[v] = job[v]
    BY DEF CommitCreate, Release, Inv, Shapes
<1>5. R \in SUBSET ActiveOf(p, side) /\ \A o \in R : orders'[o].remaining <= orders[o].remaining
    BY <1>3 DEF ActiveOf, Lowered
<1>6. w \notin Q /\ Q \in SUBSET Placing(p, side) /\ \A v \in Q : job'[v] = job[v]
    <2>1. p # None /\ NoJob.order.owner = None BY NoJobIs, MarketConstants
    <2> QED BY <1>4, <2>1 DEF Placing
<1>7. A \subseteq OrderIds /\ \A o \in A : orders'[o].owner = p /\ orders'[o].side = side BY DEF ActiveOf
<1>8. Cardinality(Workers) \in Nat /\ MaxActive \in Nat /\ MaxVolume \in Nat /\ MaxAmount \in Nat
    BY MarketConstants, FS_CardinalityType
<1>9. load \in Int BY <1>8
<1>10. /\ Cardinality(ActiveOf(p, side)) + Cardinality(Placing(p, side)) <= MaxActive + Cardinality(Workers) - 1
       /\ SumFunctionOnSet(Rests, ActiveOf(p, side)) + SumFunctionOnSet(Loads, Placing(p, side)) <= MaxVolume + load
    BY DEF Bounded
<1>11. /\ Cardinality(ActiveOf(p, side)) \in Nat /\ Cardinality(Placing(p, side)) \in Nat
       /\ SumFunctionOnSet(Rests, ActiveOf(p, side)) \in Nat /\ SumFunctionOnSet(Loads, Placing(p, side)) \in Nat
       /\ Placing(p, side) \subseteq Workers /\ IsFiniteSet(Placing(p, side))
       /\ \A v \in Workers : Loads[v] = job[v].order.total /\ Loads[v] \in Nat
    BY LimitsAre
<1> HIDE DEF A, Q, load
<1>12. /\ IsFiniteSet(R) /\ Cardinality(R) \in Nat /\ Cardinality(R) <= Cardinality(ActiveOf(p, side))
       /\ SumFunctionOnSet(Rests', R) \in Nat
       /\ SumFunctionOnSet(Rests', R) <= SumFunctionOnSet(Rests, ActiveOf(p, side))
    <2> HIDE DEF R
    <2> QED BY <1>5, FewerOrders
<1>13. /\ IsFiniteSet(Q) /\ Cardinality(Q) \in Nat /\ Cardinality(Q) <= Cardinality(Placing(p, side))
       /\ SumFunctionOnSet(Loads', Q) = SumFunctionOnSet(Loads, Q) /\ SumFunctionOnSet(Loads', Q) \in Nat
       /\ SumFunctionOnSet(Loads', Q) <= SumFunctionOnSet(Loads, Placing(p, side))
    BY <1>6, FewerJobs
<1>14. CASE id \notin A
    <2>1. R = A BY <1>14
    <2>2. /\ Cardinality(A) + Cardinality(Q) <= MaxActive + Cardinality(Workers) - 1
          /\ SumFunctionOnSet(Rests', A) + SumFunctionOnSet(Loads', Q) <= MaxVolume + load
        <3> HIDE DEF R
        <3> QED BY <1>8, <1>9, <1>10, <1>11, <1>12, <1>13, <2>1
    <2> QED BY <2>2 DEF A, Q, load
<1>15. CASE id \in A
    <2>1. w \in Placing(p, side) BY <1>2, <1>7, <1>15 DEF Placing
    <2>2. A = R \cup {id} /\ id \notin R BY <1>15
    <2>3. \A o \in A : Rests'[o] = orders'[o].remaining /\ Rests'[o] \in Int
        BY <1>7 DEF Rests, RowTypes, Rows
    <2>4. new.total \in Nat BY <1>1 DEF PlacedRow, Rows
    <2>5. Rests'[id] \in Int /\ Rests'[id] <= new.total BY <1>1, <1>2, <1>15, <2>3, <2>4
    <2> DEFINE P == Placing(p, side) \ {w}
    <2>6. Q \in SUBSET P BY <1>6
    <2>7. Cardinality(A) = Cardinality(R) + 1 /\ IsFiniteSet(A)
        <3> HIDE DEF R
        <3> QED BY <1>12, <2>2, FS_AddElement
    <2>8. SumFunctionOnSet(Rests', A) = Rests'[id] + SumFunctionOnSet(Rests', R)
        BY <1>15, <2>3, <2>7, SumTakeOut
    <2>9. IsFiniteSet(P) /\ Cardinality(P) = Cardinality(Placing(p, side)) - 1
        BY <1>11, <2>1, FS_RemoveElement
    <2>10. SumFunctionOnSet(Loads, Placing(p, side)) = new.total + SumFunctionOnSet(Loads, P)
        <3>1. \A v \in Placing(p, side) : Loads[v] \in Int BY <1>11
        <3>2. Loads[w] = new.total BY <1>11
        <3> QED BY <1>11, <2>1, <3>1, <3>2, SumTakeOut
    <2>11. \A v \in P : Loads[v] \in Nat BY <1>11
    <2> HIDE DEF P, R, new, id
    <2>12. Cardinality(Q) <= Cardinality(P) /\ Cardinality(P) \in Nat BY <2>6, <2>9, FS_Subset, FS_CardinalityType
    <2>13. SumFunctionOnSet(Loads, Q) <= SumFunctionOnSet(Loads, P) BY <2>6, <2>9, <2>11, SumGrows
    <2>14. SumFunctionOnSet(Loads, P) \in Nat BY <2>9, <2>11, SumNat
    <2>15. Cardinality(A) + Cardinality(Q) <= MaxActive + Cardinality(Workers) - 1
        BY <1>8, <1>10, <1>11, <1>12, <1>13, <2>7, <2>9, <2>12
    <2>16. SumFunctionOnSet(Rests', A) + SumFunctionOnSet(Loads', Q) <= MaxVolume + load
        BY <1>8, <1>9, <1>10, <1>11, <1>12, <1>13, <2>4, <2>5, <2>8, <2>10, <2>13, <2>14
    <2> QED BY <2>15, <2>16 DEF A, Q, load
<1> QED BY <1>14, <1>15

\* A request is let in only below the limits; the others can add what they ask for.
LEMMA BoundedBegin ==
    ASSUME Inv, RowTypes, JobTypes, JobTypes', Bounded, NEW w \in Workers,
           NEW side0 \in Sides, NEW p0 \in Players, NEW price, NEW amount \in 1..MaxAmount, NEW reserved,
           BeginCreate(w, side0, p0, price, amount, reserved)
    PROVE  Bounded'
<1> SUFFICES ASSUME NEW p \in Players, NEW side \in Sides
             PROVE  /\ Cardinality(ActiveOf(p, side)') + Cardinality(Placing(p, side)')
                          <= MaxActive + Cardinality(Workers) - 1
                    /\ SumFunctionOnSet(Rests', ActiveOf(p, side)') + SumFunctionOnSet(Loads', Placing(p, side)')
                          <= MaxVolume + (Cardinality(Workers) - 1) * MaxAmount
    BY DEF Bounded
<1> DEFINE Q == Placing(p, side)'
           load == (Cardinality(Workers) - 1) * MaxAmount
<1>1. /\ pc[w] = "idle" /\ WithinLimits(p0, side0, amount) /\ UNCHANGED orders
      /\ \A v \in Workers \ {w} : job'[v] = job[v]
      /\ job'[w].order.owner = p0 /\ job'[w].order.side = side0 /\ job'[w].order.total = amount
    BY DEF BeginCreate, table, Inv, Shapes
<1>2. ActiveOf(p, side)' = ActiveOf(p, side) /\ Rests' = Rests BY <1>1 DEF ActiveOf, IsActive, Rests
<1>3. job[w] = NoJob BY <1>1 DEF JobTypes, Creating
<1>4. Cardinality(Workers) \in Nat /\ MaxActive \in Nat /\ MaxVolume \in Nat /\ MaxAmount \in Nat /\ amount \in Nat
    BY MarketConstants, FS_CardinalityType
<1>5. load \in Int BY <1>4
<1>6. Q \subseteq Workers /\ IsFiniteSet(Q) BY MarketConstants, FS_Subset DEF Placing
<1>7. /\ Cardinality(ActiveOf(p, side)) \in Nat /\ Cardinality(Placing(p, side)) \in Nat
      /\ SumFunctionOnSet(Rests, ActiveOf(p, side)) \in Nat /\ SumFunctionOnSet(Loads, Placing(p, side)) \in Nat
      /\ Volume(p, side) = SumFunctionOnSet(Rests, ActiveOf(p, side))
    BY LimitsAre
<1>8. /\ Cardinality(ActiveOf(p, side)) + Cardinality(Placing(p, side)) <= MaxActive + Cardinality(Workers) - 1
      /\ SumFunctionOnSet(Rests, ActiveOf(p, side)) + SumFunctionOnSet(Loads, Placing(p, side)) <= MaxVolume + load
    BY DEF Bounded
<1>9. \A v \in Workers : Loads'[v] = job'[v].order.total /\ Loads'[v] \in Int /\ Loads'[v] <= MaxAmount
    <2>1. ASSUME NEW v \in Workers PROVE job'[v].order.total \in Int /\ job'[v].order.total <= MaxAmount
        <3>1. CASE v = w BY <1>1, <1>4, <3>1
        <3>2. CASE v # w
            <4>1. Loads[v] = job[v].order.total /\ Loads[v] \in 0..MaxAmount BY LimitsAre
            <4> QED BY <1>1, <1>4, <3>2, <4>1
        <3> QED BY <3>1, <3>2
    <2> QED BY <2>1 DEF Loads
<1> HIDE DEF load
<1>10. CASE p = p0 /\ side = side0
    <2>1. w \in Q BY <1>1, <1>10 DEF Placing
    <2> HIDE DEF Q
    <2> DEFINE P == Q \ {w}
    <2>2. IsFiniteSet(P) /\ Cardinality(P) = Cardinality(Q) - 1 BY <1>6, <2>1, FS_RemoveElement
    <2>3. Cardinality(Q) \in Nat /\ Cardinality(P) \in Nat /\ Cardinality(Q) <= Cardinality(Workers)
        BY <1>6, <2>2, FS_CardinalityType, FS_Subset, MarketConstants
    <2>4. SumFunctionOnSet(Loads', Q) = amount + SumFunctionOnSet(Loads', P)
        <3>1. \A v \in Q : Loads'[v] \in Int BY <1>6, <1>9
        <3>2. Loads'[w] = amount BY <1>1, <1>9
        <3> QED BY <1>6, <2>1, <3>1, <3>2, SumTakeOut
    <2>5. \A v \in P : Loads'[v] \in Int /\ Loads'[v] <= MaxAmount BY <1>6, <1>9
    <2> HIDE DEF P
    <2>6. SumFunctionOnSet(Loads', P) \in Int /\ SumFunctionOnSet(Loads', P) <= Cardinality(P) * MaxAmount
        BY <1>4, <2>2, <2>5, SumAtMost, SumTakeOut
    <2>7. Cardinality(P) * MaxAmount \in Int /\ Cardinality(P) * MaxAmount <= load
        <3> DEFINE spare == Cardinality(Workers) - 1 - Cardinality(P)
        <3>1. spare \in Nat BY <1>4, <2>2, <2>3
        <3>2. spare * MaxAmount \in Nat BY <1>4, <3>1
        <3>3. (Cardinality(P) + spare) * MaxAmount = Cardinality(P) * MaxAmount + spare * MaxAmount
            BY <1>4, <2>3, <3>1
        <3>4. Cardinality(P) + spare = Cardinality(Workers) - 1 BY <1>4, <2>3
        <3>5. Cardinality(P) * MaxAmount \in Int BY <1>4, <2>3
        <3> DEFINE some == Cardinality(P) * MaxAmount
                   rest == spare * MaxAmount
        <3>6. load = some + rest /\ some \in Int /\ rest \in Nat BY <3>2, <3>3, <3>4, <3>5 DEF load
        <3> HIDE DEF some, rest
        <3>7. some <= load BY <3>6
        <3> QED BY <3>5, <3>7 DEF some
    <2>8. /\ Cardinality(ActiveOf(p, side)) < MaxActive
          /\ SumFunctionOnSet(Rests, ActiveOf(p, side)) + amount <= MaxVolume
        BY <1>1, <1>7, <1>10 DEF WithinLimits
    <2> DEFINE others == Cardinality(P) * MaxAmount
    <2>9. others \in Int /\ others <= load /\ SumFunctionOnSet(Loads', P) <= others BY <2>6, <2>7
    <2> HIDE DEF others
    <2>10. Cardinality(ActiveOf(p, side)) + Cardinality(Q) <= MaxActive + Cardinality(Workers) - 1
        BY <1>4, <1>7, <2>3, <2>8
    <2>11. SumFunctionOnSet(Rests, ActiveOf(p, side)) + SumFunctionOnSet(Loads', Q) <= MaxVolume + load
        BY <1>4, <1>5, <1>7, <2>4, <2>6, <2>8, <2>9 DEF load
    <2> QED BY <1>2, <2>10, <2>11 DEF Q, load
<1>11. CASE ~(p = p0 /\ side = side0)
    <2>1. Q = Placing(p, side)
        <3>1. p # None /\ NoJob.order.owner = None BY NoJobIs, MarketConstants
        <3> QED BY <1>1, <1>3, <1>11, <3>1 DEF Placing
    <2>2. \A v \in Q : job'[v] = job[v] BY <1>1, <1>6, <1>11 DEF Placing
    <2>3. SumFunctionOnSet(Loads', Q) = SumFunctionOnSet(Loads, Q)
        <3> HIDE DEF Q
        <3>1. Q \in SUBSET Placing(p, side) BY <2>1
        <3> QED BY <2>2, <3>1, FewerJobs
    <2> QED BY <1>2, <1>8, <2>1, <2>3 DEF load
<1> QED BY <1>10, <1>11

LEMMA BoundedKept ==
    ASSUME Inv, RowTypes, JobTypes, Bounded, [Next]_vars
    PROVE  Bounded'
<1>1. RowTypes' /\ JobTypes' BY RowTypesKept, JobTypesKept
<1>2. \A o \in OrderIds : orders[o].remaining \in Nat BY DEF RowTypes, Rows
<1>3. ASSUME NEW o \in OrderIds, orders'[o] = orders[o] PROVE Lowered(o)
    BY <1>2, <1>3 DEF Lowered, IsActive
<1>4. ASSUME NEW o \in OrderIds, NEW status \in {"cancelled", "expired"}, IsActive(o), orders'[o] = Close(o, status)
      PROVE  Lowered(o)
    <2>1. orders'[o].status = status BY <1>4, CloseRow
    <2> QED BY <2>1 DEF Lowered, IsActive, ActiveStatuses
<1>5. ASSUME NEW w \in Workers, Release(w) PROVE \A v \in Workers : Same(v)
    BY <1>5 DEF Release, Same, Inv, Shapes
<1>6. ASSUME UNCHANGED orders, UNCHANGED job \/ (\E w \in Workers : Release(w)) PROVE Bounded'
    BY <1>1, <1>3, <1>5, <1>6, BoundedLower DEF Same
<1>7. ASSUME NEW w \in Workers, Start(w) PROVE Bounded'
    BY <1>1, <1>6, <1>7, BoundedBegin DEF Start, BeginExpire, table, Sides
<1>8. ASSUME NEW w \in Workers, CommitExpire(w) PROVE Bounded'
    <2>1. Release(w) BY <1>8 DEF CommitExpire
    <2>2. \A o \in OrderIds : Lowered(o) BY <1>3, <1>4, <1>8, SweepIs
    <2> QED BY <1>1, <1>5, <2>1, <2>2, BoundedLower
<1>9. ASSUME NEW w \in Workers, Advance(w) PROVE Bounded'
    BY <1>1, <1>6, <1>8, <1>9, BoundedCommit DEF Advance, Look, LockRow, table
<1>10. ASSUME NEW w \in Workers, Abort(w) PROVE Bounded' BY <1>6, <1>10 DEF Abort, table
<1>11. ASSUME NEW c \in OrderIds, NEW p \in Players, Cancel(c, p) PROVE Bounded'
    <2>1. /\ IsActive(c) /\ orders' = [orders EXCEPT ![c] = Close(c, "cancelled")] /\ UNCHANGED job
        BY <1>11 DEF Cancel, Cancellable, request
    <2>2. \A o \in OrderIds : orders'[o] = IF o = c THEN Close(c, "cancelled") ELSE orders[o]
        BY <2>1 DEF RowTypes
    <2>3. \A o \in OrderIds : Lowered(o) BY <1>3, <1>4, <2>1, <2>2
    <2> QED BY <1>1, <2>1, <2>3, BoundedLower DEF Same
<1>12. CASE UNCHANGED vars \/ (\E o \in OrderIds : GrowOverdue(o)) \/ (\E h \in deliveries : Ack(h))
    BY <1>6, <1>12 DEF vars, table, request, GrowOverdue, Ack
<1> QED BY <1>7, <1>9, <1>10, <1>11, <1>12 DEF Next

--------------------------------------------------------------------------------
(* The whole invariant, and what follows from it. *)

IInv == Inv /\ RowTypes /\ JobTypes /\ Handed /\ Accounts /\ Sights /\ Bounded

LEMMA IInvInit == Init => IInv
<1> SUFFICES ASSUME Init PROVE IInv OBVIOUS
<1> USE DEF Init
<1>1. Inv BY InvInit
<1>2. RowTypes BY NoOrderIs DEF RowTypes
<1>3. JobTypes BY NoJobIs DEF JobTypes, Creating
<1>4. Handed BY FS_EmptySet DEF Handed
<1>5. Accounts
    <2>1. ASSUME NEW k \in OrderIds PROVE AccountOf(orders[k], k, deliveries, answers)
        <3>1. orders[k].side = "none" BY NoOrderIs
        <3> QED BY <3>1 DEF AccountOf
    <2> QED BY <2>1 DEF Accounts
<1>6. Sights BY MarketConstants DEF Sights
<1>7. Bounded
    <2> SUFFICES ASSUME NEW p \in Players, NEW side \in Sides
                 PROVE  /\ Cardinality(ActiveOf(p, side)) + Cardinality(Placing(p, side))
                              <= MaxActive + Cardinality(Workers) - 1
                        /\ SumFunctionOnSet(Rests, ActiveOf(p, side)) + SumFunctionOnSet(Loads, Placing(p, side))
                              <= MaxVolume + (Cardinality(Workers) - 1) * MaxAmount
        BY DEF Bounded
    <2>1. ActiveOf(p, side) = {} BY NoOrderIs DEF ActiveOf, IsActive, ActiveStatuses
    <2>2. Placing(p, side) = {} BY NoJobIs DEF Placing, Sides
    <2>3. Cardinality(Workers) \in Nat /\ Cardinality(Workers) # 0
        BY MarketConstants, FS_CardinalityType, FS_EmptySet
    <2>4. (Cardinality(Workers) - 1) * MaxAmount \in Nat BY <2>3, MarketConstants
    <2>5. Cardinality({}) = 0 /\ SumFunctionOnSet(Rests, {}) = 0 /\ SumFunctionOnSet(Loads, {}) = 0
        BY FS_EmptySet, SumEmpty
    <2> QED BY <2>1, <2>2, <2>3, <2>4, <2>5, MarketConstants
<1> QED BY <1>1, <1>2, <1>3, <1>4, <1>5, <1>6, <1>7 DEF IInv

LEMMA IInvNext == IInv /\ [Next]_vars => IInv'
<1> SUFFICES ASSUME IInv, [Next]_vars PROVE IInv' OBVIOUS
<1> USE DEF IInv
<1>1. Inv' BY InvNext
<1>2. RowTypes' /\ JobTypes' BY RowTypesKept, JobTypesKept
<1>3. Handed' /\ Accounts' BY AccountsKept
<1>4. Sights' /\ Bounded' BY SightsKept, BoundedKept
<1> QED BY <1>1, <1>2, <1>3, <1>4

\* Rows, requests and handouts are of the kinds the service writes, whatever
\* requests run at the same time (player_market_service.py:124-370, 600-860).
THEOREM TypeCorrect == Spec => []TypeOK
<1>1. IInv => TypeOK
    <2> SUFFICES ASSUME IInv PROVE TypeOK OBVIOUS
    <2>1. clock \in 0..MaxOrders BY MarketConstants DEF IInv, Inv, Shapes, Sights
    <2> QED BY <2>1 DEF IInv, Inv, Shapes, RowTypes, JobTypes, Handed, Sights, TypeOK
<1> QED BY <1>1, IInvInit, IInvNext, PTL DEF Spec

LEMMA InvGoods == IInv => GoodsConserved
<1> SUFFICES ASSUME IInv PROVE GoodsConserved OBVIOUS
<1>1. /\ deliveries \subseteq Handouts /\ IsFiniteSet(deliveries)
      /\ answers \subseteq Handouts /\ IsFiniteSet(answers)
    BY DEF IInv, Handed
<1>2. ASSUME NEW o \in Placed("sell")
      PROVE  orders[o].total = orders[o].remaining
                + Out({h \in deliveries : h.sell = o}, {"items", "refund"})
                + Out({h \in answers : h.sell = o}, {"items", "refund"})
    <2>1. orders[o].total = orders[o].remaining + Sum(Goods(o), deliveries) + Sum(Goods(o), answers)
        BY DEF Placed, IInv, Accounts, AccountOf
    <2> QED BY <1>1, <2>1, SumsAre
<1>3. ASSUME NEW o \in Placed("buy")
      PROVE  orders[o].filled = Out({h \in deliveries : h.buy = o}, {"items"})
                                + Out({h \in answers : h.buy = o}, {"items"})
    <2>1. orders[o].filled = Sum(Pieces(o), deliveries) + Sum(Pieces(o), answers)
        BY DEF Placed, IInv, Accounts, AccountOf
    <2> QED BY <1>1, <2>1, SumsAre
<1> QED BY <1>2, <1>3 DEF GoodsConserved

\* Every piece a seller put into the market is still in the order, or went to a
\* buyer or back to the seller exactly once, for any number of matchings,
\* cancellations and sweeps that race for the row
\* (player_market_service.py:292-295, 690-691, 776-780).
THEOREM NoPieceIsLost == Spec => []GoodsConserved
BY InvGoods, IInvInit, IInvNext, PTL DEF Spec

LEMMA InvMoney == IInv => MoneyConserved
<1> SUFFICES ASSUME IInv, NEW o \in Placed("buy")
             PROVE  orders[o].price * orders[o].total = orders[o].price * orders[o].remaining
                       + Out({h \in deliveries : h.buy = o}, {"proceeds", "overpay", "refund"})
                       + Out({h \in answers : h.buy = o}, {"proceeds", "overpay", "refund"})
    BY DEF MoneyConserved
<1>1. /\ deliveries \subseteq Handouts /\ IsFiniteSet(deliveries)
      /\ answers \subseteq Handouts /\ IsFiniteSet(answers)
    BY DEF IInv, Handed
<1>2. orders[o].price * orders[o].total
         = orders[o].price * orders[o].remaining + Sum(Coins(o), deliveries) + Sum(Coins(o), answers)
    BY DEF Placed, IInv, Accounts, AccountOf
<1> QED BY <1>1, <1>2, SumsAre

\* The coins of a buy order add up to the price of the whole order, whatever its
\* prices and at whichever of the two prices its trades were executed
\* (player_market_service.py:784-799, 327-336, 636).
THEOREM NoCoinIsLost == Spec => []MoneyConserved
BY InvMoney, IInvInit, IInvNext, PTL DEF Spec

LEMMA InvReserve == IInv => ReserveCoversRest
<1> SUFFICES ASSUME IInv, NEW o \in Placed("buy"), IsActive(o)
             PROVE  LET rest == orders[o].price * orders[o].remaining
                        slack == Tolerance(orders[o].price * orders[o].total)
                    IN  rest - slack <= orders[o].reserved /\ orders[o].reserved <= rest + slack
    BY DEF ReserveCoversRest
<1>1. o \in OrderIds /\ orders[o].side = "buy" BY DEF Placed
<1>2. PlacedRow(orders[o]) BY <1>1, NoOrderIs DEF IInv, RowTypes
<1>3. Covered(orders[o]) BY <1>2 DEF PlacedRow, IsActive
<1> QED BY <1>1, <1>3 DEF Covered

\* However a buy order's trades were priced, its reserve differs from what its
\* rest costs by no more than was accepted when it was placed
\* (player_market_service.py:203-208, 852-860).
THEOREM ReservesSuffice == Spec => []ReserveCoversRest
BY InvReserve, IInvInit, IInvNext, PTL DEF Spec

LEMMA InvOvershoot == IInv => OvershootBounded
<1> SUFFICES ASSUME IInv, NEW p \in Players, NEW side \in {"sell", "buy"}
             PROVE  /\ Cardinality(ActiveOf(p, side)) + Cardinality(Placing(p, side))
                          <= MaxActive + Cardinality(Workers) - 1
                    /\ Volume(p, side) + SumFunctionOnSet([w \in Placing(p, side) |-> job[w].order.total], Placing(p, side))
                          <= MaxVolume + (Cardinality(Workers) - 1) * MaxAmount
    BY DEF OvershootBounded, SumOf
<1> DEFINE Q == Placing(p, side)
           loads == [w \in Q |-> job[w].order.total]
<1>1. /\ Q \subseteq Workers /\ IsFiniteSet(Q) /\ \A w \in Workers : Loads[w] = job[w].order.total
      /\ Volume(p, side) = SumFunctionOnSet(Rests, ActiveOf(p, side))
    BY LimitsAre DEF IInv
<1>2. \A w \in Q : loads[w] = Loads[w] BY <1>1
<1>3. /\ Cardinality(ActiveOf(p, side)) + Cardinality(Q) <= MaxActive + Cardinality(Workers) - 1
      /\ SumFunctionOnSet(Rests, ActiveOf(p, side)) + SumFunctionOnSet(Loads, Q)
            <= MaxVolume + (Cardinality(Workers) - 1) * MaxAmount
    BY DEF IInv, Bounded, Sides
<1> HIDE DEF loads
<1>4. SumFunctionOnSet(loads, Q) = SumFunctionOnSet(Loads, Q) BY <1>1, <1>2, SumSame
<1> QED BY <1>1, <1>3, <1>4 DEF loads

\* Requests that run at the same time overshoot the limits of a player only by
\* what all sessions but one can ask for, in runs of any length
\* (player_market_service.py:134-157, 210-233).
THEOREM LimitsHoldButForSessions == Spec => []OvershootBounded
BY InvOvershoot, IInvInit, IInvNext, PTL DEF Spec

\* An order that comes to rest crosses no order of another player that its
\* request found in the book, however long it waited for the rows
\* (player_market_service.py:663-697).
THEOREM CrossedOrdersAreMatched == Spec => NoMissedMatch
<1>1. IInv /\ [Next]_vars =>
         [\A w \in Workers : Appears(w) =>
             \A o \in seen[w] :
                 LET s == IF job[w].order.side = "sell" THEN job[w].order ELSE orders[o]
                     b == IF job[w].order.side = "sell" THEN orders[o] ELSE job[w].order
                 IN  /\ orders'[job[w].id].status \in ActiveStatuses
                     /\ orders'[o].status \in ActiveStatuses
                     /\ s.side = "sell" /\ b.side = "buy" /\ s.price <= b.price
                     => s.owner = b.owner]_vars
    BY StepMatchesAll DEF IInv
<1> QED BY <1>1, IInvInit, IInvNext, PTL DEF Spec, NoMissedMatch

\* A resting order is traded only once all that its request could see at a better
\* price, or older at the same, is used up or gone
\* (player_market_service.py:671, 722).
THEOREM BestPriceIsTakenFirst == Spec => BestPriceFirst
<1>1. IInv /\ [Next]_vars =>
         [\A w \in Workers : Appears(w) =>
             \A a, o \in seen[w] :
                 /\ orders'[o].filled > orders[o].filled
                 /\ orders[a].owner # job[w].order.owner
                 /\ orders[a].side = orders[o].side
                 /\ \/ orders[a].price = orders[o].price /\ a < o
                    \/ job[w].order.side = "sell" /\ orders[a].price > orders[o].price
                    \/ job[w].order.side = "buy" /\ orders[a].price < orders[o].price
                 => orders'[a].status \notin ActiveStatuses]_vars
    BY StepTakesBest DEF IInv
<1> QED BY <1>1, IInvInit, IInvNext, PTL DEF Spec, BestPriceFirst
================================================================================
