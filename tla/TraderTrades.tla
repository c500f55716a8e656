------------------------------ MODULE TraderTrades ------------------------------
(***************************************************************************)
(* The trades of the travelling trader (services/trader_service.py,        *)
(* routes/trader.py).  A trade reserves pieces of a shared stock slot, the *)
(* game plugin moves the goods and reports how many went through, and a    *)
(* reservation nobody settles within PENDING_TTL is swept away and its     *)
(* pieces go back on the shelf.                                            *)
(*                                                                         *)
(* Every request runs in one PostgreSQL transaction at READ COMMITTED: it  *)
(* reads committed rows and its own writes, the rows it changes are locked *)
(* until it ends, and nobody else sees them before its commit.  A worker   *)
(* therefore takes one step per row lock it has to wait for; its writes    *)
(* are applied when it commits and forgotten when it rolls back.           *)
(***************************************************************************)
EXTENDS Integers, FiniteSets, FiniteSetsExt

CONSTANTS
    Players,    \* player names
    Visits,     \* rows of trader_visits
    Stocks,     \* rows of trader_stock
    VisitOf,    \* the visit a stock slot was rolled for
    QtyTotal,   \* qty_total of a stock slot
    Cap,        \* player_cap of a stock slot: what one player may take of it
    Txs,        \* rows of trader_transactions; bounds the trades of a run
    Workers,    \* database sessions that serve requests at the same time
    MaxQty,     \* the largest quantity of a request (6400 in the code)
    Queues,     \* TRUE: trades of the WebGUI page; FALSE: of the plugin's own page
    None        \* no player, no stock, no lock holder

ASSUME TradeConstants ==
    /\ Queues \subseteq BOOLEAN
    /\ IsFiniteSet(Txs)
    /\ MaxQty \in Nat \ {0}
    /\ VisitOf \in [Stocks -> Visits]
    /\ QtyTotal \in [Stocks -> Nat \ {0}]
    /\ Cap \in [Stocks -> Nat \ {0}]
    /\ None \notin Players \cup Visits \cup Stocks \cup Workers \cup Txs

VARIABLES
    access,     \* <<player, visit>>: the visit is active and the player has a session
    left,       \* qty_left of every stock slot, as committed
    tx,         \* the transaction rows, as committed
    stale,      \* transactions older than PENDING_TTL
    late,       \* history: transactions settled after they had expired
    action,     \* status of the web action of a transaction
    told,       \* transactions the plugin has learnt of
    pc,         \* what the request of a worker does next
    job,        \* the arguments of that request
    todo,       \* stale transactions the worker has locked and not yet handled
    back,       \* pieces the worker has put back on each slot, uncommitted
    txLock,     \* the worker that holds the row lock of a transaction
    stockLock   \* the worker that holds the row lock of a stock slot

rows == <<left, tx, late, action>>
request == <<pc, job, todo, back, txLock, stockLock>>
vars == <<access, rows, stale, told, request>>

Statuses == {"none", "pending", "done", "failed", "expired"}
Settled == {"done", "failed"}

NoTx == [status |-> "none", player |-> None, stock |-> None, asked |-> 0, done |-> 0]
NoJob == [player |-> None, stock |-> None, visit |-> None, qty |-> 0, queue |-> FALSE, tx |-> None]

--------------------------------------------------------------------------------
(* What the queries of the service return. *)

\* Mutant of StaleIn: the rows are selected without FOR UPDATE SKIP LOCKED.
StaleInUnlocked(slots) ==
    {t \in stale : tx[t].status = "pending" /\ tx[t].stock \in slots}

\* Mutant of StaleIn: the sweep starts from the web actions and never finds a
\* reservation the plugin made for a page of its own.
StaleInQueued(slots) ==
    {t \in stale : /\ tx[t].status = "pending"
                   /\ action[t] = "pending"
                   /\ tx[t].stock \in slots
                   /\ txLock[t] = None}

\* The stale reservations a sweep over `slots` gets hold of: FOR UPDATE SKIP
\* LOCKED passes over the rows another worker has locked.
StaleIn(slots) ==
    {t \in stale : /\ tx[t].status = "pending"
                   /\ tx[t].stock \in slots
                   /\ txLock[t] = None}

\* The expired reservations a worker has handled; its own transaction reads
\* them as expired already.
Swept(w) == IF pc[w] = "apply" THEN {} ELSE {t \in Txs : txLock[t] = w /\ t \notin todo[w]}

SlotsOf(v) == {s \in Stocks : VisitOf[s] = v}

HasPending(w, p, v) ==
    \E t \in Txs \ Swept(w) : /\ tx[t].status = "pending"
                              /\ tx[t].player = p
                              /\ tx[t].stock \in SlotsOf(v)

\* What a transaction takes of its slot's stock and of its player's cap.
Takes(t) == CASE tx[t].status = "pending" -> tx[t].asked
              [] tx[t].status = "done"    -> tx[t].done
              [] OTHER                    -> 0

SumOf(S, Op(_)) == SumFunctionOnSet([x \in S |-> Op(x)], S)

\* Mutant of Used: only finished trades count, reservations do not.
UsedDone(w, p, s) ==
    SumOf({t \in Txs : tx[t].player = p /\ tx[t].stock = s /\ tx[t].status = "done"}, Takes)

\* player_used: pieces of slot s the player has traded or reserved.
Used(w, p, s) ==
    SumOf({t \in Txs \ Swept(w) : tx[t].player = p /\ tx[t].stock = s}, Takes)

\* The pieces a request for `qty` may have; `allowed` is the largest such n.
Fits(w, n) ==
    LET j == job[w] IN
    /\ n <= j.qty
    /\ n <= left[j.stock] + back[w][j.stock]
    /\ Used(w, j.player, j.stock) + n <= Cap[j.stock]

Allowed(w, n) == Fits(w, n) /\ \A m \in 1..MaxQty : Fits(w, m) => m <= n

Free(s, w) == stockLock[s] \in {None, w}

--------------------------------------------------------------------------------
(* How a worker's database transaction begins and ends. *)

Release(w) ==
    /\ pc' = [pc EXCEPT ![w] = "idle"]
    /\ job' = [job EXCEPT ![w] = NoJob]
    /\ todo' = [todo EXCEPT ![w] = {}]
    /\ back' = [back EXCEPT ![w] = [s \in Stocks |-> 0]]
    /\ txLock' = [t \in Txs |-> IF txLock[t] = w THEN None ELSE txLock[t]]
    /\ stockLock' = [s \in Stocks |-> IF stockLock[s] = w THEN None ELSE stockLock[s]]

Rollback(w) == Release(w) /\ UNCHANGED <<access, rows, stale, told>>

\* The first statement of expire_stale: lock the stale reservations.
LockStale(w, slots) ==
    /\ todo' = [todo EXCEPT ![w] = StaleIn(slots)]
    /\ txLock' = [t \in Txs |-> IF t \in StaleIn(slots) THEN w ELSE txLock[t]]

Expire(t) == [tx[t] EXCEPT !.status = "expired"]

\* Mutant of ActionOfExpired: the sweep forgets the web action.
ActionOfExpiredKept(t) == action[t]

ActionOfExpired(t) == IF action[t] = "pending" THEN "failed" ELSE action[t]

--------------------------------------------------------------------------------
(* The world around the trades. *)

\* has_session begins to hold for an active visit: POST /open while it is there.
OpenSession(p, v) ==
    /\ <<p, v>> \notin access
    /\ access' = access \cup {<<p, v>>}
    /\ UNCHANGED <<rows, stale, told, request>>

\* It ceases to hold: session_minutes pass, or the visit ends or is ended.
CloseSession(p, v) ==
    /\ <<p, v>> \in access
    /\ access' = access \ {<<p, v>>}
    /\ UNCHANGED <<rows, stale, told, request>>

\* PENDING_TTL passes for a reservation.
GrowStale(t) ==
    /\ tx[t].status = "pending"
    /\ t \notin stale
    /\ stale' = stale \cup {t}
    /\ UNCHANGED <<access, rows, told, request>>

\* The plugin polls its web actions.  A poll leaves the action pending.
Poll(t) ==
    /\ action[t] = "pending"
    /\ t \notin told
    /\ told' = told \cup {t}
    /\ UNCHANGED <<access, rows, stale, request>>

--------------------------------------------------------------------------------
(* expire_stale, on its own (a tick, a page view) or first in a trade.     *)

\* A tick sweeps every visit, a page the visit it shows.
BeginSweep(w, slots) ==
    /\ pc[w] = "idle"
    /\ pc' = [pc EXCEPT ![w] = "sweep"]
    /\ LockStale(w, slots)
    /\ UNCHANGED <<access, rows, stale, told, job, back, stockLock>>

\* One turn of the loop: put the pieces back, which locks the stock row.
PutBack(w, t) ==
    /\ pc[w] \in {"sweep", "trade"}
    /\ t \in todo[w]
    /\ Free(tx[t].stock, w)
    /\ stockLock' = [stockLock EXCEPT ![tx[t].stock] = w]
    /\ back' = [back EXCEPT ![w][tx[t].stock] = @ + tx[t].asked]
    /\ todo' = [todo EXCEPT ![w] = @ \ {t}]
    /\ UNCHANGED <<access, rows, stale, told, pc, job, txLock>>

CommitSweep(w) ==
    /\ pc[w] = "sweep"
    /\ todo[w] = {}
    /\ tx' = [t \in Txs |-> IF t \in Swept(w) THEN Expire(t) ELSE tx[t]]
    /\ left' = [s \in Stocks |-> left[s] + back[w][s]]
    /\ action' = [t \in Txs |-> IF t \in Swept(w) THEN ActionOfExpired(t) ELSE action[t]]
    /\ Release(w)
    /\ UNCHANGED <<access, late, stale, told>>

--------------------------------------------------------------------------------
(* reserve: a page queues a web action, a plugin page does not. *)

\* The bound of a run: a trade begins only if there is a row for it to become.
\* One for a slot of another visit (an old page) is refused and becomes none.
RowFree ==
    Cardinality({u \in Workers : /\ pc[u] \in {"trade", "reserve"}
                                 /\ VisitOf[job[u].stock] = job[u].visit})
        < Cardinality({t \in Txs : tx[t].status = "none"})

BeginTrade(w, p, v, s, q, queue) ==
    /\ VisitOf[s] = v => RowFree
    /\ pc[w] = "idle"
    /\ <<p, v>> \in access
    /\ pc' = [pc EXCEPT ![w] = "trade"]
    /\ job' = [job EXCEPT ![w] = [player |-> p, stock |-> s, visit |-> v,
                                  qty |-> q, queue |-> queue, tx |-> None]]
    /\ LockStale(w, SlotsOf(v))
    /\ UNCHANGED <<access, rows, stale, told, back, stockLock>>

\* The player's pending trades are counted before the stock row is locked.
PassPendingCheck(w) ==
    /\ pc[w] = "trade"
    /\ todo[w] = {}
    /\ ~HasPending(w, job[w].player, job[w].visit)
    /\ pc' = [pc EXCEPT ![w] = "reserve"]
    /\ UNCHANGED <<access, rows, stale, told, job, todo, back, txLock, stockLock>>

\* The stock row is locked, the trade recorded as new row t, and all committed.
Reserve(w, t, n) ==
    LET j == job[w] IN
    /\ pc[w] = "reserve"
    /\ Free(j.stock, w)
    /\ VisitOf[j.stock] = j.visit
    /\ Allowed(w, n)
    /\ tx[t].status = "none"
    /\ tx' = [u \in Txs |->
                CASE u = t -> [status |-> "pending", player |-> j.player, stock |-> j.stock,
                               asked |-> n, done |-> 0]
                  [] u \in Swept(w) -> Expire(u)
                  [] OTHER -> tx[u]]
    /\ left' = [s \in Stocks |-> left[s] + back[w][s] - (IF s = j.stock THEN n ELSE 0)]
    /\ action' = [u \in Txs |->
                    CASE u = t -> IF j.queue THEN "pending" ELSE "none"
                      [] u \in Swept(w) -> ActionOfExpired(u)
                      [] OTHER -> action[u]]
    /\ told' = IF j.queue THEN told ELSE told \cup {t}
    /\ Release(w)
    /\ UNCHANGED <<access, late, stale>>

\* Every refusal rolls back, the sweep of this request included.
Refuse(w) ==
    /\ \/ /\ pc[w] = "trade"
          /\ todo[w] = {}
          /\ HasPending(w, job[w].player, job[w].visit)
       \/ /\ pc[w] = "reserve"
          /\ Free(job[w].stock, w)
          /\ \/ VisitOf[job[w].stock] # job[w].visit
             \/ \A n \in 1..MaxQty : ~Fits(w, n)
    /\ Rollback(w)

--------------------------------------------------------------------------------
(* complete_trade: the plugin reports how many pieces it moved. *)

\* Mutant of Open: the early return for a settled transaction is missing.
OpenAlways(t) == tx[t].status # "none"

\* Only a transaction that is still open has anything left to settle.
Open(t) == tx[t].status \in {"pending", "expired"}

\* The transaction row is locked.  A report of a settled trade (the plugin
\* retries) is answered from the row and changes nothing.
BeginResult(w, t, q) ==
    /\ pc[w] = "idle"
    /\ t \in told
    /\ txLock[t] = None
    /\ Open(t)
    /\ pc' = [pc EXCEPT ![w] = "apply"]
    /\ job' = [job EXCEPT ![w] = [NoJob EXCEPT !.tx = t, !.qty = q]]
    /\ txLock' = [txLock EXCEPT ![t] = w]
    /\ UNCHANGED <<access, rows, stale, told, todo, back, stockLock>>

\* Mutants of LeftAfter: no floor at zero; the expired reservation returned again.
LeftAfterNoFloor(t, done) ==
    left[tx[t].stock] - done + (IF tx[t].status = "expired" THEN 0 ELSE tx[t].asked)

LeftAfterTwice(t, done) == left[tx[t].stock] + tx[t].asked - done

\* What is left on the shelf once `done` pieces of transaction t have gone.
\* An expired reservation is on the shelf already, and may be sold again.
LeftAfter(t, done) ==
    LET s == tx[t].stock IN
    IF tx[t].status = "expired"
    THEN IF left[s] < done THEN 0 ELSE left[s] - done
    ELSE left[s] + tx[t].asked - done

\* The stock row is locked, both rows and the web action are written.
Settle(w) ==
    LET t == job[w].tx
        done == IF job[w].qty < tx[t].asked THEN job[w].qty ELSE tx[t].asked
        result == IF done > 0 THEN "done" ELSE "failed"
    IN
    /\ pc[w] = "apply"
    /\ Free(tx[t].stock, w)
    /\ left' = [left EXCEPT ![tx[t].stock] = LeftAfter(t, done)]
    /\ tx' = [tx EXCEPT ![t].status = result, ![t].done = done]
    /\ late' = IF tx[t].status = "expired" THEN late \cup {t} ELSE late
    /\ action' = [action EXCEPT ![t] = IF @ = "none" THEN "none" ELSE result]
    /\ Release(w)
    /\ UNCHANGED <<access, stale, told>>

--------------------------------------------------------------------------------
\* A deadlock victim, a lost connection or a killed worker: the database
\* rolls the transaction back.
Abort(w) == pc[w] # "idle" /\ Rollback(w)

Init ==
    /\ access = {}
    /\ left = QtyTotal
    /\ tx = [t \in Txs |-> NoTx]
    /\ stale = {}
    /\ late = {}
    /\ action = [t \in Txs |-> "none"]
    /\ told = {}
    /\ pc = [w \in Workers |-> "idle"]
    /\ job = [w \in Workers |-> NoJob]
    /\ todo = [w \in Workers |-> {}]
    /\ back = [w \in Workers |-> [s \in Stocks |-> 0]]
    /\ txLock = [t \in Txs |-> None]
    /\ stockLock = [s \in Stocks |-> None]

World ==
    \/ \E p \in Players, v \in Visits : OpenSession(p, v) \/ CloseSession(p, v)
    \/ \E t \in Txs : GrowStale(t)
    \/ \E t \in Txs : Poll(t)

Start(w) ==
    \/ BeginSweep(w, Stocks)
    \/ \E v \in Visits : BeginSweep(w, SlotsOf(v))
    \/ \E p \in Players, v \in Visits, s \in Stocks, q \in 1..MaxQty, queue \in Queues :
          BeginTrade(w, p, v, s, q, queue)
    \/ \E t \in Txs, q \in 0..MaxQty : BeginResult(w, t, q)

Advance(w) ==
    \/ \E t \in Txs : PutBack(w, t)
    \/ CommitSweep(w)
    \/ PassPendingCheck(w)
    \/ \E t \in Txs, n \in 1..MaxQty : Reserve(w, t, n)
    \/ Refuse(w)
    \/ Settle(w)

Next ==
    \/ World
    \/ \E w \in Workers : Start(w) \/ Advance(w) \/ Abort(w)

Spec == Init /\ [][Next]_vars

(* The stock rows a worker needs next, and the wait cycles PostgreSQL breaks. *)
Wants(w) ==
    CASE pc[w] \in {"sweep", "trade"} -> {tx[t].stock : t \in todo[w]}
      [] pc[w] = "reserve" -> {job[w].stock}
      [] pc[w] = "apply" -> {tx[job[w].tx].stock}
      [] OTHER -> {}

Deadlocked(w) ==
    \E D \in SUBSET Workers :
        /\ w \in D
        /\ \A u \in D : Wants(u) # {} /\ \A s \in Wants(u) : stockLock[s] \in D \ {u}

(***************************************************************************)
(* Time passes, a session whose row lock comes free again and again gets   *)
(* it (PostgreSQL queues the waiters), and PostgreSQL breaks a deadlock.   *)
(* Nothing makes players trade, the plugin tick, poll or report, anyone    *)
(* look, or transactions commit.                                           *)
(***************************************************************************)
Fairness ==
    /\ \A t \in Txs : WF_vars(GrowStale(t))
    /\ \A w \in Workers : SF_vars(Advance(w))
    /\ \A w \in Workers : WF_vars(Deadlocked(w) /\ Abort(w))

FairSpec == Spec /\ Fairness
--------------------------------------------------------------------------------
(* Properties. *)

TxRows == [status : Statuses, player : Players \cup {None}, stock : Stocks \cup {None},
           asked : 0..MaxQty, done : 0..MaxQty]

Jobs == [player : Players \cup {None}, stock : Stocks \cup {None}, visit : Visits \cup {None},
         qty : 0..MaxQty, queue : BOOLEAN, tx : Txs \cup {None}]

TypeOK ==
    /\ access \subseteq Players \X Visits
    /\ left \in [Stocks -> Nat]
    /\ tx \in [Txs -> TxRows]
    /\ stale \subseteq Txs
    /\ late \subseteq Txs
    /\ action \in [Txs -> {"none", "pending", "done", "failed"}]
    /\ told \subseteq Txs
    /\ pc \in [Workers -> {"idle", "sweep", "trade", "reserve", "apply"}]
    /\ job \in [Workers -> Jobs]
    /\ todo \in [Workers -> SUBSET Txs]
    /\ back \in [Workers -> [Stocks -> Nat]]
    /\ txLock \in [Txs -> Workers \cup {None}]
    /\ stockLock \in [Stocks -> Workers \cup {None}]

\* What a request has read of a row it locked still holds when it writes: a
\* reservation being settled is still open, one being swept is still pending,
\* whoever else reports, retries, sweeps or is rolled back meanwhile
\* (trader_service.py:465, 559).
ReadsHold ==
    /\ \A w \in Workers : pc[w] = "apply" =>
          job[w].tx \in Txs /\ Open(job[w].tx) /\ txLock[job[w].tx] = w
    /\ \A w \in Workers : todo[w] \subseteq {t \in Txs : txLock[t] = w}
    /\ \A t \in Txs : txLock[t] # None =>
          /\ pc[txLock[t]] # "idle"
          /\ IF pc[txLock[t]] = "apply" THEN job[txLock[t]].tx = t ELSE tx[t].status = "pending"

Pieces(s) == SumOf({t \in Txs : tx[t].stock = s}, Takes)
LatePieces(s) == SumOf({t \in late : tx[t].stock = s}, Takes)

\* No piece of a slot is lost or returned twice, whatever sweeps, reports,
\* retries and rollbacks race: what is on the shelf, reserved and sold adds up
\* to what the trader brought, and may exceed it only by what was settled
\* after its reservation had expired (trader_service.py:566-570, 470-472).
StockConserved ==
    \A s \in Stocks :
        LET excess == left[s] + Pieces(s) - QtyTotal[s] IN
        0 <= excess /\ excess <= LatePieces(s)

\* Although a player's other trades are counted without a lock, no interleaving
\* of their requests takes them over their share of a slot; only a trade that
\* was settled late can (player_cap and player_used, trader_service.py:426-446).
PlayerWithinCap ==
    \A p \in Players, s \in Stocks :
        SumOf({t \in Txs \ late : tx[t].player = p /\ tx[t].stock = s}, Takes) <= Cap[s]

\* The trade and its web action never disagree: an action is handed to the
\* plugin exactly while its reservation stands, and ends the way the trade did
\* (trader_service.py:473-478, 576-581).
ActionAgrees ==
    \A t \in Txs : action[t] # "none" =>
        /\ action[t] = "pending" <=> tx[t].status = "pending"
        /\ action[t] = "done" <=> tx[t].status = "done"

\* The trader only buys and sells the pieces he arrived with (models/trader.py:3-4).
NoOversell ==
    \A s \in Stocks :
        SumOf({t \in Txs : tx[t].stock = s /\ tx[t].status = "done"}, Takes) <= QtyTotal[s]

\* A report that arrives twice, or races a sweep, settles a trade once: a
\* settled row never changes again and no row returns to pending
\* (complete_trade, trader_service.py:562-563).
SettledIsFinal ==
    [][\A t \in Txs :
        /\ tx[t].status \in Settled => tx'[t] = tx[t]
        /\ tx[t].status # "none" => tx'[t].status \notin {"none", "pending"} \/ tx'[t] = tx[t]]_vars

\* What expire_stale needs of the world to end reservation t, and the code
\* does not enforce: ticks keep coming, and if the row of t is unlocked again
\* and again some of them find it so (SKIP LOCKED passes over it otherwise) ...
TicksFind(t) ==
    SF_vars(/\ t \in stale
            /\ tx[t].status = "pending"
            /\ txLock[t] = None
            /\ \E w \in Workers : BeginSweep(w, Stocks))

\* ... and those who have locked the row are not rolled back for ever, as
\* victims of deadlocks or of lost connections.
HoldersFinish(t) ==
    <>[][\A w \in Workers : txLock[t] = w /\ Abort(w) => Refuse(w)]_vars

\* A reservation that the plugin never reports does not hold its goods for ever
\* provided that ticks find its row and finish: however pages, trades that are
\* refused after their sweep, and deadlocks over other rows race with them, it
\* is settled or expires (expire_stale, trader_service.py:456-481, and the
\* tick, routes/trader.py:42-52).
ReservationsEnd ==
    \A t \in Txs :
        TicksFind(t) /\ HoldersFinish(t)
            => (tx[t].status = "pending" ~> tx[t].status # "pending")
================================================================================
