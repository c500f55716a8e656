-------------------------- MODULE TraderTradesProofs --------------------------
(***************************************************************************)
(* Proofs about the trades of the travelling trader, for any number of     *)
(* players, slots, trades and workers.                                     *)
(*                                                                         *)
(* TypeOK is not inductive alone: a worker may only settle the transaction *)
(* it has locked.  With ReadsHold, which says what a row lock protects, it *)
(* is; the other safety properties follow from the pair step by step.  The *)
(* sums of pieces need two facts more (Amounts): what a worker has put     *)
(* back and not committed is what its swept reservations hold, and only a  *)
(* settled transaction is late.  SumLemmas has the laws of the sums.       *)
(***************************************************************************)
EXTENDS TraderTrades, SumLemmas, TLAPS

IInv == TypeOK /\ ReadsHold

\* No worker, transaction or slot is None.
LEMMA NoneIsNothing ==
    /\ \A w \in Workers : w # None
    /\ \A t \in Txs : t # None
    /\ \A s \in Stocks : s # None
BY TradeConstants

\* What every request leaves behind when it ends: its locks and its uncommitted
\* writes are gone, everybody else's are untouched (Session.close, commit).
LEMMA ReleaseType ==
    ASSUME TypeOK, NEW w \in Workers, Release(w)
    PROVE  /\ pc' \in [Workers -> {"idle", "sweep", "trade", "reserve", "apply"}]
           /\ job' \in [Workers -> Jobs]
           /\ todo' \in [Workers -> SUBSET Txs]
           /\ back' \in [Workers -> [Stocks -> Nat]]
           /\ txLock' \in [Txs -> Workers \cup {None}]
           /\ stockLock' \in [Stocks -> Workers \cup {None}]
<1>1. NoJob \in Jobs
  BY TradeConstants DEF NoJob, Jobs
<1>2. QED
  BY <1>1 DEF Release, TypeOK

\* Mutual exclusion survives the end of a request.
LEMMA ReleaseReads ==
    ASSUME TypeOK, ReadsHold, NEW w \in Workers, Release(w),
           \A t \in Txs : txLock[t] \notin {None, w} => tx'[t] = tx[t]
    PROVE  ReadsHold'
<1>1. \A u \in Workers : pc'[u] = IF u = w THEN "idle" ELSE pc[u]
  BY DEF Release, TypeOK
<1>2. \A u \in Workers : u # w => job'[u] = job[u] /\ todo'[u] = todo[u]
  BY DEF Release, TypeOK
<1>3. \A t \in Txs : txLock'[t] = IF txLock[t] = w THEN None ELSE txLock[t]
  BY DEF Release
<1>4. todo'[w] = {}
  BY DEF Release, TypeOK
<1>5. \A t \in Txs : txLock[t] \in Workers \cup {None}
  BY DEF TypeOK
<1>6. ASSUME NEW u \in Workers, pc'[u] = "apply"
      PROVE  job'[u].tx \in Txs /\ Open(job[u].tx)' /\ txLock'[job'[u].tx] = u
  <2>1. u # w /\ pc[u] = "apply" /\ job'[u] = job[u]
    BY <1>1, <1>2, <1>6
  <2>2. job[u].tx \in Txs /\ Open(job[u].tx) /\ txLock[job[u].tx] = u
    BY <2>1 DEF ReadsHold
  <2>3. tx'[job[u].tx] = tx[job[u].tx]
    BY <2>1, <2>2, NoneIsNothing
  <2>4. QED
    BY <2>1, <2>2, <2>3, <1>3 DEF Open
<1>7. ASSUME NEW u \in Workers
      PROVE  todo'[u] \subseteq {t \in Txs : txLock'[t] = u}
  <2>1. CASE u = w
    BY <2>1, <1>4
  <2>2. CASE u # w
    BY <2>2, <1>2, <1>3 DEF ReadsHold
  <2>3. QED
    BY <2>1, <2>2
<1>8. ASSUME NEW t \in Txs, txLock'[t] # None
      PROVE  /\ pc'[txLock'[t]] # "idle"
             /\ IF pc'[txLock'[t]] = "apply" THEN job'[txLock'[t]].tx = t ELSE tx'[t].status = "pending"
  <2>1. txLock[t] \notin {None, w} /\ txLock'[t] = txLock[t] /\ txLock[t] \in Workers
    BY <1>3, <1>5, <1>8
  <2>2. /\ pc'[txLock[t]] = pc[txLock[t]] /\ job'[txLock[t]] = job[txLock[t]]
        /\ tx'[t] = tx[t]
    BY <2>1, <1>1, <1>2
  <2>3. QED
    BY <2>1, <2>2, <1>8 DEF ReadsHold
<1>9. QED
  BY <1>6, <1>7, <1>8 DEF ReadsHold

\* A request that starts a sweep takes only rows nobody holds.
LEMMA LockStaleType ==
    ASSUME TypeOK, NEW w \in Workers, NEW slots, LockStale(w, slots)
    PROVE  /\ todo' \in [Workers -> SUBSET Txs]
           /\ txLock' \in [Txs -> Workers \cup {None}]
BY DEF LockStale, StaleIn, TypeOK

LEMMA LockStaleReads ==
    ASSUME TypeOK, ReadsHold, NEW w \in Workers, NEW slots, NEW k \in {"sweep", "trade"},
           LockStale(w, slots), pc[w] = "idle", pc' = [pc EXCEPT ![w] = k], tx' = tx,
           \A u \in Workers : u # w => job'[u] = job[u]
    PROVE  ReadsHold'
<1>1. \A u \in Workers : pc'[u] = IF u = w THEN k ELSE pc[u]
  BY DEF TypeOK
<1>2. \A t \in Txs : txLock'[t] = IF t \in StaleIn(slots) THEN w ELSE txLock[t]
  BY DEF LockStale
<1>3. \A t \in StaleIn(slots) : t \in Txs /\ txLock[t] = None /\ tx[t].status = "pending"
  BY DEF StaleIn, TypeOK
<1>4. \A u \in Workers : todo'[u] = IF u = w THEN StaleIn(slots) ELSE todo[u]
  BY DEF LockStale, TypeOK
<1>5. \A t \in Txs : txLock[t] \in Workers \cup {None}
  BY DEF TypeOK
<1>6. ASSUME NEW u \in Workers, pc'[u] = "apply"
      PROVE  job'[u].tx \in Txs /\ Open(job[u].tx)' /\ txLock'[job'[u].tx] = u
  <2>1. u # w /\ pc[u] = "apply" /\ job'[u] = job[u]
    BY <1>1, <1>6
  <2>2. job[u].tx \in Txs /\ Open(job[u].tx) /\ txLock[job[u].tx] = u
    BY <2>1 DEF ReadsHold
  <2>3. txLock'[job[u].tx] = u
    BY <2>2, <1>2, <1>3, NoneIsNothing
  <2>4. QED
    BY <2>1, <2>2, <2>3 DEF Open
<1>7. ASSUME NEW u \in Workers
      PROVE  todo'[u] \subseteq {t \in Txs : txLock'[t] = u}
  <2>1. CASE u = w
    BY <2>1, <1>2, <1>3, <1>4
  <2>2. CASE u # w
    BY <2>2, <1>2, <1>3, <1>4, NoneIsNothing DEF ReadsHold
  <2>3. QED
    BY <2>1, <2>2
<1>8. ASSUME NEW t \in Txs, txLock'[t] # None
      PROVE  /\ pc'[txLock'[t]] # "idle"
             /\ IF pc'[txLock'[t]] = "apply" THEN job'[txLock'[t]].tx = t ELSE tx'[t].status = "pending"
  <2>1. CASE t \in StaleIn(slots)
    BY <2>1, <1>1, <1>2, <1>3
  <2>2. CASE t \notin StaleIn(slots)
    <3>1. txLock'[t] = txLock[t] /\ txLock[t] \in Workers
      BY <2>2, <1>2, <1>5, <1>8
    <3>2. pc[txLock[t]] # "idle" /\ (IF pc[txLock[t]] = "apply" THEN job[txLock[t]].tx = t ELSE tx[t].status = "pending")
      BY <3>1, <1>8 DEF ReadsHold
    <3>3. QED
      BY <2>2, <3>1, <3>2, <1>1
  <2>3. QED
    BY <2>1, <2>2
<1>9. QED
  BY <1>6, <1>7, <1>8 DEF ReadsHold

\* The rows a worker has locked for a sweep are pending until it commits.
LEMMA SweptPending ==
    ASSUME TypeOK, ReadsHold, NEW w \in Workers, NEW t \in Swept(w)
    PROVE  t \in Txs /\ tx[t].status = "pending" /\ txLock[t] = w
BY NoneIsNothing DEF Swept, ReadsHold

LEMMA InitInv == Init => IInv
<1> SUFFICES ASSUME Init PROVE IInv
  OBVIOUS
<1>1. NoTx \in TxRows
  BY TradeConstants DEF NoTx, TxRows, Statuses
<1>2. NoJob \in Jobs
  BY TradeConstants DEF NoJob, Jobs
<1>3. TypeOK
  BY <1>1, <1>2, TradeConstants DEF Init, TypeOK
<1>4. ReadsHold
  BY DEF Init, ReadsHold
<1>5. QED
  BY <1>3, <1>4 DEF IInv

\* A transaction row with a new outcome is a transaction row.
LEMMA ChangeRow ==
    ASSUME NEW r \in TxRows, NEW status \in Statuses, NEW done \in 0..MaxQty
    PROVE  /\ [r EXCEPT !.status = status] \in TxRows
           /\ [r EXCEPT !.status = status, !.done = done] \in TxRows
BY DEF TxRows

\* An expired row is a row.
LEMMA ExpireType == ASSUME TypeOK, NEW t \in Txs PROVE Expire(t) \in TxRows
<1>1. tx[t] \in TxRows /\ "expired" \in Statuses /\ 0 \in 0..MaxQty
  BY TradeConstants DEF TypeOK, Statuses
<1>2. QED
  BY <1>1, ChangeRow DEF Expire

\* The first obligation: every step keeps the types.
LEMMA NextType == IInv /\ [Next]_vars => TypeOK'
<1> SUFFICES ASSUME IInv, [Next]_vars PROVE TypeOK'
  OBVIOUS
<1> USE DEF IInv
<1>1. ASSUME NEW w \in Workers, Rollback(w) PROVE TypeOK'
  BY <1>1, ReleaseType DEF Rollback, rows, TypeOK
<1>2. CASE World
  <2>1. ASSUME NEW p \in Players, NEW v \in Visits, OpenSession(p, v) PROVE TypeOK'
    BY <2>1 DEF OpenSession, rows, request, TypeOK
  <2>2. ASSUME NEW p \in Players, NEW v \in Visits, CloseSession(p, v) PROVE TypeOK'
    BY <2>2 DEF CloseSession, rows, request, TypeOK
  <2>3. ASSUME NEW t \in Txs, GrowStale(t) PROVE TypeOK'
    BY <2>3 DEF GrowStale, rows, request, TypeOK
  <2>4. ASSUME NEW t \in Txs, Poll(t) PROVE TypeOK'
    BY <2>4 DEF Poll, rows, request, TypeOK
  <2>5. QED
    BY <1>2, <2>1, <2>2, <2>3, <2>4 DEF World
<1>3. ASSUME NEW w \in Workers, NEW slots, BeginSweep(w, slots) PROVE TypeOK'
  BY <1>3, LockStaleType DEF BeginSweep, rows, TypeOK
<1>4. ASSUME NEW w \in Workers, NEW p \in Players, NEW v \in Visits, NEW s \in Stocks,
             NEW q \in 1..MaxQty, NEW queue \in Queues, BeginTrade(w, p, v, s, q, queue)
      PROVE  TypeOK'
  <2>1. [player |-> p, stock |-> s, visit |-> v, qty |-> q, queue |-> queue, tx |-> None] \in Jobs
    BY TradeConstants DEF Jobs
  <2>2. job' \in [Workers -> Jobs]
    BY <1>4, <2>1 DEF BeginTrade, TypeOK
  <2>3. QED
    BY <1>4, <2>2, LockStaleType DEF BeginTrade, rows, TypeOK
<1>5. ASSUME NEW w \in Workers, NEW t \in Txs, NEW q \in 0..MaxQty, BeginResult(w, t, q)
      PROVE  TypeOK'
  <2>1. [NoJob EXCEPT !.tx = t, !.qty = q] \in Jobs
    BY TradeConstants DEF Jobs, NoJob
  <2>2. job' \in [Workers -> Jobs]
    BY <1>5, <2>1 DEF BeginResult, TypeOK
  <2>3. QED
    BY <1>5, <2>2 DEF BeginResult, rows, TypeOK
<1>6. ASSUME NEW w \in Workers, NEW t \in Txs, PutBack(w, t) PROVE TypeOK'
  <2>1. back' \in [Workers -> [Stocks -> Nat]]
    <3> DEFINE s == tx[t].stock
               row == [back[w] EXCEPT ![s] = back[w][s] + tx[t].asked]
    <3>1. back[w] \in [Stocks -> Nat] /\ tx[t].asked \in 0..MaxQty
      BY DEF TypeOK, TxRows
    <3>2. row \in [Stocks -> Nat]
      <4>1. s \in Stocks => back[w][s] + tx[t].asked \in Nat
        BY <3>1, TradeConstants
      <4>2. QED
        BY <3>1, <4>1
    <3>3. back' = [back EXCEPT ![w] = row]
      BY <1>6 DEF PutBack
    <3>4. QED
      BY <3>2, <3>3 DEF TypeOK
  <2>2. QED
    BY <1>6, <2>1 DEF PutBack, rows, TypeOK
<1>7. ASSUME NEW w \in Workers, CommitSweep(w) PROVE TypeOK'
  <2>1. left' \in [Stocks -> Nat]
    BY <1>7 DEF CommitSweep, TypeOK
  <2>2. tx' \in [Txs -> TxRows]
    BY <1>7, ExpireType DEF CommitSweep, TypeOK
  <2>3. action' \in [Txs -> {"none", "pending", "done", "failed"}]
    BY <1>7 DEF CommitSweep, ActionOfExpired, TypeOK
  <2>4. QED
    BY <1>7, <2>1, <2>2, <2>3, ReleaseType DEF CommitSweep, TypeOK
<1>8. ASSUME NEW w \in Workers, PassPendingCheck(w) PROVE TypeOK'
  BY <1>8 DEF PassPendingCheck, rows, TypeOK
<1>9. ASSUME NEW w \in Workers, NEW t \in Txs, NEW n \in 1..MaxQty, Reserve(w, t, n)
      PROVE  TypeOK'
  <2> DEFINE j == job[w]
  <2>1. j \in Jobs
    BY DEF TypeOK
  <2>2. left' \in [Stocks -> Nat]
    <3>1. n <= left[j.stock] + back[w][j.stock]
      BY <1>9 DEF Reserve, Allowed, Fits
    <3>2. QED
      BY <1>9, <3>1 DEF Reserve, TypeOK
  <2>3. [status |-> "pending", player |-> j.player, stock |-> j.stock, asked |-> n, done |-> 0]
          \in TxRows
    BY <2>1, TradeConstants DEF Jobs, TxRows, Statuses
  <2>4. tx' \in [Txs -> TxRows]
    BY <1>9, <2>3, ExpireType DEF Reserve, TypeOK
  <2>5. action' \in [Txs -> {"none", "pending", "done", "failed"}]
    BY <1>9 DEF Reserve, ActionOfExpired, TypeOK
  <2>6. told' \subseteq Txs
    BY <1>9 DEF Reserve, TypeOK
  <2>7. QED
    BY <1>9, <2>2, <2>4, <2>5, <2>6, ReleaseType DEF Reserve, TypeOK
<1>10. ASSUME NEW w \in Workers, Settle(w) PROVE TypeOK'
  <2> DEFINE t == job[w].tx
             done == IF job[w].qty < tx[t].asked THEN job[w].qty ELSE tx[t].asked
  <2>1. t \in Txs
    BY <1>10 DEF Settle, ReadsHold
  <2>2. done \in 0..MaxQty /\ tx[t].asked \in 0..MaxQty /\ done <= tx[t].asked
    BY <2>1, TradeConstants DEF TypeOK, Jobs, TxRows
  <2>3. left' \in [Stocks -> Nat]
    <3>1. tx[t].stock \in Stocks => LeftAfter(t, done) \in Nat
      BY <2>1, <2>2, TradeConstants DEF LeftAfter, TypeOK
    <3>2. left' = [left EXCEPT ![tx[t].stock] = LeftAfter(t, done)]
      BY <1>10 DEF Settle
    <3>3. QED
      BY <3>1, <3>2 DEF TypeOK
  <2>4. tx' \in [Txs -> TxRows]
    <3> DEFINE result == IF done > 0 THEN "done" ELSE "failed"
    <3>1. [tx[t] EXCEPT !.status = result, !.done = done] \in TxRows
      BY <2>1, <2>2, ChangeRow DEF TypeOK, Statuses
    <3>2. tx' = [tx EXCEPT ![t] = [tx[t] EXCEPT !.status = result, !.done = done]]
      BY <1>10 DEF Settle
    <3>3. QED
      BY <3>1, <3>2 DEF TypeOK
  <2>5. late' \subseteq Txs /\ action' \in [Txs -> {"none", "pending", "done", "failed"}]
    BY <1>10, <2>1 DEF Settle, TypeOK
  <2>6. QED
    BY <1>10, <2>3, <2>4, <2>5, ReleaseType DEF Settle, TypeOK
<1>11. CASE UNCHANGED vars
  BY <1>11 DEF vars, rows, request, TypeOK
<1>12. ASSUME NEW w \in Workers, Start(w) PROVE TypeOK'
  BY <1>12, <1>3, <1>4, <1>5 DEF Start
<1>13. ASSUME NEW w \in Workers, Advance(w) PROVE TypeOK'
  BY <1>13, <1>6, <1>7, <1>8, <1>9, <1>1, <1>10 DEF Advance, Refuse
<1>14. QED
  BY <1>1, <1>2, <1>11, <1>12, <1>13 DEF Next, Abort

\* The second: every step keeps what the row locks protect.
LEMMA NextReads == IInv /\ [Next]_vars => ReadsHold'
<1> SUFFICES ASSUME IInv, [Next]_vars PROVE ReadsHold'
  OBVIOUS
<1> USE DEF IInv
<1>1. ASSUME NEW w \in Workers, Rollback(w) PROVE ReadsHold'
  BY <1>1, ReleaseReads DEF Rollback, rows
<1>2. CASE World
  <2>1. tx' = tx /\ UNCHANGED request
    BY <1>2 DEF World, OpenSession, CloseSession, GrowStale, Poll, rows
  <2>2. QED
    BY <2>1 DEF request, ReadsHold, Open
<1>3. ASSUME NEW w \in Workers, NEW slots, BeginSweep(w, slots) PROVE ReadsHold'
  BY <1>3, LockStaleReads DEF BeginSweep, rows
<1>4. ASSUME NEW w \in Workers, NEW p \in Players, NEW v \in Visits, NEW s \in Stocks,
             NEW q \in 1..MaxQty, NEW queue \in Queues, BeginTrade(w, p, v, s, q, queue)
      PROVE  ReadsHold'
  <2>1. \A u \in Workers : u # w => job'[u] = job[u]
    BY <1>4 DEF BeginTrade, TypeOK
  <2>2. QED
    BY <1>4, <2>1, LockStaleReads DEF BeginTrade, rows
<1>5. ASSUME NEW w \in Workers, NEW t \in Txs, NEW q \in 0..MaxQty, BeginResult(w, t, q)
      PROVE  ReadsHold'
  <2>1. /\ job'[w].tx = t
        /\ \A u \in Workers : u # w => job'[u] = job[u]
    BY <1>5 DEF BeginResult, NoJob, TypeOK
  <2>2. \A u \in Workers : pc'[u] = IF u = w THEN "apply" ELSE pc[u]
    BY <1>5 DEF BeginResult, TypeOK
  <2>3. \A u \in Txs : txLock'[u] = IF u = t THEN w ELSE txLock[u]
    BY <1>5 DEF BeginResult, TypeOK
  <2>4. tx' = tx /\ todo' = todo /\ Open(t) /\ txLock[t] = None /\ pc[w] = "idle"
    BY <1>5 DEF BeginResult, rows
  <2>5. ASSUME NEW u \in Workers, pc'[u] = "apply"
        PROVE  job'[u].tx \in Txs /\ Open(job[u].tx)' /\ txLock'[job'[u].tx] = u
    <3>1. CASE u = w
      BY <3>1, <2>1, <2>3, <2>4 DEF Open
    <3>2. CASE u # w
      BY <3>2, <2>1, <2>2, <2>3, <2>4, <2>5, NoneIsNothing DEF ReadsHold, Open
    <3>3. QED
      BY <3>1, <3>2
  <2>6. ASSUME NEW u \in Workers
        PROVE  todo'[u] \subseteq {x \in Txs : txLock'[x] = u}
    BY <2>3, <2>4, NoneIsNothing DEF ReadsHold
  <2>7. ASSUME NEW u \in Txs, txLock'[u] # None
        PROVE  /\ pc'[txLock'[u]] # "idle"
               /\ IF pc'[txLock'[u]] = "apply" THEN job'[txLock'[u]].tx = u ELSE tx'[u].status = "pending"
    <3>1. CASE u = t
      BY <3>1, <2>1, <2>2, <2>3
    <3>2. CASE u # t
      <4>1. txLock'[u] = txLock[u] /\ txLock[u] \in Workers
        BY <3>2, <2>3, <2>7 DEF TypeOK
      <4>2. txLock[u] # w
        BY <4>1, <2>4, NoneIsNothing DEF ReadsHold
      <4>3. QED
        BY <4>1, <4>2, <2>1, <2>2, <2>4, NoneIsNothing DEF ReadsHold
    <3>3. QED
      BY <3>1, <3>2
  <2>8. QED
    BY <2>5, <2>6, <2>7 DEF ReadsHold
<1>6. ASSUME NEW w \in Workers, NEW t \in Txs, PutBack(w, t) PROVE ReadsHold'
  <2>1. tx' = tx /\ pc' = pc /\ job' = job /\ txLock' = txLock
    BY <1>6 DEF PutBack, rows
  <2>2. \A u \in Workers : todo'[u] \subseteq todo[u]
    BY <1>6 DEF PutBack, TypeOK
  <2>3. QED
    BY <2>1, <2>2 DEF ReadsHold, Open
<1>7. ASSUME NEW w \in Workers, CommitSweep(w) PROVE ReadsHold'
  <2>1. \A t \in Txs : txLock[t] # w => tx'[t] = tx[t]
    BY <1>7, SweptPending DEF CommitSweep
  <2>2. QED
    BY <1>7, <2>1, ReleaseReads DEF CommitSweep
<1>8. ASSUME NEW w \in Workers, PassPendingCheck(w) PROVE ReadsHold'
  BY <1>8 DEF PassPendingCheck, rows, ReadsHold, Open, TypeOK
<1>9. ASSUME NEW w \in Workers, NEW t \in Txs, NEW n \in 1..MaxQty, Reserve(w, t, n)
      PROVE  ReadsHold'
  <2>1. tx[t].status = "none" /\ Release(w)
    BY <1>9 DEF Reserve
  <2>2. txLock[t] = None
    <3>1. SUFFICES ASSUME txLock[t] \in Workers PROVE FALSE
      BY DEF TypeOK
    <3>2. pc[txLock[t]] = "apply" /\ job[txLock[t]].tx = t
      BY <2>1, <3>1, NoneIsNothing DEF ReadsHold
    <3>3. Open(t)
      BY <3>1, <3>2 DEF ReadsHold
    <3>4. QED
      BY <2>1, <3>3 DEF Open
  <2>3. Swept(w) \subseteq {u \in Txs : txLock[u] = w}
    BY DEF Swept
  <2>4. \A u \in Txs : u # t /\ txLock[u] # w => tx'[u] = tx[u]
    BY <1>9, <2>3 DEF Reserve
  <2>5. QED
    BY <2>1, <2>2, <2>4, ReleaseReads
<1>10. ASSUME NEW w \in Workers, Settle(w) PROVE ReadsHold'
  <2>1. /\ pc[w] = "apply" /\ job[w].tx \in Txs /\ txLock[job[w].tx] = w /\ Release(w)
    BY <1>10 DEF Settle, ReadsHold
  <2>2. \A t \in Txs : txLock[t] # w => tx'[t] = tx[t]
    BY <1>10, <2>1 DEF Settle, TypeOK
  <2>3. QED
    BY <2>1, <2>2, ReleaseReads
<1>11. CASE UNCHANGED vars
  BY <1>11 DEF vars, rows, request, ReadsHold, Open
<1>12. ASSUME NEW w \in Workers, Start(w) PROVE ReadsHold'
  BY <1>12, <1>3, <1>4, <1>5 DEF Start
<1>13. ASSUME NEW w \in Workers, Advance(w) PROVE ReadsHold'
  BY <1>13, <1>6, <1>7, <1>8, <1>9, <1>1, <1>10 DEF Advance, Refuse
<1>14. QED
  BY <1>1, <1>2, <1>11, <1>12, <1>13 DEF Next, Abort

--------------------------------------------------------------------------------
\* Types and locks together are inductive.
LEMMA Inductive == Spec => []IInv
<1>1. IInv /\ [Next]_vars => IInv'
  BY NextType, NextReads DEF IInv
<1>2. QED
  BY InitInv, <1>1, PTL DEF Spec

\* No behaviour leaves the types: in particular no shelf ever holds a negative
\* number of pieces, although an expired reservation is given back before its
\* trade is reported (complete_trade, trader_service.py:566-570).
THEOREM TypeCorrect == Spec => []TypeOK
BY Inductive, PTL DEF IInv

\* What a worker has read of a row it locked holds until it writes
\* (expire_stale and complete_trade, trader_service.py:465, 559).
THEOREM ReadsHoldAlways == Spec => []ReadsHold
BY Inductive, PTL DEF IInv

\* Only a commit writes trades and web actions.
LEMMA RowsUntouched ==
    ASSUME World \/ \E w \in Workers : Start(w) \/ PassPendingCheck(w) \/ Rollback(w)
                   \/ \E u \in Txs : PutBack(w, u)
    PROVE  tx' = tx /\ action' = action /\ left' = left /\ late' = late
<1>1. World => UNCHANGED rows
  <2>1. ASSUME NEW p \in Players, NEW v \in Visits, OpenSession(p, v) \/ CloseSession(p, v)
        PROVE  UNCHANGED rows
    BY <2>1 DEF OpenSession, CloseSession
  <2>2. ASSUME NEW t \in Txs, GrowStale(t) \/ Poll(t) PROVE UNCHANGED rows
    BY <2>2 DEF GrowStale, Poll
  <2>3. QED
    BY <2>1, <2>2 DEF World
<1>2. ASSUME NEW w \in Workers, Start(w) PROVE UNCHANGED rows
  BY <1>2 DEF Start, BeginSweep, BeginTrade, BeginResult
<1>3. ASSUME NEW w \in Workers, PassPendingCheck(w) \/ Rollback(w) PROVE UNCHANGED rows
  BY <1>3 DEF PassPendingCheck, Rollback
<1>4. ASSUME NEW w \in Workers, NEW u \in Txs, PutBack(w, u) PROVE UNCHANGED rows
  BY <1>4 DEF PutBack
<1>5. QED
  BY <1>1, <1>2, <1>3, <1>4 DEF rows

\* A step that settles, sweeps or reserves changes no settled row and revives
\* no row.
LEMMA StepIsFinal ==
    ASSUME IInv, [Next]_vars, NEW t \in Txs
    PROVE  /\ tx[t].status \in Settled => tx'[t] = tx[t]
           /\ tx[t].status # "none" =>
                 tx'[t].status \notin {"none", "pending"} \/ tx'[t] = tx[t]
<1> DEFINE Final == /\ tx[t].status \in Settled => tx'[t] = tx[t]
                    /\ tx[t].status # "none" =>
                          tx'[t].status \notin {"none", "pending"} \/ tx'[t] = tx[t]
<1> USE DEF IInv
<1>1. CASE tx' = tx
  BY <1>1
<1>2. tx[t] \in TxRows
  BY DEF TypeOK
<1>3. Expire(t).status = "expired"
  BY <1>2 DEF Expire, TxRows
<1>4. ASSUME NEW w \in Workers, CommitSweep(w) PROVE Final
  BY <1>3, <1>4, SweptPending DEF CommitSweep, Settled
<1>5. ASSUME NEW w \in Workers, NEW u \in Txs, NEW n \in 1..MaxQty, Reserve(w, u, n)
      PROVE  Final
  <2>1. CASE t = u
    BY <1>5, <2>1 DEF Reserve, Settled
  <2>2. CASE t # u
    BY <1>3, <1>5, <2>2, SweptPending DEF Reserve, Settled
  <2>3. QED
    BY <2>1, <2>2
<1>6. ASSUME NEW w \in Workers, Settle(w) PROVE Final
  <2>1. job[w].tx \in Txs /\ Open(job[w].tx)
    BY <1>6 DEF Settle, ReadsHold
  <2>2. CASE t = job[w].tx
    <3>1. tx'[t].status \in Settled
      BY <1>2, <1>6, <2>1, <2>2 DEF Settle, Settled, TypeOK, TxRows
    <3>2. QED
      BY <2>1, <2>2, <3>1 DEF Open, Settled
  <2>3. CASE t # job[w].tx
    BY <1>6, <2>3 DEF Settle, TypeOK
  <2>4. QED
    BY <2>2, <2>3
<1>7. ASSUME World \/ \E w \in Workers : Start(w) \/ PassPendingCheck(w) \/ Rollback(w)
                 \/ \E u \in Txs : PutBack(w, u)
      PROVE  tx' = tx
  BY <1>7, RowsUntouched
<1>8. CASE UNCHANGED vars
  BY <1>1, <1>8 DEF vars, rows
<1>9. CASE World
  BY <1>1, <1>7, <1>9
<1>10. ASSUME NEW w \in Workers, Advance(w) PROVE Final
  <2>1. CASE \/ \E u \in Txs : PutBack(w, u)
             \/ PassPendingCheck(w)
             \/ Rollback(w)
    BY <1>1, <1>7, <2>1
  <2>2. CASE CommitSweep(w)
    BY <1>4, <2>2
  <2>3. CASE \E u \in Txs, n \in 1..MaxQty : Reserve(w, u, n)
    BY <1>5, <2>3
  <2>4. CASE Settle(w)
    BY <1>6, <2>4
  <2>5. Refuse(w) => Rollback(w)
    BY DEF Refuse
  <2>6. QED
    BY <1>10, <2>1, <2>2, <2>3, <2>4, <2>5 DEF Advance
<1>11. ASSUME NEW w \in Workers, Start(w) \/ Abort(w) PROVE Final
  BY <1>1, <1>7, <1>11 DEF Abort
<1>12. QED
  BY <1>9, <1>10, <1>11, <1>8 DEF Next

\* However often and whenever the plugin reports a trade and whatever sweeps
\* race it, the trade is settled once and for all (trader_service.py:562-563).
THEOREM SettledOnce == Spec => SettledIsFinal
<1>1. IInv /\ [Next]_vars =>
        [\A t \in Txs :
            /\ tx[t].status \in Settled => tx'[t] = tx[t]
            /\ tx[t].status # "none" =>
                  tx'[t].status \notin {"none", "pending"} \/ tx'[t] = tx[t]]_vars
  BY StepIsFinal
<1>2. QED
  BY <1>1, Inductive, PTL DEF Spec, SettledIsFinal

\* Each step keeps a trade and its web action in agreement.
LEMMA StepAgrees ==
    ASSUME IInv, ActionAgrees, [Next]_vars
    PROVE  ActionAgrees'
<1> USE DEF IInv
<1>1. CASE tx' = tx /\ action' = action
  BY <1>1 DEF ActionAgrees
<1>2. ASSUME NEW t \in Txs
      PROVE  Expire(t).status = "expired" /\ tx[t] \in TxRows
                /\ action[t] \in {"none", "pending", "done", "failed"}
  BY DEF Expire, TypeOK, TxRows
<1>3. ASSUME NEW w \in Workers, CommitSweep(w) PROVE ActionAgrees'
  BY <1>2, <1>3, SweptPending DEF CommitSweep, ActionAgrees, ActionOfExpired
<1>4. ASSUME NEW w \in Workers, NEW u \in Txs, NEW n \in 1..MaxQty, Reserve(w, u, n)
      PROVE  ActionAgrees'
  <2> SUFFICES ASSUME NEW t \in Txs, action'[t] # "none"
               PROVE  /\ action'[t] = "pending" <=> tx'[t].status = "pending"
                      /\ action'[t] = "done" <=> tx'[t].status = "done"
    BY DEF ActionAgrees
  <2>1. CASE t = u
    <3>1. u \notin Swept(w)
      BY <1>4, SweptPending DEF Reserve
    <3>2. tx'[t].status = "pending"
      BY <1>4, <2>1, <3>1 DEF Reserve
    <3>3. action'[t] \in {"none", "pending"}
      BY <1>4, <2>1, <3>1 DEF Reserve
    <3>4. QED
      BY <3>2, <3>3
  <2>2. CASE t # u
    BY <1>2, <1>4, <2>2, SweptPending DEF Reserve, ActionAgrees, ActionOfExpired
  <2>3. QED
    BY <2>1, <2>2
<1>5. ASSUME NEW w \in Workers, Settle(w) PROVE ActionAgrees'
  <2> SUFFICES ASSUME NEW t \in Txs, action'[t] # "none"
               PROVE  /\ action'[t] = "pending" <=> tx'[t].status = "pending"
                      /\ action'[t] = "done" <=> tx'[t].status = "done"
    BY DEF ActionAgrees
  <2>1. CASE t = job[w].tx
    <3> DEFINE done == IF job[w].qty < tx[t].asked THEN job[w].qty ELSE tx[t].asked
               result == IF done > 0 THEN "done" ELSE "failed"
    <3>1. tx'[t] = [tx[t] EXCEPT !.status = result, !.done = done]
      BY <1>5, <2>1 DEF Settle, TypeOK
    <3>2. tx'[t].status = result
      BY <1>2, <3>1 DEF TxRows
    <3>3. action'[t] = IF action[t] = "none" THEN "none" ELSE result
      BY <1>5, <2>1 DEF Settle, TypeOK
    <3>4. result \in {"done", "failed"}
      OBVIOUS
    <3>5. QED
      BY <3>2, <3>3, <3>4
  <2>2. CASE t # job[w].tx
    BY <1>5, <2>2 DEF Settle, ActionAgrees, TypeOK
  <2>3. QED
    BY <2>1, <2>2
<1>6. ASSUME World \/ \E w \in Workers : Start(w) \/ PassPendingCheck(w) \/ Rollback(w)
                 \/ \E u \in Txs : PutBack(w, u)
      PROVE  tx' = tx /\ action' = action
  BY <1>6, RowsUntouched
<1>7. CASE UNCHANGED vars
  BY <1>1, <1>7 DEF vars, rows
<1>8. CASE World
  BY <1>1, <1>6, <1>8
<1>9. ASSUME NEW w \in Workers, Advance(w) PROVE ActionAgrees'
  <2>1. CASE \/ \E u \in Txs : PutBack(w, u)
             \/ PassPendingCheck(w)
             \/ Rollback(w)
    BY <1>1, <1>6, <2>1
  <2>2. CASE CommitSweep(w)
    BY <1>3, <2>2
  <2>3. CASE \E u \in Txs, n \in 1..MaxQty : Reserve(w, u, n)
    BY <1>4, <2>3
  <2>4. CASE Settle(w)
    BY <1>5, <2>4
  <2>5. Refuse(w) => Rollback(w)
    BY DEF Refuse
  <2>6. QED
    BY <1>9, <2>1, <2>2, <2>3, <2>4, <2>5 DEF Advance
<1>10. ASSUME NEW w \in Workers, Start(w) \/ Abort(w) PROVE ActionAgrees'
  BY <1>1, <1>6, <1>10 DEF Abort
<1>11. QED
  BY <1>8, <1>9, <1>10, <1>7 DEF Next

\* The plugin is offered a trade exactly while its reservation stands, for any
\* number of workers (trader_service.py:473-478, 576-581).
THEOREM ActionsAgree == Spec => []ActionAgrees
<1>1. Init => ActionAgrees
  BY DEF Init, ActionAgrees
<1>2. IInv /\ ActionAgrees /\ [Next]_vars => ActionAgrees'
  BY StepAgrees
<1>3. QED
  BY <1>1, <1>2, Inductive, PTL DEF Spec

--------------------------------------------------------------------------------
(* Pieces: sums over all the transactions, in which what does not count is 0. *)

\* What the transactions of A take of slot s.
TakenBy(A, s) == [t \in Txs |-> IF t \in A /\ tx[t].stock = s THEN Takes(t) ELSE 0]

\* What a worker has taken of its reservations and put back on slot s.
PutBy(w, s) == [t \in Txs |-> IF t \in Swept(w) /\ tx[t].stock = s THEN tx[t].asked ELSE 0]

\* What counts against a player's cap.
CountedFor(p, s) ==
    [t \in Txs |-> IF t \notin late /\ tx[t].player = p /\ tx[t].stock = s THEN Takes(t) ELSE 0]

\* A worker's uncommitted additions to the shelf are those of the reservations it has swept.
BackHolds == \A w \in Workers, s \in Stocks : back[w][s] = SumFunctionOnSet(PutBy(w, s), Txs)

LateSettled == \A t \in late : tx[t].status \in Settled

Amounts == BackHolds /\ LateSettled

LEMMA TakesType ==
    ASSUME TypeOK, NEW t \in Txs
    PROVE  Takes(t) \in Nat /\ tx[t].asked \in Nat /\ tx[t].done \in Nat
<1>1. tx[t].asked \in 0..MaxQty /\ tx[t].done \in 0..MaxQty BY DEF TypeOK, TxRows
<1> QED BY <1>1, TradeConstants DEF Takes

\* A sum over some of the rows is a sum over all of them, with zeros.
LEMMA SumOfRows ==
    ASSUME TypeOK, NEW A \in SUBSET Txs, NEW g,
           \A t \in Txs : g[t] = IF t \in A THEN Takes(t) ELSE 0
    PROVE  SumOf(A, Takes) = SumFunctionOnSet(g, Txs)
<1> DEFINE h == [x \in A |-> Takes(x)]
<1>1. \A x \in A : h[x] \in Int BY TakesType
<1>2. \A x \in Txs : g[x] = IF x \in A THEN h[x] ELSE 0 OBVIOUS
<1>3. SumOf(A, Takes) = SumFunctionOnSet(h, A) BY DEF SumOf
<1> HIDE DEF h
<1> QED BY <1>1, <1>2, <1>3, TradeConstants, SumPart

LEMMA SumsAreTaken ==
    ASSUME TypeOK, NEW s \in Stocks
    PROVE  /\ Pieces(s) = SumFunctionOnSet(TakenBy(Txs, s), Txs)
           /\ LatePieces(s) = SumFunctionOnSet(TakenBy(late, s), Txs)
<1>1. ASSUME NEW A \in SUBSET Txs
      PROVE  SumOf({t \in A : tx[t].stock = s}, Takes) = SumFunctionOnSet(TakenBy(A, s), Txs)
    <2> DEFINE B == {t \in A : tx[t].stock = s}
    <2>1. B \in SUBSET Txs OBVIOUS
    <2>2. \A t \in Txs : TakenBy(A, s)[t] = IF t \in B THEN Takes(t) ELSE 0 BY DEF TakenBy
    <2> HIDE DEF B
    <2>3. SumOf(B, Takes) = SumFunctionOnSet(TakenBy(A, s), Txs) BY <2>1, <2>2, SumOfRows
    <2> QED BY <2>3 DEF B
<1>2. late \in SUBSET Txs /\ Txs \in SUBSET Txs BY DEF TypeOK
<1>3. Pieces(s) = SumFunctionOnSet(TakenBy(Txs, s), Txs) BY <1>1, <1>2 DEF Pieces
<1>4. LatePieces(s) = SumFunctionOnSet(TakenBy(late, s), Txs) BY <1>1, <1>2 DEF LatePieces
<1> QED BY <1>3, <1>4

\* Both kinds of sum are numbers.
LEMMA TakenIsNat ==
    ASSUME TypeOK, NEW A, NEW s
    PROVE  /\ \A t \in Txs : TakenBy(A, s)[t] \in Nat
           /\ SumFunctionOnSet(TakenBy(A, s), Txs) \in Nat
<1>1. \A t \in Txs : TakenBy(A, s)[t] \in Nat BY TakesType DEF TakenBy
<1> QED BY <1>1, TradeConstants, SumNat

LEMMA PutIsNat ==
    ASSUME TypeOK, NEW w, NEW s
    PROVE  \A t \in Txs : PutBy(w, s)[t] \in Nat
BY TakesType DEF PutBy

\* What a worker has put back stays right while its rows stay what they are.
LEMMA BackKept ==
    ASSUME TypeOK, BackHolds, NEW w \in Workers, NEW s \in Stocks,
           back'[w][s] = back[w][s],
           \A t \in Txs : PutBy(w, s)'[t] = PutBy(w, s)[t]
    PROVE  back'[w][s] = SumFunctionOnSet(PutBy(w, s), Txs)'
<1> DEFINE f == PutBy(w, s)
           g == PutBy(w, s)'
<1>1. \A t \in Txs : f[t] = g[t] OBVIOUS
<1>2. back[w][s] = SumFunctionOnSet(f, Txs) BY DEF BackHolds
<1> HIDE DEF f, g
<1>3. SumFunctionOnSet(f, Txs) = SumFunctionOnSet(g, Txs) BY <1>1, TradeConstants, SumSame
<1> QED BY <1>2, <1>3 DEF g

LEMMA BackNothing ==
    ASSUME NEW w \in Workers, NEW s \in Stocks, back'[w][s] = 0, Swept(w)' = {}
    PROVE  back'[w][s] = SumFunctionOnSet(PutBy(w, s), Txs)'
<1> DEFINE g == PutBy(w, s)'
<1>1. \A t \in Txs : g[t] = 0 BY DEF PutBy
<1> HIDE DEF g
<1>2. SumFunctionOnSet(g, Txs) = 0 BY <1>1, TradeConstants, SumZero
<1> QED BY <1>2 DEF g

\* An idle worker has swept nothing.
LEMMA IdleSwept ==
    ASSUME TypeOK, ReadsHold, NEW w \in Workers, pc[w] = "idle"
    PROVE  Swept(w) = {}
BY NoneIsNothing DEF Swept, ReadsHold

\* The end of a request.
LEMMA ReleaseBack ==
    ASSUME TypeOK, ReadsHold, BackHolds, NEW u \in Workers, Release(u),
           \A t \in Txs : txLock[t] \notin {None, u} => tx'[t] = tx[t]
    PROVE  BackHolds'
<1> SUFFICES ASSUME NEW w \in Workers, NEW s \in Stocks
             PROVE  back'[w][s] = SumFunctionOnSet(PutBy(w, s), Txs)'
    BY DEF BackHolds
<1>1. CASE w = u
    <2>1. pc'[w] = "idle" /\ \A t \in Txs : txLock'[t] # w
        BY <1>1, NoneIsNothing DEF Release, TypeOK
    <2>2. Swept(w)' = {} BY <2>1 DEF Swept
    <2>3. back'[w][s] = 0 BY <1>1 DEF Release, TypeOK
    <2> QED BY <2>2, <2>3, BackNothing
<1>2. CASE w # u
    <2>1. pc'[w] = pc[w] /\ todo'[w] = todo[w] /\ back'[w] = back[w]
        BY <1>2 DEF Release, TypeOK
    <2>2. \A t \in Txs : txLock'[t] = w <=> txLock[t] = w
        BY <1>2, NoneIsNothing DEF Release
    <2>3. Swept(w)' = Swept(w) BY <2>1, <2>2 DEF Swept
    <2>4. \A t \in Swept(w) : tx'[t] = tx[t] BY <1>2, NoneIsNothing DEF Swept
    <2>5. \A t \in Txs : PutBy(w, s)'[t] = PutBy(w, s)[t] BY <2>3, <2>4 DEF PutBy
    <2> QED BY <2>1, <2>5, BackKept
<1> QED BY <1>1, <1>2

\* The start of a request, which puts nothing back yet.
LEMMA StartBack ==
    ASSUME TypeOK, ReadsHold, BackHolds, NEW u \in Workers, Start(u)
    PROVE  BackHolds'
<1> SUFFICES ASSUME NEW w \in Workers, NEW s \in Stocks
             PROVE  back'[w][s] = SumFunctionOnSet(PutBy(w, s), Txs)'
    BY DEF BackHolds
<1>1. pc[u] = "idle" /\ back' = back /\ tx' = tx
    BY DEF Start, BeginSweep, BeginTrade, BeginResult, rows
<1>2. Swept(w)' = Swept(w)
    <2>1. ASSUME NEW slots, NEW k \in {"sweep", "trade"},
                 LockStale(u, slots), pc' = [pc EXCEPT ![u] = k]
          PROVE  Swept(w)' = Swept(w)
        <3>1. CASE w = u
            <4>1. todo'[w] = StaleIn(slots) BY <2>1, <3>1 DEF LockStale, TypeOK
            <4>2. \A t \in Txs : txLock'[t] = w => t \in StaleIn(slots)
                BY <1>1, <2>1, <3>1, NoneIsNothing DEF LockStale, ReadsHold
            <4>3. pc'[w] # "apply" BY <2>1, <3>1 DEF TypeOK
            <4>4. Swept(w)' = {} BY <4>1, <4>2, <4>3 DEF Swept
            <4> QED BY <1>1, <3>1, <4>4, IdleSwept
        <3>2. CASE w # u
            <4>1. \A t \in Txs : txLock'[t] = w <=> txLock[t] = w
                BY <2>1, <3>2, NoneIsNothing DEF LockStale, StaleIn
            <4>2. pc'[w] = pc[w] /\ todo'[w] = todo[w] BY <2>1, <3>2 DEF LockStale, TypeOK
            <4> QED BY <4>1, <4>2 DEF Swept
        <3> QED BY <3>1, <3>2
    <2>2. ASSUME NEW t \in Txs, NEW q \in 0..MaxQty, BeginResult(u, t, q)
          PROVE  Swept(w)' = Swept(w)
        <3>1. CASE w = u
            <4>1. pc'[w] = "apply" BY <2>2, <3>1 DEF BeginResult, TypeOK
            <4>2. Swept(w)' = {} BY <4>1 DEF Swept
            <4> QED BY <1>1, <3>1, <4>2, IdleSwept
        <3>2. CASE w # u
            <4>1. \A x \in Txs : txLock'[x] = w <=> txLock[x] = w
                BY <2>2, <3>2, NoneIsNothing DEF BeginResult, TypeOK
            <4>2. pc'[w] = pc[w] /\ todo'[w] = todo[w] BY <2>2, <3>2 DEF BeginResult, TypeOK
            <4> QED BY <4>1, <4>2 DEF Swept
        <3> QED BY <3>1, <3>2
    <2>3. ASSUME NEW slots, BeginSweep(u, slots) PROVE Swept(w)' = Swept(w)
        BY <2>1, <2>3 DEF BeginSweep
    <2>4. ASSUME NEW p, NEW v, NEW x, NEW q, NEW queue, BeginTrade(u, p, v, x, q, queue)
          PROVE  Swept(w)' = Swept(w)
        BY <2>1, <2>4 DEF BeginTrade
    <2> QED BY <2>2, <2>3, <2>4 DEF Start
<1>3. \A t \in Txs : PutBy(w, s)'[t] = PutBy(w, s)[t] BY <1>1, <1>2 DEF PutBy
<1> QED BY <1>1, <1>3, BackKept

\* A turn of the sweep's loop adds the pieces of one reservation.
LEMMA PutBackBack ==
    ASSUME TypeOK, ReadsHold, BackHolds, NEW u \in Workers, NEW x \in Txs, PutBack(u, x)
    PROVE  BackHolds'
<1> SUFFICES ASSUME NEW w \in Workers, NEW s \in Stocks
             PROVE  back'[w][s] = SumFunctionOnSet(PutBy(w, s), Txs)'
    BY DEF BackHolds
<1>1. tx' = tx /\ pc' = pc /\ txLock' = txLock /\ pc[u] # "apply" /\ x \in todo[u]
    BY DEF PutBack, rows
<1>2. CASE w # u
    <2>1. todo'[w] = todo[w] /\ back'[w] = back[w] BY <1>2 DEF PutBack, TypeOK
    <2>2. \A t \in Txs : PutBy(w, s)'[t] = PutBy(w, s)[t]
        BY <1>1, <2>1 DEF PutBy, Swept
    <2> QED BY <2>1, <2>2, BackKept
<1>3. CASE w = u
    <2>1. txLock[x] = w /\ x \notin Swept(w) BY <1>1, <1>3 DEF ReadsHold, Swept
    <2>2. todo'[w] = todo[w] \ {x} BY <1>3 DEF PutBack, TypeOK
    <2>3. \A t \in Txs : t \in Swept(w)' <=> t \in Swept(w) \/ t = x
        BY <1>1, <1>3, <2>1, <2>2 DEF Swept
    <2>4. \A t \in Txs \ {x} : PutBy(w, s)'[t] = PutBy(w, s)[t] BY <1>1, <2>3 DEF PutBy
    <2>5. /\ PutBy(w, s)'[x] = IF tx[x].stock = s THEN tx[x].asked ELSE 0
          /\ PutBy(w, s)[x] = 0
        BY <1>1, <2>1, <2>3 DEF PutBy
    <2>6. \A t \in Txs : PutBy(w, s)[t] \in Int /\ PutBy(w, s)'[t] \in Int
        BY <2>4, <2>5, PutIsNat, TakesType
    <2>7. back'[w][s] = back[w][s] + (IF tx[x].stock = s THEN tx[x].asked ELSE 0)
        <3> DEFINE row == [back[w] EXCEPT ![tx[x].stock] = back[w][tx[x].stock] + tx[x].asked]
        <3>1. back[w] \in [Stocks -> Nat] BY DEF TypeOK
        <3>2. back'[w] = row BY <1>3 DEF PutBack, TypeOK
        <3>3. row[s] = back[w][s] + (IF tx[x].stock = s THEN tx[x].asked ELSE 0)
            BY <3>1
        <3> QED BY <3>2, <3>3
    <2> DEFINE f == PutBy(w, s)
               g == PutBy(w, s)'
    <2>8. back[w][s] = SumFunctionOnSet(f, Txs) BY DEF BackHolds
    <2>9. \A t \in Txs : f[t] \in Int /\ g[t] \in Int BY <2>6
    <2>10. \A t \in Txs \ {x} : g[t] = f[t] BY <2>4
    <2>11. f[x] = 0 /\ g[x] = IF tx[x].stock = s THEN tx[x].asked ELSE 0 BY <2>5
    <2> HIDE DEF f, g
    <2>12. SumFunctionOnSet(g, Txs) = SumFunctionOnSet(f, Txs) + g[x] - f[x]
        BY <2>9, <2>10, TradeConstants, SumChange
    <2>13. back[w][s] \in Int /\ g[x] \in Int BY <2>9 DEF TypeOK
    <2>14. back'[w][s] = SumFunctionOnSet(g, Txs)
        BY <2>7, <2>8, <2>11, <2>12, <2>13
    <2> QED BY <2>14 DEF g
<1> QED BY <1>2, <1>3

\* A row nobody has used yet is locked by nobody and has no share in any sum.
LEMMA NewRowFree ==
    ASSUME TypeOK, ReadsHold, NEW t \in Txs, tx[t].status = "none"
    PROVE  /\ txLock[t] = None
           /\ \A w \in Workers : t \notin Swept(w)
           /\ Takes(t) = 0
<1>1. txLock[t] = None
    <2> SUFFICES ASSUME txLock[t] # None PROVE FALSE OBVIOUS
    <2>1. txLock[t] \in Workers BY DEF TypeOK
    <2>2. pc[txLock[t]] = "apply" /\ job[txLock[t]].tx = t BY DEF ReadsHold
    <2>3. Open(t) BY <2>1, <2>2 DEF ReadsHold
    <2> QED BY <2>3 DEF Open
<1>2. Takes(t) = 0 BY DEF Takes
<1> QED BY <1>1, <1>2, NoneIsNothing DEF Swept

\* What a report does to the row it settles.
LEMMA SettleRow ==
    ASSUME TypeOK, ReadsHold, NEW w \in Workers, Settle(w)
    PROVE  \E t \in Txs, done \in Nat :
               /\ t = job[w].tx /\ Open(t)
               /\ done = IF job[w].qty < tx[t].asked THEN job[w].qty ELSE tx[t].asked
               /\ done <= tx[t].asked
               /\ \A u \in Txs \ {t} : tx'[u] = tx[u]
               /\ tx'[t].stock = tx[t].stock /\ tx'[t].player = tx[t].player
               /\ tx'[t].status \in {"done", "failed"}
               /\ Takes(t)' = done
<1>1. PICK t \in Txs : t = job[w].tx /\ Open(t) BY DEF Settle, ReadsHold
<1>2. tx[t] \in TxRows BY DEF TypeOK
<1>3. PICK done \in Nat : /\ done = IF job[w].qty < tx[t].asked THEN job[w].qty ELSE tx[t].asked
                          /\ done <= tx[t].asked
    <2> DEFINE d == IF job[w].qty < tx[t].asked THEN job[w].qty ELSE tx[t].asked
    <2>1. d \in Nat /\ d <= tx[t].asked
        BY <1>2, TradeConstants DEF TypeOK, Jobs, TxRows
    <2> QED BY <2>1
<1> DEFINE result == IF done > 0 THEN "done" ELSE "failed"
<1>4. tx' = [tx EXCEPT ![t] = [tx[t] EXCEPT !.status = result, !.done = done]]
    BY <1>1, <1>3 DEF Settle
<1>5. tx'[t] = [tx[t] EXCEPT !.status = result, !.done = done] BY <1>4 DEF TypeOK
<1>6. \A u \in Txs \ {t} : tx'[u] = tx[u] BY <1>4 DEF TypeOK
<1>7. /\ tx'[t].stock = tx[t].stock /\ tx'[t].player = tx[t].player
      /\ tx'[t].status = result /\ tx'[t].done = done
    BY <1>2, <1>5 DEF TxRows
<1>8. Takes(t)' = done
    <2>1. tx'[t].status = "done" => Takes(t)' = tx'[t].done BY DEF Takes
    <2>2. tx'[t].status = "failed" => Takes(t)' = 0 BY DEF Takes
    <2> QED BY <1>3, <1>7, <2>1, <2>2
<1>9. tx'[t].status \in {"done", "failed"} BY <1>7
<1> QED BY <1>1, <1>3, <1>6, <1>7, <1>8, <1>9

LEMMA StepBack ==
    ASSUME IInv, BackHolds, [Next]_vars
    PROVE  BackHolds'
<1> USE DEF IInv
<1>1. CASE UNCHANGED <<tx, back, pc, todo, txLock>>
    BY <1>1 DEF BackHolds, PutBy, Swept
<1>2. UNCHANGED request => UNCHANGED <<back, pc, todo, txLock>> BY DEF request
<1>3. CASE World
    <2>1. UNCHANGED request
        BY <1>3 DEF World, OpenSession, CloseSession, GrowStale, Poll
    <2> QED BY <1>1, <1>2, <1>3, <2>1, RowsUntouched
<1>4. CASE UNCHANGED vars BY <1>1, <1>2, <1>4 DEF vars, rows
<1>5. ASSUME NEW w \in Workers, PassPendingCheck(w) PROVE BackHolds'
    <2>1. UNCHANGED <<tx, back, todo, txLock>> BY <1>5 DEF PassPendingCheck, rows
    <2>2. \A u \in Workers : pc'[u] = "apply" <=> pc[u] = "apply"
        BY <1>5 DEF PassPendingCheck, TypeOK
    <2> QED BY <2>1, <2>2 DEF BackHolds, PutBy, Swept
<1>6. ASSUME NEW w \in Workers, Rollback(w) PROVE BackHolds'
    BY <1>6, ReleaseBack DEF Rollback, rows
<1>7. ASSUME NEW w \in Workers, CommitSweep(w) PROVE BackHolds'
    <2>1. \A t \in Txs : txLock[t] # w => tx'[t] = tx[t]
        BY <1>7, SweptPending DEF CommitSweep
    <2> QED BY <1>7, <2>1, ReleaseBack DEF CommitSweep
<1>8. ASSUME NEW w \in Workers, NEW t \in Txs, NEW n \in 1..MaxQty, Reserve(w, t, n)
      PROVE  BackHolds'
    <2>1. \A u \in Txs : txLock[u] \notin {None, w} => tx'[u] = tx[u]
        BY <1>8, NewRowFree DEF Reserve, Swept
    <2> QED BY <1>8, <2>1, ReleaseBack DEF Reserve
<1>9. ASSUME NEW w \in Workers, Settle(w) PROVE BackHolds'
    <2>1. \A t \in Txs : txLock[t] # w => tx'[t] = tx[t]
        BY <1>9 DEF Settle, TypeOK, ReadsHold
    <2> QED BY <1>9, <2>1, ReleaseBack DEF Settle
<1>10. ASSUME NEW w \in Workers, Advance(w) PROVE BackHolds'
    BY <1>5, <1>6, <1>7, <1>8, <1>9, <1>10, PutBackBack DEF Advance, Refuse
<1> QED BY <1>3, <1>4, <1>6, <1>10, StartBack DEF Next, Abort

\* A settled row stays settled, and only a settlement makes one late.
LEMMA StepLate ==
    ASSUME IInv, LateSettled, [Next]_vars
    PROVE  LateSettled'
<1> USE DEF IInv
<1> SUFFICES ASSUME NEW t \in late' PROVE tx'[t].status \in Settled
    BY DEF LateSettled
<1>1. CASE t \in late
    BY <1>1, StepIsFinal DEF LateSettled, TypeOK
<1>2. CASE t \notin late
    <2>1. late' # late BY <1>2
    <2>2. PICK w \in Workers : Settle(w)
        <3>1. ASSUME NEW w \in Workers, Advance(w), ~Settle(w) PROVE FALSE
            BY <2>1, <3>1, RowsUntouched DEF Advance, CommitSweep, Reserve, Refuse
        <3> QED BY <2>1, <3>1, RowsUntouched DEF Next, Abort, vars, rows
    <2>3. t = job[w].tx /\ t \in Txs BY <1>2, <2>2 DEF Settle, ReadsHold
    <2> QED BY <2>2, <2>3, SettleRow DEF Settled
<1> QED BY <1>1, <1>2

LEMMA StepAmounts == IInv /\ Amounts /\ [Next]_vars => Amounts'
BY StepBack, StepLate DEF Amounts

LEMMA InitAmounts == Init => Amounts
<1> SUFFICES ASSUME Init PROVE Amounts OBVIOUS
<1>1. LateSettled BY DEF Init, LateSettled
<1>2. ASSUME NEW w \in Workers, NEW s \in Stocks
      PROVE  back[w][s] = SumFunctionOnSet(PutBy(w, s), Txs)
    <2> DEFINE f == PutBy(w, s)
    <2>1. Swept(w) = {} BY NoneIsNothing DEF Init, Swept
    <2>2. \A t \in Txs : f[t] = 0 BY <2>1 DEF PutBy
    <2> HIDE DEF f
    <2>3. SumFunctionOnSet(f, Txs) = 0 BY <2>2, TradeConstants, SumZero
    <2> QED BY <2>3 DEF Init, f
<1> QED BY <1>1, <1>2 DEF Amounts, BackHolds

--------------------------------------------------------------------------------
(* What comes of the sums when a transaction commits. *)

\* The shelf and the two sums of a slot as one statement about functions on Txs.
Balance(s) ==
    LET excess == left[s] + SumFunctionOnSet(TakenBy(Txs, s), Txs) - QtyTotal[s] IN
    0 <= excess /\ excess <= SumFunctionOnSet(TakenBy(late, s), Txs)

LEMMA BalanceIsConservation ==
    TypeOK => (StockConserved <=> \A s \in Stocks : Balance(s))
BY SumsAreTaken DEF StockConserved, Balance

LEMMA BalanceNext ==
    (TypeOK => (StockConserved <=> \A s \in Stocks : Balance(s)))'
BY BalanceIsConservation, PTL

LEMMA TakenNext ==
    ASSUME TypeOK', NEW A, NEW s
    PROVE  /\ \A t \in Txs : TakenBy(A, s)'[t] \in Nat
           /\ SumFunctionOnSet(TakenBy(A, s), Txs)' \in Nat
<1> DEFINE g == TakenBy(A, s)'
<1>1. \A t \in Txs : g[t] \in Nat
    <2> SUFFICES ASSUME NEW t \in Txs PROVE g[t] \in Nat OBVIOUS
    <2>1. tx'[t] \in TxRows BY DEF TypeOK
    <2>2. Takes(t)' \in Nat BY <2>1, TradeConstants DEF Takes, TxRows
    <2> QED BY <2>2 DEF TakenBy
<1> HIDE DEF g
<1>2. SumFunctionOnSet(g, Txs) \in Nat BY <1>1, TradeConstants, SumNat
<1> QED BY <1>1, <1>2 DEF g

\* Two sums that agree summand by summand, one of them in the next state.
LEMMA TakenSame ==
    ASSUME NEW A, NEW B, NEW s, \A t \in Txs : TakenBy(B, s)'[t] = TakenBy(A, s)[t]
    PROVE  SumFunctionOnSet(TakenBy(B, s), Txs)' = SumFunctionOnSet(TakenBy(A, s), Txs)
<1> DEFINE f == TakenBy(A, s)
           g == TakenBy(B, s)'
<1>1. \A t \in Txs : g[t] = f[t] OBVIOUS
<1> HIDE DEF f, g
<1>2. SumFunctionOnSet(g, Txs) = SumFunctionOnSet(f, Txs) BY <1>1, TradeConstants, SumSame
<1> QED BY <1>2 DEF f, g

\* Expired rows leave the sum by as much as the shelf gains.
LEMMA SweepBalance ==
    ASSUME IInv, Amounts, NEW w \in Workers, CommitSweep(w), TypeOK',
           NEW s \in Stocks, Balance(s)
    PROVE  Balance(s)'
<1> USE DEF IInv
<1>1. \A t \in Txs : tx'[t] = IF t \in Swept(w) THEN Expire(t) ELSE tx[t]
    BY DEF CommitSweep
<1>2. \A t \in Swept(w) : /\ Takes(t) = tx[t].asked /\ tx'[t].stock = tx[t].stock
                          /\ Takes(t)' = 0 /\ t \notin late
    <2> SUFFICES ASSUME NEW t \in Swept(w)
                 PROVE  /\ Takes(t) = tx[t].asked /\ tx'[t].stock = tx[t].stock
                        /\ Takes(t)' = 0 /\ t \notin late
        OBVIOUS
    <2>1. t \in Txs /\ tx[t].status = "pending" BY SweptPending
    <2>2. tx'[t] = Expire(t) /\ tx[t] \in TxRows BY <1>1, <2>1 DEF TypeOK
    <2>3. tx'[t].status = "expired" /\ tx'[t].stock = tx[t].stock
        BY <2>2 DEF Expire, TxRows
    <2> QED BY <2>1, <2>3 DEF Takes, Amounts, LateSettled, Settled
<1>3. \A t \in Txs : t \notin Swept(w) => tx'[t] = tx[t] /\ Takes(t)' = Takes(t)
    BY <1>1 DEF Takes
<1>4. late' = late BY DEF CommitSweep
<1>5. SumFunctionOnSet(TakenBy(late, s), Txs)' = SumFunctionOnSet(TakenBy(late, s), Txs)
    <2>1. \A t \in Txs : TakenBy(late, s)'[t] = TakenBy(late, s)[t]
        BY <1>2, <1>3, <1>4 DEF TakenBy
    <2> QED BY <2>1, TakenSame
<1>6. SumFunctionOnSet(TakenBy(Txs, s), Txs)
         = SumFunctionOnSet(TakenBy(Txs, s), Txs)' + back[w][s]
    <2> DEFINE h == TakenBy(Txs, s)
               f == TakenBy(Txs, s)'
               g == PutBy(w, s)
    <2>1. \A t \in Txs : f[t] \in Int BY TakenNext
    <2>2. \A t \in Txs : g[t] \in Int BY PutIsNat
    <2>3. \A t \in Txs : h[t] = f[t] + g[t]
        <3>1. \A t \in Swept(w) \cap Txs : f[t] = 0 /\ h[t] = g[t] BY <1>2 DEF TakenBy, PutBy
        <3>2. \A t \in Txs \ Swept(w) : h[t] = f[t] /\ g[t] = 0 BY <1>3 DEF TakenBy, PutBy
        <3> HIDE DEF f, g, h
        <3> QED BY <2>1, <2>2, <3>1, <3>2
    <2>4. back[w][s] = SumFunctionOnSet(g, Txs) BY DEF Amounts, BackHolds
    <2> HIDE DEF f, g, h
    <2>5. SumFunctionOnSet(h, Txs) = SumFunctionOnSet(f, Txs) + SumFunctionOnSet(g, Txs)
        BY <2>1, <2>2, <2>3, TradeConstants, SumAdd
    <2> QED BY <2>4, <2>5 DEF f, h
<1>7. left'[s] = left[s] + back[w][s] BY DEF CommitSweep
<1>8. left[s] \in Nat /\ back[w][s] \in Nat /\ QtyTotal[s] \in Nat
    BY TradeConstants DEF TypeOK
<1>9. SumFunctionOnSet(TakenBy(Txs, s), Txs)' \in Nat BY TakenNext
<1> QED BY <1>5, <1>6, <1>7, <1>8, <1>9 DEF Balance

\* Two sums that differ in one row.
LEMMA TakenChange ==
    ASSUME TypeOK, TypeOK', NEW A, NEW B, NEW s, NEW x \in Txs,
           \A t \in Txs \ {x} : TakenBy(B, s)'[t] = TakenBy(A, s)[t]
    PROVE  SumFunctionOnSet(TakenBy(B, s), Txs)'
              = SumFunctionOnSet(TakenBy(A, s), Txs) + TakenBy(B, s)'[x] - TakenBy(A, s)[x]
<1> DEFINE f == TakenBy(A, s)
           g == TakenBy(B, s)'
<1>1. \A t \in Txs : f[t] \in Int BY TakenIsNat
<1>2. \A t \in Txs : g[t] \in Int BY TakenNext
<1>3. \A t \in Txs \ {x} : g[t] = f[t] OBVIOUS
<1> HIDE DEF f, g
<1>4. SumFunctionOnSet(g, Txs) = SumFunctionOnSet(f, Txs) + g[x] - f[x]
    BY <1>1, <1>2, <1>3, TradeConstants, SumChange
<1> QED BY <1>4 DEF f, g

\* A new row takes what the shelf loses, after the sweep has given back its rows.
LEMMA ReserveBalance ==
    ASSUME IInv, Amounts, NEW w \in Workers, NEW r \in Txs, NEW n \in 1..MaxQty,
           Reserve(w, r, n), TypeOK', NEW s \in Stocks, Balance(s)
    PROVE  Balance(s)'
<1> USE DEF IInv
<1> DEFINE taken == IF s = job[w].stock THEN n ELSE 0
<1>1. /\ r \notin Swept(w) /\ Takes(r) = 0 /\ tx[r].status = "none"
      /\ tx'[r].stock = job[w].stock /\ Takes(r)' = n /\ r \notin late
    <2>1. tx[r].status = "none" BY DEF Reserve
    <2>2. r \notin Swept(w) /\ Takes(r) = 0 BY <2>1, NewRowFree
    <2>3. tx'[r] = [status |-> "pending", player |-> job[w].player, stock |-> job[w].stock,
                    asked |-> n, done |-> 0]
        BY <2>2 DEF Reserve
    <2>4. tx'[r].stock = job[w].stock /\ Takes(r)' = n BY <2>3 DEF Takes
    <2> QED BY <2>1, <2>2, <2>4 DEF Amounts, LateSettled, Settled
<1>2. \A t \in Txs \ {r} : tx'[t] = IF t \in Swept(w) THEN Expire(t) ELSE tx[t]
    BY DEF Reserve
<1>3. \A t \in Swept(w) : /\ t \in Txs \ {r}
                          /\ Takes(t) = tx[t].asked /\ tx'[t].stock = tx[t].stock
                          /\ Takes(t)' = 0 /\ t \notin late
    <2> SUFFICES ASSUME NEW t \in Swept(w)
                 PROVE  /\ t \in Txs \ {r}
                        /\ Takes(t) = tx[t].asked /\ tx'[t].stock = tx[t].stock
                        /\ Takes(t)' = 0 /\ t \notin late
        OBVIOUS
    <2>1. t \in Txs \ {r} /\ tx[t].status = "pending" BY <1>1, SweptPending
    <2>2. tx'[t] = Expire(t) /\ tx[t] \in TxRows BY <1>2, <2>1 DEF TypeOK
    <2>3. tx'[t].status = "expired" /\ tx'[t].stock = tx[t].stock
        BY <2>2 DEF Expire, TxRows
    <2> QED BY <2>1, <2>3 DEF Takes, Amounts, LateSettled, Settled
<1>4. \A t \in Txs \ {r} : t \notin Swept(w) => tx'[t] = tx[t] /\ Takes(t)' = Takes(t)
    BY <1>2 DEF Takes
<1>5. late' = late BY DEF Reserve
<1>6. SumFunctionOnSet(TakenBy(late, s), Txs)' = SumFunctionOnSet(TakenBy(late, s), Txs)
    <2>1. \A t \in Txs : TakenBy(late, s)'[t] = TakenBy(late, s)[t]
        BY <1>1, <1>3, <1>4, <1>5 DEF TakenBy
    <2> QED BY <2>1, TakenSame
<1>7. SumFunctionOnSet(TakenBy(Txs, s), Txs)' - taken
         = SumFunctionOnSet(TakenBy(Txs, s), Txs) - back[w][s]
    <2> DEFINE h == TakenBy(Txs, s)
               f == TakenBy(Txs, s)'
               g == PutBy(w, s)
               e == [t \in Txs |-> IF t = r THEN 0 ELSE f[t]]
    <2>1. \A t \in Txs : f[t] \in Int BY TakenNext
    <2>2. \A t \in Txs : g[t] \in Int BY PutIsNat
    <2>3. \A t \in Swept(w) : f[t] = 0 /\ h[t] = g[t] /\ t \in Txs \ {r}
        BY <1>3 DEF TakenBy, PutBy
    <2>4. \A t \in Txs \ {r} : t \notin Swept(w) => h[t] = f[t] /\ g[t] = 0
        BY <1>4 DEF TakenBy, PutBy
    <2>5. h[r] = 0 /\ g[r] = 0 /\ f[r] = taken BY <1>1 DEF TakenBy, PutBy
    <2>6. back[w][s] = SumFunctionOnSet(g, Txs) BY DEF Amounts, BackHolds
    <2>7. /\ \A t \in Txs : e[t] = IF t = r THEN 0 ELSE f[t]
          /\ taken \in Int
        OBVIOUS
    <2> HIDE DEF f, g, h, e, taken
    <2>8. \A t \in Txs : e[t] \in Int BY <2>1, <2>7
    <2>9. \A t \in Txs : h[t] = e[t] + g[t] BY <2>1, <2>2, <2>3, <2>4, <2>5, <2>7
    <2>10. SumFunctionOnSet(h, Txs) = SumFunctionOnSet(e, Txs) + SumFunctionOnSet(g, Txs)
        BY <2>2, <2>8, <2>9, TradeConstants, SumAdd
    <2>11. SumFunctionOnSet(f, Txs) = SumFunctionOnSet(e, Txs) + f[r] - e[r]
        BY <2>1, <2>7, <2>8, TradeConstants, SumChange
    <2>12. SumFunctionOnSet(e, Txs) \in Int /\ SumFunctionOnSet(g, Txs) \in Int
        BY <2>2, <2>8, TradeConstants, SumTakeOut
    <2>13. SumFunctionOnSet(f, Txs) - taken = SumFunctionOnSet(h, Txs) - back[w][s]
        BY <2>5, <2>6, <2>7, <2>10, <2>11, <2>12
    <2> QED BY <2>13 DEF f, h
<1>8. left'[s] = left[s] + back[w][s] - taken BY DEF Reserve
<1>9. left[s] \in Nat /\ back[w][s] \in Nat /\ QtyTotal[s] \in Nat /\ taken \in Nat
    BY TradeConstants DEF TypeOK
<1>10. /\ SumFunctionOnSet(TakenBy(Txs, s), Txs)' \in Nat
       /\ SumFunctionOnSet(TakenBy(Txs, s), Txs) \in Nat
    BY TakenNext, TakenIsNat
<1> HIDE DEF taken
<1> QED BY <1>6, <1>7, <1>8, <1>9, <1>10 DEF Balance

\* A report moves pieces between the reserved and the sold, or takes them from
\* the shelf again; what the shelf no longer has counts as late.
LEMMA SettleBalance ==
    ASSUME IInv, Amounts, NEW w \in Workers, Settle(w), TypeOK', NEW s \in Stocks, Balance(s)
    PROVE  Balance(s)'
<1> USE DEF IInv
<1>1. PICK t \in Txs, done \in Nat :
          /\ t = job[w].tx /\ Open(t)
          /\ done = IF job[w].qty < tx[t].asked THEN job[w].qty ELSE tx[t].asked
          /\ done <= tx[t].asked
          /\ \A u \in Txs \ {t} : tx'[u] = tx[u]
          /\ tx'[t].stock = tx[t].stock /\ tx'[t].player = tx[t].player
          /\ tx'[t].status \in {"done", "failed"}
          /\ Takes(t)' = done
    BY SettleRow
<1>2. \A u \in Txs \ {t} : Takes(u)' = Takes(u) BY <1>1 DEF Takes
<1>3. t \notin late BY <1>1 DEF Open, Amounts, LateSettled, Settled
<1>4. left' = [left EXCEPT ![tx[t].stock] = LeftAfter(t, done)] BY <1>1 DEF Settle
<1>5. late' = IF tx[t].status = "expired" THEN late \cup {t} ELSE late BY <1>1 DEF Settle
<1>6. left[s] \in Nat /\ tx[t].asked \in Nat /\ QtyTotal[s] \in Nat
    BY TradeConstants, TakesType DEF TypeOK
<1> DEFINE p == SumFunctionOnSet(TakenBy(Txs, s), Txs)
           q == SumFunctionOnSet(TakenBy(Txs, s), Txs)'
           l == SumFunctionOnSet(TakenBy(late, s), Txs)
           m == SumFunctionOnSet(TakenBy(late, s), Txs)'
<1>7. p \in Nat /\ q \in Nat /\ l \in Nat /\ m \in Nat BY TakenIsNat, TakenNext
<1>8. q = p + TakenBy(Txs, s)'[t] - TakenBy(Txs, s)[t]
    <2>1. \A u \in Txs \ {t} : TakenBy(Txs, s)'[u] = TakenBy(Txs, s)[u]
        BY <1>1, <1>2 DEF TakenBy
    <2> QED BY <2>1, TakenChange
<1>9. m = l + TakenBy(late, s)'[t] - TakenBy(late, s)[t]
    <2>1. \A u \in Txs \ {t} : TakenBy(late, s)'[u] = TakenBy(late, s)[u]
        BY <1>1, <1>2, <1>5 DEF TakenBy
    <2> QED BY <2>1, TakenChange
<1>10. /\ TakenBy(Txs, s)'[t] = IF tx[t].stock = s THEN done ELSE 0
       /\ TakenBy(Txs, s)[t] = IF tx[t].stock = s THEN Takes(t) ELSE 0
       /\ TakenBy(late, s)'[t] = IF tx[t].stock = s /\ tx[t].status = "expired" THEN done ELSE 0
       /\ TakenBy(late, s)[t] = 0
    BY <1>1, <1>3, <1>5 DEF TakenBy
<1>11. Balance(s) <=> 0 <= left[s] + p - QtyTotal[s] /\ left[s] + p - QtyTotal[s] <= l
    BY DEF Balance
<1>12. Balance(s)' <=> 0 <= left'[s] + q - QtyTotal[s] /\ left'[s] + q - QtyTotal[s] <= m
    BY DEF Balance
<1> HIDE DEF p, q, l, m
<1>13. CASE tx[t].stock # s
    <2>1. left'[s] = left[s] /\ q = p /\ m = l
        BY <1>4, <1>7, <1>8, <1>9, <1>10, <1>13 DEF TypeOK
    <2> QED BY <2>1, <1>11, <1>12
<1>14. CASE tx[t].stock = s
    <2>1. left'[s] = LeftAfter(t, done) BY <1>4, <1>14 DEF TypeOK
    <2>2. CASE tx[t].status = "pending"
        <3>1. Takes(t) = tx[t].asked BY <2>2 DEF Takes
        <3>2. left'[s] = left[s] + tx[t].asked - done BY <1>14, <2>1, <2>2 DEF LeftAfter
        <3>3. q = p + done - tx[t].asked /\ m = l
            BY <1>7, <1>8, <1>9, <1>10, <1>14, <2>2, <3>1
        <3> QED BY <1>1, <1>6, <1>7, <1>11, <1>12, <3>2, <3>3
    <2>3. CASE tx[t].status = "expired"
        <3>1. Takes(t) = 0 BY <2>3 DEF Takes
        <3>2. left'[s] = IF left[s] < done THEN 0 ELSE left[s] - done
            BY <1>14, <2>1, <2>3 DEF LeftAfter
        <3>3. q = p + done /\ m = l + done
            BY <1>7, <1>8, <1>9, <1>10, <1>14, <2>3, <3>1
        <3> QED BY <1>6, <1>7, <1>11, <1>12, <3>2, <3>3
    <2> QED BY <1>1, <2>2, <2>3 DEF Open
<1> QED BY <1>13, <1>14

LEMMA StepConserves ==
    ASSUME IInv, Amounts, [Next]_vars, StockConserved
    PROVE  StockConserved'
<1> USE DEF IInv
<1>1. TypeOK' BY NextType
<1>2. \A s \in Stocks : Balance(s) BY BalanceIsConservation
<1>3. UNCHANGED <<tx, left, late>> => StockConserved'
    BY DEF StockConserved, Pieces, LatePieces, SumOf, Takes
<1>4. (\A s \in Stocks : Balance(s)') => StockConserved' BY <1>1, BalanceNext
<1>5. ASSUME NEW w \in Workers, Advance(w) PROVE StockConserved'
    <2>1. CASE CommitSweep(w) BY <1>1, <1>2, <1>4, <2>1, SweepBalance
    <2>2. CASE \E t \in Txs, n \in 1..MaxQty : Reserve(w, t, n)
        BY <1>1, <1>2, <1>4, <2>2, ReserveBalance
    <2>3. CASE Settle(w) BY <1>1, <1>2, <1>4, <2>3, SettleBalance
    <2> QED BY <1>3, <1>5, <2>1, <2>2, <2>3, RowsUntouched DEF Advance, Refuse
<1> QED BY <1>3, <1>5, RowsUntouched DEF Next, Abort, vars, rows

LEMMA AmountsAlways == Spec => [](IInv /\ Amounts)
<1>1. (IInv /\ Amounts) /\ [Next]_vars => (IInv /\ Amounts)'
    BY NextType, NextReads, StepAmounts DEF IInv
<1> QED BY <1>1, InitInv, InitAmounts, PTL DEF Spec

LEMMA InitConserved == Init => StockConserved
<1> SUFFICES ASSUME Init PROVE StockConserved OBVIOUS
<1>1. TypeOK BY InitInv DEF IInv
<1>2. ASSUME NEW s \in Stocks PROVE Balance(s)
    <2>1. ASSUME NEW A PROVE SumFunctionOnSet(TakenBy(A, s), Txs) = 0
        <3> DEFINE f == TakenBy(A, s)
        <3>1. \A t \in Txs : f[t] = 0 BY DEF TakenBy, Init, Takes, NoTx
        <3> HIDE DEF f
        <3>2. SumFunctionOnSet(f, Txs) = 0 BY <3>1, TradeConstants, SumZero
        <3> QED BY <3>2 DEF f
    <2>2. left[s] = QtyTotal[s] /\ QtyTotal[s] \in Nat BY TradeConstants DEF Init
    <2> QED BY <2>1, <2>2 DEF Balance
<1> QED BY <1>1, <1>2, BalanceIsConservation

\* No piece of a slot is lost and none is returned twice, for any number of
\* trades, reports, retries, sweeps and rollbacks at once: shelf, reservations
\* and sales add up to what the trader brought, but for what was settled after
\* its reservation had expired (trader_service.py:566-570, 470-472).
THEOREM StockIsConserved == Spec => []StockConserved
<1>1. (IInv /\ Amounts) /\ StockConserved /\ [Next]_vars => StockConserved'
    BY StepConserves
<1> QED BY <1>1, InitConserved, AmountsAlways, PTL DEF Spec

--------------------------------------------------------------------------------
(* What one player may take of a slot. *)

Share(p, s) == SumFunctionOnSet(CountedFor(p, s), Txs)

LEMMA ShareIsTheirs ==
    TypeOK => (PlayerWithinCap <=> \A p \in Players, s \in Stocks : Share(p, s) <= Cap[s])
<1> SUFFICES ASSUME TypeOK, NEW p \in Players, NEW s \in Stocks
             PROVE  SumOf({t \in Txs \ late : tx[t].player = p /\ tx[t].stock = s}, Takes)
                       = Share(p, s)
    BY DEF PlayerWithinCap
<1> DEFINE B == {t \in Txs \ late : tx[t].player = p /\ tx[t].stock = s}
           g == CountedFor(p, s)
<1>1. B \in SUBSET Txs OBVIOUS
<1>2. \A t \in Txs : g[t] = IF t \in B THEN Takes(t) ELSE 0 BY DEF CountedFor
<1> HIDE DEF B, g
<1>3. SumOf(B, Takes) = SumFunctionOnSet(g, Txs) BY <1>1, <1>2, SumOfRows
<1> QED BY <1>3 DEF B, g, Share

LEMMA ShareNext ==
    (TypeOK => (PlayerWithinCap <=> \A p \in Players, s \in Stocks : Share(p, s) <= Cap[s]))'
BY ShareIsTheirs, PTL

LEMMA CountedIsNat ==
    ASSUME TypeOK, NEW p, NEW s
    PROVE  /\ \A t \in Txs : CountedFor(p, s)[t] \in Nat
           /\ Share(p, s) \in Nat
<1>1. \A t \in Txs : CountedFor(p, s)[t] \in Nat BY TakesType DEF CountedFor
<1> QED BY <1>1, TradeConstants, SumNat DEF Share

LEMMA CountedNext ==
    ASSUME TypeOK', NEW p, NEW s
    PROVE  \A t \in Txs : CountedFor(p, s)'[t] \in Nat
<1> SUFFICES ASSUME NEW t \in Txs PROVE CountedFor(p, s)'[t] \in Nat OBVIOUS
<1>1. tx'[t] \in TxRows BY DEF TypeOK
<1>2. Takes(t)' \in Nat BY <1>1, TradeConstants DEF Takes, TxRows
<1> QED BY <1>2 DEF CountedFor

\* A share does not grow if no row's part of it does.
LEMMA ShareShrinks ==
    ASSUME TypeOK, TypeOK', NEW p, NEW s,
           \A t \in Txs : CountedFor(p, s)'[t] <= CountedFor(p, s)[t]
    PROVE  Share(p, s)' <= Share(p, s)
<1> DEFINE f == CountedFor(p, s)'
           g == CountedFor(p, s)
<1>1. \A t \in Txs : f[t] \in Int BY CountedNext
<1>2. \A t \in Txs : g[t] \in Int BY CountedIsNat
<1>3. \A t \in Txs : f[t] <= g[t] OBVIOUS
<1> HIDE DEF f, g
<1>4. SumFunctionOnSet(f, Txs) <= SumFunctionOnSet(g, Txs)
    BY <1>1, <1>2, <1>3, TradeConstants, SumMonotone
<1> QED BY <1>4 DEF f, g, Share

LEMMA SweptShare ==
    ASSUME TypeOK, ReadsHold, NEW w \in Workers, NEW t \in Swept(w), tx'[t] = Expire(t)
    PROVE  Takes(t)' = 0
<1>1. t \in Txs /\ tx[t] \in TxRows BY SweptPending DEF TypeOK
<1>2. tx'[t].status = "expired" BY <1>1 DEF Expire, TxRows
<1> QED BY <1>2 DEF Takes

LEMMA SweepShare ==
    ASSUME IInv, TypeOK', NEW w \in Workers, CommitSweep(w), NEW p, NEW s
    PROVE  Share(p, s)' <= Share(p, s)
<1> USE DEF IInv
<1>1. \A t \in Txs \ Swept(w) : tx'[t] = tx[t] /\ Takes(t)' = Takes(t)
    BY DEF CommitSweep, Takes
<1>2. \A t \in Swept(w) \cap Txs : Takes(t)' = 0 BY SweptShare DEF CommitSweep
<1>3. late' = late BY DEF CommitSweep
<1>4. \A t \in Txs : CountedFor(p, s)[t] \in Nat BY CountedIsNat
<1>5. \A t \in Txs \cap Swept(w) : CountedFor(p, s)'[t] = 0 BY <1>2 DEF CountedFor
<1>6. \A t \in Txs \ Swept(w) : CountedFor(p, s)'[t] = CountedFor(p, s)[t]
    BY <1>1, <1>3 DEF CountedFor
<1>7. \A t \in Txs : CountedFor(p, s)'[t] <= CountedFor(p, s)[t] BY <1>4, <1>5, <1>6
<1> QED BY <1>7, ShareShrinks

\* A report settles for no more than was reserved, and a late one does not count.
LEMMA SettleShare ==
    ASSUME IInv, TypeOK', NEW w \in Workers, Settle(w), NEW p, NEW s
    PROVE  Share(p, s)' <= Share(p, s)
<1> USE DEF IInv
<1>1. PICK t \in Txs, done \in Nat :
          /\ t = job[w].tx /\ Open(t)
          /\ done = IF job[w].qty < tx[t].asked THEN job[w].qty ELSE tx[t].asked
          /\ done <= tx[t].asked
          /\ \A u \in Txs \ {t} : tx'[u] = tx[u]
          /\ tx'[t].stock = tx[t].stock /\ tx'[t].player = tx[t].player
          /\ tx'[t].status \in {"done", "failed"}
          /\ Takes(t)' = done
    BY SettleRow
<1>2. late' = IF tx[t].status = "expired" THEN late \cup {t} ELSE late BY <1>1 DEF Settle
<1>3. \A u \in Txs : CountedFor(p, s)[u] \in Nat BY CountedIsNat
<1>4. \A u \in Txs \ {t} : CountedFor(p, s)'[u] = CountedFor(p, s)[u]
    BY <1>1, <1>2 DEF CountedFor, Takes
<1>5. CountedFor(p, s)'[t] <= CountedFor(p, s)[t]
    <2>1. CASE tx[t].status = "expired"
        <3>1. CountedFor(p, s)'[t] = 0 BY <1>2, <2>1 DEF CountedFor
        <3> QED BY <1>3, <3>1
    <2>2. CASE tx[t].status = "pending"
        <3>1. Takes(t) = tx[t].asked /\ late' = late BY <1>2, <2>2 DEF Takes
        <3>2. tx[t].asked \in Nat BY TakesType
        <3> QED BY <1>1, <3>1, <3>2 DEF CountedFor
    <2> QED BY <1>1, <2>1, <2>2 DEF Open
<1>6. \A u \in Txs : CountedFor(p, s)'[u] <= CountedFor(p, s)[u] BY <1>3, <1>4, <1>5
<1> QED BY <1>6, ShareShrinks

\* A reservation fits into what the player's other rows leave of the cap, although
\* those were read before the stock row was locked.
LEMMA ReserveShare ==
    ASSUME IInv, Amounts, TypeOK', NEW w \in Workers, NEW r \in Txs, NEW n \in 1..MaxQty,
           Reserve(w, r, n), NEW p \in Players, NEW s \in Stocks, Share(p, s) <= Cap[s]
    PROVE  Share(p, s)' <= Cap[s]
<1> USE DEF IInv
<1> DEFINE j == job[w]
<1>1. /\ r \notin Swept(w) /\ Takes(r) = 0 /\ r \notin late
      /\ tx'[r] = [status |-> "pending", player |-> j.player, stock |-> j.stock,
                   asked |-> n, done |-> 0]
    <2>1. tx[r].status = "none" BY DEF Reserve
    <2>2. r \notin Swept(w) /\ Takes(r) = 0 BY <2>1, NewRowFree
    <2> QED BY <2>1, <2>2 DEF Reserve, Amounts, LateSettled, Settled
<1>2. \A t \in Txs \ ({r} \cup Swept(w)) : tx'[t] = tx[t] /\ Takes(t)' = Takes(t)
    BY DEF Reserve, Takes
<1>3. \A t \in Swept(w) \cap Txs : Takes(t)' = 0 /\ t # r BY <1>1, SweptShare DEF Reserve
<1>4. late' = late BY DEF Reserve
<1>5. \A t \in Txs : CountedFor(p, s)[t] \in Nat BY CountedIsNat
<1>6. \A t \in Txs \ {r} : CountedFor(p, s)'[t] <= CountedFor(p, s)[t]
    <2>1. \A t \in Txs \cap Swept(w) : CountedFor(p, s)'[t] = 0 BY <1>3 DEF CountedFor
    <2>2. \A t \in Txs \ ({r} \cup Swept(w)) : CountedFor(p, s)'[t] = CountedFor(p, s)[t]
        BY <1>2, <1>4 DEF CountedFor
    <2> QED BY <1>5, <2>1, <2>2
<1>7. CountedFor(p, s)[r] = 0 BY <1>1 DEF CountedFor
<1>8. CASE ~(p = j.player /\ s = j.stock)
    <2>1. CountedFor(p, s)'[r] = 0 BY <1>1, <1>8 DEF CountedFor
    <2>2. \A t \in Txs : CountedFor(p, s)'[t] <= CountedFor(p, s)[t]
        BY <1>6, <1>7, <2>1
    <2>3. Share(p, s)' <= Share(p, s) BY <2>2, ShareShrinks
    <2>4. Share(p, s) \in Nat /\ Share(p, s)' \in Nat /\ Cap[s] \in Nat
        <3> DEFINE g == CountedFor(p, s)'
        <3>1. \A t \in Txs : g[t] \in Nat BY CountedNext
        <3> HIDE DEF g
        <3>2. SumFunctionOnSet(g, Txs) \in Nat BY <3>1, TradeConstants, SumNat
        <3> QED BY <3>2, CountedIsNat, TradeConstants DEF g, Share
    <2> QED BY <2>3, <2>4
<1>9. CASE p = j.player /\ s = j.stock
    <2> DEFINE f == CountedFor(p, s)'
               u == [t \in Txs |-> IF t \in Txs \ Swept(w) /\ tx[t].player = p /\ tx[t].stock = s
                                   THEN Takes(t) ELSE 0]
               e == [t \in Txs |-> IF t = r THEN 0 ELSE f[t]]
    <2>1. \A t \in Txs : f[t] \in Int BY CountedNext
    <2>2. \A t \in Txs : u[t] \in Nat BY TakesType
    <2>3. \A t \in Txs \ {r} : f[t] <= u[t]
        <3>1. \A t \in Txs \cap Swept(w) : f[t] = 0 BY <1>3 DEF CountedFor
        <3>2. \A t \in Txs \ ({r} \cup Swept(w)) : f[t] = u[t] \/ f[t] = 0
            BY <1>2, <1>4 DEF CountedFor
        <3> HIDE DEF f, u
        <3> QED BY <2>1, <2>2, <3>1, <3>2
    <2>4. f[r] = n BY <1>1, <1>4, <1>9 DEF CountedFor, Takes
    <2>5. Used(w, p, s) = SumFunctionOnSet(u, Txs)
        <3> DEFINE B == {t \in Txs \ Swept(w) : tx[t].player = p /\ tx[t].stock = s}
        <3>1. B \in SUBSET Txs OBVIOUS
        <3>2. \A t \in Txs : u[t] = IF t \in B THEN Takes(t) ELSE 0 OBVIOUS
        <3> HIDE DEF B, u
        <3>3. SumOf(B, Takes) = SumFunctionOnSet(u, Txs) BY <3>1, <3>2, SumOfRows
        <3> QED BY <3>3 DEF B, Used
    <2>6. Used(w, p, s) + n <= Cap[s] BY <1>9 DEF Reserve, Allowed, Fits
    <2>7. \A t \in Txs : e[t] = IF t = r THEN 0 ELSE f[t] OBVIOUS
    <2> HIDE DEF f, u, e
    <2>8. \A t \in Txs : e[t] \in Int /\ e[t] <= u[t] BY <2>1, <2>2, <2>3, <2>7
    <2>9. SumFunctionOnSet(e, Txs) <= SumFunctionOnSet(u, Txs)
        BY <2>2, <2>8, TradeConstants, SumMonotone
    <2>10. SumFunctionOnSet(f, Txs) = SumFunctionOnSet(e, Txs) + f[r] - e[r]
        BY <2>1, <2>7, <2>8, TradeConstants, SumChange
    <2>11. SumFunctionOnSet(e, Txs) \in Int /\ SumFunctionOnSet(u, Txs) \in Int /\ Cap[s] \in Int
        BY <2>2, <2>8, TradeConstants, SumTakeOut
    <2>12. SumFunctionOnSet(f, Txs) <= Cap[s]
        BY <2>4, <2>5, <2>6, <2>7, <2>9, <2>10, <2>11
    <2> QED BY <2>12 DEF f, Share
<1> QED BY <1>8, <1>9

LEMMA StepWithinCap ==
    ASSUME IInv, Amounts, [Next]_vars, PlayerWithinCap
    PROVE  PlayerWithinCap'
<1> USE DEF IInv
<1>1. TypeOK' BY NextType
<1>2. \A p \in Players, s \in Stocks : Share(p, s) <= Cap[s] BY ShareIsTheirs
<1>3. UNCHANGED <<tx, left, late>> => PlayerWithinCap'
    BY DEF PlayerWithinCap, SumOf, Takes
<1>4. (\A p \in Players, s \in Stocks : Share(p, s)' <= Cap[s]) => PlayerWithinCap'
    BY <1>1, ShareNext
<1>5. ASSUME NEW p \in Players, NEW s \in Stocks, Share(p, s)' <= Share(p, s)
      PROVE  Share(p, s)' <= Cap[s]
    <2> DEFINE g == CountedFor(p, s)'
    <2>1. \A t \in Txs : g[t] \in Nat BY <1>1, CountedNext
    <2> HIDE DEF g
    <2>2. SumFunctionOnSet(g, Txs) \in Nat BY <2>1, TradeConstants, SumNat
    <2>3. Share(p, s)' \in Nat BY <2>2 DEF g, Share
    <2>4. Share(p, s) \in Nat /\ Cap[s] \in Nat BY CountedIsNat, TradeConstants
    <2> QED BY <1>2, <1>5, <2>3, <2>4
<1>6. ASSUME NEW w \in Workers, Advance(w) PROVE PlayerWithinCap'
    <2>1. CASE CommitSweep(w) BY <1>1, <1>4, <1>5, <2>1, SweepShare
    <2>2. CASE \E t \in Txs, n \in 1..MaxQty : Reserve(w, t, n)
        BY <1>1, <1>2, <1>4, <2>2, ReserveShare
    <2>3. CASE Settle(w) BY <1>1, <1>4, <1>5, <2>3, SettleShare
    <2> QED BY <1>3, <1>6, <2>1, <2>2, <2>3, RowsUntouched DEF Advance, Refuse
<1> QED BY <1>3, <1>6, RowsUntouched DEF Next, Abort, vars, rows

\* However many requests a player sends at once, what stands to their name never
\* exceeds their share of a slot, late settlements apart (player_cap and
\* player_used, trader_service.py:426-446).
THEOREM PlayersKeepToCaps == Spec => []PlayerWithinCap
<1>1. Init => PlayerWithinCap
    <2> SUFFICES ASSUME Init, NEW p \in Players, NEW s \in Stocks PROVE Share(p, s) <= Cap[s]
        BY InitInv, ShareIsTheirs DEF IInv
    <2> DEFINE f == CountedFor(p, s)
    <2>1. \A t \in Txs : f[t] = 0 BY DEF CountedFor, Init, Takes, NoTx
    <2> HIDE DEF f
    <2>2. SumFunctionOnSet(f, Txs) = 0 BY <2>1, TradeConstants, SumZero
    <2> QED BY <2>2, TradeConstants DEF f, Share
<1>2. (IInv /\ Amounts) /\ PlayerWithinCap /\ [Next]_vars => PlayerWithinCap'
    BY StepWithinCap
<1> QED BY <1>1, <1>2, AmountsAlways, PTL DEF Spec
================================================================================
