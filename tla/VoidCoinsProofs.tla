----------------------------- MODULE VoidCoinsProofs -----------------------------
(***************************************************************************)
(* Proofs about Void Coins, for any number of players, requests, winnings  *)
(* and days.                                                               *)
(*                                                                         *)
(* The invariant says what a request holds once it has got so far in its   *)
(* plan of locks (the row, and what it has checked or read under it), and  *)
(* from that what the tables add up to: balances and the jackpot with the  *)
(* histories of them, the nonces with the spins recorded, the winnings     *)
(* with the requests that have read them.                                  *)
(***************************************************************************)
EXTENDS VoidCoins, SumLemmas, TLAPS

Fields == {"kind", "player", "for", "stake", "value", "items", "seen", "day", "locks"}

\* Of the requests the kinds, the players and the locks matter here.
Jobs ==
    /\ DOMAIN job = Workers
    /\ \A w \in Workers : DOMAIN job[w] = Fields

Tables ==
    /\ lock \in [LockRows -> Workers \cup {None}]
    /\ premium \in [Players -> Int]
    /\ paid \in [cosmetic : [Players -> Int], premium : [Players -> Int]]
    /\ daily \in [Players -> Nat \X Nat]
    /\ free \in [Players -> Seq(Nat \ {0})]
    /\ today \in Nat \ {0}

Buys(w) ==
    job[w].kind = "cosmetic" =>
        /\ job[w].for \in Players
        /\ job[w].locks \in {<<Row("coins", job[w].player), Row("owned", job[w].for)>>,
                             <<Row("owned", job[w].for)>>, << >>}
        /\ job[w].locks = << >> => lock[Row("owned", job[w].for)] = w /\ job[w].for \notin owned

Extends(w) ==
    job[w].kind \in {"premium", "gift"} =>
        /\ job[w].player \in Players /\ job[w].seen \in Int
        /\ job[w].kind = "premium" =>
              /\ job[w].locks \in {<<Row("coins", job[w].player)>>, << >>}
              /\ job[w].locks = << >> =>
                    /\ lock[Row("coins", job[w].player)] = w
                    /\ job[w].seen = premium[job[w].player] \/ Row("premium", job[w].player) \in blurred

SpinsFree(w) ==
    job[w].kind = "free" =>
        /\ job[w].player \in Players /\ job[w].day \in Nat \ {0}
        /\ job[w].locks \in {<<Row("daily", job[w].player), Row("seed", job[w].player)>>,
                             <<Row("seed", job[w].player)>>, << >>}
        /\ job[w].locks \in {<<Row("seed", job[w].player)>>, << >>} =>
              lock[Row("daily", job[w].player)] = w /\ daily[job[w].player][1] < job[w].day

Holds == \A w \in Workers : Buys(w) /\ Extends(w) /\ SpinsFree(w)

--------------------------------------------------------------------------------
(* What steps do to the requests. *)

LEMMA RowsLocked ==
    ASSUME NEW p \in Players
    PROVE  /\ Row("coins", p) \in LockRows /\ Row("daily", p) \in LockRows
           /\ Row("seed", p) \in LockRows /\ Row("owned", p) \in LockRows
BY DEF LockRows, Row

\* What a request asks for.
Asks(j) ==
    /\ j.kind \in {"spin", "free", "trade up", "rotate", "sell", "claim", "cosmetic",
                  "premium", "grant", "gift"}
    /\ j.kind = "spin" => j.stake \in Stakes
    /\ j.kind \in {"cosmetic", "premium"} => j.stake = Price
    /\ j.kind = "grant" => j.stake \in Int
    /\ j.value \in Values \cup {0} \/ j.value = ValueOf(j.items)
    /\ j.items \subseteq Held(j.player)
    /\ j.seen \in {coins[j.player], premium[j.player]}

\* A request begins with all its locks to take.
Begins(w) ==
    \E j :
        /\ DOMAIN j = Fields
        /\ job[w] = NoJob /\ job' = [job EXCEPT ![w] = j]
        /\ j.locks = Plan(j.kind, j.player, j.for)
        /\ j.player \in Players
        /\ j.kind = "cosmetic" => j.for \in Players
        /\ j.kind = "free" => j.day = today
        /\ j.kind \in {"premium", "gift"} => j.seen = premium[j.player]
        /\ Asks(j)
        /\ UNCHANGED <<today, rows, lock, history>>

LEMMA RequestIs ==
    ASSUME NEW kind, NEW p
    PROVE  /\ DOMAIN Request(kind, p) = Fields
           /\ Request(kind, p).kind = kind /\ Request(kind, p).player = p
           /\ Request(kind, p).seen = coins[p]
           /\ Request(kind, p).value = 0 /\ Request(kind, p).items = {}
BY DEF Request, NoJob, Fields

LEMMA BeginsByBegin ==
    ASSUME NEW w \in Workers, NEW j, Begin(w, j), DOMAIN j = Fields, j.player \in Players,
           j.kind = "cosmetic" => j.for \in Players,
           j.kind = "free" => j.day = today,
           j.kind \in {"premium", "gift"} => j.seen = premium[j.player], Asks(j)
    PROVE  Begins(w)
<1> DEFINE e == [j EXCEPT !.locks = Plan(j.kind, j.player, j.for)]
<1>1. /\ DOMAIN e = Fields /\ e.locks = Plan(j.kind, j.player, j.for)
      /\ e.kind = j.kind /\ e.player = j.player /\ e.for = j.for /\ e.day = j.day /\ e.seen = j.seen
      /\ e.stake = j.stake /\ e.value = j.value /\ e.items = j.items
    BY DEF Fields
<1>2. job' = [job EXCEPT ![w] = e] /\ job[w] = NoJob /\ UNCHANGED <<today, rows, lock, history>> BY DEF Begin
<1> HIDE DEF e
<1>3. Asks(e) BY <1>1 DEF Asks
<1> QED BY <1>1, <1>2, <1>3 DEF Begins

LEMMA RequestsBegin ==
    ASSUME NEW w \in Workers, Start(w)
    PROVE  Begins(w)
<1>1. PICK p \in Players :
        \/ \E stake \in Stakes, value \in Values : Spin(w, p, stake, value)
        \/ \E value \in Values : FreeSpin(w, p, value)
        \/ \E x \in Winnings, value \in Values : TradeUp(w, p, x, value)
        \/ \E X \in SUBSET Winnings : Sell(w, p, X) \/ Claim(w, p, X)
        \/ RotateSeed(w, p)
        \/ \E q \in Players : BuyCosmetic(w, p, q)
        \/ BuyPremium(w, p)
        \/ \E amount \in Grants : Grant(w, p, amount)
        \/ GiftPremium(w, p)
    BY DEF Start
<1> USE DEF Fields
<1>2. ASSUME NEW stake \in Stakes, NEW value \in Values, Spin(w, p, stake, value)
      PROVE  Begins(w)
    <2> DEFINE j == [Request("spin", p) EXCEPT !.stake = stake, !.value = value]
    <2>1. /\ DOMAIN j = Fields /\ j.kind = "spin" /\ j.player = p
           /\ j.stake = stake /\ j.value = value /\ j.items = {} /\ j.seen = coins[p]
        BY RequestIs
    <2>2. Begin(w, j) BY <1>2 DEF Spin
    <2> HIDE DEF j
    <2>3. Asks(j) BY <2>1 DEF Asks
    <2> QED BY <2>1, <2>2, <2>3, BeginsByBegin
<1>3. ASSUME NEW value \in Values, FreeSpin(w, p, value)
      PROVE  Begins(w)
    <2> DEFINE j == [Request("free", p) EXCEPT !.value = value, !.day = today]
    <2>1. /\ DOMAIN j = Fields /\ j.kind = "free" /\ j.player = p /\ j.day = today
           /\ j.value = value /\ j.items = {} /\ j.seen = coins[p]
        BY RequestIs
    <2>2. Begin(w, j) BY <1>3 DEF FreeSpin
    <2> HIDE DEF j
    <2>3. Asks(j) BY <2>1 DEF Asks
    <2> QED BY <2>1, <2>2, <2>3, BeginsByBegin
<1>4. ASSUME NEW x, NEW value \in Values, TradeUp(w, p, x, value)
      PROVE  Begins(w)
    <2>4. PICK X : X = {x} OBVIOUS
    <2> DEFINE r == Request("trade up", p)
    <2>5. /\ DOMAIN r = Fields /\ r.kind = "trade up" /\ r.player = p /\ r.seen = coins[p]
        <3>1. PICK kind : kind = "trade up" OBVIOUS
        <3>2. /\ DOMAIN Request(kind, p) = Fields /\ Request(kind, p).kind = kind
              /\ Request(kind, p).player = p /\ Request(kind, p).seen = coins[p]
            BY RequestIs
        <3> QED BY <3>1, <3>2
    <2> DEFINE j == [r EXCEPT !.items = X, !.value = value]
    <2>1. /\ DOMAIN j = Fields /\ j.kind = "trade up" /\ j.player = p
           /\ j.value = value /\ j.items = X /\ j.seen = coins[p]
        <3> HIDE DEF r
        <3> QED BY <2>5
    <2>2. Begin(w, j) BY <1>4, <2>4 DEF TradeUp
    <2> HIDE DEF j, r
    <2>3. Asks(j) BY <2>1, <2>4, <1>4 DEF Asks, TradeUp
    <2> QED BY <2>1, <2>2, <2>3, BeginsByBegin
<1>5. ASSUME NEW X, Sell(w, p, X)
      PROVE  Begins(w)
    <2> DEFINE j == [Request("sell", p) EXCEPT !.items = X, !.value = ValueOf(X)]
    <2>1. /\ DOMAIN j = Fields /\ j.kind = "sell" /\ j.player = p
           /\ j.value = ValueOf(X) /\ j.items = X /\ j.seen = coins[p]
        BY RequestIs
    <2>2. Begin(w, j) BY <1>5 DEF Sell
    <2> HIDE DEF j
    <2>3. Asks(j) BY <2>1, <1>5 DEF Asks, Sell, OneOrAll
    <2> QED BY <2>1, <2>2, <2>3, BeginsByBegin
<1>6. ASSUME NEW X, Claim(w, p, X)
      PROVE  Begins(w)
    <2> DEFINE j == [Request("claim", p) EXCEPT !.items = X]
    <2>1. /\ DOMAIN j = Fields /\ j.kind = "claim" /\ j.player = p
           /\ j.value = 0 /\ j.items = X /\ j.seen = coins[p]
        BY RequestIs
    <2>2. Begin(w, j) BY <1>6 DEF Claim
    <2> HIDE DEF j
    <2>3. Asks(j) BY <2>1, <1>6 DEF Asks, Claim, OneOrAll
    <2> QED BY <2>1, <2>2, <2>3, BeginsByBegin
<1>7. CASE RotateSeed(w, p)
    <2> DEFINE j == Request("rotate", p)
    <2>1. /\ DOMAIN j = Fields /\ j.kind = "rotate" /\ j.player = p
           /\ j.value = 0 /\ j.items = {} /\ j.seen = coins[p]
        BY RequestIs
    <2>2. Begin(w, j) BY <1>7 DEF RotateSeed
    <2> HIDE DEF j
    <2>3. Asks(j) BY <2>1 DEF Asks
    <2> QED BY <2>1, <2>2, <2>3, BeginsByBegin
<1>8. ASSUME NEW q \in Players, BuyCosmetic(w, p, q)
      PROVE  Begins(w)
    <2> DEFINE j == [Request("cosmetic", p) EXCEPT !.for = q, !.stake = Price]
    <2>1. /\ DOMAIN j = Fields /\ j.kind = "cosmetic" /\ j.player = p /\ j.for = q
           /\ j.value = 0 /\ j.items = {} /\ j.seen = coins[p] /\ j.stake = Price
        BY RequestIs
    <2>2. Begin(w, j) BY <1>8 DEF BuyCosmetic
    <2> HIDE DEF j
    <2>3. Asks(j) BY <2>1 DEF Asks
    <2> QED BY <2>1, <2>2, <2>3, BeginsByBegin
<1>9. CASE BuyPremium(w, p)
    <2> DEFINE j == [Request("premium", p) EXCEPT !.stake = Price, !.seen = premium[p]]
    <2>1. /\ DOMAIN j = Fields /\ j.kind = "premium" /\ j.player = p /\ j.seen = premium[p]
           /\ j.value = 0 /\ j.items = {} /\ j.stake = Price
        BY RequestIs
    <2>2. Begin(w, j) BY <1>9 DEF BuyPremium
    <2> HIDE DEF j
    <2>3. Asks(j) BY <2>1 DEF Asks
    <2> QED BY <2>1, <2>2, <2>3, BeginsByBegin
<1>10. ASSUME NEW amount \in Grants, Grant(w, p, amount)
      PROVE  Begins(w)
    <2> DEFINE j == [Request("grant", p) EXCEPT !.stake = amount]
    <2>1. /\ DOMAIN j = Fields /\ j.kind = "grant" /\ j.player = p
           /\ j.value = 0 /\ j.items = {} /\ j.seen = coins[p] /\ j.stake = amount
        BY RequestIs
    <2>2. Begin(w, j) BY <1>10 DEF Grant
    <2> HIDE DEF j
    <2>3. Asks(j) BY <2>1, CoinConstants DEF Asks
    <2> QED BY <2>1, <2>2, <2>3, BeginsByBegin
<1>11. CASE GiftPremium(w, p)
    <2> DEFINE j == [Request("gift", p) EXCEPT !.seen = premium[p]]
    <2>1. /\ DOMAIN j = Fields /\ j.kind = "gift" /\ j.player = p /\ j.seen = premium[p]
           /\ j.value = 0 /\ j.items = {}
        BY RequestIs
    <2>2. Begin(w, j) BY <1>11 DEF GiftPremium
    <2> HIDE DEF j
    <2>3. Asks(j) BY <2>1 DEF Asks
    <2> QED BY <2>1, <2>2, <2>3, BeginsByBegin
<1> QED BY <1>1, <1>2, <1>3, <1>4, <1>5, <1>6, <1>7, <1>8, <1>9, <1>10, <1>11

Step(w) == Start(w) \/ Lock(w) \/ Commit(w) \/ Abort(w)

LEMMA EndIs ==
    ASSUME Jobs, Tables, NEW w \in Workers, End(w)
    PROVE  /\ Jobs' /\ lock' \in [LockRows -> Workers \cup {None}]
           /\ \A o \in Workers : job'[o] = IF o = w THEN NoJob ELSE job[o]
           /\ \A row \in LockRows : lock'[row] = IF lock[row] = w THEN None ELSE lock[row]
BY DEF End, Jobs, Tables, NoJob, Fields

LEMMA LockIs ==
    ASSUME Jobs, Tables, NEW w \in Workers, Lock(w), Head(job[w].locks) \in LockRows
    PROVE  /\ Jobs' /\ lock' \in [LockRows -> Workers \cup {None}]
           /\ \A o \in Workers \ {w} : job'[o] = job[o]
           /\ /\ job'[w].kind = job[w].kind /\ job'[w].player = job[w].player /\ job'[w].for = job[w].for
              /\ job'[w].day = job[w].day /\ job'[w].locks = Tail(job[w].locks)
              /\ job'[w].seen = AfterLock(w)
           /\ lock[Head(job[w].locks)] = None
           /\ \A row \in LockRows : lock'[row] = IF row = Head(job[w].locks) THEN w ELSE lock[row]
           /\ UNCHANGED <<today, rows, history>>
<1> USE DEF Lock, Jobs, Tables, Fields
<1>1. Jobs' OBVIOUS
<1>2. lock' \in [LockRows -> Workers \cup {None}] OBVIOUS
<1> QED BY <1>1, <1>2

\* A commit writes the tables of its kind and ends the request.
LEMMA CommitIs ==
    ASSUME NEW w \in Workers, Commit(w)
    PROVE  /\ End(w) /\ today' = today /\ blurred \subseteq blurred'
           /\ \/ CommitCosmetic(w) \/ CommitPremium(w) \/ CommitGift(w) \/ CommitFreeSpin(w)
              \/ UNCHANGED <<owned, premium, paid, daily, free>>
<1> USE DEF rows, history
<1>1. CASE CommitSpin(w) BY <1>1 DEF CommitSpin
<1>2. CASE CommitFreeSpin(w) BY <1>2 DEF CommitFreeSpin
<1>3. CASE CommitTradeUp(w) BY <1>3 DEF CommitTradeUp
<1>4. CASE CommitSell(w) BY <1>4 DEF CommitSell
<1>5. CASE CommitClaim(w) BY <1>5 DEF CommitClaim
<1>6. CASE CommitRotate(w) BY <1>6 DEF CommitRotate
<1>7. CASE CommitCosmetic(w) BY <1>7 DEF CommitCosmetic
<1>8. CASE CommitPremium(w) BY <1>8 DEF CommitPremium
<1>9. CASE CommitGift(w) BY <1>9 DEF CommitGift
<1>10. CASE CommitGrant(w) BY <1>10 DEF CommitGrant
<1> QED BY <1>1, <1>2, <1>3, <1>4, <1>5, <1>6, <1>7, <1>8, <1>9, <1>10 DEF Commit

\* What a request holds stays its own while it runs.
LEMMA OthersKeep ==
    ASSUME Jobs, Tables, Holds, NEW w \in Workers, Step(w)
    PROVE  /\ Jobs' /\ lock' \in [LockRows -> Workers \cup {None}]
           /\ blurred \subseteq blurred'
           /\ \A o \in Workers \ {w} : job'[o] = job[o]
           /\ \A o \in Workers \ {w} : \A row \in LockRows : lock[row] = o => lock'[row] = o
<1>1. CASE Start(w)
    <2>1. PICK j : /\ DOMAIN j = Fields /\ job' = [job EXCEPT ![w] = j]
                   /\ UNCHANGED <<today, rows, lock, history>>
        BY <1>1, RequestsBegin DEF Begins
    <2> QED BY <2>1 DEF Jobs, Tables, history
<1>2. CASE Commit(w) BY <1>2, CommitIs, EndIs, CoinConstants
<1>3. CASE Abort(w) BY <1>3, EndIs, CoinConstants DEF Abort, history
<1>4. CASE Lock(w)
    <2> DEFINE row == Head(job[w].locks)
    <2>1. /\ Jobs' /\ blurred' = blurred /\ lock[row] = None /\ lock' = [lock EXCEPT ![row] = w]
          /\ \A o \in Workers \ {w} : job'[o] = job[o]
        BY <1>4 DEF Lock, Jobs, history
    <2>2. lock' \in [LockRows -> Workers \cup {None}] BY <2>1 DEF Tables
    <2>3. \A r \in LockRows : lock'[r] = IF r = row THEN w ELSE lock[r] BY <2>1 DEF Tables
    <2> QED BY <2>1, <2>2, <2>3, CoinConstants
<1> QED BY <1>1, <1>2, <1>3, <1>4 DEF Step

\* Of the tables that matter here, which request writes which row.
Writes(w) ==
    LET p == job[w].player
        q == job[w].for
    IN
    \/ UNCHANGED <<owned, premium, paid, daily, free>>
    \/ /\ job[w].kind = "cosmetic" /\ job[w].locks = << >>
       /\ owned' = owned \cup {q} /\ paid' = [paid EXCEPT !.cosmetic[q] = @ + 1]
       /\ UNCHANGED <<premium, daily, free>>
    \/ /\ job[w].kind \in {"premium", "gift"} /\ job[w].locks = << >>
       /\ premium' = [premium EXCEPT ![p] = job[w].seen + 1]
       /\ paid' = [paid EXCEPT !.premium[p] = @ + 1]
       /\ job[w].kind = "gift" /\ PremiumOverlaps(w) => Row("premium", p) \in blurred'
       /\ UNCHANGED <<owned, daily, free>>
    \/ /\ job[w].kind = "free" /\ job[w].locks = << >>
       /\ daily' = [daily EXCEPT ![p] = <<job[w].day, Streak(w)>>]
       /\ free' = [free EXCEPT ![p] = Append(@, job[w].day)]
       /\ UNCHANGED <<owned, premium, paid>>

LEMMA StepsWrite ==
    ASSUME NEW w \in Workers, Step(w)
    PROVE  Writes(w) /\ today' = today
<1> USE DEF rows, history
<1>1. CASE Start(w) BY <1>1, RequestsBegin DEF Begins, Writes
<1>2. CASE Lock(w) BY <1>2 DEF Lock, Writes
<1>3. CASE Abort(w) BY <1>3 DEF Abort, Writes
<1>4. CASE Commit(w)
    <2>1. today' = today BY <1>4, CommitIs
    <2>2. CASE CommitCosmetic(w) BY <2>2, <2>1 DEF CommitCosmetic, Ready, Writes
    <2>3. CASE CommitPremium(w) BY <2>3, <2>1 DEF CommitPremium, Extend, Ready, Writes
    <2>4. CASE CommitGift(w)
        <3>1. PremiumOverlaps(w) => Row("premium", job[w].player) \in blurred' BY <2>4 DEF CommitGift
        <3> QED BY <2>4, <2>1, <3>1 DEF CommitGift, Extend, Ready, Writes
    <2>5. CASE CommitFreeSpin(w) BY <2>5, <2>1 DEF CommitFreeSpin, Ready, Writes
    <2> QED BY <1>4, <2>1, <2>2, <2>3, <2>4, <2>5, CommitIs DEF Writes
<1> QED BY <1>1, <1>2, <1>3, <1>4 DEF Step

LEMMA OwnStep ==
    ASSUME Jobs, Tables, Holds, NEW w \in Workers, Step(w)
    PROVE  Buys(w)' /\ Extends(w)' /\ SpinsFree(w)'
<1>1. CASE Commit(w) \/ Abort(w)
    <2>1. job'[w] = NoJob BY <1>1, CommitIs, EndIs DEF Abort
    <2> QED BY <2>1 DEF NoJob, Buys, Extends, SpinsFree
<1>2. CASE Start(w)
    <2>1. PICK j : /\ DOMAIN j = Fields /\ job' = [job EXCEPT ![w] = j]
                   /\ j.locks = Plan(j.kind, j.player, j.for)
                   /\ j.player \in Players
                   /\ j.kind = "cosmetic" => j.for \in Players
                   /\ j.kind = "free" => j.day = today
                   /\ j.kind \in {"premium", "gift"} => j.seen = premium[j.player]
                   /\ UNCHANGED <<today, rows, lock, history>>
        BY <1>2, RequestsBegin DEF Begins
    <2>2. job'[w] = j BY <2>1 DEF Jobs
    <2>6. j.kind = "cosmetic" => j.locks = <<Row("coins", j.player), Row("owned", j.for)>> BY <2>1 DEF Plan
    <2>7. j.kind = "premium" => j.locks = <<Row("coins", j.player)>> BY <2>1 DEF Plan
    <2>8. j.kind = "free" => j.locks = <<Row("daily", j.player), Row("seed", j.player)>> BY <2>1 DEF Plan
    <2>3. Buys(w)' BY <2>1, <2>2, <2>6 DEF Buys
    <2>4. Extends(w)'
        <3>1. j.kind \in {"premium", "gift"} => j.seen \in Int BY <2>1 DEF Tables
        <3>2. <<Row("coins", j.player)>> # << >> OBVIOUS
        <3>3. j.player \in Players BY <2>1
        <3> QED BY <2>2, <2>7, <3>1, <3>2, <3>3 DEF Extends
    <2>5. SpinsFree(w)'
        <3>1. today \in Nat \ {0} BY DEF Tables
        <3>2. /\ <<Row("daily", j.player), Row("seed", j.player)>> # << >>
              /\ <<Row("daily", j.player), Row("seed", j.player)>> # <<Row("seed", j.player)>>
            OBVIOUS
        <3>3. j.player \in Players /\ (j.kind = "free" => j.day = today) BY <2>1
        <3> QED BY <2>2, <2>8, <3>1, <3>2, <3>3 DEF SpinsFree
    <2> QED BY <2>3, <2>4, <2>5
<1>3. CASE Lock(w)
    <2>1. Passes(w, Head(job[w].locks)) /\ job[w].locks # << >> BY <1>3 DEF Lock
    <2>2. Buys(w)'
        <3>1. job'[w].kind = job[w].kind BY <1>3 DEF Lock, Jobs, Fields
        <3>2. SUFFICES ASSUME job[w].kind = "cosmetic" PROVE Buys(w)' BY <3>1 DEF Buys
        <3>3. Buys(w) BY DEF Holds
        <3>4. CASE job[w].locks = <<Row("coins", job[w].player), Row("owned", job[w].for)>>
            <4>1. job[w].locks # << >> /\ Tail(job[w].locks) = <<Row("owned", job[w].for)>> BY <3>4
            <4>2. job'[w].for = job[w].for /\ job'[w].player = job[w].player
                  /\ job'[w].locks = Tail(job[w].locks)
                BY <1>3 DEF Lock, Jobs, Fields
            <4> QED BY <3>2, <3>3, <4>1, <4>2 DEF Buys
        <3>5. CASE job[w].locks = <<Row("owned", job[w].for)>>
            <4>1. Head(job[w].locks) = Row("owned", job[w].for) /\ Tail(job[w].locks) = << >> BY <3>5
            <4>2. Row("owned", job[w].for) \in LockRows BY <3>2, <3>3, RowsLocked DEF Buys
            <4>3. job[w].for \notin owned BY <2>1, <4>1 DEF Passes, NotYetOwned, Row
            <4>4. /\ job'[w].kind = job[w].kind /\ job'[w].player = job[w].player /\ job'[w].for = job[w].for
                  /\ job'[w].day = job[w].day /\ job'[w].locks = Tail(job[w].locks)
                  /\ lock'[Row("owned", job[w].for)] = w /\ owned' = owned
                BY <1>3, <4>1, <4>2, LockIs DEF rows
            <4> QED BY <3>2, <3>3, <4>1, <4>3, <4>4 DEF Buys
        <3> QED BY <2>1, <3>2, <3>3, <3>4, <3>5 DEF Buys
    <2>3. Extends(w)'
        <3>1. job'[w].kind = job[w].kind BY <1>3 DEF Lock, Jobs, Fields
        <3>2. SUFFICES ASSUME job[w].kind \in {"premium", "gift"} PROVE Extends(w)' BY <3>1 DEF Extends
        <3>3. Extends(w) BY DEF Holds
        <3>4. CASE job[w].kind = "gift"
            <4>1. job'[w].player = job[w].player /\ job'[w].seen = job[w].seen
                BY <1>3, <3>4 DEF Lock, Jobs, Fields, AfterLock
            <4> QED BY <3>1, <3>3, <3>4, <4>1 DEF Extends
        <3>5. CASE job[w].kind = "premium"
            <4>1. job[w].locks = <<Row("coins", job[w].player)>> /\ job[w].player \in Players
                BY <2>1, <3>3, <3>5 DEF Extends
            <4>2. Head(job[w].locks) = Row("coins", job[w].player) /\ Tail(job[w].locks) = << >> BY <4>1
            <4>3. Row("coins", job[w].player) \in LockRows BY <4>1, RowsLocked
            <4>4. job'[w].seen = premium[job[w].player] /\ premium' = premium
                BY <1>3, <3>5, <4>2, <4>3, LockIs DEF AfterLock, rows
            <4>5. /\ job'[w].kind = job[w].kind /\ job'[w].player = job[w].player /\ job'[w].for = job[w].for
                  /\ job'[w].day = job[w].day /\ job'[w].locks = Tail(job[w].locks)
                  /\ lock'[Row("coins", job[w].player)] = w
                BY <1>3, <4>2, <4>3, LockIs
            <4>6. premium[job[w].player] \in Int BY <4>1 DEF Tables
            <4> QED BY <3>5, <4>1, <4>2, <4>4, <4>5, <4>6 DEF Extends
        <3> QED BY <3>2, <3>4, <3>5
    <2>4. SpinsFree(w)'
        <3>1. job'[w].kind = job[w].kind BY <1>3 DEF Lock, Jobs, Fields
        <3>2. SUFFICES ASSUME job[w].kind = "free" PROVE SpinsFree(w)' BY <3>1 DEF SpinsFree
        <3>3. SpinsFree(w) BY DEF Holds
        <3>4. CASE job[w].locks = <<Row("daily", job[w].player), Row("seed", job[w].player)>>
            <4>1. /\ Head(job[w].locks) = Row("daily", job[w].player)
                  /\ Tail(job[w].locks) = <<Row("seed", job[w].player)>>
                BY <3>4
            <4>2. Row("daily", job[w].player) \in LockRows BY <3>2, <3>3, RowsLocked DEF SpinsFree
            <4>3. daily[job[w].player][1] < job[w].day BY <2>1, <4>1 DEF Passes, DailyFree, Row
            <4>4. /\ job'[w].kind = job[w].kind /\ job'[w].player = job[w].player /\ job'[w].for = job[w].for
                  /\ job'[w].day = job[w].day /\ job'[w].locks = Tail(job[w].locks)
                  /\ lock'[Row("daily", job[w].player)] = w /\ daily' = daily
                BY <1>3, <4>1, <4>2, LockIs DEF rows
            <4> QED BY <3>2, <3>3, <4>1, <4>3, <4>4 DEF SpinsFree
        <3>5. CASE job[w].locks = <<Row("seed", job[w].player)>>
            <4>1. Head(job[w].locks) = Row("seed", job[w].player) /\ Tail(job[w].locks) = << >> BY <3>5
            <4>2. Row("seed", job[w].player) \in LockRows /\ Row("daily", job[w].player) \in LockRows
                BY <3>2, <3>3, RowsLocked DEF SpinsFree
            <4>3. Row("daily", job[w].player) # Row("seed", job[w].player) BY DEF Row
            <4>4. /\ job'[w].kind = job[w].kind /\ job'[w].player = job[w].player /\ job'[w].for = job[w].for
                  /\ job'[w].day = job[w].day /\ job'[w].locks = Tail(job[w].locks)
                  /\ lock'[Row("daily", job[w].player)] = lock[Row("daily", job[w].player)] /\ daily' = daily
                BY <1>3, <4>1, <4>2, <4>3, LockIs DEF rows
            <4> QED BY <3>2, <3>3, <3>5, <4>1, <4>4 DEF SpinsFree
        <3> QED BY <2>1, <3>2, <3>3, <3>4, <3>5 DEF SpinsFree
    <2> QED BY <2>2, <2>3, <2>4
<1> QED BY <1>1, <1>2, <1>3 DEF Step

\* A row that a request has locked is written by no other.
LEMMA OthersStep ==
    ASSUME Jobs, Tables, Holds, NEW w \in Workers, Step(w), NEW o \in Workers \ {w}
    PROVE  Buys(o)' /\ Extends(o)' /\ SpinsFree(o)'
<1>1. /\ job'[o] = job[o] /\ blurred \subseteq blurred'
      /\ \A row \in LockRows : lock[row] = o => lock'[row] = o
    BY OthersKeep
<1>2. Writes(w) BY StepsWrite
<1>3. Buys(w) /\ Extends(w) /\ SpinsFree(w) /\ Buys(o) /\ Extends(o) /\ SpinsFree(o) BY DEF Holds
<1>4. Buys(o)'
    <2>1. SUFFICES ASSUME job[o].kind = "cosmetic" PROVE Buys(o)' BY <1>1 DEF Buys
    <2>2. Row("owned", job[o].for) \in LockRows BY <1>3, <2>1, RowsLocked DEF Buys
    <2>3. job[o].locks = << >> => job[o].for \notin owned'
        BY <1>2, <1>3, <2>1 DEF Writes, Buys
    <2> QED BY <1>1, <1>3, <2>1, <2>2, <2>3 DEF Buys
<1>5. Extends(o)'
    <2>1. SUFFICES ASSUME job[o].kind \in {"premium", "gift"} PROVE Extends(o)' BY <1>1 DEF Extends
    <2>2. CASE job[o].kind = "gift" BY <1>1, <1>3, <2>2 DEF Extends
    <2>3. CASE job[o].kind = "premium"
        <3> DEFINE p == job[o].player
        <3>1. p \in Players /\ Row("coins", p) \in LockRows BY <1>3, <2>3, RowsLocked DEF Extends
        <3>2. ASSUME job[o].locks = << >>
              PROVE  job[o].seen = premium'[p] \/ Row("premium", p) \in blurred'
            <4>1. CASE premium' = premium \/ job[w].player # p
                <5>1. premium'[p] = premium[p] BY <1>2, <4>1, <3>1 DEF Writes, Tables
                <5> QED BY <1>1, <1>3, <2>3, <3>2, <5>1 DEF Extends
            <4>2. CASE premium' # premium /\ job[w].player = p
                <5>1. job[w].kind = "gift" BY <1>2, <1>3, <2>3, <3>2, <4>2 DEF Writes, Extends
                <5>2. PremiumOverlaps(w) BY <2>3, <4>2 DEF PremiumOverlaps
                <5> QED BY <1>2, <4>2, <5>1, <5>2 DEF Writes
            <4> QED BY <4>1, <4>2
        <3> QED BY <1>1, <1>3, <2>3, <3>1, <3>2 DEF Extends
    <2> QED BY <2>1, <2>2, <2>3
<1>6. SpinsFree(o)'
    <2>1. SUFFICES ASSUME job[o].kind = "free" PROVE SpinsFree(o)' BY <1>1 DEF SpinsFree
    <2> DEFINE p == job[o].player
    <2>2. p \in Players /\ Row("daily", p) \in LockRows BY <1>3, <2>1, RowsLocked DEF SpinsFree
    <2>3. ASSUME lock[Row("daily", p)] = o
          PROVE  daily'[p] = daily[p]
        <3>1. job[w].kind = "free" /\ job[w].locks = << >> => job[w].player # p
            BY <1>3, <2>3 DEF SpinsFree
        <3> QED BY <1>2, <2>2, <3>1 DEF Writes, Tables
    <2> QED BY <1>1, <1>3, <2>1, <2>2, <2>3 DEF SpinsFree
<1> QED BY <1>4, <1>5, <1>6

LEMMA TablesKept ==
    ASSUME Jobs, Tables, Holds, NEW w \in Workers, Step(w)
    PROVE  Tables'
<1>1. lock' \in [LockRows -> Workers \cup {None}] /\ today' \in Nat \ {0}
    BY OthersKeep, StepsWrite DEF Tables
<1>2. Buys(w) /\ Extends(w) /\ SpinsFree(w) BY DEF Holds
<1>3. ASSUME job[w].kind = "cosmetic", paid' = [paid EXCEPT !.cosmetic[job[w].for] = @ + 1]
      PROVE  paid' \in [cosmetic : [Players -> Int], premium : [Players -> Int]]
    <2> DEFINE q == job[w].for
               more == [paid.cosmetic EXCEPT ![q] = @ + 1]
    <2>1. paid.cosmetic \in [Players -> Int] /\ q \in Players BY <1>2, <1>3 DEF Tables, Buys
    <2>2. more \in [Players -> Int] BY <2>1
    <2>3. paid' = [paid EXCEPT !.cosmetic = more] BY <1>3
    <2> HIDE DEF more
    <2> QED BY <2>2, <2>3 DEF Tables
<1>4. ASSUME job[w].kind \in {"premium", "gift"},
             premium' = [premium EXCEPT ![job[w].player] = job[w].seen + 1],
             paid' = [paid EXCEPT !.premium[job[w].player] = @ + 1]
      PROVE  /\ premium' \in [Players -> Int]
             /\ paid' \in [cosmetic : [Players -> Int], premium : [Players -> Int]]
    <2> DEFINE p == job[w].player
               more == [paid.premium EXCEPT ![p] = @ + 1]
    <2>1. /\ paid.premium \in [Players -> Int] /\ p \in Players /\ job[w].seen \in Int
          /\ premium \in [Players -> Int]
        BY <1>2, <1>4 DEF Tables, Extends
    <2>2. more \in [Players -> Int] /\ premium' \in [Players -> Int] BY <1>4, <2>1
    <2>3. paid' = [paid EXCEPT !.premium = more] BY <1>4
    <2> HIDE DEF more
    <2> QED BY <2>2, <2>3 DEF Tables
<1>5. ASSUME job[w].kind = "free",
             daily' = [daily EXCEPT ![job[w].player] = <<job[w].day, Streak(w)>>],
             free' = [free EXCEPT ![job[w].player] = Append(@, job[w].day)]
      PROVE  daily' \in [Players -> Nat \X Nat] /\ free' \in [Players -> Seq(Nat \ {0})]
    <2> DEFINE p == job[w].player
    <2>1. p \in Players /\ job[w].day \in Nat \ {0} BY <1>2, <1>5 DEF SpinsFree
    <2>2. daily[p] \in Nat \X Nat /\ free[p] \in Seq(Nat \ {0}) BY <2>1 DEF Tables
    <2>3. Streak(w) \in Nat BY <2>2 DEF Streak
    <2>4. Append(free[p], job[w].day) \in Seq(Nat \ {0}) BY <2>1, <2>2
    <2> QED BY <1>5, <2>1, <2>3, <2>4 DEF Tables
<1> QED BY <1>1, <1>3, <1>4, <1>5, StepsWrite DEF Writes, Tables

LEMMA HoldsKept ==
    ASSUME Jobs, Tables, Holds, NEW w \in Workers, Step(w)
    PROVE  Holds'
<1>1. Workers' = Workers OBVIOUS
<1>2. ASSUME NEW o \in Workers PROVE Buys(o)' /\ Extends(o)' /\ SpinsFree(o)'
    <2>1. CASE o = w BY <2>1, OwnStep
    <2>2. CASE o # w BY <2>2, OthersStep
    <2> QED BY <2>1, <2>2
<1> QED BY <1>2 DEF Holds

--------------------------------------------------------------------------------
(* Payments. *)

LEMMA PaymentsKept ==
    ASSUME Tables, Holds, PaidOnce, owned \subseteq Players,
           NEW w \in Workers, Writes(w), blurred \subseteq blurred'
    PROVE  PaidOnce' /\ owned' \subseteq Players
<1>1. Buys(w) /\ Extends(w) BY DEF Holds
<1>2. CASE UNCHANGED <<owned, premium, paid>> BY <1>2 DEF PaidOnce
<1>3. ASSUME job[w].kind = "cosmetic", job[w].locks = << >>,
             owned' = owned \cup {job[w].for}, premium' = premium,
             paid' = [paid EXCEPT !.cosmetic[job[w].for] = @ + 1]
      PROVE  PaidOnce' /\ owned' \subseteq Players
    <2> DEFINE q == job[w].for
    <2>1. q \in Players /\ q \notin owned BY <1>1, <1>3 DEF Buys
    <2>2. paid'.premium = paid.premium BY <1>3 DEF Tables
    <2>3. paid'.cosmetic = [paid.cosmetic EXCEPT ![q] = @ + 1] BY <1>3 DEF Tables
    <2>4. \A p \in Players : paid'.cosmetic[p] = IF p = q THEN 1 ELSE paid.cosmetic[p]
        <3>1. paid.cosmetic[q] = 0 BY <2>1 DEF PaidOnce
        <3>2. paid.cosmetic \in [Players -> Int] BY DEF Tables
        <3> QED BY <2>1, <2>3, <3>1, <3>2
    <2> QED BY <1>3, <2>1, <2>2, <2>4 DEF PaidOnce
<1>4. ASSUME job[w].kind \in {"premium", "gift"}, job[w].locks = << >>, owned' = owned,
             premium' = [premium EXCEPT ![job[w].player] = job[w].seen + 1],
             paid' = [paid EXCEPT !.premium[job[w].player] = @ + 1],
             job[w].kind = "gift" /\ PremiumOverlaps(w) => Row("premium", job[w].player) \in blurred'
      PROVE  PaidOnce' /\ owned' \subseteq Players
    <2> DEFINE p == job[w].player
    <2>1. p \in Players BY <1>1, <1>4 DEF Extends
    <2>2. paid'.cosmetic = paid.cosmetic BY <1>4 DEF Tables
    <2>3. paid'.premium = [paid.premium EXCEPT ![p] = @ + 1] BY <1>4 DEF Tables
    <2>4. Row("premium", p) \notin blurred' => job[w].seen = premium[p]
        BY <1>1, <1>4 DEF Extends, PremiumOverlaps
    <2>5. ASSUME NEW r \in Players, Row("premium", r) \notin blurred'
          PROVE  premium'[r] = paid'.premium[r]
        <3>1. premium[r] = paid.premium[r] BY <2>5 DEF PaidOnce
        <3> QED BY <1>4, <2>1, <2>3, <2>4, <2>5, <3>1 DEF Tables
    <2> QED BY <1>4, <2>2, <2>5 DEF PaidOnce
<1> QED BY <1>2, <1>3, <1>4 DEF Writes

--------------------------------------------------------------------------------
(* Free spins. *)

\* The streak counts the last days of an ascending list, which the table ends.
Streaks(days, last, streak) ==
    /\ \A i, k \in DOMAIN days : i < k => days[i] < days[k]
    /\ \A k \in DOMAIN days : days[k] <= last
    /\ days = << >> => last = 0
    /\ days # << >> =>
          /\ \A i \in 1..streak : \E k \in DOMAIN days : days[k] = last - streak + i
          /\ \A k \in DOMAIN days : days[k] # last - streak

DaysCount == \A p \in Players : Streaks(free[p], daily[p][1], daily[p][2])

LEMMA NextDayCounts ==
    ASSUME NEW days \in Seq(Nat \ {0}), NEW last \in Nat, NEW streak \in Nat,
           NEW day \in Nat \ {0}, last < day, Streaks(days, last, streak)
    PROVE  Streaks(Append(days, day), day,
                   IF last # 0 /\ last = day - 1 THEN streak + 1 ELSE 1)
<1> DEFINE more == Append(days, day)
           n == Len(days) + 1
           longer == IF last # 0 /\ last = day - 1 THEN streak + 1 ELSE 1
<1>1. /\ DOMAIN days = 1..Len(days) /\ DOMAIN more = 1..n /\ n \in Nat \ {0} /\ Len(days) = n - 1
      /\ more[n] = day /\ more # << >>
      /\ \A k \in DOMAIN days : more[k] = days[k] /\ days[k] \in Nat \ {0}
    OBVIOUS
<1>2. \A k \in DOMAIN days : days[k] <= last BY DEF Streaks
<1>3. ASSUME NEW i \in DOMAIN more, NEW k \in DOMAIN more, i < k
      PROVE  more[i] < more[k]
    <2>1. i \in DOMAIN days BY <1>1, <1>3
    <2>2. CASE k = n BY <1>1, <1>2, <2>1, <2>2
    <2>3. CASE k # n
        <3>1. k \in DOMAIN days BY <1>1, <2>3
        <3> QED BY <1>1, <1>3, <2>1, <3>1 DEF Streaks
    <2> QED BY <2>2, <2>3
<1>4. ASSUME NEW k \in DOMAIN more PROVE more[k] <= day
    <2>1. CASE k = n BY <1>1, <2>1
    <2>2. CASE k # n
        <3>1. k \in DOMAIN days BY <1>1, <2>2
        <3> QED BY <1>1, <1>2, <3>1
    <2> QED BY <2>1, <2>2
<1>5. ASSUME NEW i \in 1..longer PROVE \E k \in DOMAIN more : more[k] = day - longer + i
    <2>1. CASE i = longer BY <1>1, <2>1
    <2>2. CASE i # longer
        <3>1. longer = streak + 1 /\ last = day - 1 /\ last # 0 /\ i \in 1..streak BY <2>2
        <3>2. PICK k \in DOMAIN days : days[k] = last - streak + i BY <3>1 DEF Streaks
        <3>3. k \in DOMAIN more /\ more[k] = day - longer + i BY <1>1, <3>1, <3>2
        <3> QED BY <3>3
    <2> QED BY <2>1, <2>2
<1>6. ASSUME NEW k \in DOMAIN more PROVE more[k] # day - longer
    <2>1. CASE k = n BY <1>1, <2>1
    <2>2. CASE k # n
        <3>1. k \in DOMAIN days /\ days # << >> BY <1>1, <2>2
        <3>2. days[k] <= last /\ days[k] # last - streak BY <3>1 DEF Streaks
        <3> QED BY <1>1, <3>1, <3>2
    <2> QED BY <2>1, <2>2
<1> HIDE DEF more, longer
<1>7. Streaks(more, day, longer) BY <1>1, <1>3, <1>4, <1>5, <1>6 DEF Streaks
<1> QED BY <1>7 DEF more, longer

LEMMA DaysKept ==
    ASSUME Tables, Holds, DaysCount, NEW w \in Workers, Writes(w)
    PROVE  DaysCount'
<1>1. SpinsFree(w) BY DEF Holds
<1>2. CASE UNCHANGED <<daily, free>> BY <1>2 DEF DaysCount
<1>3. ASSUME job[w].kind = "free", job[w].locks = << >>,
             daily' = [daily EXCEPT ![job[w].player] = <<job[w].day, Streak(w)>>],
             free' = [free EXCEPT ![job[w].player] = Append(@, job[w].day)]
      PROVE  DaysCount'
    <2> DEFINE p == job[w].player
    <2>1. p \in Players /\ job[w].day \in Nat \ {0} /\ daily[p][1] < job[w].day
        BY <1>1, <1>3 DEF SpinsFree
    <2>2. daily[p][1] \in Nat /\ daily[p][2] \in Nat /\ free[p] \in Seq(Nat \ {0}) BY <2>1 DEF Tables
    <2>3. Streaks(free[p], daily[p][1], daily[p][2]) BY <2>1 DEF DaysCount
    <2>4. Streaks(Append(free[p], job[w].day), job[w].day, Streak(w))
        BY <2>1, <2>2, <2>3, NextDayCounts DEF Streak
    <2>5. \A r \in Players : /\ free'[r] = IF r = p THEN Append(free[p], job[w].day) ELSE free[r]
                            /\ daily'[r] = IF r = p THEN <<job[w].day, Streak(w)>> ELSE daily[r]
        BY <1>3 DEF Tables
    <2>6. ASSUME NEW r \in Players PROVE Streaks(free'[r], daily'[r][1], daily'[r][2])
        <3>1. CASE r = p BY <2>4, <2>5, <3>1
        <3>2. CASE r # p BY <2>5, <3>2 DEF DaysCount
        <3> QED BY <3>1, <3>2
    <2> QED BY <2>6 DEF DaysCount
<1> QED BY <1>2, <1>3 DEF Writes

--------------------------------------------------------------------------------
(* Balances, the jackpot, the seeds and the winnings. *)

LEMMA RowsBlurred == \A p \in Players : Row("coins", p) \in BlurRows /\ Row("premium", p) \in BlurRows
BY DEF BlurRows, Row

Numbers ==
    /\ coins \in [Players -> Nat] /\ due \in [Players -> Int]
    /\ pot \in Nat /\ potDue = pot
    /\ seed \in [Players -> Nat \X Nat]
    /\ winning \in [Winnings -> [owner : Players \cup {None}, value : Nat]]
    /\ premium \in [Players -> Nat]
    /\ blurred \subseteq BlurRows
    /\ used \in [Winnings -> Nat]
    /\ spins \in Seq(Players \X Nat \X Nat)

Takes(w, row) == \E i \in DOMAIN job[w].locks : job[w].locks[i] = row

\* What a request asks for is of its type; it writes a balance only under its lock,
\* and spends only what it has seen to be there under that lock.
Pays(w) ==
    LET j == job[w]
        row == Row("coins", j.player)
    IN  /\ j.locks \in Seq(LockRows)
        /\ j.kind # "none" => j.player \in Players
        /\ j.seen \in Nat /\ j.value \in Nat /\ j.items \subseteq Winnings
        /\ j.kind = "spin" => j.stake \in Stakes
        /\ j.kind \in {"cosmetic", "premium"} => j.stake = Price
        /\ j.kind = "grant" => j.stake \in Int
        /\ j.kind = "cosmetic" => j.for \in Players
        /\ j.kind \in {"spin", "cosmetic", "premium", "sell", "grant"} =>
              \/ Takes(w, row)
              \/ /\ lock[row] = w
                 /\ j.kind \in {"spin", "cosmetic", "premium"} => j.stake <= coins[j.player]

Payers == \A w \in Workers : Pays(w)

Ledger == Numbers /\ Payers

LEMMA PlanIs ==
    ASSUME NEW kind, NEW p \in Players, NEW q, kind = "cosmetic" => q \in Players
    PROVE  /\ Plan(kind, p, q) \in Seq(LockRows)
           /\ kind \in {"spin", "cosmetic", "premium", "sell", "grant"} =>
                 \E i \in DOMAIN Plan(kind, p, q) : Plan(kind, p, q)[i] = Row("coins", p)
<1> DEFINE pl == Plan(kind, p, q)
<1>1. /\ Row("coins", p) \in LockRows /\ Row("daily", p) \in LockRows
      /\ Row("seed", p) \in LockRows /\ Pot \in LockRows
      /\ kind = "cosmetic" => Row("owned", q) \in LockRows
    BY RowsLocked DEF LockRows
<1>2. CASE kind = "spin"
    <2>1. pl = <<Row("seed", p), Row("coins", p), Pot>> BY <1>2 DEF Plan
    <2> HIDE DEF pl
    <2>2. pl \in Seq(LockRows) /\ 2 \in DOMAIN pl /\ pl[2] = Row("coins", p) BY <1>1, <2>1
    <2> QED BY <2>2 DEF pl
<1>3. CASE kind = "free"
    <2>1. pl = <<Row("daily", p), Row("seed", p)>> BY <1>3 DEF Plan
    <2> HIDE DEF pl
    <2>2. pl \in Seq(LockRows) BY <1>1, <2>1
    <2> QED BY <1>3, <2>2 DEF pl
<1>4. CASE kind \in {"trade up", "rotate"}
    <2>1. pl = <<Row("seed", p)>> BY <1>4 DEF Plan
    <2> HIDE DEF pl
    <2>2. pl \in Seq(LockRows) BY <1>1, <2>1
    <2> QED BY <1>4, <2>2 DEF pl
<1>5. CASE kind \in {"sell", "premium", "grant"}
    <2>1. pl = <<Row("coins", p)>> BY <1>5 DEF Plan
    <2> HIDE DEF pl
    <2>2. pl \in Seq(LockRows) /\ 1 \in DOMAIN pl /\ pl[1] = Row("coins", p) BY <1>1, <2>1
    <2> QED BY <2>2 DEF pl
<1>6. CASE kind = "cosmetic"
    <2>1. pl = <<Row("coins", p), Row("owned", q)>> BY <1>6 DEF Plan
    <2> HIDE DEF pl
    <2>2. pl \in Seq(LockRows) /\ 1 \in DOMAIN pl /\ pl[1] = Row("coins", p) BY <1>1, <1>6, <2>1
    <2> QED BY <2>2 DEF pl
<1>7. CASE kind \notin {"spin", "free", "trade up", "rotate", "sell", "cosmetic", "premium", "grant"}
    <2>1. pl = << >> BY <1>7 DEF Plan
    <2> HIDE DEF pl
    <2>2. pl \in Seq(LockRows) BY <2>1
    <2> QED BY <1>7, <2>2 DEF pl
<1> QED BY <1>2, <1>3, <1>4, <1>5, <1>6, <1>7

LEMMA ValueIsNat ==
    ASSUME Numbers, NEW X \in SUBSET Winnings
    PROVE  ValueOf(X) \in Nat
<1> DEFINE f == [x \in X |-> winning[x].value]
<1>1. \A x \in X : f[x] \in Nat BY DEF Numbers
<1>2. IsFiniteSet(X) BY CoinConstants, FS_Subset
<1> HIDE DEF f
<1>3. SumFunctionOnSet(f, X) \in Nat BY <1>1, <1>2, SumNat
<1> QED BY <1>3 DEF f, ValueOf

LEMMA ValuesAreNat == \A v \in Values \cup {0} : v \in Nat
<1>1. 0 \in Nat OBVIOUS
<1>2. Values \subseteq Nat BY CoinConstants
<1> QED BY <1>1, <1>2

\* A request that begins has all of its locks to take.
LEMMA BeginPays ==
    ASSUME Jobs, Ledger, NEW w \in Workers, Start(w)
    PROVE  Pays(w)'
<1>1. PICK j : /\ DOMAIN j = Fields /\ job' = [job EXCEPT ![w] = j]
               /\ j.locks = Plan(j.kind, j.player, j.for)
               /\ j.player \in Players
               /\ j.kind = "cosmetic" => j.for \in Players
               /\ Asks(j)
    BY RequestsBegin DEF Begins
<1>2. job'[w] = j BY <1>1 DEF Jobs
<1>3. /\ j.locks \in Seq(LockRows)
      /\ j.kind \in {"spin", "cosmetic", "premium", "sell", "grant"} =>
            \E i \in DOMAIN j.locks : j.locks[i] = Row("coins", j.player)
    BY <1>1, PlanIs
<1>4. j.seen \in Nat
    <2>1. coins[j.player] \in Nat /\ premium[j.player] \in Nat BY <1>1 DEF Ledger, Numbers
    <2> QED BY <1>1, <2>1 DEF Asks
<1>5. j.items \subseteq Winnings BY <1>1 DEF Asks, Held
<1>6. j.value \in Nat
    <2>1. ValueOf(j.items) \in Nat BY <1>5, ValueIsNat DEF Ledger
    <2>2. j.value \in Values \cup {0} \/ j.value = ValueOf(j.items) BY <1>1 DEF Asks
    <2>3. j.value \in Values \cup {0} => j.value \in Nat BY ValuesAreNat
    <2> QED BY <2>1, <2>2, <2>3
<1> QED BY <1>1, <1>2, <1>3, <1>4, <1>5, <1>6 DEF Asks, Pays, Takes

\* What is left of a plan once its first row is locked.
LEMMA TailIs ==
    ASSUME NEW S, NEW s \in Seq(S), s # << >>, NEW x
    PROVE  /\ Tail(s) \in Seq(S) /\ Head(s) \in S
           /\ (\E i \in DOMAIN s : s[i] = x) =>
                 Head(s) = x \/ \E i \in DOMAIN Tail(s) : Tail(s)[i] = x
<1>1. Tail(s) \in Seq(S) /\ Head(s) \in S /\ Head(s) = s[1] OBVIOUS
<1>2. ASSUME NEW i \in DOMAIN s, s[i] = x, Head(s) # x
      PROVE  \E k \in DOMAIN Tail(s) : Tail(s)[k] = x
    <2>1. i \in 2 .. Len(s) BY <1>1, <1>2
    <2>2. i - 1 \in DOMAIN Tail(s) /\ Tail(s)[i - 1] = s[i] BY <2>1
    <2> QED BY <1>2, <2>2
<1> QED BY <1>1, <1>2

LEMMA LockPays ==
    ASSUME Jobs, Tables, Ledger, NEW w \in Workers, Lock(w)
    PROVE  Pays(w)'
<1> DEFINE s == job[w].locks
           row == Row("coins", job[w].player)
<1>1. s \in Seq(LockRows) /\ s # << >> /\ Pays(w) BY DEF Lock, Ledger, Payers, Pays
<1>2. Tail(s) \in Seq(LockRows) /\ Head(s) \in LockRows BY <1>1, TailIs
<1>3. /\ job'[w].kind = job[w].kind /\ job'[w].player = job[w].player /\ job'[w].for = job[w].for
      /\ job'[w].stake = job[w].stake /\ job'[w].value = job[w].value
      /\ job'[w].items = job[w].items /\ job'[w].locks = Tail(s) /\ job'[w].seen = AfterLock(w)
    BY DEF Lock, Jobs, Fields
<1>4. /\ lock[Head(s)] = None /\ Passes(w, Head(s)) /\ coins' = coins
      /\ lock' = [lock EXCEPT ![Head(s)] = w]
    BY DEF Lock, rows
<1>5. AfterLock(w) \in Nat BY <1>1 DEF AfterLock, Pays, Ledger, Numbers
<1>6. ASSUME job[w].kind \in {"spin", "cosmetic", "premium", "sell", "grant"}
      PROVE  \/ \E i \in DOMAIN Tail(s) : Tail(s)[i] = row
             \/ /\ lock'[row] = w
                /\ job[w].kind \in {"spin", "cosmetic", "premium"} =>
                      job[w].stake <= coins[job[w].player]
    <2>1. row \in LockRows BY <1>1, <1>6, RowsLocked DEF Pays
    <2>2. CASE Takes(w, row)
        <3>1. Head(s) = row \/ \E i \in DOMAIN Tail(s) : Tail(s)[i] = row
            <4>1. \E i \in DOMAIN s : s[i] = row BY <2>2 DEF Takes
            <4> HIDE DEF s, row
            <4> QED BY <1>1, <4>1, TailIs
        <3>2. CASE Head(s) = row
            <4>1. lock'[row] = w BY <1>4, <2>1, <3>2 DEF Tables
            <4>2. Head(s)[1] = "coins" BY <3>2 DEF Row
            <4>3. job[w].kind \in {"spin", "cosmetic", "premium"} => Affords(w)
                BY <1>4, <4>2 DEF Passes
            <4> QED BY <4>1, <4>3 DEF Affords
        <3> QED BY <3>1, <3>2
    <2>3. CASE ~Takes(w, row)
        <3>1. /\ lock[row] = w
              /\ job[w].kind \in {"spin", "cosmetic", "premium"} =>
                    job[w].stake <= coins[job[w].player]
            BY <1>1, <1>6, <2>3 DEF Pays
        <3>2. lock'[row] = w BY <1>4, <2>1, <3>1 DEF Tables
        <3> QED BY <3>1, <3>2
    <2> QED BY <2>2, <2>3
<1> HIDE DEF s
<1> QED BY <1>1, <1>2, <1>3, <1>4, <1>5, <1>6 DEF Pays, Takes

\* Which balances a step changes, and that they change as they should.
MoneyMoves(w) ==
    /\ coins' \in [Players -> Nat] /\ due' \in [Players -> Int]
    /\ pot' \in Nat /\ potDue' = pot'
    /\ blurred' \subseteq BlurRows
    /\ \A p \in Players :
          /\ coins'[p] # coins[p] => lock[Row("coins", p)] = w
          /\ Row("coins", p) \notin blurred' =>
                Row("coins", p) \notin blurred /\ coins'[p] - due'[p] = coins[p] - due[p]

LEMMA PayMoves ==
    ASSUME Ledger, NEW w \in Workers, NEW n \in Int, Pay(w, n),
           job[w].kind \in {"spin", "cosmetic", "premium", "sell"}, job[w].locks = << >>,
           coins[job[w].player] + n >= 0, pot' \in Nat, potDue' = pot', blurred' = blurred
    PROVE  MoneyMoves(w)
<1> DEFINE p == job[w].player
<1>1. p \in Players /\ lock[Row("coins", p)] = w BY DEF Ledger, Payers, Pays, Takes
<1>2. /\ coins \in [Players -> Nat] /\ due \in [Players -> Int]
      /\ blurred \subseteq BlurRows
    BY DEF Ledger, Numbers
<1>3. coins' = [coins EXCEPT ![p] = coins[p] + n] /\ due' = [due EXCEPT ![p] = due[p] + n]
    BY DEF Pay, CoinsAfter, Add
<1>4. coins[p] + n \in Nat /\ due[p] + n \in Int BY <1>1, <1>2
<1>5. coins' \in [Players -> Nat] /\ due' \in [Players -> Int] BY <1>1, <1>2, <1>3, <1>4
<1>6. ASSUME NEW q \in Players
      PROVE  /\ coins'[q] # coins[q] => lock[Row("coins", q)] = w
             /\ coins'[q] - due'[q] = coins[q] - due[q]
    <2>1. CASE q = p
        <3>1. coins'[p] = coins[p] + n /\ due'[p] = due[p] + n BY <1>1, <1>2, <1>3
        <3>2. coins[p] \in Nat /\ due[p] \in Int BY <1>1, <1>2
        <3> QED BY <1>1, <2>1, <3>1, <3>2
    <2>2. CASE q # p BY <1>1, <1>2, <1>3, <2>2
    <2> QED BY <2>1, <2>2
<1> QED BY <1>2, <1>5, <1>6 DEF MoneyMoves

LEMMA NoMoneyMoves ==
    ASSUME Ledger, NEW w \in Workers, UNCHANGED <<coins, due, pot, potDue>>,
           blurred' \subseteq BlurRows,
           \A p \in Players : Row("coins", p) \in blurred => Row("coins", p) \in blurred'
    PROVE  MoneyMoves(w)
BY DEF MoneyMoves, Ledger, Numbers

LEMMA MoneyStep ==
    ASSUME Jobs, Tables, Ledger, NEW w \in Workers, Step(w)
    PROVE  MoneyMoves(w)
<1> USE DEF rows, history
<1>1. Pays(w) /\ Price \in Nat /\ PotFloor \in Nat BY CoinConstants DEF Ledger, Payers
<1>2. CASE UNCHANGED <<rows, history>>
    <2>1. UNCHANGED <<coins, due, pot, potDue, blurred>> BY <1>2
    <2>2. blurred \subseteq BlurRows
        BY DEF Ledger, Numbers
    <2> QED BY <2>1, <2>2, NoMoneyMoves
<1>3. CASE Start(w)
    <2>1. UNCHANGED <<rows, history>> BY <1>3, RequestsBegin DEF Begins
    <2> QED BY <1>2, <2>1
<1>4. CASE Lock(w) \/ Abort(w)
    <2>1. UNCHANGED <<rows, history>> BY <1>4 DEF Lock, Abort
    <2> QED BY <1>2, <2>1
<1>5. CASE CommitFreeSpin(w) \/ CommitTradeUp(w) \/ CommitClaim(w) \/ CommitRotate(w)
    <2>1. UNCHANGED <<coins, due, pot, potDue, blurred>>
        BY <1>5 DEF CommitFreeSpin, CommitTradeUp, CommitClaim, CommitRotate
    <2>2. blurred \subseteq BlurRows
        BY DEF Ledger, Numbers
    <2> QED BY <2>1, <2>2, NoMoneyMoves
<1>6. CASE CommitGift(w)
    <2>1. UNCHANGED <<coins, due, pot, potDue>> BY <1>6 DEF CommitGift
    <2>2. /\ blurred' = blurred \/ blurred' = blurred \cup {Row("premium", job[w].player)}
          /\ job[w].player \in Players
        BY <1>1, <1>6 DEF CommitGift, Ready, Pays
    <2>3. blurred \subseteq BlurRows
        BY DEF Ledger, Numbers
    <2>4. blurred' \subseteq BlurRows BY <2>2, <2>3, RowsBlurred
    <2> QED BY <2>1, <2>2, <2>4, NoMoneyMoves
<1>7. CASE CommitSell(w)
    <2>1. /\ Pay(w, job[w].value) /\ job[w].kind = "sell" /\ job[w].locks = << >>
          /\ pot' = pot /\ potDue' = potDue /\ blurred' = blurred
        BY <1>7 DEF CommitSell, Ready
    <2>2. job[w].value \in Int /\ coins[job[w].player] + job[w].value >= 0
        BY <1>1, <2>1 DEF Pays, Ledger, Numbers
    <2> QED BY <2>1, <2>2, PayMoves DEF Ledger, Numbers
<1>8. CASE CommitCosmetic(w) \/ CommitPremium(w)
    <2>1. /\ Pay(w, -Price) /\ job[w].kind \in {"cosmetic", "premium"} /\ job[w].locks = << >>
          /\ pot' = pot /\ potDue' = potDue /\ blurred' = blurred
        BY <1>8 DEF CommitCosmetic, CommitPremium, Ready
    <2>2. Price <= coins[job[w].player] /\ job[w].player \in Players
        BY <1>1, <2>1 DEF Pays, Takes
    <2>3. -Price \in Int /\ coins[job[w].player] + (-Price) >= 0
        BY <1>1, <2>2 DEF Ledger, Numbers
    <2> QED BY <2>1, <2>3, PayMoves DEF Ledger, Numbers
<1>9. CASE CommitSpin(w)
    <2> DEFINE stake == job[w].stake
               fed == pot + Contribution[stake]
    <2>1. /\ job[w].kind = "spin" /\ job[w].locks = << >> /\ blurred' = blurred
          /\ \/ pot' = fed /\ Pay(w, -stake) /\ potDue' = potDue + Contribution[stake]
             \/ /\ pot' = PotFloor
                /\ Pay(w, fed - stake)
                /\ potDue' = potDue + Contribution[stake] - fed + PotFloor
        BY <1>9 DEF CommitSpin, Ready
    <2>2. /\ stake \in Stakes /\ stake <= coins[job[w].player] /\ job[w].player \in Players
        BY <1>1, <2>1 DEF Pays, Takes
    <2>3. stake \in Nat /\ Contribution[stake] \in Nat BY <2>2, CoinConstants
    <2>4. coins[job[w].player] \in Nat /\ pot \in Nat /\ potDue = pot
        BY <2>2 DEF Ledger, Numbers
    <2> HIDE DEF stake
    <2>5. /\ -stake \in Int /\ coins[job[w].player] + (-stake) >= 0
          /\ fed - stake \in Int /\ coins[job[w].player] + (fed - stake) >= 0
        BY <2>2, <2>3, <2>4 DEF stake
    <2>6. pot' \in Nat /\ potDue' = pot' BY <1>1, <2>1, <2>3, <2>4
    <2> HIDE DEF fed
    <2>7. CASE Pay(w, -stake) BY <2>1, <2>5, <2>6, <2>7, PayMoves
    <2>8. CASE Pay(w, fed - stake) BY <2>1, <2>5, <2>6, <2>8, PayMoves
    <2> QED BY <2>1, <2>7, <2>8
<1>10. CASE CommitGrant(w)
    <2> DEFINE p == job[w].player
               seen == job[w].seen
               written == AtLeastZero(seen + job[w].stake)
    <2>1. job[w].kind = "grant" /\ job[w].locks = << >> BY <1>10 DEF CommitGrant, Ready
    <2>2. p \in Players /\ lock[Row("coins", p)] = w /\ seen \in Nat /\ job[w].stake \in Int
        BY <1>1, <2>1 DEF Pays, Takes
    <2>3. written \in Nat BY <2>2 DEF AtLeastZero
    <2>4. /\ coins \in [Players -> Nat] /\ due \in [Players -> Int] /\ pot \in Nat /\ potDue = pot
          /\ blurred \subseteq BlurRows
        BY DEF Ledger, Numbers
    <2>5. /\ coins' = [coins EXCEPT ![p] = IF written = seen THEN coins[p] ELSE written]
          /\ due' = [due EXCEPT ![p] = due[p] + (written - seen)]
          /\ pot' = pot /\ potDue' = potDue
          /\ blurred' = IF coins[p] = seen \/ written = seen THEN blurred
                        ELSE blurred \cup {Row("coins", p)}
        BY <1>10 DEF CommitGrant, Add
    <2> HIDE DEF written, p, seen
    <2>6. coins' \in [Players -> Nat] /\ due' \in [Players -> Int]
        BY <2>2, <2>3, <2>4, <2>5
    <2>7. blurred' \subseteq BlurRows BY <2>2, <2>4, <2>5, RowsBlurred
    <2>8. ASSUME NEW q \in Players
          PROVE  /\ coins'[q] # coins[q] => lock[Row("coins", q)] = w
                 /\ Row("coins", q) \notin blurred' =>
                       Row("coins", q) \notin blurred /\ coins'[q] - due'[q] = coins[q] - due[q]
        <3>1. CASE q # p
            <4>1. coins'[q] = coins[q] /\ due'[q] = due[q] BY <2>4, <2>5, <3>1
            <4> QED BY <2>5, <4>1
        <3>2. CASE q = p
            <4>1. /\ coins'[p] = IF written = seen THEN coins[p] ELSE written
                  /\ due'[p] = due[p] + (written - seen)
                BY <2>2, <2>4, <2>5
            <4>2. Row("coins", p) \notin blurred' =>
                      Row("coins", p) \notin blurred /\ (coins[p] = seen \/ written = seen)
                BY <2>5
            <4>3. coins[p] \in Nat /\ due[p] \in Int BY <2>2, <2>4
            <4> QED BY <2>2, <2>3, <3>2, <4>1, <4>2, <4>3
        <3> QED BY <3>1, <3>2
    <2> QED BY <2>4, <2>5, <2>6, <2>7, <2>8 DEF MoneyMoves
<1> QED BY <1>3, <1>4, <1>5, <1>6, <1>7, <1>8, <1>9, <1>10 DEF Step, Commit

\* The balance that a request counts on is not changed by others.
LEMMA OthersPay ==
    ASSUME Jobs, Tables, Holds, Ledger, NEW w \in Workers, Step(w), NEW o \in Workers \ {w}
    PROVE  Pays(o)'
<1> DEFINE p == job[o].player
           row == Row("coins", p)
<1>1. job'[o] = job[o] /\ \A r \in LockRows : lock[r] = o => lock'[r] = o BY OthersKeep
<1>2. Pays(o) BY DEF Ledger, Payers
<1>3. ASSUME p \in Players, lock[row] = o PROVE lock'[row] = o /\ coins'[p] = coins[p]
    <2>1. lock'[row] = o BY <1>1, <1>3, RowsLocked
    <2>2. coins'[p] = coins[p] BY <1>3, MoneyStep DEF MoneyMoves
    <2> QED BY <2>1, <2>2
<1>4. Takes(o, row)' <=> Takes(o, row) BY <1>1 DEF Takes, Row
<1> QED BY <1>1, <1>2, <1>3, <1>4 DEF Pays, Takes

\* A request that ends is none.
LEMMA EndPays ==
    ASSUME Jobs, Tables, NEW w \in Workers, End(w)
    PROVE  Pays(w)'
<1>1. job'[w] = NoJob BY EndIs
<1>2. << >> \in Seq(LockRows) OBVIOUS
<1> QED BY <1>1, <1>2 DEF Pays, NoJob

LEMMA PayersKept ==
    ASSUME Jobs, Tables, Holds, Ledger, NEW w \in Workers, Step(w)
    PROVE  Payers'
<1>1. Pays(w)'
    <2>1. CASE Start(w) BY <2>1, BeginPays
    <2>2. CASE Lock(w) BY <2>2, LockPays
    <2>3. CASE Commit(w) BY <2>3, CommitIs, EndPays
    <2>4. CASE Abort(w) BY <2>4, EndPays DEF Abort
    <2> QED BY <2>1, <2>2, <2>3, <2>4 DEF Step
<1>2. ASSUME NEW o \in Workers PROVE Pays(o)'
    <2>1. CASE o = w BY <1>1, <2>1
    <2>2. CASE o # w BY <2>2, OthersPay
    <2> QED BY <2>1, <2>2
<1> QED BY <1>2 DEF Payers

LEMMA PremiumStep ==
    ASSUME Ledger, NEW w \in Workers, Step(w)
    PROVE  premium' \in [Players -> Nat]
<1>1. premium \in [Players -> Nat] /\ Pays(w) BY DEF Ledger, Numbers, Payers
<1>2. Writes(w) BY StepsWrite
<1>3. CASE premium' = premium BY <1>1, <1>3
<1>4. CASE premium' = [premium EXCEPT ![job[w].player] = job[w].seen + 1]
    <2>1. job[w].seen + 1 \in Nat BY <1>1 DEF Pays
    <2> QED BY <1>1, <1>4, <2>1
<1> QED BY <1>2, <1>3, <1>4 DEF Writes

--------------------------------------------------------------------------------
(* Seeds and the nonces of spins. *)


\* The spins among the first n of a list that are a player's under a seed.
Under(list, p, s, n) == {k \in 1..n : list[k][1] = p /\ list[k][2] = s}

\* No spin is recorded under a seed that is yet to come, the nonce of each is
\* the number of spins before it and the next one is the number of all.
Numbered ==
    /\ \A k \in 1..Len(spins) :
          /\ spins[k][2] <= seed[spins[k][1]][1]
          /\ spins[k][3] = Cardinality(Under(spins, spins[k][1], spins[k][2], k - 1))
    /\ \A p \in Players : seed[p][2] = Cardinality(Under(spins, p, seed[p][1], Len(spins)))

LEMMA NumberedCounts ==
    ASSUME spins \in Seq(Players \X Nat \X Nat), Numbered
    PROVE  NoncesCount
<1>1. DOMAIN spins = 1..Len(spins) OBVIOUS
<1>2. ASSUME NEW i \in DOMAIN spins
      PROVE  spins[i][3] = Cardinality({k \in 1..(i - 1) : /\ spins[k][1] = spins[i][1]
                                                           /\ spins[k][2] = spins[i][2]})
    BY <1>1, <1>2 DEF Numbered, Under
<1>3. ASSUME NEW p \in Players
      PROVE  seed[p][2] = Cardinality({k \in DOMAIN spins : spins[k][1] = p /\ spins[k][2] = seed[p][1]})
    BY <1>1 DEF Numbered, Under
<1> QED BY <1>2, <1>3 DEF NoncesCount

LEMMA UnderFinite ==
    ASSUME NEW list, NEW p, NEW s, NEW n \in Nat
    PROVE  IsFiniteSet(Under(list, p, s, n)) /\ Cardinality(Under(list, p, s, n)) \in Nat
<1>1. IsFiniteSet(1..n) BY FS_Interval
<1>2. Under(list, p, s, n) \subseteq 1..n BY DEF Under
<1> QED BY <1>1, <1>2, FS_Subset, FS_CardinalityType

\* What steps do to the seeds.
Rolls(w) ==
    \/ UNCHANGED <<seed, spins>>
    \/ job[w].kind # "none" /\ Roll(job[w].player)
    \/ /\ job[w].kind # "none" /\ spins' = spins
       /\ seed' = [seed EXCEPT ![job[w].player] = <<@[1] + 1, 0>>]

LEMMA StepsRoll ==
    ASSUME NEW w \in Workers, Step(w)
    PROVE  Rolls(w)
<1> USE DEF rows, history, Ready, Rolls
<1>1. CASE Start(w) BY <1>1, RequestsBegin DEF Begins
<1>2. CASE Lock(w) \/ Abort(w) BY <1>2 DEF Lock, Abort
<1>3. CASE CommitSpin(w) BY <1>3 DEF CommitSpin
<1>4. CASE CommitFreeSpin(w) BY <1>4 DEF CommitFreeSpin
<1>5. CASE CommitTradeUp(w) BY <1>5 DEF CommitTradeUp
<1>6. CASE CommitSell(w) BY <1>6 DEF CommitSell
<1>7. CASE CommitClaim(w) BY <1>7 DEF CommitClaim
<1>8. CASE CommitRotate(w) BY <1>8 DEF CommitRotate
<1>9. CASE CommitCosmetic(w) BY <1>9 DEF CommitCosmetic
<1>10. CASE CommitPremium(w) BY <1>10 DEF CommitPremium
<1>11. CASE CommitGift(w) BY <1>11 DEF CommitGift
<1>12. CASE CommitGrant(w) BY <1>12 DEF CommitGrant
<1> QED BY <1>1, <1>2, <1>3, <1>4, <1>5, <1>6, <1>7, <1>8, <1>9, <1>10, <1>11, <1>12
        DEF Step, Commit

SeedsTyped ==
    /\ seed \in [Players -> Nat \X Nat]
    /\ spins \in Seq(Players \X Nat \X Nat)

LEMMA RollKept ==
    ASSUME SeedsTyped, Numbered, NEW p \in Players, Roll(p)
    PROVE  SeedsTyped' /\ Numbered'
<1> DEFINE s == seed[p][1]
           m == seed[p][2]
           e == <<p, s, m>>
           n == Len(spins)
<1>1. seed[p] \in Nat \X Nat /\ n \in Nat BY DEF SeedsTyped
<1>2. s \in Nat /\ m \in Nat /\ e[1] = p /\ e[2] = s /\ e[3] = m BY <1>1
<1>3. /\ spins' = Append(spins, e)
      /\ \A q \in Players : seed'[q] = IF q = p THEN <<s, m + 1>> ELSE seed[q]
      /\ seed' = [seed EXCEPT ![p] = <<s, m + 1>>]
    BY DEF Roll, NextSeed, SeedsTyped
<1>4. e \in Players \X Nat \X Nat BY <1>2
<1> HIDE DEF e, s, m
<1>5. SeedsTyped'
    <2>1. spins' \in Seq(Players \X Nat \X Nat) BY <1>3, <1>4 DEF SeedsTyped
    <2>2. seed' \in [Players -> Nat \X Nat] BY <1>2, <1>3 DEF SeedsTyped
    <2> QED BY <2>1, <2>2 DEF SeedsTyped
<1>6. /\ spins \in Seq(Players \X Nat \X Nat) /\ Len(spins') = n + 1 /\ spins'[n + 1] = e
      /\ \A k \in 1..n : spins'[k] = spins[k] /\ spins[k] \in Players \X Nat \X Nat
    BY <1>3, <1>4 DEF SeedsTyped
<1>7. ASSUME NEW q, NEW t
      PROVE  /\ \A i \in 0..n : Under(spins', q, t, i) = Under(spins, q, t, i)
             /\ p = q /\ s = t =>
                   Cardinality(Under(spins', q, t, n + 1)) = Cardinality(Under(spins, q, t, n)) + 1
             /\ ~(p = q /\ s = t) =>
                   Cardinality(Under(spins', q, t, n + 1)) = Cardinality(Under(spins, q, t, n))
    <2> DEFINE U == Under(spins, q, t, n)
               V == Under(spins', q, t, n + 1)
    <2>1. spins'[n + 1][1] = p /\ spins'[n + 1][2] = s BY <1>2, <1>6
    <2>2. n \in Nat /\ \A k \in 1..n : spins'[k] = spins[k] BY <1>1, <1>6
    <2> HIDE DEF n
    <2>3. \A i \in 0..n : Under(spins', q, t, i) = Under(spins, q, t, i) BY <2>2 DEF Under
    <2>4. IsFiniteSet(U) /\ Cardinality(U) \in Nat BY <2>2, UnderFinite
    <2>5. n + 1 \notin U
        <3>1. n + 1 \notin 1..n BY <2>2
        <3> QED BY <3>1 DEF Under
    <2>6. \A k : k \in V <=> k \in U \/ (k = n + 1 /\ p = q /\ s = t)
        <3>1. \A k : k \in 1..(n + 1) <=> k \in 1..n \/ k = n + 1 BY <2>2
        <3>2. n + 1 \notin 1..n BY <2>2
        <3> QED BY <2>1, <2>2, <3>1, <3>2 DEF Under
    <2> HIDE DEF U, V
    <2>7. p = q /\ s = t => Cardinality(V) = Cardinality(U) + 1
        <3>1. Cardinality(U \cup {n + 1}) = Cardinality(U) + 1 BY <2>4, <2>5, FS_AddElement
        <3>2. p = q /\ s = t => V = U \cup {n + 1} BY <2>6
        <3> QED BY <3>1, <3>2
    <2>8. ~(p = q /\ s = t) => V = U BY <2>6
    <2> QED BY <2>3, <2>7, <2>8 DEF U, V
<1>8. \A q \in Players : seed'[q][1] = seed[q][1] BY <1>1, <1>3 DEF s
<1>9. m = Cardinality(Under(spins, p, s, n)) BY DEF Numbered, m, s
<1>10. ASSUME NEW k \in 1..(n + 1)
       PROVE  /\ spins'[k][2] <= seed'[spins'[k][1]][1]
              /\ spins'[k][3] = Cardinality(Under(spins', spins'[k][1], spins'[k][2], k - 1))
    <2>1. CASE k = n + 1
        <3>1. spins'[k][1] = p /\ spins'[k][2] = s /\ spins'[k][3] = m BY <1>2, <1>6, <2>1
        <3>2. seed'[p][1] = s BY <1>8 DEF s
        <3>3. Under(spins', p, s, n) = Under(spins, p, s, n) BY <1>1, <1>7
        <3>4. k - 1 = n /\ s <= s BY <1>1, <1>2, <2>1
        <3> QED BY <1>9, <3>1, <3>2, <3>3, <3>4
    <2>2. CASE k # n + 1
        <3>1. k \in 1..n /\ k - 1 \in 0..n BY <1>1, <2>2
        <3>2. spins'[k] = spins[k] /\ spins[k][1] \in Players BY <1>6, <3>1
        <3>3. /\ spins[k][2] <= seed[spins[k][1]][1]
              /\ spins[k][3] = Cardinality(Under(spins, spins[k][1], spins[k][2], k - 1))
            BY <3>1 DEF Numbered
        <3>4. Under(spins', spins[k][1], spins[k][2], k - 1) = Under(spins, spins[k][1], spins[k][2], k - 1)
            BY <1>7, <3>1
        <3> QED BY <1>8, <3>2, <3>3, <3>4
    <2> QED BY <2>1, <2>2
<1>11. ASSUME NEW q \in Players
       PROVE  seed'[q][2] = Cardinality(Under(spins', q, seed'[q][1], n + 1))
    <2>1. seed[q][2] = Cardinality(Under(spins, q, seed[q][1], n)) BY DEF Numbered
    <2>2. CASE q = p
        <3>1. seed'[q][1] = s /\ seed'[q][2] = m + 1 BY <1>3, <2>2
        <3> QED BY <1>2, <1>7, <1>9, <2>2, <3>1
    <2>3. CASE q # p
        <3>1. seed'[q] = seed[q] BY <1>3, <2>3
        <3>2. seed[q][2] \in Nat BY DEF SeedsTyped
        <3>3. Cardinality(Under(spins', q, seed[q][1], n + 1)) = seed[q][2]
            BY <1>2, <1>7, <2>1, <2>3
        <3> QED BY <3>1, <3>2, <3>3
    <2> QED BY <2>2, <2>3
<1> QED BY <1>5, <1>6, <1>10, <1>11 DEF Numbered

LEMMA RotateKept ==
    ASSUME SeedsTyped, Numbered, NEW p \in Players, spins' = spins,
           seed' = [seed EXCEPT ![p] = <<@[1] + 1, 0>>]
    PROVE  SeedsTyped' /\ Numbered'
<1>1. seed \in [Players -> Nat \X Nat] /\ seed[p][1] \in Nat BY DEF SeedsTyped
<1>2. \A q \in Players : seed'[q] = IF q = p THEN <<seed[p][1] + 1, 0>> ELSE seed[q] BY <1>1
<1>3. SeedsTyped'
    <2>1. <<seed[p][1] + 1, 0>> \in Nat \X Nat BY <1>1
    <2> QED BY <1>1, <2>1 DEF SeedsTyped
<1>4. \A k \in 1..Len(spins) : spins[k] \in Players \X Nat \X Nat BY DEF SeedsTyped
<1>5. ASSUME NEW k \in 1..Len(spins) PROVE spins[k][2] <= seed'[spins[k][1]][1]
    <2>1. spins[k][2] <= seed[spins[k][1]][1] BY DEF Numbered
    <2>2. spins[k][1] \in Players /\ spins[k][2] \in Nat BY <1>4
    <2>3. CASE spins[k][1] = p
        <3>1. seed'[p][1] = seed[p][1] + 1 BY <1>2
        <3> QED BY <1>1, <2>1, <2>2, <2>3, <3>1
    <2>4. CASE spins[k][1] # p BY <1>2, <2>1, <2>2, <2>4
    <2> QED BY <2>3, <2>4
<1>6. ASSUME NEW q \in Players
      PROVE  seed'[q][2] = Cardinality(Under(spins, q, seed'[q][1], Len(spins)))
    <2>1. CASE q = p
        <3>1. seed'[p] = <<seed[p][1] + 1, 0>> BY <1>2
        <3>2. ASSUME NEW k \in Under(spins, p, seed[p][1] + 1, Len(spins)) PROVE FALSE
            <4>1. k \in 1..Len(spins) /\ spins[k][1] = p /\ spins[k][2] = seed[p][1] + 1 BY DEF Under
            <4>2. spins[k][2] <= seed[p][1] BY <4>1 DEF Numbered
            <4> QED BY <1>1, <4>1, <4>2
        <3>3. Under(spins, p, seed[p][1] + 1, Len(spins)) = {} BY <3>2
        <3>4. seed'[p][1] = seed[p][1] + 1 /\ seed'[p][2] = 0 BY <3>1
        <3> QED BY <2>1, <3>3, <3>4, FS_EmptySet
    <2>2. CASE q # p BY <1>2, <2>2 DEF Numbered
    <2> QED BY <2>1, <2>2
<1> QED BY <1>3, <1>5, <1>6 DEF Numbered

LEMMA SeedsKept ==
    ASSUME Ledger, Numbered, NEW w \in Workers, Step(w)
    PROVE  SeedsTyped' /\ Numbered'
<1>1. SeedsTyped /\ Pays(w) BY DEF SeedsTyped, Ledger, Numbers, Payers
<1>2. job[w].kind # "none" => job[w].player \in Players BY <1>1 DEF Pays
<1>3. CASE UNCHANGED <<seed, spins>> BY <1>1, <1>3 DEF SeedsTyped, Numbered, Under
<1> QED BY <1>1, <1>2, <1>3, StepsRoll, RollKept, RotateKept DEF Rolls

--------------------------------------------------------------------------------
(* Winnings. *)

\* A winning that was used is gone, and one that a request has, and nobody has
\* used, is somebody's.
Kept(x) ==
    /\ used[x] > 0 => winning[x] = NoWinning
    /\ used[x] = 0 /\ Using(x) # {} => winning[x] # NoWinning

AllKept == \A x \in Winnings : Kept(x)

\* The uses of a winning and those still to come do not become more.
Falls(x) == used'[x] + Cardinality(Using(x)') <= used[x] + Cardinality(Using(x))

\* A request that uses some winnings, none in most cases, may win another.
Wins(w, X) ==
    /\ End(w)
    /\ used' = [x \in Winnings |-> used[x] + (IF x \in X THEN 1 ELSE 0)]
    /\ \/ winning' = Remaining(X)
       \/ /\ job[w].kind # "none"
          /\ \E y \in Winnings :
                /\ winning[y] = NoWinning /\ used[y] = 0
                /\ winning' = [Remaining(X) EXCEPT ![y] = [owner |-> job[w].player, value |-> job[w].value]]

LEMMA NothingRemains ==
    ASSUME Numbers PROVE Remaining({}) = winning /\ [x \in Winnings |-> used[x] + (IF x \in {} THEN 1 ELSE 0)] = used
<1>1. winning \in [Winnings -> [owner : Players \cup {None}, value : Nat]] /\ used \in [Winnings -> Nat]
    BY DEF Numbers
<1>2. Remaining({}) = winning BY <1>1 DEF Remaining
<1>3. \A x \in Winnings : used[x] + 0 = used[x] BY <1>1
<1>4. [x \in Winnings |-> used[x] + (IF x \in {} THEN 1 ELSE 0)] = [x \in Winnings |-> used[x]] BY <1>3
<1> QED BY <1>1, <1>2, <1>4

LEMMA EndsWin ==
    ASSUME Ledger, NEW w \in Workers, Commit(w) \/ Abort(w)
    PROVE  \E X \in {{}, job[w].items} : Wins(w, X)
<1> USE DEF rows, history, Ready
<1>1. Remaining({}) = winning /\ [x \in Winnings |-> used[x] + (IF x \in {} THEN 1 ELSE 0)] = used
    BY NothingRemains DEF Ledger
<1>2. ASSUME End(w), UNCHANGED <<winning, used>> PROVE Wins(w, {})
    BY <1>1, <1>2 DEF Wins
<1>3. ASSUME End(w), used' = used, winning' \in Prizes(w, winning), job[w].kind # "none" PROVE Wins(w, {})
    BY <1>1, <1>3 DEF Wins, Prizes
<1>4. ASSUME End(w), Use(job[w].items), winning' = Remaining(job[w].items) PROVE Wins(w, job[w].items)
    BY <1>4 DEF Wins, Use
<1>5. ASSUME End(w), Use(job[w].items), winning' \in Prizes(w, Remaining(job[w].items)), job[w].kind # "none"
      PROVE  Wins(w, job[w].items)
    BY <1>5 DEF Wins, Use, Prizes
<1>6. CASE Abort(w) BY <1>2, <1>6 DEF Abort
<1>7. CASE CommitSpin(w) BY <1>3, <1>7 DEF CommitSpin
<1>8. CASE CommitFreeSpin(w) BY <1>3, <1>8 DEF CommitFreeSpin
<1>9. CASE CommitTradeUp(w) BY <1>5, <1>9 DEF CommitTradeUp
<1>10. CASE CommitSell(w) \/ CommitClaim(w) BY <1>4, <1>10 DEF CommitSell, CommitClaim
<1>11. CASE CommitRotate(w) \/ CommitCosmetic(w) \/ CommitPremium(w) \/ CommitGift(w) \/ CommitGrant(w)
    BY <1>2, <1>11 DEF CommitRotate, CommitCosmetic, CommitPremium, CommitGift, CommitGrant
<1> QED BY <1>6, <1>7, <1>8, <1>9, <1>10, <1>11 DEF Commit

\* A prize and what a request has are not what is gone.
LEMMA WinsKept ==
    ASSUME Jobs, Tables, Ledger, AllKept, NEW w \in Workers,
           NEW X \in {{}, job[w].items}, Wins(w, X)
    PROVE  /\ winning' \in [Winnings -> [owner : Players \cup {None}, value : Nat]]
           /\ used' \in [Winnings -> Nat]
           /\ AllKept'
           /\ \A x \in Winnings : Falls(x)
<1> DEFINE prize == [owner |-> job[w].player, value |-> job[w].value]
           rest == Remaining(X)
<1>1. /\ Pays(w) /\ used \in [Winnings -> Nat]
      /\ winning \in [Winnings -> [owner : Players \cup {None}, value : Nat]]
    BY DEF Ledger, Payers, Numbers
<1>2. X \subseteq job[w].items /\ X \subseteq Winnings BY <1>1 DEF Pays
<1>3. /\ rest \in [Winnings -> [owner : Players \cup {None}, value : Nat]]
      /\ \A x \in Winnings : rest[x] = IF x \in X THEN NoWinning ELSE winning[x]
    BY <1>1 DEF Remaining, NoWinning
<1>4. job[w].kind # "none" =>
          prize \in [owner : Players \cup {None}, value : Nat] /\ prize # NoWinning
    BY <1>1, CoinConstants DEF Pays, NoWinning
<1> HIDE DEF prize, rest
<1>5. used' = [x \in Winnings |-> used[x] + (IF x \in X THEN 1 ELSE 0)] BY DEF Wins
<1>6. \/ winning' = rest
      \/ /\ job[w].kind # "none"
         /\ \E y \in Winnings : /\ winning[y] = NoWinning /\ used[y] = 0
                                /\ winning' = [rest EXCEPT ![y] = prize]
    BY DEF Wins, rest, prize
<1>7. winning' \in [Winnings -> [owner : Players \cup {None}, value : Nat]] BY <1>3, <1>4, <1>6
<1>8. used' \in [Winnings -> Nat] BY <1>1, <1>5
<1>9. ASSUME NEW x \in Winnings PROVE Kept(x)' /\ Falls(x)
    <2> DEFINE U == Using(x)
               V == Using(x)'
    <2>1. /\ used'[x] = used[x] + (IF x \in X THEN 1 ELSE 0) /\ used[x] \in Nat
        BY <1>1, <1>5
    <2>2. x \in X => winning'[x] = NoWinning /\ w \in U
        <3>1. SUFFICES ASSUME x \in X PROVE winning'[x] = NoWinning /\ w \in U OBVIOUS
        <3>2. w \in U BY <1>2, <3>1 DEF Using
        <3>3. used[x] = 0 => winning[x] # NoWinning BY <3>2 DEF AllKept, Kept
        <3> QED BY <1>3, <1>6, <3>1, <3>2, <3>3
    <2>3. x \notin X =>
              \/ winning'[x] = winning[x]
              \/ used[x] = 0 /\ winning[x] = NoWinning /\ winning'[x] # NoWinning
        BY <1>3, <1>4, <1>6
    <2>4. V = U \ {w} BY EndIs DEF Wins, Using, NoJob
    <2>5. IsFiniteSet(Workers) /\ U \subseteq Workers BY CoinConstants DEF Using
    <2> HIDE DEF U, V
    <2>6. IsFiniteSet(U) /\ Cardinality(U) \in Nat BY <2>5, FS_Subset, FS_CardinalityType
    <2>7. Cardinality(V) = IF w \in U THEN Cardinality(U) - 1 ELSE Cardinality(U)
        BY <2>4, <2>6, FS_RemoveElement
    <2>8. /\ used[x] > 0 => winning[x] = NoWinning
          /\ used[x] = 0 /\ U # {} => winning[x] # NoWinning
        BY DEF AllKept, Kept, U
    <2>9. used'[x] > 0 => winning'[x] = NoWinning BY <2>1, <2>2, <2>3, <2>8
    <2>10. used'[x] = 0 /\ V # {} => winning'[x] # NoWinning
        BY <2>1, <2>3, <2>4, <2>8
    <2>11. used'[x] + Cardinality(V) <= used[x] + Cardinality(U)
        BY <2>1, <2>2, <2>6, <2>7
    <2> QED BY <2>9, <2>10, <2>11 DEF Kept, Falls, U, V
<1> QED BY <1>7, <1>8, <1>9 DEF AllKept

LEMMA AllKeptKept ==
    ASSUME Jobs, Tables, Ledger, AllKept, NEW w \in Workers, Step(w)
    PROVE  /\ winning' \in [Winnings -> [owner : Players \cup {None}, value : Nat]]
           /\ used' \in [Winnings -> Nat]
           /\ AllKept'
           /\ \A x \in Winnings : used[x] > 0 => Falls(x)
<1> USE DEF rows, history
<1>1. CASE Commit(w) \/ Abort(w)
    <2>1. PICK X \in {{}, job[w].items} : Wins(w, X) BY <1>1, EndsWin
    <2> QED BY <2>1, WinsKept
<1>2. winning \in [Winnings -> [owner : Players \cup {None}, value : Nat]] /\ used \in [Winnings -> Nat]
    BY DEF Ledger, Numbers
<1>5. \A x \in Winnings : used'[x] = used[x] /\ Using(x)' = Using(x) => Falls(x)
    <2>1. \A x \in Winnings : used[x] \in Nat /\ Cardinality(Using(x)) \in Nat
        BY <1>2, CoinConstants, FS_Subset, FS_CardinalityType DEF Using
    <2> QED BY <2>1 DEF Falls
<1>3. CASE Lock(w)
    <2>1. UNCHANGED <<winning, used>> /\ \A o \in Workers : job'[o].items = job[o].items
        BY <1>3 DEF Lock, Jobs, Fields
    <2>2. \A x : Using(x)' = Using(x) BY <2>1 DEF Using
    <2> QED BY <1>2, <1>5, <2>1, <2>2 DEF AllKept, Kept
<1>4. CASE Start(w)
    <2>1. PICK j : /\ job[w] = NoJob /\ job' = [job EXCEPT ![w] = j]
                   /\ j.player \in Players /\ Asks(j)
                   /\ UNCHANGED <<today, rows, lock, history>>
        BY <1>4, RequestsBegin DEF Begins
    <2>2. UNCHANGED <<winning, used>> /\ \A o \in Workers : job'[o] = IF o = w THEN j ELSE job[o]
        BY <2>1 DEF Jobs
    <2>3. ASSUME NEW x \in Winnings PROVE Kept(x)' /\ (used[x] > 0 => Falls(x))
        <3>1. CASE x \in j.items
            <4>1. winning[x].owner = j.player BY <2>1, <3>1 DEF Asks, Held
            <4>2. winning[x] # NoWinning BY <2>1, <4>1, CoinConstants DEF NoWinning
            <4>3. used[x] = 0 BY <1>2, <4>2 DEF AllKept, Kept
            <4> QED BY <2>2, <4>2, <4>3 DEF Kept
        <3>2. CASE x \notin j.items
            <4>1. job[w].items = {} BY <2>1 DEF NoJob
            <4>2. Using(x)' = Using(x) BY <2>2, <3>2, <4>1 DEF Using
            <4> QED BY <1>5, <2>2, <4>2 DEF AllKept, Kept
        <3> QED BY <3>1, <3>2
    <2> QED BY <1>2, <2>2, <2>3 DEF AllKept
<1> QED BY <1>1, <1>3, <1>4 DEF Step

--------------------------------------------------------------------------------
(* The invariant. *)

\* Off the rows that a grant has blurred.
Balanced == \A p \in Players : Row("coins", p) \notin blurred => coins[p] = due[p]

Inv ==
    /\ Jobs
    /\ Tables
    /\ Holds
    /\ owned \subseteq Players
    /\ PaidOnce
    /\ DaysCount
    /\ Ledger
    /\ Balanced
    /\ Numbered
    /\ AllKept

LEMMA NumbersKept ==
    ASSUME Inv, NEW w \in Workers, Step(w)
    PROVE  Numbers'
<1>1. Jobs /\ Tables /\ Ledger /\ Numbered /\ AllKept BY DEF Inv
<1>2. MoneyMoves(w) BY <1>1, MoneyStep
<1>3. SeedsTyped' BY <1>1, SeedsKept
<1>4. premium' \in [Players -> Nat] BY <1>1, PremiumStep
<1>5. /\ winning' \in [Winnings -> [owner : Players \cup {None}, value : Nat]]
      /\ used' \in [Winnings -> Nat]
    BY <1>1, AllKeptKept
<1> QED BY <1>2, <1>3, <1>4, <1>5 DEF Numbers, MoneyMoves, SeedsTyped

LEMMA BalancedKept ==
    ASSUME Ledger, Balanced, NEW w \in Workers, MoneyMoves(w)
    PROVE  Balanced'
<1>1. /\ coins \in [Players -> Nat] /\ coins' \in [Players -> Nat]
      /\ due \in [Players -> Int] /\ due' \in [Players -> Int]
    BY DEF MoneyMoves, Ledger, Numbers
<1>2. ASSUME NEW p \in Players, Row("coins", p) \notin blurred' PROVE coins'[p] = due'[p]
    <2>1. coins[p] = due[p] /\ coins'[p] - due'[p] = coins[p] - due[p]
        BY <1>2 DEF MoneyMoves, Balanced
    <2>2. coins[p] \in Int /\ coins'[p] \in Int /\ due[p] \in Int /\ due'[p] \in Int BY <1>1
    <2> QED BY <2>1, <2>2
<1> QED BY <1>2 DEF Balanced

LEMMA InvInit == Init => Inv
<1> SUFFICES ASSUME Init PROVE Inv OBVIOUS
<1> USE DEF Init
<1>1. Jobs BY DEF Jobs, NoJob, Fields
<1>2. Tables BY DEF Tables
<1>3. Holds BY DEF Holds, Buys, Extends, SpinsFree, NoJob
<1>4. PaidOnce BY DEF PaidOnce
<1>5. DaysCount BY DEF DaysCount, Streaks
<1>6. Numbers
    <2>1. StartCoins \in Nat /\ PotFloor \in Nat /\ 0 \in Nat BY CoinConstants
    <2>2. coins \in [Players -> Nat] /\ due \in [Players -> Int] BY <2>1
    <2>3. seed \in [Players -> Nat \X Nat] OBVIOUS
    <2>4. winning \in [Winnings -> [owner : Players \cup {None}, value : Nat]] BY DEF NoWinning
    <2>5. premium \in [Players -> Nat] /\ used \in [Winnings -> Nat] OBVIOUS
    <2>6. spins \in Seq(Players \X Nat \X Nat) OBVIOUS
    <2> QED BY <2>1, <2>2, <2>3, <2>4, <2>5, <2>6 DEF Numbers
<1>7. Payers
    <2>1. << >> \in Seq(LockRows) OBVIOUS
    <2>2. \A w \in Workers : job[w] = NoJob OBVIOUS
    <2> QED BY <2>1, <2>2 DEF Payers, Pays, NoJob
<1>8. Balanced BY DEF Balanced
<1>9. Numbered
    <2>1. Len(spins) = 0 /\ 1..0 = {} OBVIOUS
    <2>2. \A p, s : Under(spins, p, s, 0) = {} BY DEF Under
    <2>3. \A p \in Players : seed[p][2] = 0 OBVIOUS
    <2> HIDE DEF Init
    <2> QED BY <2>1, <2>2, <2>3, FS_EmptySet DEF Numbered
<1>10. AllKept
    <2>1. \A x \in Winnings : used[x] = 0 /\ Using(x) = {} BY DEF Using, NoJob
    <2> QED BY <2>1 DEF AllKept, Kept
<1> QED BY <1>1, <1>2, <1>3, <1>4, <1>5, <1>6, <1>7, <1>8, <1>9, <1>10 DEF Inv, Ledger

LEMMA InvNext == Inv /\ [Next]_vars => Inv'
<1> SUFFICES ASSUME Inv, [Next]_vars PROVE Inv' OBVIOUS
<1> USE DEF Inv
<1>1. CASE UNCHANGED vars \/ NextDay
    <2>1. UNCHANGED <<rows, lock, job, history>> /\ today' \in Nat \ {0}
        BY <1>1 DEF vars, NextDay, Tables
    <2> USE DEF rows, history
    <2>2. Jobs' BY <2>1 DEF Jobs
    <2>3. Tables' BY <2>1 DEF Tables
    <2>4. Holds' BY <2>1 DEF Holds, Buys, Extends, SpinsFree
    <2>5. PaidOnce' /\ owned' \subseteq Players BY <2>1 DEF PaidOnce
    <2>6. DaysCount' BY <2>1 DEF DaysCount
    <2>7. Numbers' BY <2>1 DEF Ledger, Numbers
    <2>8. Payers' BY <2>1 DEF Ledger, Payers, Pays, Takes
    <2>9. Balanced' BY <2>1 DEF Balanced
    <2>10. Numbered' BY <2>1 DEF Numbered, Under
    <2>11. AllKept' BY <2>1 DEF AllKept, Kept, Using
    <2> QED BY <2>2, <2>3, <2>4, <2>5, <2>6, <2>7, <2>8, <2>9, <2>10, <2>11 DEF Ledger
<1>2. ASSUME NEW w \in Workers, Step(w) PROVE Inv'
    <2>1. Jobs' /\ blurred \subseteq blurred' BY <1>2, OthersKeep
    <2>2. Writes(w) BY <1>2, StepsWrite
    <2>3. Tables' BY <1>2, TablesKept
    <2>4. Holds' BY <1>2, HoldsKept
    <2>5. PaidOnce' /\ owned' \subseteq Players BY <2>1, <2>2, PaymentsKept
    <2>6. DaysCount' BY <2>2, DaysKept
    <2>7. Numbers' BY <1>2, NumbersKept
    <2>8. Payers' BY <1>2, PayersKept
    <2>9. Balanced' BY <1>2, MoneyStep, BalancedKept
    <2>10. Numbered' BY <1>2, SeedsKept
    <2>11. AllKept' BY <1>2, AllKeptKept
    <2> QED BY <2>1, <2>3, <2>4, <2>5, <2>6, <2>7, <2>8, <2>9, <2>10, <2>11 DEF Ledger
<1> QED BY <1>1, <1>2 DEF Next, Step

\* A cosmetic is paid for once and premium time is added once for each
\* purchase, whatever requests run at once (game_ui_cosmetics.py:151-163,
\* battlepass_service.py:83-112).
THEOREM CosmeticsPaidOnce == Spec => []PaidOnce
<1>1. Inv => PaidOnce BY DEF Inv
<1> QED BY <1>1, InvInit, InvNext, PTL DEF Spec

\* One free spin a day and a streak that counts consecutive days, across
\* midnight and from any number of tabs (void_upgrader_service.py:250-279).
THEOREM OneFreeSpinADay == Spec => []FreeSpinsDaily
<1>1. Inv => FreeSpinsDaily BY DEF Inv, DaysCount, Streaks, FreeSpinsDaily
<1> QED BY <1>1, InvInit, InvNext, PTL DEF Spec

\* Balances, seeds, winnings and locks hold what their columns may hold; no
\* balance and no jackpot is ever negative (void_upgrader_service.py:320-361).
THEOREM TypeCorrect == Spec => []TypeOK
<1>1. Inv => TypeOK
    <2> SUFFICES ASSUME Inv PROVE TypeOK OBVIOUS
    <2>1. today \in Nat /\ daily \in [Players -> Nat \X Nat] /\ lock \in [LockRows -> Workers \cup {None}]
        BY DEF Inv, Tables
    <2>2. Numbers /\ owned \subseteq Players BY DEF Inv, Ledger
    <2> QED BY <2>1, <2>2 DEF Numbers, TypeOK
<1> QED BY <1>1, InvInit, InvNext, PTL DEF Spec

\* No coin and nothing of the jackpot is lost or made by requests that race,
\* except where a grant overlaps them (void_upgrader_service.py:171-178, 320-361;
\* game_sync_void_coins.py:51-54).
THEOREM CoinsAreAccounted == Spec => []CoinsAccounted
<1>1. Inv => CoinsAccounted BY DEF Inv, Balanced, Ledger, Numbers, CoinsAccounted
<1> QED BY <1>1, InvInit, InvNext, PTL DEF Spec

\* The spins under a seed have the nonces 0, 1, 2, ... in turn, however spins
\* and rotations race (void_upgrader_service.py:621-639).
THEOREM NoncesInTurn == Spec => []NoncesCount
<1>1. Inv => NoncesCount BY NumberedCounts DEF Inv, Ledger, Numbers
<1> QED BY <1>1, InvInit, InvNext, PTL DEF Spec

\* A winning that was sold, claimed or staked is used again at most by the
\* requests that had read it before (void_upgrader_service.py:428-570).
THEOREM WinningsAreSpent == Spec => WinningsSpent
<1>1. ASSUME Inv, [Next]_vars, NEW x \in Winnings, used[x] > 0
      PROVE  Falls(x)
    <2>1. CASE UNCHANGED <<used, job>>
        <3>1. used[x] \in Nat /\ Cardinality(Using(x)) \in Nat
            BY <1>1, CoinConstants, FS_Subset, FS_CardinalityType DEF Using, Inv, Ledger, Numbers
        <3>2. Using(x)' = Using(x) /\ used' = used BY <2>1 DEF Using
        <3> QED BY <3>1, <3>2 DEF Falls
    <2>2. CASE \E w \in Workers : Step(w)
        <3>1. PICK w \in Workers : Step(w) BY <2>2
        <3>2. Jobs /\ Tables /\ Ledger /\ AllKept BY <1>1 DEF Inv
        <3> QED BY <1>1, <3>1, <3>2, AllKeptKept
    <2> QED BY <1>1, <2>1, <2>2 DEF Next, Step, NextDay, vars, rows, history
<1>2. Inv /\ [Next]_vars => \A x \in Winnings : used[x] > 0 =>
          used'[x] + Cardinality(Using(x)') <= used[x] + Cardinality(Using(x))
    BY <1>1 DEF Falls
<1> QED BY <1>2, InvInit, InvNext, PTL DEF Spec, WinningsSpent
================================================================================
