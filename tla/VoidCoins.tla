------------------------------- MODULE VoidCoins -------------------------------
(***************************************************************************)
(* Void Coins, the premium currency, and everybody who changes a balance:  *)
(* the Void Upgrader (services/void_upgrader_service.py: spins, the daily  *)
(* free spin, the jackpot, the winnings), the cosmetics shop               *)
(* (routes/game_ui_cosmetics.py), the premium battle pass                  *)
(* (routes/game_ui_battlepass.py) and the grants of a game server or of an *)
(* administrator (routes/game_sync_void_coins.py, routes/royale.py).       *)
(*                                                                         *)
(* A worker is a session that serves one request in one transaction at     *)
(* READ COMMITTED.  A request first reads without a lock (Begin), then     *)
(* locks the rows it changes one by one (Lock; a conditional UPDATE, an    *)
(* upsert or FOR UPDATE checks its condition under the lock), then writes  *)
(* everything and commits (Commit).  A row that is locked does not change, *)
(* so what is read under its lock may be read at the commit.               *)
(***************************************************************************)
EXTENDS Integers, FiniteSets, Functions, Sequences

CONSTANTS
    Players,
    Workers,
    Winnings,       \* rows of void_upgrader_winnings
    Values,         \* vc_value of the rewards
    Stakes,         \* the stakes players choose
    FreeStake,      \* the stake of the daily free spin
    MaxMultiplier,  \* of the settings
    PotFloor,       \* jackpot_seed of the settings
    Contribution,   \* jackpot_rate of a stake, rounded
    Price,          \* of the cosmetic, and of 30 days of premium
    Grants,         \* amounts granted, negative ones included
    StartCoins,
    MaxRequests,    \* bounds the requests of a run
    MaxDay,         \* bounds its days
    None

ASSUME CoinConstants ==
    /\ Values \subseteq Nat \ {0} /\ Stakes \subseteq Nat \ {0} /\ FreeStake \in Nat \ {0}
    /\ MaxMultiplier \in Nat /\ PotFloor \in Nat /\ Price \in Nat \ {0}
    /\ Contribution \in [Stakes -> Nat]
    /\ Grants \subseteq Int /\ StartCoins \in Nat
    /\ MaxRequests \in Nat /\ MaxDay \in Nat
    /\ IsFiniteSet(Workers) /\ IsFiniteSet(Winnings)
    /\ None \notin Players \cup Workers

VARIABLES
    today,      \* the date
    coins,      \* void_coins of every player
    pot,        \* the jackpot
    seed,       \* <<number, nonce>>: the active seed of a player and its next nonce
    daily,      \* <<last free spin, streak>>
    winning,    \* the winnings: owner and value
    owned,      \* the players that own the cosmetic
    premium,    \* purchases and gifts of premium time that count
    lock,       \* the worker that holds the lock of a row
    job,        \* the request of a worker
    begun,      \* requests so far
    due,        \* history: what a player was granted, paid and won, in all
    potDue,     \* history: the same of the pot
    blurred,    \* history: rows overwritten with a value from an older state
    spins,      \* history: <<player, seed number, nonce>> of every spin recorded
    free,       \* history: the days of a player's free spins
    used,       \* history: how often a winning was sold, claimed or staked
    paid        \* history: purchases: of the cosmetic for a player, of premium by him

rows == <<coins, pot, seed, daily, winning, owned, premium>>
history == <<due, potDue, blurred, spins, free, used, paid>>
vars == <<today, rows, lock, job, begun, history>>

NoJob == [kind |-> "none", player |-> None, for |-> None, stake |-> 0, value |-> 0,
          items |-> {}, seen |-> 0, day |-> 0, locks |-> << >>]

NoWinning == [owner |-> None, value |-> 0]

Row(table, p) == <<table, p>>
Pot == <<"pot">>
LockRows == {Row(table, p) : table \in {"daily", "seed", "coins", "owned"}, p \in Players} \cup {Pot}

Held(p) == {x \in Winnings : winning[x].owner = p}

--------------------------------------------------------------------------------
(* The checks. *)

\* The reward must be worth more than the stake, but not too much more.
Upward(stake, value) == stake < value /\ value <= MaxMultiplier * stake

\* Mutant of Affords: no condition in the UPDATE.
AffordsAlways(w) == TRUE

\* WHERE void_coins >= stake, evaluated under the row lock.
Affords(w) == job[w].stake <= coins[job[w].player]

\* Mutant of DailyFree: the date of the upsert is not compared.
DailyFreeAlways(w) == TRUE

\* WHERE last_free_spin_date < today.
DailyFree(w) == daily[job[w].player][1] < job[w].day

Streak(w) ==
    LET p == job[w].player IN
    IF daily[p][1] # 0 /\ daily[p][1] = job[w].day - 1 THEN daily[p][2] + 1 ELSE 1

\* Mutant of NotYetOwned: the table has no unique key.
NotYetOwnedAlways(w) == TRUE

\* The unique key of figura_cosmetic_owned.
NotYetOwned(w) == job[w].for \notin owned

\* What a request checks of a row once it has it.
Passes(w, row) ==
    CASE row[1] = "coins" -> job[w].kind \in {"spin", "cosmetic", "premium"} => Affords(w)
      [] row[1] = "daily" -> DailyFree(w)
      [] row[1] = "owned" -> NotYetOwned(w)
      [] OTHER -> TRUE

\* The rows a request locks, in this order.
Plan(kind, p, q) ==
    CASE kind = "spin"     -> <<Row("seed", p), Row("coins", p), Pot>>
      [] kind = "free"     -> <<Row("daily", p), Row("seed", p)>>
      [] kind = "trade up" -> <<Row("seed", p)>>
      [] kind = "rotate"   -> <<Row("seed", p)>>
      [] kind = "sell"     -> <<Row("coins", p)>>
      [] kind = "cosmetic" -> <<Row("coins", p), Row("owned", q)>>
      [] kind = "premium"  -> <<Row("coins", p)>>
      [] kind = "grant"    -> <<Row("coins", p)>>
      [] OTHER             -> << >>

--------------------------------------------------------------------------------
(* Requests begin: what they check and keep of rows they have not locked. *)

Begin(w, j) ==
    /\ job[w] = NoJob
    /\ begun < MaxRequests
    /\ begun' = begun + 1
    /\ job' = [job EXCEPT ![w] = [j EXCEPT !.locks = Plan(j.kind, j.player, j.for)]]
    /\ UNCHANGED <<today, rows, lock, history>>

\* The account is read with the token, before anything else.
Request(kind, p) == [NoJob EXCEPT !.kind = kind, !.player = p, !.seen = coins[p]]

Spin(w, p, stake, value) ==
    /\ stake <= coins[p]
    /\ Upward(stake, value)
    /\ Begin(w, [Request("spin", p) EXCEPT !.stake = stake, !.value = value])

FreeSpin(w, p, value) ==
    /\ Upward(FreeStake, value)
    /\ Begin(w, [Request("free", p) EXCEPT !.value = value, !.day = today])

TradeUp(w, p, x, value) ==
    /\ x \in Held(p)
    /\ Upward(winning[x].value, value)
    /\ Begin(w, [Request("trade up", p) EXCEPT !.items = {x}, !.value = value])

\* One winning or all of them.
OneOrAll(p) == {{x} : x \in Held(p)} \cup ({Held(p)} \ {{}})

ValueOf(X) == SumFunctionOnSet([x \in X |-> winning[x].value], X)

Sell(w, p, X) ==
    /\ X \in OneOrAll(p)
    /\ Begin(w, [Request("sell", p) EXCEPT !.items = X, !.value = ValueOf(X)])

Claim(w, p, X) == X \in OneOrAll(p) /\ Begin(w, [Request("claim", p) EXCEPT !.items = X])

RotateSeed(w, p) == Begin(w, Request("rotate", p))

\* For oneself, or as a present.
BuyCosmetic(w, p, q) ==
    /\ q \notin owned
    /\ Begin(w, [Request("cosmetic", p) EXCEPT !.for = q, !.stake = Price])

BuyPremium(w, p) ==
    Begin(w, [Request("premium", p) EXCEPT !.stake = Price, !.seen = premium[p]])

\* The balance is read now and written as a number later.
Grant(w, p, amount) == Begin(w, [Request("grant", p) EXCEPT !.stake = amount])

\* grant_premium for an administrator or a donation: likewise the expiry date.
GiftPremium(w, p) == Begin(w, [Request("gift", p) EXCEPT !.seen = premium[p]])

--------------------------------------------------------------------------------
(* Locks, and the ends of requests. *)

\* The premium record is read once the coins are paid.
AfterLock(w) == IF job[w].kind = "premium" THEN premium[job[w].player] ELSE job[w].seen

Lock(w) ==
    /\ job[w].locks # << >>
    /\ LET row == Head(job[w].locks) IN
       /\ lock[row] = None
       /\ Passes(w, row)
       /\ lock' = [lock EXCEPT ![row] = w]
       /\ job' = [job EXCEPT ![w].locks = Tail(@), ![w].seen = AfterLock(w)]
    /\ UNCHANGED <<today, rows, begun, history>>

End(w) ==
    /\ job' = [job EXCEPT ![w] = NoJob]
    /\ lock' = [row \in LockRows |-> IF lock[row] = w THEN None ELSE lock[row]]

\* A refusal, a violated key, a lost connection: the transaction is rolled back.
Abort(w) ==
    /\ job[w] # NoJob
    /\ End(w)
    /\ UNCHANGED <<today, rows, begun, history>>

Ready(w, kind) == job[w].kind = kind /\ job[w].locks = << >>

Add(f, p, n) == [f EXCEPT ![p] = @ + n]

\* A spin is recorded under the player's seed and its nonce, which moves on.
\* Mutant of NextSeed: the nonce is not advanced.
NextSeedSame(p) == seed[p]
NextSeed(p) == <<seed[p][1], seed[p][2] + 1>>

Roll(p) ==
    /\ spins' = Append(spins, <<p, seed[p][1], seed[p][2]>>)
    /\ seed' = [seed EXCEPT ![p] = NextSeed(p)]

\* The outcomes of a spin: nothing is won, or one more row of winnings.
Prizes(w, rest) ==
    {rest} \cup {[rest EXCEPT ![x] = [owner |-> job[w].player, value |-> job[w].value]] :
                    x \in {y \in Winnings : winning[y] = NoWinning /\ used[y] = 0}}

\* Mutant of Remaining: the rows are not deleted.
RemainingAll(X) == winning

\* DELETE of rows that another request has deleted meanwhile only warns.
Remaining(X) == [x \in Winnings |-> IF x \in X THEN NoWinning ELSE winning[x]]

Use(X) == used' = [x \in Winnings |-> used[x] + (IF x \in X THEN 1 ELSE 0)]

\* Mutant of CoinsAfter: the balance is written from the value read at first.
CoinsAfterSeen(w, n) == job[w].seen + n

\* UPDATE ... SET void_coins = void_coins + n.
CoinsAfter(w, n) == coins[job[w].player] + n

Pay(w, n) ==
    LET p == job[w].player IN
    /\ coins' = [coins EXCEPT ![p] = CoinsAfter(w, n)]
    /\ due' = Add(due, p, n)

CommitSpin(w) ==
    LET p == job[w].player
        stake == job[w].stake
        fed == pot + Contribution[stake]
    IN
    /\ Ready(w, "spin")
    /\ Roll(p)
    /\ winning' \in Prizes(w, winning)
    /\ \/ pot' = fed /\ Pay(w, -stake) /\ potDue' = potDue + Contribution[stake]
       \/ /\ pot' = PotFloor
          /\ Pay(w, fed - stake)
          /\ potDue' = potDue + Contribution[stake] - fed + PotFloor
    /\ End(w)
    /\ UNCHANGED <<today, daily, owned, premium, begun, blurred, free, used, paid>>

CommitFreeSpin(w) ==
    LET p == job[w].player IN
    /\ Ready(w, "free")
    /\ daily' = [daily EXCEPT ![p] = <<job[w].day, Streak(w)>>]
    /\ free' = [free EXCEPT ![p] = Append(@, job[w].day)]
    /\ Roll(p)
    /\ winning' \in Prizes(w, winning)
    /\ End(w)
    /\ UNCHANGED <<today, coins, pot, owned, premium, begun, due, potDue, blurred, used, paid>>

\* The staked item is consumed either way.
CommitTradeUp(w) ==
    /\ Ready(w, "trade up")
    /\ Roll(job[w].player)
    /\ winning' \in Prizes(w, Remaining(job[w].items))
    /\ Use(job[w].items)
    /\ End(w)
    /\ UNCHANGED <<today, coins, pot, daily, owned, premium, begun, due, potDue, blurred, free, paid>>

CommitSell(w) ==
    /\ Ready(w, "sell")
    /\ Pay(w, job[w].value)
    /\ winning' = Remaining(job[w].items)
    /\ Use(job[w].items)
    /\ End(w)
    /\ UNCHANGED <<today, pot, seed, daily, owned, premium, begun, potDue, blurred, spins, free, paid>>

\* The items go to the player by web actions.
CommitClaim(w) ==
    /\ Ready(w, "claim")
    /\ winning' = Remaining(job[w].items)
    /\ Use(job[w].items)
    /\ End(w)
    /\ UNCHANGED <<today, coins, pot, seed, daily, owned, premium, begun,
                   due, potDue, blurred, spins, free, paid>>

CommitRotate(w) ==
    /\ Ready(w, "rotate")
    /\ seed' = [seed EXCEPT ![job[w].player] = <<@[1] + 1, 0>>]
    /\ End(w)
    /\ UNCHANGED <<today, coins, pot, daily, winning, owned, premium, begun, history>>

CommitCosmetic(w) ==
    /\ Ready(w, "cosmetic")
    /\ Pay(w, -Price)
    /\ owned' = owned \cup {job[w].for}
    /\ paid' = [paid EXCEPT !.cosmetic[job[w].for] = @ + 1]
    /\ End(w)
    /\ UNCHANGED <<today, pot, seed, daily, winning, premium, begun, potDue, blurred, spins, free, used>>

Extend(w) ==
    LET p == job[w].player IN
    /\ premium' = [premium EXCEPT ![p] = job[w].seen + 1]
    /\ paid' = [paid EXCEPT !.premium[p] = @ + 1]

CommitPremium(w) ==
    /\ Ready(w, "premium")
    /\ Pay(w, -Price)
    /\ Extend(w)
    /\ End(w)
    /\ UNCHANGED <<today, pot, seed, daily, winning, owned, begun, potDue, blurred, spins, free, used>>

\* The premium record of the player is not what another request takes it for.
PremiumOverlaps(w) ==
    \/ premium[job[w].player] # job[w].seen
    \/ \E u \in Workers \ {w} : /\ job[u].kind \in {"premium", "gift"}
                               /\ job[u].player = job[w].player

CommitGift(w) ==
    /\ Ready(w, "gift")
    /\ Extend(w)
    /\ blurred' = IF PremiumOverlaps(w) THEN blurred \cup {Row("premium", job[w].player)} ELSE blurred
    /\ End(w)
    /\ UNCHANGED <<today, coins, pot, seed, daily, winning, owned, begun,
                   due, potDue, spins, free, used>>

AtLeastZero(n) == IF n < 0 THEN 0 ELSE n

\* A balance that is to be what it was is not written.
CommitGrant(w) ==
    LET p == job[w].player
        seen == job[w].seen
        written == AtLeastZero(seen + job[w].stake)
    IN
    /\ Ready(w, "grant")
    /\ coins' = [coins EXCEPT ![p] = IF written = seen THEN @ ELSE written]
    /\ due' = Add(due, p, written - seen)
    /\ blurred' = IF coins[p] = seen \/ written = seen THEN blurred
                  ELSE blurred \cup {Row("coins", p)}
    /\ End(w)
    /\ UNCHANGED <<today, pot, seed, daily, winning, owned, premium, begun,
                   potDue, spins, free, used, paid>>

NextDay ==
    /\ today < MaxDay
    /\ today' = today + 1
    /\ UNCHANGED <<rows, lock, job, begun, history>>

--------------------------------------------------------------------------------
Init ==
    /\ today = 1
    /\ coins = [p \in Players |-> StartCoins]
    /\ pot = PotFloor
    /\ seed = [p \in Players |-> <<1, 0>>]
    /\ daily = [p \in Players |-> <<0, 0>>]
    /\ winning = [x \in Winnings |-> NoWinning]
    /\ owned = {}
    /\ premium = [p \in Players |-> 0]
    /\ lock = [row \in LockRows |-> None]
    /\ job = [w \in Workers |-> NoJob]
    /\ begun = 0
    /\ due = coins
    /\ potDue = pot
    /\ blurred = {}
    /\ spins = << >>
    /\ free = [p \in Players |-> << >>]
    /\ used = [x \in Winnings |-> 0]
    /\ paid = [cosmetic |-> [p \in Players |-> 0], premium |-> [p \in Players |-> 0]]

Start(w) ==
    \E p \in Players :
        \/ \E stake \in Stakes, value \in Values : Spin(w, p, stake, value)
        \/ \E value \in Values : FreeSpin(w, p, value)
        \/ \E x \in Winnings, value \in Values : TradeUp(w, p, x, value)
        \/ \E X \in SUBSET Winnings : Sell(w, p, X) \/ Claim(w, p, X)
        \/ RotateSeed(w, p)
        \/ \E q \in Players : BuyCosmetic(w, p, q)
        \/ BuyPremium(w, p)
        \/ \E amount \in Grants : Grant(w, p, amount)
        \/ GiftPremium(w, p)

Commit(w) ==
    \/ CommitSpin(w)
    \/ CommitFreeSpin(w)
    \/ CommitTradeUp(w)
    \/ CommitSell(w)
    \/ CommitClaim(w)
    \/ CommitRotate(w)
    \/ CommitCosmetic(w)
    \/ CommitPremium(w)
    \/ CommitGift(w)
    \/ CommitGrant(w)

Next ==
    \/ NextDay
    \/ \E w \in Workers : Start(w) \/ Lock(w) \/ Commit(w) \/ Abort(w)

Spec == Init /\ [][Next]_vars

--------------------------------------------------------------------------------
(* Properties. *)

\* Balances and premium records may be blurred.
BlurRows == {Row(table, p) : table \in {"coins", "premium"}, p \in Players}

TypeOK ==
    /\ today \in Nat
    /\ coins \in [Players -> Nat]
    /\ pot \in Nat
    /\ seed \in [Players -> Nat \X Nat]
    /\ daily \in [Players -> Nat \X Nat]
    /\ winning \in [Winnings -> [owner : Players \cup {None}, value : Nat]]
    /\ owned \subseteq Players
    /\ premium \in [Players -> Nat]
    /\ lock \in [LockRows -> Workers \cup {None}]
    /\ blurred \subseteq BlurRows
    /\ used \in [Winnings -> Nat]

\* No coin is lost or made by requests that race for a balance or for the
\* jackpot: a balance is what was granted, won and sold less what was spent,
\* unless a grant, which writes the number it computed, overlapped another
\* change (void_upgrader_service.py:171-178, 320-361; game_sync_void_coins.py:51-54).
CoinsAccounted ==
    /\ \A p \in Players : Row("coins", p) \notin blurred => coins[p] = due[p]
    /\ pot = potDue

\* Every spin can be verified: the spins under a seed have the nonces 0, 1, 2,
\* ... in turn, none twice and none left out, however spins, free spins,
\* trade-ups and rotations race (void_upgrader_service.py:621-639).
NoncesCount ==
    /\ \A i \in DOMAIN spins :
          spins[i][3] = Cardinality({k \in 1..(i - 1) : /\ spins[k][1] = spins[i][1]
                                                       /\ spins[k][2] = spins[i][2]})
    /\ \A p \in Players :
          seed[p][2] = Cardinality({k \in DOMAIN spins : spins[k][1] = p /\ spins[k][2] = seed[p][1]})

\* One free spin a day, two tabs or midnight between two statements
\* notwithstanding, and the streak is the number of consecutive days that end
\* with the last one (void_upgrader_service.py:250-279).
FreeSpinsDaily ==
    \A p \in Players :
        LET days == free[p]
            streak == daily[p][2]
        IN
        /\ \A i, k \in DOMAIN days : i < k => days[i] < days[k]
        /\ days # << >> =>
              /\ \A i \in 1..streak : \E k \in DOMAIN days : days[k] = daily[p][1] - streak + i
              /\ \A k \in DOMAIN days : days[k] # daily[p][1] - streak

\* A cosmetic is paid for once, whoever buys it or gives it at the same time,
\* and every premium purchase adds its days, unless somebody was given
\* premium just then (game_ui_cosmetics.py:151-163, 197-206;
\* game_ui_battlepass.py:324-345, battlepass_service.py:83-112).
PaidOnce ==
    \A p \in Players :
        /\ paid.cosmetic[p] = (IF p \in owned THEN 1 ELSE 0)
        /\ Row("premium", p) \notin blurred => premium[p] = paid.premium[p]

\* The requests that have read a winning and not yet ended.
Using(x) == {w \in Workers : x \in job[w].items}

\* What has been sold, claimed or staked is spent: it is used again at most by
\* the requests that had read it before the first of them committed.  Nobody
\* who comes later gets it, whatever they win, sell or claim in between
\* (void_upgrader_service.py:428-570).
WinningsSpent ==
    [][\A x \in Winnings : used[x] > 0 =>
          used'[x] + Cardinality(Using(x)') <= used[x] + Cardinality(Using(x))]_vars
================================================================================
