-------------------------------- MODULE Treasuries --------------------------------
(***************************************************************************)
(* The treasuries of the nations and everything that writes a balance but  *)
(* the alliances: deposits, withdrawals and the tax                        *)
(* (services/nation_stats_service.py), research and the central bank's     *)
(* interest (nation_research_service.py), the season's prizes              *)
(* (nation_season_service.py), the reward for a capital                    *)
(* (game_sync_service.py) and sales on the nations' market                 *)
(* (economy_market_service.py).                                            *)
(*                                                                         *)
(* A balance is read, computed anew and written as a number.  Some read it *)
(* FOR UPDATE and keep the lock to their commit, the others read it        *)
(* without and only wait for the locks of others when they write.          *)
(***************************************************************************)
EXTENDS Nations

CONSTANTS
    Amounts,    \* of deposits, withdrawals and sales
    Cost,       \* of a level of research
    MaxLevel,   \* of the research
    Prize,      \* of the season, and for the first capital
    MaxWeek     \* bounds the weeks

ASSUME TreasuriesConstants ==
    Amounts \subseteq Nat /\ {Cost, MaxLevel, Prize, MaxWeek} \subseteq Nat /\ MaxWeek > 0

VARIABLES
    treasury,   \* treasury_balance
    level,      \* of the central bank's research node
    capital,    \* nations whose capital is set
    interestOn, \* the week of a nation's last interest, 0 if there was none
    seasonOn,   \* the week of the last season's prizes
    week,
    lock,       \* who holds the row of nation_stats FOR UPDATE
    deed,       \* the requests under way
    ledger,     \* history: what a nation's transactions add up to
    fees,       \* history: of that, what the fees of the players' market add up to
    blurred,    \* history: nations whose balance was written from an older one
    again,      \* history: what was granted, or paid for, a second time
    overlapped  \* history: what two requests were granting, or paying for, at once

books == <<treasury, level, capital, interestOn, seasonOn>>
accounts == <<ledger, fees, blurred, again, overlapped>>
money == <<books, week, lock, deed, accounts>>

\* wants: the row to lock next; todo: nations still to look at; got: nations whose
\* balance seen[n] was read and will be written.
NoDeed == [kind |-> "none", nation |-> None, amount |-> 0, level |-> 0, week |-> 0, read |-> TRUE,
           wants |-> None, todo |-> {}, got |-> {}, seen |-> [n \in Nations |-> 0]]

\* A rate of one half, rounded half up.
Half(balance) == (balance + 1) \div 2

\* What the request adds to a balance it has read as b.
Adds(d, b) ==
    CASE d.kind \in {"deposit", "sale"} -> d.amount
      [] d.kind = "withdraw" -> -d.amount
      [] d.kind = "research" -> -Cost
      [] d.kind = "interest" -> Half(b)
      [] d.kind = "tax"      -> -Half(b)
      [] d.kind \in {"season", "capital"} -> Prize

Locking == {"deposit", "withdraw", "research", "interest"}

--------------------------------------------------------------------------------
(* Requests begin. *)

BeginDeed(w, d) ==
    /\ deed[w] = NoDeed
    /\ Counted
    /\ deed' = [deed EXCEPT ![w] = [d EXCEPT !.week = week]]
    /\ UNCHANGED <<books, week, lock, accounts>>

\* One that will lock the row of n, and one that reads balances later, unlocked.
ToLock(kind, n) == [NoDeed EXCEPT !.kind = kind, !.nation = n, !.wants = n]
ToRead(kind, n) == [NoDeed EXCEPT !.kind = kind, !.nation = n, !.read = FALSE]

\* From the game by any member, from the site by those who manage the nation.
Deposit(w, u, n, amount) ==
    /\ n \in Alive /\ role[n][u] # "none"
    /\ BeginDeed(w, [ToLock("deposit", n) EXCEPT !.amount = amount])

\* From the game the plugin decides for whom, from the site as above.
Withdraw(w, n, amount) ==
    n \in Alive /\ BeginDeed(w, [ToLock("withdraw", n) EXCEPT !.amount = amount])

\* Mutant of Unlocked: one level more than there are.
UnlockedPast(n) == level[n] <= MaxLevel
\* The levels are read before the lock.
Unlocked(n) == level[n] < MaxLevel

Research(w, u, n) ==
    /\ Manages(u, n) /\ Unlocked(n)
    /\ BeginDeed(w, [ToLock("research", n) EXCEPT !.level = level[n] + 1])

\* All nations that have the research, one after the other, with one commit.
Interest(w) ==
    LET due == {n \in Alive : level[n] > 0} IN
    due # {} /\ BeginDeed(w, [NoDeed EXCEPT !.kind = "interest", !.todo = due])

Tax(w) ==
    LET rich == {n \in Alive : treasury[n] > 0} IN
    rich # {} /\ BeginDeed(w, [NoDeed EXCEPT !.kind = "tax", !.got = rich, !.seen = treasury])

\* Mutant of SeasonDue: the last prizes are not looked at.
SeasonDueAlways == TRUE
SeasonDue == seasonOn < week

Season(w) == SeasonDue /\ BeginDeed(w, ToRead("season", None))

\* Only the first capital is rewarded.
SetCapital(w, n) == n \in Alive /\ n \notin capital /\ BeginDeed(w, ToRead("capital", n))

Sale(w, n, amount) ==
    /\ n \in Alive
    /\ BeginDeed(w, [NoDeed EXCEPT !.kind = "sale", !.nation = n, !.amount = amount,
                                   !.got = {n}, !.seen = treasury])

--------------------------------------------------------------------------------
(* Balances are read. *)

InterestDue(n, w) == interestOn[n] < deed[w].week

\* The last interest is looked up before the row is locked.
LookUp(w, n) ==
    /\ deed[w].wants = None /\ n \in deed[w].todo
    /\ deed' = [deed EXCEPT ![w].todo = @ \ {n},
                            ![w].wants = IF InterestDue(n, w) THEN n ELSE None]
    /\ UNCHANGED <<begun, books, week, lock, accounts>>

\* Mutant of MayLock: the balance is read without FOR UPDATE.
MayLockAlways(n) == TRUE
MayLock(n) == lock[n] = None

\* An empty treasury bears no interest, too poor a one refuses (Fail).
LockTreasury(w) ==
    LET n == deed[w].wants IN
    /\ n # None
    /\ n \in Alive /\ MayLock(n)
    /\ treasury[n] + Adds(deed[w], treasury[n]) >= 0
    /\ lock' = [lock EXCEPT ![n] = w]
    /\ deed' = [deed EXCEPT ![w].wants = None, ![w].seen[n] = treasury[n],
                            ![w].got = IF Adds(deed[w], treasury[n]) = 0 THEN @ ELSE @ \cup {n}]
    /\ UNCHANGED <<begun, books, week, accounts>>

\* The winners of the season are who they are; a capital has its nation.
ReadBalances(w, got) ==
    /\ ~deed[w].read
    /\ got # {} /\ got \subseteq Alive
    /\ deed[w].kind = "capital" => got = {deed[w].nation}
    /\ deed' = [deed EXCEPT ![w].read = TRUE, ![w].got = got, ![w].seen = treasury]
    /\ UNCHANGED <<begun, books, week, lock, accounts>>

--------------------------------------------------------------------------------
(* Requests end. *)

Release(w) ==
    /\ lock' = [n \in Nations |-> IF lock[n] = w THEN None ELSE lock[n]]
    /\ deed' = [deed EXCEPT ![w] = NoDeed]

Fail(w) ==
    /\ deed[w] # NoDeed
    /\ Release(w)
    /\ UNCHANGED <<begun, books, week, accounts>>

\* What is granted, or paid for, here; what the others that run may be about to.
Grants(d) ==
    CASE d.kind \in {"research", "capital"} -> {<<d.kind, d.nation>>}
      [] d.kind = "interest" -> {<<"interest", n>> : n \in d.got \cup ({d.wants} \ {None})}
      [] d.kind = "season" -> {<<"season", None>>}
      [] OTHER -> {}

Had(d, g) ==
    CASE g[1] = "research" -> level[g[2]] >= d.level
      [] g[1] = "capital"  -> g[2] \in capital
      [] g[1] = "interest" -> interestOn[g[2]] >= d.week
      [] g[1] = "season"   -> seasonOn >= d.week

Later(a, b) == IF a > b THEN a ELSE b

CommitDeed(w) ==
    LET d == deed[w] IN
    /\ d.wants = None /\ d.todo = {} /\ d.got # {} /\ d.got \subseteq Alive
    /\ \A n \in d.got : lock[n] \in {None, w}
    /\ treasury' = [n \in Nations |-> IF n \in d.got THEN d.seen[n] + Adds(d, d.seen[n]) ELSE treasury[n]]
    /\ ledger' = [n \in Nations |-> IF n \in d.got THEN ledger[n] + Adds(d, d.seen[n]) ELSE ledger[n]]
    /\ level' = IF d.kind = "research" THEN [level EXCEPT ![d.nation] = d.level] ELSE level
    /\ capital' = IF d.kind = "capital" THEN capital \cup {d.nation} ELSE capital
    /\ interestOn' = IF d.kind = "interest"
                     THEN [n \in Nations |-> IF n \in d.got THEN Later(interestOn[n], d.week) ELSE interestOn[n]]
                     ELSE interestOn
    /\ seasonOn' = IF d.kind = "season" THEN Later(seasonOn, d.week) ELSE seasonOn
    /\ blurred' = IF d.kind \in Locking THEN blurred
                  ELSE blurred \cup {n \in d.got : treasury[n] # d.seen[n]}
    /\ again' = again \cup {g \in Grants(d) : Had(d, g)}
    /\ overlapped' = overlapped \cup (Grants(d) \cap UNION {Grants(deed[o]) : o \in Workers \ {w}})
    /\ Release(w)
    /\ UNCHANGED <<begun, week, fees>>

\* A trade of the players' market whose fee goes to the nation of the seller: the
\* transaction is written and the balance is not.
MarketFee(n, amount) ==
    /\ n \in Alive
    /\ Counted
    /\ ledger' = [ledger EXCEPT ![n] = @ + amount]
    /\ fees' = [fees EXCEPT ![n] = @ + amount]
    /\ UNCHANGED <<books, week, lock, deed, blurred, again, overlapped>>

NextWeek ==
    /\ week < MaxWeek
    /\ week' = week + 1
    /\ UNCHANGED <<begun, books, lock, deed, accounts>>

--------------------------------------------------------------------------------
MoneyRequest(w) ==
    \/ \E n \in Nations, u \in Users :
          \/ Research(w, u, n) \/ SetCapital(w, n)
          \/ \E amount \in Amounts : Deposit(w, u, n, amount) \/ Withdraw(w, n, amount) \/ Sale(w, n, amount)
    \/ Interest(w) \/ Tax(w) \/ Season(w)

EndMoneyRequest(w) ==
    \/ \E n \in Nations : LookUp(w, n)
    \/ LockTreasury(w)
    \/ \E got \in SUBSET Nations : ReadBalances(w, got)
    \/ CommitDeed(w) \/ Fail(w)
================================================================================
