# A verification of the VoidRP backend

TLA+ models of the parts of this backend in which several actors change the same rows, the TLC
configurations that check them, and TLAPS proofs of what holds for every size of the system.

The backend is a FastAPI application over PostgreSQL (`apps/api`), a few workers started by cron
(`apps/worker`) and a Telegram bot (`apps/bot`). Game servers take part through plugins that poll
the API and report to it; players act in the game, in WebGUI pages and in the launcher. Nothing in
the backend keeps state in memory: everything that matters is in rows, requests run concurrently
in PostgreSQL transactions at READ COMMITTED, and a plugin may be slow, down or restarted, repeat
a request or never see the answer. That is where the hard behaviour is.

## The system's parts

| part | state | operations | who interacts | hard behaviour | what makes it correct |
|---|---|---|---|---|---|
| Trader trades (`trader_service`, `trader`) | stock slots, transactions, their web actions, sessions | reserve, report, sweep | players, plugin, tick | a report races the sweep or another report; reads before a lock; deadlocks of sweeps | goods conserved, one settlement, share per player, reservations end if the plugin's ticks reach them |
| Trader visits (`trader_service`, `admin_trader`) | visits, announcements, settings | tick, look, force, end | every page, the plugin, administrators | whoever comes first rolls the visit; a forced or ended visit meets the schedule; two administrators force one at once | one visit a slot, the trader comes when he should |
| Player market (`player_market_service`) | orders, trades, deliveries | place, match, cancel, expire, deliver | players through the plugin | several rows locked in turn; limits checked without a lock; two ways of paying | goods and money conserved, price-time priority, no deadlock |
| Web actions (`game_ui_market`) | one queue of actions | queue, poll, acknowledge | pages, plugin | a poll marks nothing | action and subject agree |
| Remote files, remote console (`remote_files`, `server_console`) | job rows | call, poll, finish, drop | administrators, plugin | deadline against poll, overlapping polls, lost response | at most once, never after it was dropped, a true answer |
| Void Coins (`void_upgrader_service`, `game_ui_cosmetics`, `game_ui_battlepass`, `game_sync_void_coins`) | balances, jackpot, seeds, daily spins, winnings, cosmetics, premium | spin, trade up, sell, claim, rotate, buy, give, grant | players, game servers, administrators | rows read before they are locked; balances written as numbers next to increments | every coin accounted for, verifiable spins, one free spin a day, nothing bought twice, a used winning gone |
| Backups, restores, restarts (`worker/backups`, `server_changes`, `plugin_ops`) | job rows, maintenance flag, world folders, jars | back up, restore, apply changes, recover | administrators, cron, systemd | the worker dies between two steps; a look at the unit goes unanswered; a swap and its undoing fail; the server is started meanwhile | no world is lost, a server starts on worlds of one time, saving goes on, jars change at rest |
| Watchdog (`worker/watchdog`) | failing_since, kills of the last hour | check, kill | cron, systemd, the flag, restores | marks of an earlier process; what it looked at is older than its kill | only a process that is silent is killed, none in maintenance |
| Nations (`nation_service`, `game_sync_service`) | nations, members, join requests | create, join, leave, roles, hand over, disband, synchronise | players, game server | everything is decided on stale reads; the game server sends half a picture | one leader, one nation for each user |
| Treasuries (`nation_stats_service`, `nation_research_service`, `nation_season_service`, `economy_market_service`) | balances, their log, research, interest, prizes | deposit, withdraw, research, interest, tax, season, capital, sale, market fee | players, cron, game server | writers that lock next to writers that do not | a balance is the sum of its transactions; rewards are paid once |
| Alliances (`alliance_service`) | alliance, members, common treasury, proposals, votes | found, join, leave, dissolve, pay, propose, vote | leaders and officers | a vote executes; members go meanwhile | the founder stays, only standing nations, executed once and for good |
| Play tickets, sign-in (`play_ticket_service`, `auth_service`) | tickets, refresh sessions, devices | issue, consume, rotate, revoke | launcher, game server | concurrent issue and rotation | a ticket is used once |
| Battle Royale (`royale`) | matches, portal tickets in Redis | report, redeem, moderate | plugin | get and delete apart | a ticket is redeemed once |
| The rest | profiles, news, media, releases, notifications, permissions, mail, bot, migrations | mostly reads and single-row writes | | I/O | |

How they interact: a trader trade is open only while a visit is active and travels as a web action; the player market and
the trader hand goods out through the plugin, never through an inventory of their own; spins, purchases and grants meet in a
player's balance; the backup worker, the panel, systemd and the watchdog meet in one server's process, its folders and its
maintenance flag; nations, treasuries and alliances share their rows, and disbanding a nation touches all three.

`PROJECT.json` lists every component with its files, whether it is modelled and why not, and every
hazard at its line with the properties that cover it.

## The modules

| module | models | checked by | proofs |
|---|---|---|---|
| `TraderTrades` | the trader's trades | `TraderTrades`, `TraderTradesLive`, `TraderTradesOversell` (`MCTraderTrades`) | `TraderTradesProofs` |
| `TraderVisits` | when the trader comes | `TraderVisits`, `TraderVisitsEnded` (`MCTraderVisits`) | `TraderVisitsProofs` |
| `PlayerMarket` | the order book of one item | `PlayerMarket`, `PlayerMarketLocks` (`MCPlayerMarket`) | `PlayerMarketProofs` |
| `OneShotCalls` | what a remote call promises its caller | as a property of `RemoteJobs` | `RemoteJobsProofs` |
| `RemoteJobs` | jobs for a partner's server, files and console | `RemoteJobs`, `RemoteJobsTold` (`MCRemoteJobs`) | `RemoteJobsProofs` |
| `VoidCoins` | the premium currency and everybody who changes a balance | `VoidCoins` (`MCVoidCoins`) | `VoidCoinsProofs` |
| `ServerProcess` | a game server's process, folders and flag (systemd, RCON) | through `Hosting` | `HostingProofs` |
| `BackupWorker` | the backup worker, the queue of jar changes and the panel that applies them | through `Hosting` | `HostingProofs` |
| `Watchdog` | the watchdog | through `Hosting` | `HostingProofs` |
| `Hosting` | the three above together | `Hosting` (`MCHosting`) | `HostingProofs` |
| `Nations` | nations and their members | through `Realm` | `RealmProofs` |
| `Treasuries` | who writes a nation's balance | through `Realm` | `RealmProofs` |
| `Alliances` | an alliance, its payments and votes | through `Realm` | `RealmProofs` |
| `Realm` | the three above together, and disbanding | `Realm` (`MCRealm`) | `RealmProofs` |
| `SumLemmas` | no code: sums over finite sets | | lemmas of all the proofs that add something up |

`TraderTrades` and `TraderVisits` touch in one place: a trade begins only while its visit is active
and the player has a session. `TraderTrades` keeps that as `access`, which the world opens and
closes at will, so every history of visits that `TraderVisits` allows is one of its behaviours.

### Transactions and locks

A request is a database transaction. In `TraderTrades`, `PlayerMarket`, `VoidCoins` and
`Realm` a *worker* is a session that serves one request at a time. A request takes one step for every row lock it has to wait for,
and another at each point where what it has read may change before it uses it. Its own writes are
kept apart until it commits (`back` and `Swept` in `TraderTrades`, `job` in `PlayerMarket`), because
other sessions do not see them earlier; they are forgotten when it rolls back. `Abort` is the rollback at any point
(a lost connection, a killed process, the victim of a deadlock). Requests that lock nothing anyone
else waits for in between (a cancellation, an acknowledgement, anything in `TraderVisits` but a forced visit) are one
step. The session has `autoflush=False` (`db.py`), so `expire_stale` locks stock rows in its loop
and writes the transactions after it: that is the difference between `PutBack` and `CommitSweep`.

### TraderTrades

`BeginTrade`, `PutBack`, `PassPendingCheck`, `Reserve` and `Refuse` are `reserve` with the sweep at its
beginning; `BeginSweep`, `PutBack` and `CommitSweep` are the sweep of a tick or a page; `BeginResult` and
`Settle` are `complete_trade`. A refusal raises, the route rolls back, and the sweep that the request had
done is undone with it. `Open` and `LeftAfter` carry the two decisions on which everything hangs: whether
a report still has something to settle, and what it does to the shelf.
`late` is history: the trades that were settled after they had expired.

Assumed of the plugin: it reports only trades it has learnt of, from a poll or as the answer to a
trade of its own, any number of times and with any quantity; it settles a trader action by its result and
does not acknowledge it as a market action. Positions, prices and the visit's expiry by clock are left out.

### PlayerMarket

`BeginCreate` (the checks and the insert), `Look` (the snapshot of `SELECT ... FOR UPDATE`), `LockRow`
(once for each row, in the order of the ORDER BY) and `CommitCreate` (all fills) are `create_sell_order`
and `create_buy_order` with their matching. A row that changed while it was waited for is looked at again,
as PostgreSQL does. `Cancel`, `BeginExpire`, `CommitExpire` and `Ack` are the other operations. What
somebody is to be given is a `Handout`: it is in `answers` if the response says it, in `deliveries` if a
pending delivery does. Money is in hundredths of a coin and rounded as `_money` rounds it.

One item: orders of different items meet only in the count of a player's active orders, so one book checks
that limit less often than the code. Both limits are read in one step, before the insert; they are two queries,
and a change between them is no wider than the one the model has between check and commit. The price ticker, the trade log, the notification
and the entry in the treasury's log (`MarketFee` in `Treasuries`) are rows that no order reads; a request locks the ticker's row
when it has all the rows of the book and then waits for no more of them, so it closes no circle in
one book.

### TraderVisits

Time is a number; slots start at full seconds (even numbers) and requests run in between. `AfterActive`,
`AfterUpcoming` and `AnnouncedNow` are `active_visit`, `upcoming_visit` and `announce` as functions of the
rows; `Tick`, `Look`, `AskForce`, `End` and `Toggle` use them. `planned`, `ended` and `saw` are history. A weekend visit lasts as long as a normal one and is not told apart. `force_visit`
looks for a trader and inserts afterwards, without a lock: `AskForce` is the look, `ForceVisit` the insert, and several requests can be
between the two (`forcing`). `saw` is how many rows there were at the look. A second that is already taken gives the row that is there.

### RemoteJobs

`Queue`, `See`, `GiveUp`, `ReportLate` and `CallerCrash` are `remote_files.call` and
`server_console.run`; `BeginPoll` and `CommitPoll` are both `take_pending`; `Finish` is `finish` and
`console_result`. `Receive`, `LosePoll`, `Run` and `PluginRestart` are the plugin and the network, which are external.
A plugin that is restarted forgets what it has received and not done; it posts a result as often as it likes. The deletion of rows older than ten
minutes is left out: nobody looks at a row for that long.

#### The refinement

`OneShotCalls` is the promise without rows, polls and plugin: a call is done at most once or dropped, never both; a result that
is answered is the one the job had; a call that was reported as accepted is not dropped any more. `RemoteJobs` shows that it
implements it (`ImplementsCalls`). The mapping `JobState` takes a job for dropped once its row says so, for done as soon as the
plugin has done it and for open in between, wherever it is (in the table, in a poll, on its way, in the plugin's inbox);
`JobAnswer` is what the caller was told, with refusals and a caller that crashed as one. What makes it more than bookkeeping is that the abstract
state changes at the plugin, while all the caller can see is the row: a job must not be dropped from a row while a poll has it.

### VoidCoins

A request first reads without a lock (`Spin`, `FreeSpin`, `TradeUp`, `Sell`, `Claim`, `RotateSeed`, `BuyCosmetic`, `BuyPremium`,
`Grant`, `GiftPremium`: the checks it makes early, and what it keeps of them in `seen`), then locks the rows of its `Plan` one
by one (`Lock`; `Passes` is the WHERE clause of a conditional UPDATE or upsert, evaluated under the lock), and writes and commits
(`CommitSpin` ... `CommitGrant`). `Abort` is a refusal, a violated key or a lost connection at any point. A row that is locked does not
change, so what is read under its lock is read at the commit. The date may change between any two statements (`NextDay`): a
free spin keeps the date it read at first.

Three places of the code work on values read earlier, and the properties say exactly what they can do: a grant writes the number it
computed from the account it read with the token (`blurred` remembers where it overwrote another change), a gift of premium does
the same with the expiry date, and a winning that two requests read at once is used by both. `WinningsSpent` says what is left of "once": after the
first use only those who had read it before use it again, each at most once.

Odds, prizes, reviews and the history page are left out; a spin's outcome is a choice. The pot takes a stake's `Contribution` and is
emptied to `PotFloor`. Claimed items go out by web actions, which `VoidCoins` does not follow.

### ServerProcess, BackupWorker, Watchdog and Hosting

`ServerProcess` is external: the unit as systemd, RCON and the folder show it. The code uses three notions of "running": the main
process is there (`Running`, the panel), the unit is active (`UnitActive`, the workers), RCON answers (`Answers`). They differ
while the server boots, hangs, stops or is deactivating, and that is where the hazards are.

A look at the unit is `systemctl show` with a limit of 4 s; one that is not answered yields no properties and is read as "no process"
(`Misread`). Every action that looks at the unit therefore takes `heard`, which is FALSE for such a look: in the panel (`LookIfRunning`, `AskRestart`,
`AskPlugMan`), the worker (`Start`, `Save`, `Stop`, `WaitGone`, `LookAgain`) and the watchdog (`Check`).

`BackupWorker` is `worker/backups.py` step by step: `Start` is `recover` and the looks of `apply_when_stopped`; `TakeRestore`, `TakeRestart`, `TakeBackup`, `Leave` are
`run_once`; `Save` and `Archive` are a backup, of its own or before a restore; `Unpack`, `RaiseFlag`, `Stop`, `WaitGone`, `LookAgain`,
`MoveOut`/`MoveIn` (one rename each), `SwapFails`, `PutBack` (world by world), `PutBackFails`, `IsBack`, `Swapped`, `WaitAnswer`, `Discard` and `Finish` are a restore and, with
`ApplyQueue`, a restart that applies jar changes. `PutBackFails` is the except block failing in its turn: `rmtree` leaves what it cannot remove, the
rename raises, and this world and those after it stay in the job's folder. `QueueChange`, `LookIfRunning`, `AskRestart`, `AskPlugMan`, `PanelApplies` and `HotFails` are the panel's
side of the queue, of which `AskPlugMan` leads to `apply_hot`, which changes a plugin's jar under the running server. `Die` may come at any step: rows, folders and the flag stay, memory goes.

`Watchdog` is one check a minute: `Check` (flag, restores, unit), then an answer (`Answered`) or none (`Silent`), then the report or
the `Kill` of the process it asked, and only then the commit that counts it (`Record`); it may die, or fail to commit, at each step (`WatchdogDies`).
`Hosting` adds what happens around them: the process boots (`SystemdStarts`, `OperatorStarts`), hangs,
recovers, crashes or is stopped, somebody flips the maintenance switch, and minutes pass (`Tick`). History is `blind` and `raced` (who is touching folders or jars after a
look that misread, or while a process began), `torn` (a swap was left half done, by a death or a failed return), `kept` (the own worlds in the folder of a job that is over),
`cleared` (an administrator took the flag away in the middle of a job), `quiet` (for how long the process has been silent) and `inherited` (`failing_since` is older than the process).

Assumed: systemd waits 15 s (`RestartSec`) before it starts the unit again, in which a live worker has finished its renames, or the jars; putting
worlds back removes folders, and no such thing is assumed of it. An operator's start may come at any time. The
thread dump and what the watchdog reports are not followed; deleting and pruning archives, a change that cannot be applied (status
`failed`), a panel request killed halfway and a game server under another user (which the watchdog cannot kill) are not modelled.

### Nations, Treasuries, Alliances and Realm

No request of `nation_service` or `alliance_service` locks anything. A request reads, decides (`Begin`, with the plan it will write in `job`, `deed`
or `deal`) and writes at its commit in one flush, where PostgreSQL and the ORM hold up what no longer fits: `Fits` is
the StaleDataError of an UPDATE whose row is gone, a violated unique key and a foreign key to a nation that is gone; `NewRole` is the
DELETE of a row that has been replaced, which does nothing. Rows are numbered (`row`, `seat`), so that a member who left and came back
is a different row. An attribute that keeps its value is not written (`Keep`).

`Treasuries` has the writers of a balance: `deposit`, `withdraw`, `research` and `interest` read it FOR UPDATE (`LockTreasury`), `tax`,
`season`, `capital`, `sale` and the payments of an alliance read it without a lock and write a number (`ReadBalances`, `CommitDeed`,
`Balances` in `Alliances`); both kinds wait for locks of the others when they write. `blurred` remembers where a writer without a lock overwrote a
change. `MarketFee` is the entry that a trade of the players' market leaves in the log; the balance does not get it, and `fees` counts it. Interest looks up the last one before it locks (`LookUp`), which is why `RewardsOnce` needs its exception although the
docstring of `apply_weekly_interest` calls it idempotent by period (`nation_research_service.py:155`).

`Alliances` has one alliance and one proposal at a time. `Cast` is a vote up to its flush, with the recount and the execution it leads
to; `CommitDeal` writes what it decided, and `Expires` what becomes of the open proposal of a nation that leaves. `Realm` composes them, with `CommitDisband` for what a disbanded nation takes along by cascade and what
holds it up (`Restricted`: an alliance's reference to its founder).

`Sync` is the picture of a nation that a game server sends, with or without a leader and with or without `replace_missing`. A picture that names another leader and
replaces nobody leaves the old one his role, one without a leader changes his role or removes him and names nobody: `PassesOver`, which `misled` remembers. `crossed` and
`doubled` are history too: changes of one member that met, and users who were admitted twice.

Not in it: policies of an alliance (they can only refuse more; `Cast` may fail anyway), prefixes, media, rankings, a player's own balance
at a deposit, a synchronisation whose leader is no member yet (it would add two rows for him and always fails).

## What is checked

| run | question | properties | distinct states |
|---|---|---|---|
| `TraderTrades` | do trades, sweeps and repeated reports keep the books, also when expired goods are sold again and a refused request undoes its sweep? | `TypeOK`, `ReadsHold`, `StockConserved`, `PlayerWithinCap`, `ActionAgrees`, `SettledIsFinal` | 558,192 |
| `TraderTradesLive` | does every reservation end that ticks find unlocked again and again, and whose holders finish? | `ReservationsEnd` | 94,784 |
| `TraderTradesOversell` | is the trader's promise kept? | `NoOversell`, violated | |
| `PlayerMarket` | does the book conserve goods and money and keep its order? | `TypeOK`, `GoodsConserved`, `MoneyConserved`, `OvershootBounded`, `NoMissedMatch`, `BestPriceFirst`, `ClosedIsFinal` | 1,576,256 |
| `PlayerMarketLocks` | can matchings block each other for good? | `NoWaitCycle` | 822,817 |
| `TraderVisits` | is each slot rolled once, and are two traders there only by force? | `TypeOK`, `TwoOnlyByForce`, `OneRollPerSlot` | 5,465,220 |
| `TraderVisitsEnded` | does a visit ended in advance stay away? | `EndedInAdvanceStaysAway`, violated | |
| `RemoteJobs` | is a job done at most once, never after it was dropped, and the caller told the truth? | `TypeOK`, `RunsOnce`, `ImplementsCalls` | 446,420 |
| `RemoteJobsTold` | is "nobody takes the jobs" true? | `NotTakenIsTrue`, violated | |
| `VoidCoins` | is every coin accounted for, every spin verifiable, nothing bought or spun twice and a used winning gone? | `TypeOK`, `CoinsAccounted`, `NoncesCount`, `FreeSpinsDaily`, `PaidOnce`, `WinningsSpent` | 143,977 |
| `Hosting` | what do backups, restores, jar changes, deaths, crashes and starts do to a server, and whom does the watchdog kill? | `TypeOK`, `SavingResumes`, `OwnWorldsKept`, `WorldsWhole`, `JarsAtRest`, `StaysAway`, `KillsOnlySilent` | 4,250,264 |
| `Realm` | what survives decisions on stale reads, of members, money and alliances? | `TypeOK`, `LeadersStay`, `AllianceWhole`, `LedgerAgrees`, `RewardsOnce`, `ExecutedStays` | 922,354 |

For every property of a passing run `PROJECT.json` names a mutant, a plausible slip in the code under
which TLC finds the property violated; the mutants stand beside the definitions they change.

Several properties hold only up to an exception, which a history variable names (`blurred`, `crossed`, `doubled`, `misled`, `overlapped`, `blind`, `raced`,
`torn`, `cleared`, `inherited`, `late`, `saw`). The exception is what the code allows, and no broader than the step that causes it: the overlap, the unanswered look, the death.
Such a property does not show that the code is free of the hazard; it shows that the hazard has no other cause. Without the exception TLC finds
the violation; the list after the next one says where the code, a comment or a message claims more than it keeps.

### What the violations show

* **A late report sells what is not there.** A reservation expires, its pieces go back and are sold
  to somebody else, then the plugin reports the first trade after all. `complete_trade` records it as done and
  floors `qty_left` at zero. More is traded than the trader arrived with, against `models/trader.py:3-4`. `StockConserved`
  says how far it can go: by no more than the trades that were settled late.
* **A visit that is ended in advance comes back.** `end_visit` moves the start of an upcoming visit to now. The slot
  is looked up by its start, so it has no visit any more and is rolled again at the next tick of the window or of the slot,
  against `trader_service.py:206` and `304`.
* **"The plugin does not take jobs" although it did the job.** A result that arrives between the caller's last look and
  its deadline leaves the status `done`, which the message takes for not taken (`remote_files.py:70`,
  `server_console.py:88`). An administrator who tries again does the operation twice.

### What the exceptions stand for

* **A winning is used twice** by two requests that read it without a lock; the second DELETE finds nothing and fails nothing, against
  `void_upgrader_service.py:206` and `508`.
* **A jar is changed under a running server**, against `models/server_change.py:4-5`: `apply_hot` does it by design, after an unload whose answer is only logged, and
  any other way does it when `systemctl` takes longer than 4 s, which is read as "not running" (`blind`), or when the server is started after the look (`raced`).
* **Worlds are swapped under a process**, against `backups.py:292-293`, for the same two reasons. After a swap that was neither finished nor undone (`torn`) a server
  starts on whatever lies in its folders; its own worlds are then in the job's folder.
* **A flag is forgotten**: a worker that dies leaves it, `recover` takes none down, and the watchdog looks away from then on (`server_ops.py:1000-1002` tells of one that sat for 36 days).
* **A server in maintenance is killed**, against `watchdog.py:21-22`: the flag and the restores are looked at before the server is asked and its threads are
  dumped, and the kill comes up to 30 s later. And a watchdog that dies before its commit does not count its kill.
* **One who leads no more hands over the leadership**, against `nation_service.py:510`: he led when the request read the nation (`crossed`). A picture of the game server
  that passes the leader over makes two leaders, or none, without any overlap (`misled`).
* **A user is in two nations**, against `nation_service.py:100`, `220` and `325`: the check takes no lock, the unique key is on nation and user, and the game server does not ask (`doubled`).
* **The market fee does not arrive**, against `player_market_service.py:924`: it is written to the log and not to the balance, so `LedgerAgrees` takes the `fees` off.
* **Interest and prizes are paid twice**, against `nation_research_service.py:153-155` and `nation_season_service.py:3-6`: two ticks that overlap both find them due (`overlapped`).
* **A coin is lost** where a grant writes the balance it has read earlier (`blurred`); treasuries have the same.

### Bounds, and why they are enough

* `TraderTrades`: two players, one slot of 3 pieces of which a player may take 2, three transactions, two workers, quantities
  up to 2, trades from pages only (`Queues`). `RowFree` lets a trade begin only while a row is left
  for it. Two workers suffice for a race over one row, and only with a third transaction can a request sweep, find something
  in its way and undo the sweep. `TraderTradesOversell` has two slots, two transactions and both channels.
* `TraderTradesLive`: one player, two visits with a slot of a single piece each, two transactions from the plugin's page, no
  symmetry. A trade that names the slot of the other visit (an old page) is refused after its sweep, and two requests can
  each hold the slot the other wants.
* `PlayerMarket`: two players, two workers, three orders (`MaxOrders` bounds `clock`), prices 50 and 100, amounts
  up to 2, at most one order overdue (`MaxOverdue`), fee 2 %, stated reserves 101 and 200 hundredths, of which
  101 is within one percent of an order of 100 and not exact: a buyer asks for two pieces at 50, or for one or two at 100. A partial fill, a fill at a better price, a self-trade and an expiry during a match
  all occur. `PlayerMarketLocks` has four orders of one piece instead (the buyers' at 100), so that two requests can each hold one of two
  rows both want. With a limit of two orders a player reaches it and overshoots it.
* `TraderVisits`: slots of 8 with visits of 4, elite visits of 2 and a window of 2; `MaxTime` = 11 is one slot, the next one's window and the next one's visit. `MaxVisits` = 3 rows: one
  for each slot and one that was forced or rolled again, or two forced ones. `MaxForcing` = 2 requests to force a visit are under way at once, the fewest that can race. `TraderVisitsEnded` goes up to 15.
* `RemoteJobs`: three jobs, two polls, two jobs a poll, so that a full batch leaves one out; `Run` stops at the second
  run of a job, at which `RunsOnce` is violated already.
* `VoidCoins`: two players, two workers, two winnings, three requests (`MaxRequests`) on three days (`MaxDay`): two that race and one before or
  after them. A stake of 1, rewards of 2 and 4 (of which the latter is out of reach of a stake of 1 and within that of 2), a start with one coin, so that the second
  request of a player may find nothing left, grants of 1 and -1. Three days make a streak and break one.
* `Hosting`: one server with two worlds, a grace time, a hang time and an hourly limit of one each, an hour of three minutes, the least in which the watchdog could kill twice.
  A behaviour belongs to one of four mixes (`Mixes`): backups, or jar changes and restarts, each with the watchdog at work and unanswered looks; restores with the watchdog;
  restores with unanswered looks and trouble of the disk, which makes swaps and their undoing fail. Each meets everything that systemd and operators do, and deaths at every step. The watchdog reaches the worker only
  through the process, which crashes without it as well, so restores do without one of the two at a time; TLC has checked all of it together with an hour of one minute (6.3 million states), and the
  proofs are for every mix. Two worlds suffice for a half-done swap and for a return that fails after one; process numbers are 1 and 2, never that which the watchdog
  remembers.
* `Realm`: three nations, three users, two workers, three requests (`MaxRequests`), two weeks (`MaxWeek`), amounts of 2 (a sum whose half
  is 1), research of one level. A behaviour belongs to one of five mixes (`Mixes`: members, money, free, alliance and council), each with a
  realm to start from; disbanding and payments belong to several. Two requests race and the third comes before or after.

Deadlock is checked in every run but those of `VoidCoins` and `Realm`, whose requests are bounded in number, so that a behaviour ends when
they are used up. No other has a state without a next step: sessions can still open, polls can
still begin, administrators can still switch the schedule, minutes pass.

### Fairness

Only `TraderTradesLive` needs it. `FairSpec` assumes what the machine gives:
* that time passes (`GrowStale`, weakly fair);
* that a worker which is again and again able to go on, does (`Advance`, strongly fair: PostgreSQL queues the
  waiters of a row lock, each release wakes the next);
* that PostgreSQL breaks a deadlock (`Deadlocked`, weakly fair).

It does not assume that anybody begins anything: that players trade, that the plugin polls, reports or ticks, or that somebody opens a page. Under it alone reservations need not end, for
two reasons that nothing in the code rules out. The backend has no sweep of its own: the only one that recurs is the plugin's `/tick` (`routes/trader.py:42-52`), and
SKIP LOCKED lets it pass over a row that somebody holds at that moment, every time if he is unlucky. And a session that holds the row may be rolled back, as the victim
of a deadlock or for a lost connection, every time. `ReservationsEnd` is therefore conditional, for each reservation: if ticks that would find its row unlocked are possible again and again and
then happen (`TicksFind`), and if those who hold it are not rolled back for ever but for refusals (`HoldersFinish`), it is settled or expires. What that leaves for the run to show is that nothing else
stands in the way: refused trades that sweep and undo their sweep for ever, deadlocks over the rows of the shelf, recurring victims among the sessions that hold other rows, pages that name
the slot of another visit. With the sweep queueing for the row instead of passing over it (the mutant) it fails.

## What is proved

TLAPS proves every safety property of the passing runs but `ExecutedStays`, for every set of players, visits, slots, orders, workers, jobs, polls, worlds,
nations and users, every quantity and every number of requests, from the constants' assumptions alone (`TradeConstants`,
`VisitConstants`, `MarketConstants`, `JobConstants`, `CoinConstants`, `ProcessConstants`, `WatchdogConstants`, `NationsConstants`,
`TreasuriesConstants`, `RealmConstants`), which TLC evaluates in the runs. What they ask for beyond types: there are finitely many
sessions, transaction rows and winnings (a sum or a count over infinitely many means nothing); `RealmConstants` says that a
realm to start from is one the code can have made (a nation without a leader has no officers, nobody is in two nations, an
alliance consists of nations that stand, its founder among them), `VisitConstants` that slots and visits begin and end at full seconds,
`MarketConstants` that a fee is at most 2 percent, in tenths of a percent, as the research
takes off 0.2 a level.

* `SumLemmas` has the laws of a sum over a finite set: taking one element out, equal and smaller summands, parts,
  unions, a bound by the cardinality. The sum is a recursive function, and the library's induction theorems cannot be
  instantiated here, as they take a predicate as an operator; so each law is shown by a least counterexample: of the
  subsets for which it fails there is one none of whose proper subsets fails (`LeastSet`), and taking an element out of that one
  contradicts it.
* `TraderTradesProofs`: `TypeCorrect`, `ReadsHoldAlways`, `SettledOnce`, `ActionsAgree`, `StockIsConserved`, `PlayersKeepToCaps`.
  The inductive invariant is `IInv == TypeOK /\ ReadsHold`. `TypeOK` is not inductive alone: `Settle` writes the row
  `job[w].tx`, and that this is a row at all is known only from `ReadsHold`, which says for each row lock who holds it and what
  he may rely on: what is being swept is pending, what is being settled is open. `SettledOnce` and `ActionsAgree` then
  look at one step each. The books need `Amounts` besides: what a sweep is about to put back is what it has
  swept (`BackHolds`), and who was settled late is settled (`LateSettled`). `Balance` and `Share` state the two properties as sums over all rows,
  and each kind of step moves one summand. That a report floors the shelf at zero is why the balance is an interval.
* `TraderVisitsProofs`: `TypeCorrect`, `TwoTradersOnlyByForce`, `OneVisitPerSlot`, `TicksBringTheTrader` (after a tick inside a slot the trader is there, unless this slot's visit is over: proved only, no run checks it). The invariant is `Clock /\
  Good(visits) /\ Asked`: what ending a visit did to its row (`Plans`), who is there (`Single`), that a visit ahead is
  the next slot's (`Ahead`) and `OneRoll`. `Good` is a predicate of a list of rows because one request runs
  `AfterActive`, `AfterUpcoming` and `AnnouncedNow` after one another; each is shown to keep it. `Ahead` is what makes
  `Single` inductive: while a visit is ahead the current slot can no more be rolled, so no second scheduled visit is there when it begins. `Asked` is about the requests that are
  about to force a visit: among the rows each has seen there is no administrator's visit that is still to end; hence of two such visits that meet the later row was forced by a request that had not seen the earlier one.
* `PlayerMarketProofs`: `TypeCorrect`, `NoPieceIsLost`, `NoCoinIsLost`, `ReservesSuffice`, `LimitsHoldButForSessions`,
  `CrossedOrdersAreMatched`, `BestPriceIsTakenFirst`, `ClosedStaysFinal`, `NobodyWaitsInACircle`. `ReservesSuffice` is proved only: the reserve of an
  active order differs from what its rest costs by no more than the tolerance.
  + `Inv` says who may write which row: what rows and requests look like (`Shapes`), that an order being
    placed has a number of its own and no row yet, so that a commit overwrites nobody's row (`Ids`), and that a request has locked its
    book from the front, in the order of the ORDER BY, and a sweep only orders that are active (`Books`). The last two theorems
    need no more. The order is strict and total (`AheadOrAfter`), and who waits in a circle waits for a request of the same side that
    waits further back (`WaitsFurtherBack`): one that waits furthest back cannot be, as `Rank` counts the orders that come after.
  + What a matching trades with a partner is what is left for him after those ahead. `SharesUpTo` shows that the partners up
    to any place together take all they have or all that is asked for, whichever is less; so the shares add up to the order's fill, and who
    gets something leaves nothing of those ahead.
  + `IInv` adds `RowTypes` and `JobTypes` (an active row has a rest, what is filled and what is left make up the total, and the reserve
    is `Covered`), `Handed` (a handout names orders that are there; who got a refund is closed), `Accounts` (goods and
    coins of each order, response and delivery apart), `Sights` (what a request has seen and can trade with is in its book)
    and `Bounded` (what is active and what is being placed, against the limits). One partner's trade is `PayoutsAre`: pieces, proceeds, fee and
    overpay add up to what the buyer's own price says. `PayoutSums` adds the partners up, `AccountMoves` moves
    an account by what is handed out.
* `RemoteJobsProofs`: `TypesKept`, `JobsRunOnce`, `DroppedJobsNeverRun`, `ResultsAreReal`, `CallsImplemented`. The inductive invariant is `IInv == TypeOK /\ LocksHold /\
  OnePlace /\ ResultsReal`: a job a poll holds is locked by it and still pending (`LocksHold`); a job is
  in one place only, in one answer on its way, in the plugin's inbox, or done once, and only if its row says it was taken (`OnePlace`);
  what the row and the caller say of a result is what came of it (`ResultsReal`).
  `OnePlace` is the heart of it: `RunsOnce` alone says nothing of the answers that are still on their way. Under the same
  invariant every step of `RemoteJobs` is a step of `OneShotCalls` or a stutter, which is the refinement `CallsImplemented`.
* `VoidCoinsProofs`: `TypeCorrect`, `CoinsAreAccounted`, `NoncesInTurn`, `WinningsAreSpent`, `CosmeticsPaidOnce`, `OneFreeSpinADay`.
  `Holds` says what a request has once it has got so far in its plan of locks: the
  row, and what it has checked or read under it (`Buys`, `Extends`, `SpinsFree`). `OwnStep` shows that locking makes it
  true, `OthersStep` that nobody else writes a row one holds, but for gifts of premium, which take no lock and blur what they overwrite.
  `Payers` is the same for balances: who has locked one spends only what he has seen to be there, which is why no balance is
  negative; with it `Balanced` (off the blurred rows, the balance is what is due) is kept by each step. `Numbered` counts a player's spins under a seed:
  each has for its nonce how many came before it, and the row has the next. `AllKept` says that a used winning is gone and that one which a request has
  and nobody has used is somebody's, so no request begins with a used one: after the first use its uses and the requests that hold it together never grow (`Falls`).
  `Streaks` strengthens `FreeSpinsDaily` by what the next day needs: no free spin is later than the table says (`NextDayCounts`).
* `HostingProofs`: `TypeCorrect`, `SavingIsResumed`, `WatchdogStaysAway`, `JarsAreAtRest`, `WorldsAreWhole`, `OwnWorldsAreKept`, `KillsAreDeserved`. The invariant has a part for each:
  `Saves` (at which steps of the worker saving is off, and which row says so), `Fenced` (while a job is between raising the flag and its end the flag is up or an administrator has cleared it, and a
  restore's row says that it runs), `AtRest` (who is touching folders or jars has no process, or belongs to `Unsure`; only a plugin's jar goes in through PlugMan), `Whole` (in a swap, putting everything back gives one set of worlds; outside
  it, there is one, unless a swap was left half done), `Owned` (what was moved out is not in its folder, and once the swap is complete every world is the backup's),
  `Silence` (how long a process has been silent bounds `failing_since`, unless that is inherited). `Newest` and `Allowed` say that the recorded kills of the last hour are
  in order and within the hourly limit; that forgetting the old ones leaves a prefix is `LastHourIs`.
* `RealmProofs`: `TypeCorrect`, `OneLeaderStays`, `LedgersAgree`, `AllianceStaysWhole`, `RewardedOnce`. `LocksHold` says that a balance read FOR UPDATE is still that balance, `Whole`
  adds to `AllianceWhole` that no request under way removes the founder, and `Known` says of what two requests grant at once that it is noted
  as overlapped before either of them finds it granted already. `Membered` is for the members: a nation that stands, whose requests did
  not cross and whose leader was not passed over (`Clear`), is led by its `head` and nobody else (`Leads`), a user has one home (`OneHome`) unless he was admitted twice, and each plan a request
  carries either leaves the leader alone (`Loyal`) or replaces him in one flush, with the row it read (`Replaces`). `Counts` and `Limits`
  bound the numbers of rows, weeks and levels for the types.

Only model-checked: `ReservationsEnd`, which is liveness under fairness and out of the prover's reach, and `ExecutedStays`. The three violations are counterexamples
and have nothing to prove.

## Not modelled

* Play tickets and refresh sessions: each a read and a write in one request. Two hazards of theirs are listed without a property.
* The queue of market actions that pages fill and the plugin polls, and its acknowledgement, which sets any status of any action; a
  trader's action is assumed to be settled by its result only.
* The roll of a trader's stock, prices, odds of spins and everything else that is a formula.
* Listings of the nations' market but for what a sale credits; they are locked FOR UPDATE as the player market's orders are.
* Battle Royale, anticheat, punishments, notifications, progression: counters and queues of one user or one plugin, whose rows
  no two operations decide on together.
* Server operations, releases, mail, donations, the bot, media, profiles, migrations: file systems, external services, presentation.

The backend is large and most of it reads rows and formats them. What is modelled is the part in which several actors change the
same state. `PROJECT.json` gives the reason for each component that is left out.
