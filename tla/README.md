# TLA+ model of the lead-lag trading bot

The bot watches prices on Binance, and when MEXC lags behind it opens a
leveraged position on MEXC and closes it when the lag is gone. It is one Python
process (`src/src`, about 35 700 lines): one asyncio loop, two SQLite databases, a
Telegram bot in the same process and a web panel in another one. Every MEXC
account is a *slot*; a slot trades one pair with one position at a time. Every
`await` is a point where other coroutines run, and the process may die at any
of them: that is where this project looks.

Line references are to `src/src/...` unless they start with `tests/`.
`PROJECT.json` maps each definition to the lines it stands for, and lists each
hazard with its line and the properties that would catch it.

## 1. Inventory

| Component | State | Operations | What makes it correct | Module |
|---|---|---|---|---|
| live safety controller `execution/live_safety.py` | per slot, in memory: day's PnL, its peak, halt and deadline, counters, reset time | gate, open, close, kill, release, expiry, daily reset, replay | a drawdown of the limit halts the slot; a pause is served | `SlotSafety` |
| executor pool `execution/live_pool.py` | executors, controllers, routes; `live_state` rows | rebuild at boot, each 30 s and on commands; hydrate; sync of halts | a restart changes no decision; a panel request is answered | `SlotSafety`, `FeeGuard` |
| live executor `execution/live_executor.py` | fee halt, account block, `_phantom_unknown` | entry with attempts and fill poll, phantom check, three close paths | an order that may have filled is never forgotten; a close reports success only when the position is gone | `PositionLifecycle`, `CloseFill` |
| shadow engine `strategy/shadow_engine.py` | positions, pending entries, cooldowns, watchers, throttle latch | entry per slot, watch, close, external close, stop | each trade is closed and booked once; the counter follows the positions | `PositionLifecycle`, `SignalEntry`, `ExitRules`, `OpenThrottle`, `BurstAlert` |
| reconciliation `safety/reconciliation.py` | a snapshot of the account | at boot, each minute: Case A orphan, Case B stale | acts only on positions that are really untracked / really gone | `PositionLifecycle` |
| fee guard and watchdog `execution/fee_watchdog.py` | halt in memory and in the row, probe window, strikes | trip, clear, probe, check | a charged slot stays out, a probe follows a tariff halt | `FeeGuard` |
| open throttle | latch in memory, in the slot row, in the row a gate has read | arm, restore, sweep, new key | a latch earned by one account is kept for it and only for it | `OpenThrottle` |
| pair states `state/` | state, pause deadline; table and copy | evaluation, buttons | a decision of the operator is not overwritten | `PairStates` |
| universe `state/universe.py` | `pairs_universe`, whitelist, subscriptions | build, seed, prune at a start | no start takes the pair from a live slot | `Universe` |
| recovery monitor `main.py` | last PnL per slot, mode in the row | read, confirm, stop account | wrong readings stop nothing, an account stops as a whole | `RecoveryMonitor` |
| futures soft-start `execution/futures_soft_start.py` | JSON file | open, hold, close, adopt, sweep, recover | a real position is on record | `FuturesSoftStart` |
| soft-start loop and campaign `execution/soft_start_runner.py` | warmers, campaign file | poll, preclear, wind-down, drain, cancel | the button goes off when flat, and it does | `SoftStartRunner` |
| spot soft-start and budget | plan file, books | buy, sell, sell off, prune | the books add up and claim no coin that is neither held nor on its way | `SpotWarming` |
| order books and public streams `exchanges/` | book, buffer, ready flag | snapshot, diff, gap, resync, ticker | a ready book is the exchange's at the levels it was told of | `DepthFeed`, `MexcDepth`, `BinanceDepth`, `TopOfBook` |
| private stream `exchanges/mexc_private_ws.py` | last push per order and pair | push, `wait_close` | a position is booked with its own close | `CloseFill` |
| signal detection `strategy/static_gap_detector.py` | last direction, dirty books, cooldown | wake, check, emit | a gap that opens is signalled | `SignalEntry` |
| storage `storage/db.py`, `db_live.py` | schema, one shared connection | migrations; write, retry, read | no start loses a key; a write is stored when it returns | `SchemaUpgrade`, `SharedConnection` |
| configuration `config_loader.py` | parsed pairs, globals, mtimes; the readers' caches | load, check of the files, rebuild of a cache | a reader comes to work with the files as they are | `ConfigReload` |
| process `main.py` | what runs | start in order, wait for a signal or a task that ends, stop in order | the start meets no trading of its own, an orderly stop leaves nothing open | `Runtime` |
| clients, device profiles, Telegram and panel pages, recorders, reports, scripts | | | | not modelled (section 8) |

How they interact. The detector's signal makes the engine ask
`can_open_live`, order through the executor and, on a fill, `record_open` and
track the position with a watcher of its own. The watcher's close goes back
through the executor, and `record_close` feeds the controller. Reconciliation
compares the account with the engine each minute and books through both. The
rebuild loop carries what the controller decided to disk and what the panel
asks for back; at boot `_hydrate_safety` replays the day's `live_trades`. Warming
shares the account with the arbitrage: the loop reads the slot row and tells the
futures engine whether it may open. Fee guard, watchdog, recovery monitor,
operator and panel all write the same slot rows and pair states.

Hard behaviours: the account is read, awaited, and compared with an engine that has moved
on; an order's answer, its fill, and the deal record are three different
moments; memory and disk change in different steps; the same position may be
wanted by a watcher, by `stop()` and by reconciliation.

## 2. Modules

Three groups. `SlotSafety` and `PositionLifecycle` are about money at risk, each with
runs and proofs of its own. `SoftStartRunner` extends `FuturesSoftStart`: the loop
puts jobs into the engine and the two are checked together. The other components are smaller; each
has a module with its own TLC bounds in `MCPlatform`, where the initial state
picks the one that works (`part`) and `v1..v19` are its variables. `MCPlatform` instantiates the
modules with the proofs (`Market_proofs`, `Accounts_proofs`, `FeeGuard_proofs`, `Components_proofs`), so
what is proved of a component holds of the instance TLC checks. They are
placed side by side and do not interact there: what joins them (rows changed by a panel,
keys pasted, commands) is the environment inside each module.

`TradeLedger` is the abstract specification: an order is sent only while the
slot holds nothing, becomes a tracked position at most once, and is booked once
unless the process ends first. `PositionLifecycle` implements it
(`KeepsLedger`), reading the stage of each order off its own variables.

### SlotSafety

`ctl` is `SafetyState` with `_daily_reset_at_ts` and `_release_applied`. The
controller's methods are pure operators named after them (`DailyReset`,
`EngageKill`, `RecordClose`, `ReleaseKill`, `ExpireKill`, `ReplayClose`, ...);
the actions are the callers, cut at their awaits: `EngineClose` then
`PersistTrade` (record first, insert later), `ExternalClose` (insert first),
`OperatorRelease`/`Unkill` then `OperatorMarked`, and `sync_kill_state` as a
small program counter `sync`. `Crash` empties the memory, `Boot` starts the
replay, one row a step.

Abstractions: money in units, time in ticks longer than one database write and
shorter than the pause, so `Tick` waits for a write in progress; one close or
release per second (timestamps are whole seconds and the slot holds one
position), and no expiry in the second of a close (`FreshSecond`: the cooldown of
the engine's close keeps the next gate away, `shadow_engine.py:3686`, `:1407`); database failures are not modelled; an external close's row and
`record_close` are one step; the first sync after a boot may come after some
trading although the code runs it inside the boot; several orders in flight are one
boolean `opening`; `avg_notional`, `consecutive_losses` and the equity log are
data no property reads. Slot activation and deactivation are in `FeeGuard`. `late` is a history variable:
the closes that came after midnight to a controller not rolled over yet (`record_close` does not call
`_maybe_reset_daily`), which the reset then wipes.

The restart properties compare the controller a crash destroyed (`pre`) with the one the
boot ends with. They speak of a crash that is `Clean`: every close inserted, every lift
stamped, and as many trades in the session as the table has for the day.

### PositionLifecycle

`op` is the coroutine of the entry (`sent`, `poll`, `retry`, `opened`), `cl`
the calls of `_close_position` with their escalation (`first`, `second`,
`market`, `alert`), `rec` the pass of reconciliation, `pos` the tracked position,
`ord`/`ex` the exchange. The exchange acts on its own (`Fills`,
`Expires`, `CloseHits`, `OrphanHit`, `ClosedOutside`); the answer is a separate step and
may be "nothing". Abstractions: a fill is one unit and a phantom
flatten sells one; a close request takes effect at most once per attempt; a
cooldown is a boolean; `close_position_capped` escalates the same way; the
routing to the twin on Binance is left out. `NothingToSell`: the last path reports
success without having closed anything if its quantity rounds to no contract and two reads
of the account fail.

*The grace.* Reconciliation acts on positions older than 15 s. The engine counts from the
signal (`opened_at_ms` is taken before the submit, `shadow_engine.py:2023`); two submits of up to
15 s (`live_executor.py:810`, the HTTP client gives up after 10 s), the poll, the tail of the entry, the answer of
the account (5 s) and the closes of other orphans of the same pass lie between the signal and the check.
Every one of them may take about the grace, so the model puts no
order on them: where a pass looks at an age (`StaleChecked`, `OrphanSpared` against
`OrphanGone`/`OrphanOrder`) it may find either side, and nothing is assumed to be answered in time. Only the
liveness property assumes that an orphan that stays does not stay young (`SF(OrphanOrder)`).
Startup reconciliation runs before the detector starts (`main.py:1473`), so the
boot pass meets no trading.

The poll after a submit (`_poll_fill_price`, `live_executor.py:551`) asks for the order and, when
that says nothing, takes any position of the symbol for the fill. `PollAdopts` is that: the
entry ends with the number of a position it may not have opened, one that a close left
behind after all its paths failed, and nothing asks for its own order again. A retry that
finds a position does the same. `op.id` is the position the entry holds; `settled` remembers positions a
pass had read and the engine then booked from a success, `rec.upto` the last position the exchange had
opened when it answered the pass.

### FuturesSoftStart and SoftStartRunner

`job` is what is left of the engine's running method, one entry per await;
`phase` is where the poll of the loop stands. `file` is the state file and the
engine's memory at once (every save succeeds), `order`/`held` the exchange,
`warmer` the `SlotWarmer` with its copy of the campaign. Faults — a lost answer, a
failed read, an unreadable file, a crash, a cancellation — share the budget
`MaxFaults`. All keys open the same exchange account, the case in which a left-over
position matters; an order settles before a restart, or within `LagReads` <
`Rechecks` reads; cancellation reaches a coroutine only inside a poll; one slot; daily quotas are left out,
and so is the drain of a futures half that idles for lack of balance (`soft_start_runner.py:758-763`).

### The smaller components

* `SpotWarming` — orders, plan and books of the spot half. Amounts are
  integers and an order is for a multiple of `Step`, to which the client rounds (`Rounded`,
  `spot_client.py:99`): a buy is booked with the quantity sent, a sale with the one before it was rounded. Orders are limit
  orders: what the exchange accepts is frozen (`due`, `offered`) and fills in parts, later or never, while the
  books enter it when it is accepted. (The comment at `spot_soft_start.py:384` has the exchange give the quantity; it
  is the one that was sent.) An answer may be lost, refuse although the order was taken (the client turns what it
  raised into a refusal), or say yes without being JSON; a new day, a windfall and a restart are events. Trades and
  cancellations by hand, fees taken in coins and the distance of the limit from the price are left out.
* `FeeGuard` — `todo[a]` is the list of steps a coroutine still has to take; key,
  live switch, assigned pair and pair state are the database, routes and halts are
  memory. Any fill may be free or charged; one database write and one panel transaction are a
  step; all slots start with a key on the same pair.
* `OpenThrottle` — latch, row, and the row a gate has read are three variables. A tick is the 300 s
  allowance, and no signal stays in the gate that long; one signal is in the gate at a time. A limit
  in the `answer` of an order is acted upon after the lock of the slot is released, so another
  gate may come first. A new key may come from the panel's own connection. `limit.recorded` marks the
  limits the property speaks of: those the row holds with no wipe on its way (`OnRecord`).
* `DepthFeed`, extended by `MexcDepth` and `BinanceDepth` — a level of the book
  is represented by the version that gave it its size; connections drop, snapshots are
  asked several times and answered late, messages are missing. A message or a snapshot need not reach the
  levels of `Outer`, and a side that grew too long is trimmed (`Shows`): what is then wrong in a book
  whose sequence is intact, the stranded level of `mexc_ws.py:461-465` and
  `binance_ws.py:550-557`, is in `stray`. "Looks crossed" may be true only of a book that is not the exchange's.
* `TopOfBook` — depth and ticker writing one book, in any order: the ticker is compared with tickers
  only (`orderbook.py:122`). A snapshot holds the levels down to some depth, a message names any part of what
  changed, a side may be trimmed after any message; `astray` holds the levels that are wrong for one of these
  reasons, or because a ticker behind depth changed them.
* `PairStates` — a transition looks at a copy, writes the row and reads all rows back; the
  evaluation walks the pairs in any order.
  Promotion, rejection and demotion by criteria are off, as the criteria
  stand in the code (`auto_promotion_enabled` is false).
* `SignalEntry` — one pair, all slots that serve it, every signal a task.
* `ExitRules` — a price is the number of ticks it is better than the entry; the
  watcher looks at intervals, the feed's callback in between; the rules in their order.
* `CloseFill` — pushes, history rows and waits of successive positions of a pair. No
  position is opened while a close of the same slot is under way.
* `RecoveryMonitor` — readings may be wrong `MaxWrong` times; slots share an
  account at first; pairs stay as they are; the stop of a slot does not fail (`_recovery_stop` returns early on
  an error, `main.py:546-575`). `since` counts the wrong readings since the last right one: it
  takes two in a row, or three when the first was far from the truth, to stop an account wrongly.
* `Universe` — every statement is committed by itself; configuration and panel
  change meanwhile; a paused or rejected pair counts as shadow, so the theorem says nothing of a live slot
  whose pair is paused, which a start does prune (`universe.py:214-225`).
* `SchemaUpgrade` — statement by statement where keys or columns are at stake,
  with the autocommit and implicit transactions of Python's sqlite3; a crash after any of them. A column that
  cannot be added is only warned of (`db.py:826-830`): `AddColumns` leaves out any of the missing ones and
  `refused` remembers which. Of the columns that came after v5 there is one of each group.
* `SharedConnection` — the queue of aiosqlite's thread, its answers, and one
  transaction that belongs to nobody in particular; SQLite's snapshots and lock are external.
* `BurstAlert` — a scan is a step, times count scans.
* `ConfigReload` — a file is the number of its last edit, which is its mtime as well; a
  pair is the pair of edits it was parsed from, its own and that of `global.yaml`. A
  check of the loader runs without an `await`, but the editor and the panel are other processes:
  an edit may come between any two file operations. A file may be unreadable for a
  while, or be refused by the validation (`global.yaml`; a pair file that is refused behaves as one
  that cannot be read). `slipped` marks the files whose remembered mtime does not
  stand for what was read. The readers are the engine and the detector; the TTL of a reader
  and that of the loader are a choice.
* `Runtime` — the steps of `main` in two sequences, `Boot` and `StopOrder`; signals,
  watchers, closes and the passes of reconciliation go on in between. One slot; a close works or
  fails; loops with a module of their own are left out. An exception in the `finally` of `main` is `Dies`.

## 3. Runs

| Run | Shows | Bounds and why they suffice |
|---|---|---|
| `SlotSafety_days` | type, `DrawdownHalts`, `HaltedNeverAdmits`, `PauseServed`, `LiftSurvivesRestart`, `SessionMatchesLedger` | 5 ticks over days of 3, pause 2, 3 closes of -2, -1 or +1 against a limit of 2, one crash, no panel: a breach, its expiry, a second breach and a restart fit, on either side of midnight; a loss of one matters, because a drawdown that is left over from before a lift shows only then |
| `SlotSafety_restart` | `HydrateRestoresSession`, `PanelRequestAnswered` | one day, halts that only an operator lifts, panel used at tick 2, 3 closes of -2 or +1, one crash |
| `SlotSafety_autorelease` | `HydrateRestoresSession` fails when halts expire (finding 1) | pause 2, day 10 |
| `SlotSafety_midnight` | `HaltSurvivesRestart` fails across midnight (finding 2) | pause 9, day 3 |
| `PositionLifecycle_core` | type, `BookedOnce`, `NoBrickedSlot`, `MarkedWasGone`, `KeepsLedger` | 3 orders, 2 attempts, one crash or stop: an order of doubt, its retry and a later position coexist |
| `PositionLifecycle_live` | `DoubtIsChecked`, `NoOrderOnUnknown`, `EveryPositionEnds` | 2 orders, 1 attempt, one crash or stop, with fairness |
| `PositionLifecycle_rebook` | `NotBookedTwice` fails (finding 3) | 2 orders |
| `PositionLifecycle_stale` | `MarkedIsGone` fails: the answer is older than the fill (finding 4) | 2 orders |
| `PositionLifecycle_retry` | `DoubtIsChecked` fails with two attempts (finding 5) | 2 orders, 2 attempts |
| `SoftStartRunner_core` | type, `EveryPositionTracked`, `OpensOnlyWhenFlat`, `SwitchedOffOnlyFlat`, `OffBecomesFlat`, `LiveDrainsWarming`, `CampaignSwitchesOff` | two keys, one coin, 2 faults, 2 commands: a lost answer and a crash, or a rekey between two faults, meet in one behaviour |
| `Platform` | one property or two per small component, see below | in `MCPlatform`, per component |
| `BurstAlert_held` | `SeriesIsAlerted` fails with a persistence above zero (finding 6) | persistence 2, 5 scans |

`Platform` in particular: `SpotBooksHold` (2 coins in steps of 3, 2 orders that fill in up to two parts, one event);
`PaidSlotStaysOut`, `ProbeFollowsTariffHalt`, `PairKeepsASlot` (one slot with two
pairs and a restart, and two slots of one pair: who else serves the pair matters only in the second); `ThrottleFollowsLimit` (5
ticks, mode 3, 2 orders: a latch, its restoration and its end fit); `ReadyBookIsTrue` (2 levels, 3 changes, 2 snapshots, one
lost message: a snapshot older than the buffer, inside it and after it; once with one level out of reach and once
with a lost connection; ticker and depth over 3 prices and 2 moves: depth ahead, level and behind); `EndlessPauseHolds` (one pair, 3 timed pauses, one button
during an evaluation); `OpeningGapSignals`, `PositionsWithinLimit` (2 slots and
2 signals, or one signal and a change of the pair's state);
`TrailCountsEveryPrice` (a rulebook with every rule and one with few); `BookedWithItsOwnClose` (2
positions, 3 tries, one lost push); `AccountStopsRightly` (2 slots and 2 wrong
readings, accounts that stand and may be commanded; one slot, 5 amounts and 3 wrong
readings, an account that moves); `LiveSlotsTrade` (2 slots, 2
pairs, 3 configurations over two starts); `StorageHolds` (databases of
any age, 3 starts; 2 calls, 3 tries, 2 commits of others);
`ConfigFollowsFiles` (2 pairs, files of one edit or none at the start, 2 edits: one inside a rebuild and a
later one or a deletion fit, and an edit of `global.yaml` with one of a pair); `ProcessHandsOver` (3 entries, 2 starts: one closed before, one under way
and one cut off in the same stop). `BurstAlert` runs there with persistence 0:
as the code is, no other burst is ever alerted.

`CHECK_DEADLOCK FALSE` in all but `SoftStartRunner_core`: the bounds on time, closes, orders and
restarts let a behaviour run out of moves. The bounds are named constants and
appear only in guards (`MaxTime`, `MaxCloses`, `MaxCrashes`, `PanelTicks`,
`MaxOrders`, `MaxFaults`, ...).

Fairness. `SlotSafety`: the rebuild loop and the restart policy of the container keep running
(weak fairness of `Sync` and of the boot), and time passes between two passes
(strong, because `Tick` is disabled during each write). `PositionLifecycle`:
coroutines that can continue do (weak); the exchange decides each order; a read of the
account and the order that closes an orphan do not fail for ever, and an orphan that stays does not
stay younger than the grace (strong: each is enabled and disabled again by the others). Nothing
assumes that a close or a phantom check succeeds. `SoftStartRunner`: the loop and the
engine go on, the container restarts, orders are decided, holds and deadlines pass (all
weak); that faults end is the budget `MaxFaults`. `Platform` states safety only.

## 4. What the runs found

1. *Expiry and restart* (`live_pool.py:411`). The gate re-bases the peak when a
   halt expires; the marker for the next process is stamped by the following
   sync. A loss between the two is forgotten by the replay, and with it the halt.
2. *Midnight and restart* (`live_pool.py:124`). A halt with time left is not restored on the next
   day: only today's closes are replayed and the mirrored row is never read.
3. *Snapshot before, comparison after a close* (`reconciliation.py:484`). PnL booked twice.
4. *Snapshot before, grace after* (`reconciliation.py:737`). A live position is marked closed
   when it fills after the exchange has answered and is past the grace when its age is looked
   at: a submit that took its time, or other orphans that hold up the pass, are enough. What holds is
   `MarkedWasGone`: a position that was there when the exchange answered is safe.
5. *Slot-level refusal on a retry* (`live_executor.py:1686`). The first attempt's
   order loses its phantom check.
6. *A burst is never old enough* (`shadow_engine.py:1092`). The scan that starts a series
   also ends it, so with `BURST_PERSIST_SEC` above zero nothing is alerted.

## 5. What the models exclude, and what was seen there

A property names the situations it leaves out; in each of them the code as written
misbehaves or makes no promise. By component:

* *Safety controller.* `record_close` does not roll the day over: a close just after
  midnight is wiped by the reset that follows (`live_safety.py:294`). `SessionMatchesLedger` leaves
  out just these closes (`late`), and speaks of a controller that is rolled over. The row of such a close stays in the table and comes back with a
  restart, and with it a halt that had been lifted may: `LiftSurvivesRestart` and
  `HydrateRestoresSession` leave such sessions out (`Clean`). Timestamps are whole
  seconds: after a close booked by reconciliation, which starts no cooldown, the gate may end a halt in the same
  second, and the replay counts that close behind the lift.
* *Positions.* Booking an orphan takes the count of a newer tracked position
  (`reconciliation.py:681`), so `NoBrickedSlot` states only that the counter does not
  outlive the position; the market order of Case A closes a newer position of the
  same symbol with the orphan; `stop()` cancels a watcher in the middle of a close, and that
  trade is never booked (`shadow_engine.py:729`); an exception inside `_close_position` leaves the
  position closing (`:2911`); a close booked from an estimate is booked again from the history
  if reconciliation closes the rest (`:3528`); an entry may adopt a position that a failed close left
  on the exchange instead of its own fill (`live_executor.py:551`).
* *Shutdown* (`main.py:1615`). The tasks of signals are not awaited, so a position
  opened during `engine.stop()` is not closed (`late`), nor is one whose close failed or was cut
  off with its watcher (`left`); an exception in an early stop skips the later ones. Tasks
  that `main` does not keep, the watchdog and the recovery monitor among them, run on until the
  databases are closed under them; `live_db` and the private streams are never closed.
* *Configuration.* In a rebuild of all pairs the mtime is taken after the file was read
  (`config_loader.py:475`, `:488`): an edit between the two is never picked up, against
  `config_loader.py:8`, and a file that cannot be read drops its pair and is not
  looked at again until it is edited (a later `chmod` does not bring it back). A `global.yaml`
  that is refused or unreadable stops every reload, and its values are taken before they are
  validated; a deleted one is ignored while the process lives. The detector's own fallback
  is fixed at boot.
* *Fee guard.* `fee_reset` switches the slot on but its pair stays in shadow; a charged fill
  during a tariff halt leaves no halt of its own, so the reset grants a probe (`caught` and
  `cause` keep them apart); strikes belong to the slot number and survive a new key;
  two coroutines that each see the other slot serving a pair leave it with none (`raced`).
* *Open throttle.* A gate that read the row before a limit was saved wipes the latch just armed
  (`shadow_engine.py:2149`), and its mark of what is persisted outlives the wipe: the next limit is
  not saved, and the gate after it releases the slot (the comment at `:2143` means to exclude this); two
  gates at once both find the hold free.
* *Pair states.* What is set while the evaluation works with the rows it read is overwritten
  (`pair_state_manager.py:270`); `EndlessPauseHolds` leaves these pairs out (`touched`).
* *Universe.* A row promoted between the `SELECT` and the `DELETE` of the prune is lost
  (`universe.py:204`); a pair taken out of the configuration but still assigned stays in the
  whitelist unsubscribed.
* *Recovery.* A key replaced during a visit: the new account is stopped for the old one
  (`touched`); a restart in the middle of a stop leaves the other slots of the account live until the next
  reading; a wrong reading repeated is believed.
* *Warming.* A restart between the end of a campaign and the button going off starts a
  new campaign (`soft_start_campaign.py:254`); `CancelledError` in the sleep between polls
  skips the stop; a lost answer of a spot order
  leaves coins outside the books or sold coins in them (`missed`), the books of a buy that never fills claim coins for
  ever (`due`), and each sale may be wrong by half a step (`sales`).
* *Depth.* A level that came to lie out of reach, or was trimmed and not named since, is not the
  exchange's although the symbol is ready and the sequence intact (`stray`, `astray`;
  `mexc_ws.py:461`, `binance_ws.py:550` and `orderbook.py:319` tell of such books). A ticker behind depth
  overrides it: `orderbook.py:81-84` says that a late frame must never prune levels that still exist and `:207-209`
  that the older source never overrides the newer one, but `apply_top_of_book` compares a frame with earlier
  frames only (`:122`), so a frame later than depth removes and inserts levels (`astray`). An older snapshot brings back
  old levels, a resync asked for during a replay is overridden by the ready flag
  (`binance_ws.py:425`): `sound` marks books without such a history.
* *Entries.* A pair that turns live during the simulated delays of a paper entry gets a real
  order that passed no slot gate (`shadow_engine.py:2105`): `crossed`.
* *Closes.* The number of a position may be unknown, and then any row no older than
  `Window` counts; a late push of the close before is fresh: `mixed`.
* *Storage.* Between `DROP TABLE webkey_slots` and the commit of the next script the keys of a v4
  database are in memory only (`db.py:366`, `torn`), and a crash there loses them, though `db.py:333` says that they are
  preserved; the rebuild of v6 leaves out columns until
  the next start (`db.py:442`, `rebuilt`), and so does an `ALTER` that fails while another process holds the
  lock (`db.py:829`, `refused`): bot and panel run without them; the retry of one write rolls back a row another one put
  into the transaction (`db.py:53`, `undone`), though `db.py:39` says that nothing is lost; `execute_write` tries again without a rollback
  and fails on an old snapshot each time.
* *Bursts.* The start of a series is not cleared while no pair is live, and a scan
  with few trades neither ends nor continues it.

## 6. Proofs

Every theorem is checked by TLAPS for every value of the constants its module's named
assumption allows (`SlotSafetyAssumptions`, `FeeGuardAssumptions`, ...; TLC evaluates the assumption
in the run). They are laid out alike: an inductive invariant made of named parts, one
lemma per action, `Init => Inv`, `Inv /\ [Next]_vars => Inv'`, and a temporal step by `PTL`.

### SlotSafety (`SlotSafety_proofs`)

* `TypeCorrect`, `BreachAlwaysHalts`, `GateNeverAdmitsHalted`, `PauseIsServed`,
  `EveryLiftLeavesATrace` (proved only, it needs no run);
* `LiftedStaysLifted`: `Spec => LiftSurvivesRestart`;
* `SessionIsRestored`: `Spec => HydrateRestoresSession`, if only an operator lifts a
  halt (`KillPause = 0`); the run `SlotSafety_autorelease` shows that the condition is needed;
* `PnlIsInTheLedger`: `Spec => []SessionMatchesLedger`.

`DrawdownHalts` is inductive with the types: every operator that moves PnL or
peak leaves a session that is halted or not breached (`Guarded`). `PauseServed` needs more: with a finite pause
every halt has a deadline (`DeadlineSet`), and until `pauseEnd` the slot is halted with a deadline no
earlier than that, also through a second engagement that keeps the first one (`PauseKept`). `HaltInv` carries these.

The two theorems about restarts compare a controller that went through the closes as they
came with one that reads them back from a table, so they need sums and a running
maximum over the day's rows. A recursive sum tells nothing of the order of the closes; `RestartInv` says that
there *is* a function `tot` that adds up: the first row has its own PnL, each later one that of the row before
it plus its own (`Chain`, `Total`). Two such functions agree on every row (`TotalAgrees`: the rows of a day are
finite and their times differ, so a row where they differ would have an earliest one). With it:

* `Session(c, S, tot, l)`: the controller `c` has gone through the closes `S`; its PnL is the last total and its peak
  (`PeakOf`) the highest since the re-basing at `l`;
* `MemoryInv`: a running controller is such a session of the closes since it was last rolled over (`Counted`), for
  an `l` that the marker covers or that is still on its way there (`Marked`, `Lifting`);
* `LostInv`: the controller of a clean crash is explained by the rows on disk and a re-basing no later than the marker;
* `ReplayInv`: the replay has taken the rows in order, was re-based at the marker if it has passed it, and the totals it
  adds up extend those that explain the lost controller.

At the end of the replay both sessions have the same rows, hence the same PnL, and the replay's
re-basing is no earlier, hence its peak no higher (`LaterPeakIsLower`): what was not breached
is not breached. Without expiries no close lies between re-basing and marker, and the peaks are
equal (`PeakMoves`).

`PnlIsInTheLedger` does need the sum itself, as TLC computes it (`SumFunctionOnSet` of the community modules, a
recursion over the subsets of a set). That the recursion has a solution (`RecExists`), that two solutions agree
(`RecAgree`) and that any member may be taken out first (`SumSplits`) is proved by the least number of
members for which it would fail (`LeastOf`), so no induction theorem is needed. `LedgerInv` then says: a controller that is rolled
over has the sum of the closes of its day that are not late; one that is due has put every close of the new day among the
late ones, so the roll-over starts from nothing; the replay has the sum of the rows it has taken.

### PositionLifecycle (`PositionLifecycle_proofs`)

* `TypeCorrect`, `EachTradeBookedOnce`, `SlotNeverBricked`: the three invariants
  of `PositionLifecycle_core`;
* `MarkedPositionsWereGone`: `Spec => MarkedWasGone`, whatever time orders, answers and
  closes take; the run `PositionLifecycle_stale` shows what it leaves open;
* `DoubtAlwaysChecked`, `NothingSentInDoubt`: the two properties of orders in doubt,
  if an entry makes one attempt. The default is two: the theorems say what the
  phantom gate achieves by itself, finding 5 what a retry takes away;
* `SlotKeepsLedger`: `Spec => KeepsLedger`, the refinement of `TradeLedger`.

None of the invariants is inductive. `LifeInv` adds `EntryInv` — the entry in
flight works on orders that are sent, not tracked and not booked, and runs only while
the slot tracks nothing, so `record_open` finds a counter of zero — and
`CloseInv`: at most one call is past the guard of `_close_position`, it holds the
tracked position, and Case B holds the one it has marked, so whoever books a trade books the
tracked one and forgets it in the same step. `MarkedWasGone` needs an argument over
several steps of the pass: ids are issued in order and everything tracked has one (`IdInv`), so what appears
on the exchange after it answered "empty" has a higher number than any position of then, and
this lasts however long the pass holds the answer (`NewIds`, `SnapshotInv`). `DoubtInv`: the only
order in doubt is the one that blocks the pair, and it is under a check.

For the refinement, initial states map to initial states of `TradeLedger`, and under `LifeInv` every
action maps to one of its actions or to a stutter. `StageOf` reads the stage of a trade off `ord`,
`pos`, `op` and the books; `StageFacts` shows that under `LifeInv` a trade is in one stage only.
A step that neither sends, tracks nor books an order can only give attempts up (`KeptStep`); the
others send, track or book one order or end the process (`SendsStep`, `TracksStep`, `BooksStep`,
`EndsStep`).

### SoftStartRunner (`SoftStartRunner_proofs`)

`WarmingTypeCorrect`, `PositionsAreTracked`, `OpensAreFlat` and `SwitchOffIsFlat` follow from `IInv`: an order in
flight is awaited by a job that will record it or is remembered in the file (`OrderAwaited`, `OrderRemembered`), an order
that is not filled holds nothing (`UnfilledIsFlat`), what is held is in the file (`HeldRemembered`), an
unreadable file is loaded before anything works on it (`BadFileIdle`), and the job is a rest of one of the
engine's methods that belongs to the phase of the loop (`PhaseFits`).

### The smaller components

`FeeGuard_proofs`, `Accounts_proofs` (entries, recovery monitor), `Market_proofs` (books, bursts, spot half) and, for the rest,
`Components_proofs` prove theorems for any constants; `Platform_proofs` carries them to the instances that `Platform` checks
(the names in `...Here`), through `PInv`: while a component is at work its invariant holds. It is also
what makes every state of `Platform` well typed (`PlatformTypeCorrect`).

| Component | Theorems | Inductive invariant |
|---|---|---|
| `FeeGuard` | `GuardInvariant`, `PaidStaysOut`, `ProbeIsOfTheTariff`, `LivePairIsServed` | `FInv`: each coroutine is at a rest of a program of the code and what that rest relies on still holds (`Programs`: `StepsFit`, `HaltFits`), a charged slot is barred (`PaidAreBarred`), a live pair has a slot or a coroutine that owes it one (`PairsAreServedOrOwed`) |
| `SignalEntry` | `EntryInvariant`, `LimitHolds`, `GapsSignal` | `LInv`: an entry belongs to its account, is alone under way there and has room; `DInv`: the direction remembered is the one last checked |
| `RecoveryMonitor` | `AccountsStopRightly` | `RInv`: the reading kept is right or the wrong ones are counted since (`LastIsRight`, `FirstCounts`), a stop under way has its targets ahead of it (`StopFits`) |
| `ExitRules` | `TrailCountsAll` | `ExitInv`: the position's own peak is the best price told to it |
| `PairStates` | `PauseHoldsAll` | `PairsInv`: the evaluation ends only pauses that had an end when it read them, and a row nobody wrote since is as it was read |
| `Universe` | `LiveSlotsTradeAll` | `UniverseInv`: what is deleted later is not the pair of a live slot |
| `CloseFill` | `OwnCloseAll` | `FillInv`: a push that came since the wait began is of the position being closed, and what is not opened is not booked |
| `ConfigReload` | `FilesAreFollowedAll` | `ReloadInv`: what was parsed is as old as the mtime remembered, unless it slipped |
| `SchemaUpgrade` | `KeysSurviveAll` | `SchemaInv`: where keys and columns are at each statement, and why a column is missing |
| `SharedConnection` | `ConnectionHoldsAll` | `ConnInv`: queue, answers and tasks fit; what the open transaction holds and whose it is |
| `OpenThrottle` | `ThrottleFollowsAll` | `ThrottleInv`: a latch is of its account and as long as its limit (`DeadlinesFit`, `NoOldDeadline`), a limit on record stands in the row and comes back (`LimitStands`) |
| `Runtime` | `ProcessHandsOverAll` | `HInv`: what runs at each step of the two orders, and who may still open or close |
| `DepthFeed` | (lemmas) | `FeedInv`: nothing is known before it happened (`Known`); the buffer is in order and used up once the book is ready (`BufferFits`); in a ready book whose history is sound only a snapshot is ahead of what was read, and a level that did not change between the book's version and a later snapshot is right (`BookFits`) |
| `MexcDepth` | `MexcBookIsTrue` | `MexcInv`: `FeedInv`; the connection leaves nothing out, so the buffer is contiguous and ends where the stream was read (`NothingLeftOut`); once a message was skipped for its distance, all that follow are (`SkipsOn`) |
| `BinanceDepth` | `BinanceBookIsTrue` | `BinanceInv`: `FeedInv`; the message before is not ahead of a ready book whose history is sound |
| `TopOfBook` | `TopSurvivesTicker` | `TopInv`: the ticker held is the market's best at the ticker's version, and a level that is not astray and that the exchange left as it is between the versions of book and ticker is right (`Settled`) |
| `BurstAlert` | `BurstsAreTyped` | its types (its one other property fails, finding 6) |
| `SpotWarming` | `SpotBooksAll` | `SpotInv`: the order on its way fits in what is left of the day's ceiling (`OrderFits`); what went out for coins is still in them at cost, came back as booked profit or was spent before there were books (`BooksAddUp`); the books claim no more than what is held, on its way, missed, or rounded away by the sales booked (`BooksAreBacked`) |

`ReadyBookIsTrue` and `SpotBooksHold` need more than a case per action. A level of the book is represented by
the version that gave it its size, so "the book is the exchange's at version `n`" says that each level carries the last change
at or before `n`; in the replay of a buffer the last message that names a level gives it its size, and the lemmas on `Newer`, `MergeAll` and `Follows` say what
that leaves for every buffer, and that a level no message told of is in `stray`. The books of the spot half are sums over coins: the sale of a share takes value
out in proportion (`Share`), and one amount that changes moves the sum by its difference (`SumChanges`).

### What is not proved

Liveness under fairness is beyond the prover: `PanelRequestAnswered`, `EveryPositionEnds`, `OffBecomesFlat`,
`LiveDrainsWarming` and `CampaignSwitchesOff` are model-checked only. Every invariant and every action property of a passing run
is proved, under the condition given with it: with one attempt (`DoubtIsChecked`, `NoOrderOnUnknown`),
and without expiries (`HydrateRestoresSession`).

## 7. Plan

1. The orders of `PositionLifecycle` composed with `SlotSafety`: the gate of the controller in
   front of every attempt instead of the free choice the entry makes now.

## 8. Not modelled

* *Configuration values.* What a setting means is in the module that reads it, as a constant or a
  choice; defaults, parsing and unknown keys are left out. `set_pair_execution` and the panel's loader
  appear as edits.
* *Clients, signing, device profiles, encryption.* Requests and codecs; what a
  request can answer is in the modules that send it.
* *Telegram bot and web panel pages.* Text and formatting. The requests
  the panel writes and the commands that change state are actions of the modules
  whose state they change.
* *Recorders, reports, scripts, research detectors.* They write measurements and
  decide nothing.
* *Statistics of signals* (`shadow_engine.py`, the counters and the rejected
  signals): no decision reads them.
