----------------------------- MODULE MCPlatform -----------------------------
(***************************************************************************)
(* The smaller components for TLC, each by itself: the initial state picks *)
(* the component that works (part), and v1, v2, ... are its variables, in   *)
(* the order its module declares them.  The components do not interact     *)
(* here: what joins them is the environment in the module of each.  Where  *)
(* a component has a module of proofs, that one is instantiated: it is the *)
(* component with its theorems, and Platform_proofs can cite them.         *)
(***************************************************************************)
EXTENDS Integers, Sequences, FiniteSets

CONSTANTS
  Unused,
  s1, s2, p1, p2, NoPair, \* slots and pairs
  t1, t2, t3,             \* coins, calls of the database
  l1, l2,                 \* price levels
  a1, a2,                 \* accounts
  Gone, Unread

VARIABLES
  part,   \* the component at work
  v1, v2, v3, v4, v5, v6, v7, v8, v9, v10, v11, v12, v13, v14, v15, v16, v17,
  v18, v19

vars == <<part, v1, v2, v3, v4, v5, v6, v7, v8, v9, v10, v11, v12, v13, v14, v15,
          v16, v17, v18, v19>>

-----------------------------------------------------------------------------
(* The components and their bounds.                                        *)

\* one slot of two pairs and a restart, and two slots of one pair
Guard == INSTANCE FeeGuard_proofs WITH
  Slots <- {s1}, Pairs <- {p1, p2}, FirstPair <- p1, CONFIRMATIONS <- 2,
  MaxCommands <- 1, MaxOrders <- 2, MaxRestarts <- 1,
  key <- v1, live <- v2, pairOf <- v3, state <- v4, cache <- v5, built <- v6,
  routes <- v7, halted <- v8, preventive <- v9, probe <- v10, strikes <- v11,
  order <- v12, todo <- v13, commands <- v14, orders <- v15, restarts <- v16,
  caught <- v17, cause <- v18, raced <- v19

Guard2 == INSTANCE FeeGuard_proofs WITH
  Slots <- {s1, s2}, Pairs <- {p1}, FirstPair <- p1, CONFIRMATIONS <- 2,
  MaxCommands <- 1, MaxOrders <- 1, MaxRestarts <- 0,
  key <- v1, live <- v2, pairOf <- v3, state <- v4, cache <- v5, built <- v6,
  routes <- v7, halted <- v8, preventive <- v9, probe <- v10, strikes <- v11,
  order <- v12, todo <- v13, commands <- v14, orders <- v15, restarts <- v16,
  caught <- v17, cause <- v18, raced <- v19

\* Market data and spot warming, in one module with what is proved about them.
\* The burst alert has no time to hold for: as the code is, no other alert is
\* ever sent.  Depth streams: a level may lie out of reach.
M == INSTANCE Market_proofs WITH
  \* Feed, Mexc, Binance
  Levels <- {l1, l2}, Outer <- {l2}, RESNAPS <- 1, MaxVersion <- 3, MaxFetches <- 2,
  MaxDrops <- 0, MAX_VERSION_GAP <- 1, MaxLosses <- 1,
  changes <- v1, link <- v2, read <- v3, drops <- v4, ready <- v5, last <- v6,
  buffer <- v7, book <- v8, applied <- v9, fetch <- v10, resnaps <- v11,
  listed <- v12, snap <- v13, sound <- v14, stray <- v15, losses <- v16,
  \* Quotes
  Top <- 3, MaxMoves <- 2,
  market <- v1, bids <- v2, asks <- v3, depthAt <- v4, tickAt <- v5,
  tick <- v6, synced <- v7, astray <- v8,
  \* Burst
  Keys <- {p1, p2}, Persist <- 0, Repeat <- 2, MaxClock <- 4,
  now <- v1, active <- v2, run_since <- v3, told <- v4, series <- v5,
  \* Spot
  Tokens <- {t1, t2}, Prices <- {1, 2}, Cash <- 12, Step <- 3,
  OrderSizes <- {4, 6},
  Ceiling <- 10, Baseline <- 3, MinHold <- 3, MinExchange <- 2, Quota <- 1,
  MaxOrders <- 2, MaxEvents <- 1,
  wallet <- v1, cash <- v2, due <- v3, offered <- v4, price <- v5, plan <- v6,
  books <- v7, stage <- v8, order <- v9, events <- v10, orders <- v11,
  sales <- v12, missed <- v13, windfall <- v14

\* Depth streams: every level is in reach, and the connection may be lost.
M2 == INSTANCE Market_proofs WITH
  \* Feed, Mexc, Binance
  Levels <- {l1, l2}, Outer <- {}, RESNAPS <- 1, MaxVersion <- 3, MaxFetches <- 2,
  MaxDrops <- 1, MAX_VERSION_GAP <- 1, MaxLosses <- 1,
  changes <- v1, link <- v2, read <- v3, drops <- v4, ready <- v5, last <- v6,
  buffer <- v7, book <- v8, applied <- v9, fetch <- v10, resnaps <- v11,
  listed <- v12, snap <- v13, sound <- v14, stray <- v15, losses <- v16,
  \* Quotes
  Top <- 3, MaxMoves <- 2,
  market <- v1, bids <- v2, asks <- v3, depthAt <- v4, tickAt <- v5,
  tick <- v6, synced <- v7, astray <- v8,
  \* Burst
  Keys <- {p1, p2}, Persist <- 0, Repeat <- 2, MaxClock <- 4,
  now <- v1, active <- v2, run_since <- v3, told <- v4, series <- v5,
  \* Spot
  Tokens <- {t1, t2}, Prices <- {1, 2}, Cash <- 12, Step <- 3,
  OrderSizes <- {4, 6},
  Ceiling <- 10, Baseline <- 3, MinHold <- 3, MinExchange <- 2, Quota <- 1,
  MaxOrders <- 2, MaxEvents <- 1,
  wallet <- v1, cash <- v2, due <- v3, offered <- v4, price <- v5, plan <- v6,
  books <- v7, stage <- v8, order <- v9, events <- v10, orders <- v11,
  sales <- v12, missed <- v13, windfall <- v14

\* Signals: two at once.  The recovery monitor: two slots and a command while
\* the accounts stand still.
A == INSTANCE Accounts_proofs WITH
  \* Entry
  Slots <- {s1, s2}, MaxPositions <- 1, MaxTasks <- 2, MaxFlips <- 0,
  gap <- v1, dirty <- v2, watched <- v3, cooling <- v4, lastDir <- v5,
  checked <- v6, pairLive <- v7, flips <- v8, tasks <- v9, entries <- v10,
  busy <- v11, held <- v12, resting <- v13, crossed <- v14,
  \* Recovery
  Numbers <- {1, 2}, Accounts <- {a1, a2}, Pairs <- {p1, p2},
  PairOf <- <<p1, p2>>, FirstAccount <- a1, Amounts <- {-4, -2, 0}, Cap <- 4,
  Buffer <- 1, CONFIRM_TOL <- 1, MAX_CYCLE_DELTA <- 2, MaxMoves <- 0,
  MaxWrong <- 2, MaxButtons <- 1,
  pnl <- v1, account <- v2, live <- v3, mode <- v4, armed <- v5, row <- v6,
  copy <- v7, last <- v8, ahead <- v9, stopped <- v10, job <- v11,
  moves <- v12, wrongs <- v13, buttons <- v14, true <- v15, run <- v16,
  since <- v17, confirmed <- v18, touched <- v19

\* Signals: one, while the pair turns live or shadow.  The recovery monitor: a
\* slot that is read wrong more often while its account moves.
A2 == INSTANCE Accounts_proofs WITH
  \* Entry
  Slots <- {s1, s2}, MaxPositions <- 1, MaxTasks <- 1, MaxFlips <- 1,
  gap <- v1, dirty <- v2, watched <- v3, cooling <- v4, lastDir <- v5,
  checked <- v6, pairLive <- v7, flips <- v8, tasks <- v9, entries <- v10,
  busy <- v11, held <- v12, resting <- v13, crossed <- v14,
  \* Recovery
  Numbers <- {1}, Accounts <- {a1}, Pairs <- {p1}, PairOf <- <<p1>>,
  FirstAccount <- a1, Amounts <- {-6, -4, -2, 0, 2}, Cap <- 4,
  Buffer <- 1, CONFIRM_TOL <- 1, MAX_CYCLE_DELTA <- 2, MaxMoves <- 1,
  MaxWrong <- 3, MaxButtons <- 0,
  pnl <- v1, account <- v2, live <- v3, mode <- v4, armed <- v5, row <- v6,
  copy <- v7, last <- v8, ahead <- v9, stopped <- v10, job <- v11,
  moves <- v12, wrongs <- v13, buttons <- v14, true <- v15, run <- v16,
  since <- v17, confirmed <- v18, touched <- v19

\* a rulebook with every rule, and one with what may be off switched off
EveryRule == [trail |-> 2, breakeven |-> 1, adverse |-> 3, reversal |-> 2, gapLeft |-> 0,
              stall |-> 2, dead |-> 2, cut |-> 1, cutPeak |-> 0, cutAdverse |-> 1]
FewRules == [trail |-> 1, breakeven |-> 0, adverse |-> 2, reversal |-> 0, gapLeft |-> 1,
             stall |-> 0, dead |-> 0, cut |-> 0, cutPeak |-> 0, cutAdverse |-> 0]

\* The components that are proved about in one module, where their constants
\* and variables share names.
C == INSTANCE Components_proofs WITH
  \* Exit
  Prices <- -2 .. 2, Rulebooks <- {EveryRule, FewRules},
  ABSOLUTE_MAX_HOLD <- 4, FEED_STALE <- 1, MAX_HOLD <- 4, SL_GRACE <- 1,
  STOP_LOSS <- 2, REVERSAL_MAX <- 2, MIN_HOLD <- 1, MaxTime <- 6,
  time <- v1, looked <- v2, rules <- v3, price <- v4, priceAt <- v5,
  known <- v6, heard <- v7, lead <- v8, current <- v9, peak <- v10,
  progress <- v11, reason <- v12, best <- v13,
  \* Pair
  Evaluated <- {p1}, MaxClock <- 3, MaxButtons <- 1,
  clock <- v1, buttons <- v2, row <- v3, copy <- v4, ordered <- v5, plan <- v6,
  walk <- v7, move <- v8, endless <- v9, touched <- v10,
  \* Start, with known
  Slots <- {s1, s2}, Pairs <- {p1, p2}, Configs <- {{p1, p2}, {p1}, {}},
  Reference <- {},
  config <- v1, boot <- v2, todo <- v3, active <- v4, listed <- v5,
  state <- v7, configs <- v8, assigned <- v9, slotLive <- v10,
  subscribed <- v11, traded <- v12, during <- v13, lost <- v14,
  \* Fill, with listed
  Window <- 1, MaxPositions <- 2, MaxNow <- 3, MaxTries <- 3, MaxDrops <- 1,
  now <- v1, opened <- v2, held <- v3, closedAt <- v4, wire <- v6, job <- v7,
  drops <- v8, cached <- v9, line <- v10, tries <- v11, booked <- v12,
  mixed <- v13,
  \* Reload, with Pairs and job
  Global <- l1, Consumers <- {s1, s2}, Detector <- s2, None <- Unused,
  MaxEdits <- 2,
  disk <- v1, fault <- v2, edits <- v3, glob <- v4, pairs <- v5, mtime <- v6,
  view <- v8, base0 <- v9, slipped <- v10, clean <- v11, upto <- v12,
  \* Schema, with Slots and disk
  First <- s1, MaxStarts <- 3,
  db <- v2, open <- v3, at <- v4, rows <- v5, starts <- v6, owned <- v7, torn <- v8,
  rebuilt <- v9, refused <- v10,
  \* Connection
  Tasks <- {t1, t2}, Attempts <- 3, MaxOutside <- 2,
  file <- v1, tx <- v2, cursors <- v3, task <- v4, queue <- v5, results <- v6,
  locked <- v7, outside <- v8, undone <- v9, lone <- v10,
  \* Throttle, with clock and row
  Mode <- 3, Lag <- 1, ThrottleClock <- 5, MaxSends <- 2,
  sends <- v2, latch <- v4, persisted <- v5, seen <- v6, hold <- v7, gate <- v8,
  request <- v9, saving <- v10, sweep <- v11, limit <- v12, answer <- v13,
  \* Process, with None, todo and starts
  Ids <- {t1, t2, t3}, MaxProcesses <- 2,
  phase <- v1, n <- v2, up <- v4, signals <- v5, tracked <- v7, closing <- v8,
  exch <- v9, orderly <- v10, late <- v11, left <- v12

-----------------------------------------------------------------------------
(* One of them at work.                                                    *)

\* what the component does not need, from a variable on
From17 == <<v17, v18, v19>>
From16 == <<v16, From17>>
From15 == <<v15, From16>>
From14 == <<v14, From15>>
From13 == <<v13, From14>>
From12 == <<v12, From13>>
From11 == <<v11, From12>>
From10 == <<v10, From11>>
From9 == <<v9, From10>>
From6 == <<v6, v7, v8, From9>>
Blank17 == v17 = Unused /\ v18 = Unused /\ v19 = Unused
Blank16 == v16 = Unused /\ Blank17
Blank15 == v15 = Unused /\ Blank16
Blank14 == v14 = Unused /\ Blank15
Blank13 == v13 = Unused /\ Blank14
Blank12 == v12 = Unused /\ Blank13
Blank11 == v11 = Unused /\ Blank12
Blank10 == v10 = Unused /\ Blank11
Blank9 == v9 = Unused /\ Blank10
Blank6 == v6 = Unused /\ v7 = Unused /\ v8 = Unused /\ Blank9

Init ==
  \/ part = "spot" /\ M!Spot!Init /\ Blank15
  \/ part = "guard" /\ Guard!Init
  \/ part = "guard2" /\ Guard2!Init
  \/ part = "throttle" /\ C!Throttle!Init /\ Blank14
  \/ part = "mexc" /\ M!Mexc!Init /\ Blank16
  \/ part = "mexc2" /\ M2!Mexc!Init /\ Blank16
  \/ part = "binance" /\ M!Binance!InitB /\ Blank17
  \/ part = "binance2" /\ M2!Binance!InitB /\ Blank17
  \/ part = "top" /\ M!Quotes!Init /\ Blank9
  \/ part = "pairs" /\ C!Pair!Init /\ Blank11
  \/ part = "entry" /\ A!Entry!Init /\ Blank15
  \/ part = "entry2" /\ A2!Entry!Init /\ Blank15
  \/ part = "exit" /\ C!Exit!Init /\ Blank14
  \/ part = "close" /\ C!Fill!Init /\ Blank14
  \/ part = "recovery" /\ A!Recovery!Init
  \/ part = "recovery2" /\ A2!Recovery!Init
  \/ part = "universe" /\ C!Start!Init /\ Blank15
  \/ part = "schema" /\ C!Schema!Init /\ Blank11
  \/ part = "connection" /\ C!Connection!Init /\ Blank11
  \/ part = "burst" /\ M!Burst!Init /\ Blank6
  \/ part = "config" /\ C!Reload!Init /\ Blank13
  \/ part = "process" /\ C!Process!Init /\ Blank13

Next ==
  /\ UNCHANGED part
  /\ \/ part = "spot" /\ M!Spot!Next /\ UNCHANGED From15
     \/ part = "guard" /\ Guard!Next
     \/ part = "guard2" /\ Guard2!Next
     \/ part = "throttle" /\ C!Throttle!Next /\ UNCHANGED From14
     \/ part = "mexc" /\ M!Mexc!Next /\ UNCHANGED From16
     \/ part = "mexc2" /\ M2!Mexc!Next /\ UNCHANGED From16
     \/ part = "binance" /\ M!Binance!Next /\ UNCHANGED From17
     \/ part = "binance2" /\ M2!Binance!Next /\ UNCHANGED From17
     \/ part = "top" /\ M!Quotes!Next /\ UNCHANGED From9
     \/ part = "pairs" /\ C!Pair!Next /\ UNCHANGED From11
     \/ part = "entry" /\ A!Entry!Next /\ UNCHANGED From15
     \/ part = "entry2" /\ A2!Entry!Next /\ UNCHANGED From15
     \/ part = "exit" /\ C!Exit!Next /\ UNCHANGED From14
     \/ part = "close" /\ C!Fill!Next /\ UNCHANGED From14
     \/ part = "recovery" /\ A!Recovery!Next
     \/ part = "recovery2" /\ A2!Recovery!Next
     \/ part = "universe" /\ C!Start!Next /\ UNCHANGED From15
     \/ part = "schema" /\ C!Schema!Next /\ UNCHANGED From11
     \/ part = "connection" /\ C!Connection!Next /\ UNCHANGED From11
     \/ part = "burst" /\ M!Burst!Next /\ UNCHANGED From6
     \/ part = "config" /\ C!Reload!Next /\ UNCHANGED From13
     \/ part = "process" /\ C!Process!Next /\ UNCHANGED From13

Spec == Init /\ [][Next]_vars

-----------------------------------------------------------------------------
(* What each component promises; the modules say where it comes from.      *)

ASSUME PlatformAssumptions ==
  /\ M!Spot!SpotAssumptions
  /\ Guard!FeeGuardAssumptions /\ Guard2!FeeGuardAssumptions
  /\ C!Throttle!ThrottleAssumptions
  /\ M!Feed!DepthAssumptions /\ M!Mexc!GapAssumption /\ M!Binance!LossAssumption
  /\ M2!Feed!DepthAssumptions /\ M2!Mexc!GapAssumption /\ M2!Binance!LossAssumption
  /\ M!Quotes!TopAssumptions /\ C!Pair!PairStatesAssumptions
  /\ A!Entry!SignalEntryAssumptions /\ A2!Entry!SignalEntryAssumptions
  /\ C!Exit!ExitAssumptions /\ C!Fill!CloseFillAssumptions
  /\ A!Recovery!RecoveryAssumptions /\ A2!Recovery!RecoveryAssumptions
  /\ C!Start!UniverseAssumptions /\ C!Schema!SchemaAssumptions
  /\ M!Burst!BurstAssumptions /\ C!Connection!ConnectionAssumptions
  /\ C!Reload!ReloadAssumptions /\ C!Process!RuntimeAssumptions

\* The variables of the component at work have the values its module allows.
TypeOK ==
  /\ part = "spot" => M!Spot!TypeOK
  /\ part = "guard" => Guard!TypeOK
  /\ part = "guard2" => Guard2!TypeOK
  /\ part = "throttle" => C!Throttle!TypeOK
  /\ part = "mexc" => M!Mexc!TypeOK
  /\ part = "mexc2" => M2!Mexc!TypeOK
  /\ part = "binance" => M!Binance!TypeOK
  /\ part = "binance2" => M2!Binance!TypeOK
  /\ part = "top" => M!Quotes!TypeOK
  /\ part = "pairs" => C!Pair!TypeOK
  /\ part = "entry" => A!Entry!TypeOK
  /\ part = "entry2" => A2!Entry!TypeOK
  /\ part = "exit" => C!Exit!TypeOK
  /\ part = "close" => C!Fill!TypeOK
  /\ part = "recovery" => A!Recovery!TypeOK
  /\ part = "recovery2" => A2!Recovery!TypeOK
  /\ part = "universe" => C!Start!TypeOK
  /\ part = "schema" => C!Schema!TypeOK
  /\ part = "connection" => C!Connection!TypeOK
  /\ part = "burst" => M!Burst!TypeOK
  /\ part = "config" => C!Reload!TypeOK
  /\ part = "process" => C!Process!TypeOK

\* Account warming, spot: the books of the budget agree with themselves and
\* claim no coin but what is held, what resting buys may bring and what the
\* answers kept from them, up to rounding (soft_start_budget.py).
SpotBooksHold == part = "spot" => M!Spot!BooksAddUp /\ M!Spot!BooksAreBacked

\* Fee guard: a slot that was charged sends no order before an operator sets
\* it free, restarts and stale routes included (live_executor.py).
PaidSlotStaysOut ==
  [][/\ part = "guard" => Guard!StaysOut
     /\ part = "guard2" => Guard2!StaysOut]_vars

\* Fee guard: a probe runs only where the tariff alone had halted the slot
\* and an operator lifted that halt (live_executor.py, fee_watchdog.py).
ProbeFollowsTariffHalt ==
  /\ part = "guard" => Guard!ProbeFollowsTariffHalt
  /\ part = "guard2" => Guard2!ProbeFollowsTariffHalt

\* Fee guard: once nobody is at work, a live pair has a slot that trades it
\* (credentials.py, live_executor.py, cmd_slot.py).
PairKeepsASlot ==
  /\ part = "guard" => Guard!PairKeepsASlot
  /\ part = "guard2" => Guard2!PairKeepsASlot

\* Open throttle: a limit throttles its own account, for its whole term
\* (shadow_engine.py).
ThrottleFollowsLimit == [][part = "throttle" => C!Throttle!FollowsLimit]_vars

\* Depth streams: a ready book shows the exchange's levels at the version it
\* claims, but for the levels it was not told of or cut off (mexc_ws.py,
\* binance_ws.py), and the ticker that hurries ahead of depth spoils none of
\* the others (orderbook.py).
ReadyBookIsTrue ==
  /\ part = "mexc" => M!Mexc!ReadyBookIsTrue
  /\ part = "mexc2" => M2!Mexc!ReadyBookIsTrue
  /\ part = "binance" => M!Binance!ReadyBookIsTrue
  /\ part = "binance2" => M2!Binance!ReadyBookIsTrue
  /\ part = "top" => M!Quotes!DepthSurvivesTicker

\* Pair states: the evaluation never ends a pause with no end
\* (pair_state_manager.py, transitions.py).
EndlessPauseHolds == [][part = "pairs" => C!Pair!PauseHolds]_vars

\* Signals: a gap that opens or turns round sends its signal at the first
\* check that sees it (static_gap_detector.py).
OpeningGapSignals ==
  [][/\ part = "entry" => A!Entry!GapSignals
     /\ part = "entry2" => A2!Entry!GapSignals]_vars

\* Entries: no account holds more positions of the pair than it may,
\* whatever signals enter at once (shadow_engine.py).
PositionsWithinLimit ==
  /\ part = "entry" => A!Entry!PositionsWithinLimit
  /\ part = "entry2" => A2!Entry!PositionsWithinLimit

\* Exits: a price reached between two looks of the watcher counts for the
\* trailing exit (virtual_position.py, shadow_engine.py).
TrailCountsEveryPrice == [][part = "exit" => C!Exit!TrailCounts]_vars

\* Closes: a position is booked with its own close or with none
\* (live_executor.py, mexc_private_ws.py).
BookedWithItsOwnClose == part = "close" => C!Fill!BookedWithItsOwnClose

\* Recovery: wrong readings of the account's page stop no slot unless two or
\* three follow each other, and slots that share an account stop together (main.py).
AccountStopsRightly ==
  [][/\ part = "recovery" => A!Recovery!StopNeedsReadings /\ A!Recovery!StopsTogether
     /\ part = "recovery2" => A2!Recovery!StopNeedsReadings /\ A2!Recovery!StopsTogether]_vars

\* Starts: no start and no delete takes the pair from a live slot
\* (universe.py, data.py).
LiveSlotsTrade == part = "universe" => C!Start!LiveSlotsTrade

\* Storage: no start loses a web key, and none leaves out a column but one that
\* it could not add or that its rebuild dropped, over databases of any age and
\* with a crash or a failure at any statement; a write on the shared
\* connection is stored when it returns and a read sees the file as it is
\* (db.py, db_live.py, signal.py).
StorageHolds ==
  /\ part = "schema" => C!Schema!KeysSurvive /\ C!Schema!ColumnsArePresent
  /\ part = "connection" => C!Connection!WritesAreAnswered /\ C!Connection!LoneReadIsFresh

\* Configuration: a reader that rebuilds after a check works with the files as
\* they are (config_loader.py, shadow_engine.py, static_gap_detector.py).
ConfigFollowsFiles == part = "config" => C!Reload!ViewFollowsFiles

\* Process: reconciliation at boot meets no entry of its own process, and a stop
\* in order leaves only what it could not close (main.py, shadow_engine.py).
ProcessHandsOver ==
  part = "process" => C!Process!ProcessHandsOver

=============================================================================
