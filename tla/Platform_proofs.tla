--------------------------- MODULE Platform_proofs ---------------------------
(***************************************************************************)
(* The properties that the run of the smaller components checks, for the   *)
(* components with a proof of their own: what holds of every instance of   *)
(* the module holds of the one that works here.                            *)
(***************************************************************************)
EXTENDS MCPlatform, TLAPS

\* The bounds of the run are values the proofs allow.
LEMMA BoundsFit ==
  /\ A!Entry!SignalEntryAssumptions /\ A2!Entry!SignalEntryAssumptions
  /\ C!Process!RuntimeAssumptions
  /\ Guard!FeeGuardAssumptions /\ Guard2!FeeGuardAssumptions
  /\ C!Exit!ExitAssumptions
  /\ C!Pair!PairStatesAssumptions
  /\ C!Start!UniverseAssumptions
  /\ C!Fill!CloseFillAssumptions
  /\ C!Reload!ReloadAssumptions
  /\ C!Schema!SchemaAssumptions
  /\ C!Connection!ConnectionAssumptions
  /\ C!Throttle!ThrottleAssumptions
  /\ A!Recovery!RecoveryAssumptions /\ A2!Recovery!RecoveryAssumptions
  /\ M!Feed!DepthAssumptions /\ M!Mexc!GapAssumption /\ M!Quotes!TopAssumptions
  /\ M2!Feed!DepthAssumptions /\ M2!Mexc!GapAssumption
  /\ M!Burst!BurstAssumptions /\ M!Spot!SpotAssumptions
BY PlatformAssumptions

\* While one of them is at work, its invariant holds.
PInv ==
  /\ part = "entry" => A!LInv /\ A!DInv
  /\ part = "entry2" => A2!LInv /\ A2!DInv
  /\ part = "process" => C!Process!HInv
  /\ part = "guard" => Guard!FInv
  /\ part = "guard2" => Guard2!FInv
  /\ part = "exit" => C!Exit!ExitInv
  /\ part = "pairs" => C!Pair!PairsInv
  /\ part = "universe" => C!Start!UniverseInv
  /\ part = "close" => C!Fill!FillInv
  /\ part = "config" => C!Reload!ReloadInv
  /\ part = "schema" => C!Schema!SchemaInv
  /\ part = "connection" => C!Connection!ConnInv
  /\ part = "throttle" => C!Throttle!ThrottleInv
  /\ part = "recovery" => A!RInv
  /\ part = "recovery2" => A2!RInv
  /\ part = "mexc" => M!Mexc!MexcInv
  /\ part = "mexc2" => M2!Mexc!MexcInv
  /\ part = "binance" => M!Binance!BinanceInv
  /\ part = "binance2" => M2!Binance!BinanceInv
  /\ part = "top" => M!Quotes!TopInv
  /\ part = "burst" => M!Burst!TypeOK
  /\ part = "spot" => M!Spot!SpotInv

\* The initial states of a component satisfy its invariant.
LEMMA InitPInv == Init => PInv
BY BoundsFit, A!InitLInv, A2!InitLInv, A!InitDInv, A2!InitDInv,
   C!InitHInv, Guard!InitFInv, Guard2!InitFInv, C!InitExitInv, C!InitPairsInv,
   C!InitUniverseInv, C!InitFillInv, C!InitReloadInv, C!InitSchemaInv, C!InitConnInv,
   C!InitThrottle, A!InitRInv, A2!InitRInv, M!MexcInit, M2!MexcInit,
   M!BinanceInit, M2!BinanceInit, M!TopInit, M!InitBurst, M!InitSpotInv
   DEF Init, PInv

\* A step of the whole is a step of the component at work.
LEMMA StepsFit ==
  ASSUME [Next]_vars
  PROVE  /\ part' = part
         /\ part = "entry" => [A!Entry!Next]_(A!Entry!vars)
         /\ part = "entry2" => [A2!Entry!Next]_(A2!Entry!vars)
         /\ part = "process" => [C!Process!Next]_(C!Process!vars)
         /\ part = "guard" => [Guard!Next]_(Guard!vars)
         /\ part = "guard2" => [Guard2!Next]_(Guard2!vars)
         /\ part = "exit" => [C!Exit!Next]_(C!Exit!vars)
         /\ part = "pairs" => [C!Pair!Next]_(C!Pair!vars)
         /\ part = "universe" => [C!Start!Next]_(C!Start!vars)
         /\ part = "close" => [C!Fill!Next]_(C!Fill!vars)
         /\ part = "config" => [C!Reload!Next]_(C!Reload!vars)
         /\ part = "schema" => [C!Schema!Next]_(C!Schema!vars)
         /\ part = "connection" => [C!Connection!Next]_(C!Connection!vars)
         /\ part = "throttle" => [C!Throttle!Next]_(C!Throttle!vars)
         /\ part = "recovery" => [A!Recovery!Next]_(A!Recovery!vars)
         /\ part = "recovery2" => [A2!Recovery!Next]_(A2!Recovery!vars)
         /\ part = "mexc" => [M!Mexc!Next]_(M!Mexc!vars)
         /\ part = "mexc2" => [M2!Mexc!Next]_(M2!Mexc!vars)
         /\ part = "binance" => [M!Binance!Next]_(M!Binance!allVars)
         /\ part = "binance2" => [M2!Binance!Next]_(M2!Binance!allVars)
         /\ part = "top" => [M!Quotes!Next]_(M!Quotes!vars)
         /\ part = "burst" => [M!Burst!Next]_(M!Burst!vars)
         /\ part = "spot" => [M!Spot!Next]_(M!Spot!vars)
<1>1. CASE UNCHANGED vars
  BY <1>1 DEF vars, A!Entry!vars, A2!Entry!vars, C!Process!vars, C!Process!place,
     C!Process!trades, C!Process!history, Guard!vars, Guard!rows, Guard!pairs,
     Guard!pool, Guard!guard, Guard!counts, Guard2!vars, Guard2!rows,
     Guard2!pairs, Guard2!pool, Guard2!guard, Guard2!counts, C!Exit!vars,
     C!Exit!feed, C!Exit!position, C!Pair!vars, C!Pair!history, C!Start!vars,
     C!Start!start, C!Start!registry, C!Start!slots, C!Start!process,
     C!Start!history, C!Fill!vars, C!Fill!exchange, C!Fill!stream,
     C!Fill!result, C!Reload!files, C!Reload!loader, C!Reload!readers,
     C!Reload!marks, C!Reload!vars, C!Schema!vars, C!Connection!tables,
     C!Connection!others, C!Connection!vars, C!Throttle!vars, C!Throttle!memory,
     A!Recovery!vars, A2!Recovery!vars,
     M!Mexc!vars, M!Mexc!exchange, M!Mexc!line, M!Mexc!view, M!Mexc!gates,
     M!Binance!allVars, M!Binance!vars, M!Binance!exchange, M!Binance!line,
     M!Binance!view, M!Binance!gates,
     M2!Mexc!vars, M2!Mexc!exchange, M2!Mexc!line, M2!Mexc!view, M2!Mexc!gates,
     M2!Binance!allVars, M2!Binance!vars, M2!Binance!exchange, M2!Binance!line,
     M2!Binance!view, M2!Binance!gates, M!Quotes!vars, M!Quotes!book, M!Burst!vars,
     M!Spot!vars
<1>2. CASE Next
  BY <1>2 DEF Next
<1>3. QED
  BY <1>1, <1>2

\* Every step keeps the invariant of the component at work, sends the signal
\* of a gap that the detector sees for the first time, and no order of a slot
\* that was charged; a look at the price leaves a position that fell back, and
\* the evaluation holds a pause with no end.
LEMMA StepPInv ==
  ASSUME PInv, [Next]_vars
  PROVE  /\ PInv'
         /\ part = "entry" => A!Entry!GapSignals
         /\ part = "entry2" => A2!Entry!GapSignals
         /\ part = "guard" => Guard!StaysOut
         /\ part = "guard2" => Guard2!StaysOut
         /\ part = "exit" => C!Exit!TrailCounts
         /\ part = "pairs" => C!Pair!PauseHolds
         /\ part = "throttle" => C!Throttle!FollowsLimit
         /\ part = "recovery" => A!Recovery!StopNeedsReadings /\ A!Recovery!StopsTogether
         /\ part = "recovery2" => A2!Recovery!StopNeedsReadings /\ A2!Recovery!StopsTogether
<1>1. CASE part = "entry"
  BY <1>1, BoundsFit, StepsFit, A!StepLInv, A!StepDInv DEF PInv
<1>2. CASE part = "entry2"
  BY <1>2, BoundsFit, StepsFit, A2!StepLInv, A2!StepDInv DEF PInv
<1>3. CASE part = "process"
  BY <1>3, BoundsFit, StepsFit, C!StepHInv DEF PInv
<1>4. CASE part = "guard"
  BY <1>4, BoundsFit, StepsFit, Guard!StepFInv, Guard!StepStaysOut DEF PInv
<1>5. CASE part = "guard2"
  BY <1>5, BoundsFit, StepsFit, Guard2!StepFInv, Guard2!StepStaysOut DEF PInv
<1>6. CASE part = "exit"
  BY <1>6, BoundsFit, StepsFit, C!StepExitInv, C!LookTrails DEF PInv
<1>7. CASE part = "pairs"
  BY <1>7, BoundsFit, StepsFit, C!StepPairsInv, C!PauseIsHeld DEF PInv
<1>8. CASE part = "universe"
  BY <1>8, BoundsFit, StepsFit, C!StepUniverseInv DEF PInv
<1>9. CASE part = "close"
  BY <1>9, BoundsFit, StepsFit, C!StepFillInv DEF PInv
<1>10. CASE part = "config"
  BY <1>10, BoundsFit, StepsFit, C!StepReloadInv DEF PInv
<1>11. CASE part = "schema"
  BY <1>11, BoundsFit, StepsFit, C!StepSchemaInv DEF PInv
<1>12. CASE part = "connection"
  BY <1>12, BoundsFit, StepsFit, C!StepConnInv DEF PInv
<1>13. CASE part = "recovery"
  BY <1>13, BoundsFit, StepsFit, A!StepRInv, A!StepStopNeedsReadings,
     A!StepStopsTogether DEF PInv
<1>14. CASE part = "recovery2"
  BY <1>14, BoundsFit, StepsFit, A2!StepRInv, A2!StepStopNeedsReadings,
     A2!StepStopsTogether DEF PInv
<1>15. CASE part = "throttle"
  BY <1>15, BoundsFit, StepsFit, C!StepThrottleInv, C!StepFollowsLimit DEF PInv
<1>16. CASE part = "mexc"
  BY <1>16, BoundsFit, StepsFit, M!MexcStep DEF PInv
<1>17. CASE part = "binance"
  BY <1>17, BoundsFit, StepsFit, M!BinanceStep DEF PInv
<1>18. CASE part = "top"
  BY <1>18, BoundsFit, StepsFit, M!StepTop DEF PInv
<1>19. CASE part = "burst"
  BY <1>19, BoundsFit, StepsFit, M!StepBurst DEF PInv
<1>20. CASE part = "spot"
  BY <1>20, BoundsFit, StepsFit, M!StepSpotInv DEF PInv
<1>21. CASE part = "mexc2"
  BY <1>21, BoundsFit, StepsFit, M2!MexcStep DEF PInv
<1>22. CASE part = "binance2"
  BY <1>22, BoundsFit, StepsFit, M2!BinanceStep DEF PInv
<1>23. QED
  BY <1>1, <1>2, <1>3, <1>4, <1>5, <1>6, <1>7, <1>8, <1>9, <1>10, <1>11, <1>12,
     <1>13, <1>14, <1>15, <1>16, <1>17, <1>18, <1>19, <1>20, <1>21, <1>22, StepsFit
     DEF PInv

\* Whatever signals and slots are entering at once, no account holds more
\* positions of the pair than it may (shadow_engine.py, on_signal to
\* _open_position).
THEOREM LimitHoldsHere == Spec => []PositionsWithinLimit
<1>1. PInv => PositionsWithinLimit
  BY A!LInvGives, A2!LInvGives DEF PInv, PositionsWithinLimit
<1>2. QED
  BY <1>1, InitPInv, StepPInv, PTL DEF Spec

\* A gap that opens or turns round sends its signal at the first check that
\* sees it (static_gap_detector.py, _check_symbol).
THEOREM GapsSignalHere == Spec => OpeningGapSignals
<1> DEFINE Safe == /\ part = "entry" => A!Entry!GapSignals
                   /\ part = "entry2" => A2!Entry!GapSignals
<1>1. PInv /\ [Next]_vars => PInv' /\ [Safe]_vars
  BY StepPInv
<1>2. QED
  BY <1>1, InitPInv, PTL DEF Spec, OpeningGapSignals

\* Reconciliation at boot meets no entry of its own process, and a stop in
\* order leaves on the exchange only what came late or could not be closed
\* (main.py, shadow_engine.py).
THEOREM ProcessHandsOverHere == Spec => []ProcessHandsOver
<1>1. PInv => ProcessHandsOver
  BY C!HInvGives DEF PInv, ProcessHandsOver
<1>2. QED
  BY <1>1, InitPInv, StepPInv, PTL DEF Spec

\* A slot that was charged sends no order before an operator sets it free
\* (live_executor.py, _trip_fee_guard).
THEOREM PaidStaysOutHere == Spec => PaidSlotStaysOut
<1> DEFINE Safe == /\ part = "guard" => Guard!StaysOut
                   /\ part = "guard2" => Guard2!StaysOut
<1>1. PInv /\ [Next]_vars => PInv' /\ [Safe]_vars
  BY StepPInv
<1>2. QED
  BY <1>1, InitPInv, PTL DEF Spec, PaidSlotStaysOut

\* A probe runs only where the tariff alone had halted the slot
\* (live_executor.py, reset_fee_guard).
THEOREM ProbeIsOfTheTariffHere == Spec => []ProbeFollowsTariffHalt
<1>1. PInv => ProbeFollowsTariffHalt
  BY Guard!FInvGives, Guard2!FInvGives DEF PInv, ProbeFollowsTariffHalt
<1>2. QED
  BY <1>1, InitPInv, StepPInv, PTL DEF Spec

\* With nobody at work a live pair has a slot that trades it (credentials.py,
\* live_executor.py).
THEOREM LivePairIsServedHere == Spec => []PairKeepsASlot
<1>1. PInv => PairKeepsASlot
  BY Guard!FInvGives, Guard2!FInvGives DEF PInv, PairKeepsASlot
<1>2. QED
  BY <1>1, InitPInv, StepPInv, PTL DEF Spec

\* The throttle follows the limit of the account in force, whatever the sweep,
\* other signals, new keys and restarts do (shadow_engine.py, _open_position and
\* _release_throttle_for_new_keys).
THEOREM ThrottleFollowsLimitHere == Spec => ThrottleFollowsLimit
<1> DEFINE Safe == part = "throttle" => C!Throttle!FollowsLimit
<1>1. PInv /\ [Next]_vars => PInv' /\ [Safe]_vars
  BY StepPInv
<1>2. QED
  BY <1>1, InitPInv, PTL DEF Spec, ThrottleFollowsLimit

\* The evaluation never ends a pause with no end, wherever a button or the
\* panel comes between (pair_state_manager.py).
THEOREM EndlessPauseHoldsHere == Spec => EndlessPauseHolds
<1> DEFINE Safe == part = "pairs" => C!Pair!PauseHolds
<1>1. PInv /\ [Next]_vars => PInv' /\ [Safe]_vars
  BY StepPInv
<1>2. QED
  BY <1>1, InitPInv, PTL DEF Spec, EndlessPauseHolds

\* A price told between two looks counts for the trailing exit
\* (virtual_position.py, update_extremes).
THEOREM TrailCountsHere == Spec => TrailCountsEveryPrice
<1> DEFINE Safe == part = "exit" => C!Exit!TrailCounts
<1>1. PInv /\ [Next]_vars => PInv' /\ [Safe]_vars
  BY StepPInv
<1>2. QED
  BY <1>1, InitPInv, PTL DEF Spec, TrailCountsEveryPrice

\* A position is booked with its own close or with none (live_executor.py,
\* mexc_private_ws.py).
THEOREM OwnCloseHere == Spec => []BookedWithItsOwnClose
<1>1. PInv => BookedWithItsOwnClose
  BY DEF PInv, BookedWithItsOwnClose, C!Fill!FillInv
<1>2. QED
  BY <1>1, InitPInv, StepPInv, PTL DEF Spec

\* No start and no delete takes the pair from a live slot (universe.py,
\* data.py).
THEOREM LiveSlotsTradeHere == Spec => []LiveSlotsTrade
<1>1. PInv => LiveSlotsTrade
  BY DEF PInv, LiveSlotsTrade, C!Start!UniverseInv
<1>2. QED
  BY <1>1, InitPInv, StepPInv, PTL DEF Spec

\* A reader that rebuilds after a check works with the files as they are
\* (config_loader.py, shadow_engine.py, static_gap_detector.py).
THEOREM FilesAreFollowedHere == Spec => []ConfigFollowsFiles
<1>1. PInv => ConfigFollowsFiles
  BY DEF PInv, ConfigFollowsFiles, C!Reload!ReloadInv
<1>2. QED
  BY <1>1, InitPInv, StepPInv, PTL DEF Spec

\* No start loses a web key, and none leaves out a column but one that it could
\* not add or that its rebuild for v6 dropped; on the shared connection a write
\* that returned is stored and a read that is alone sees the file as it is
\* (db.py, db_live.py, signal.py).
THEOREM StorageHoldsHere == Spec => []StorageHolds
<1>1. PInv => StorageHolds
  BY C!ConnInvTells DEF PInv, StorageHolds, C!Schema!SchemaInv, C!Schema!ColumnsArePresent
<1>2. QED
  BY <1>1, InitPInv, StepPInv, PTL DEF Spec

\* No slot is stopped for a wrong reading alone, and no slot of a stopped
\* account is left live (main.py, _pnl_confirms and _recovery_stop).
THEOREM AccountStopsRightlyHere == Spec => AccountStopsRightly
<1> DEFINE Safe == /\ part = "recovery" => A!Recovery!StopNeedsReadings /\ A!Recovery!StopsTogether
                   /\ part = "recovery2" => /\ A2!Recovery!StopNeedsReadings
                                            /\ A2!Recovery!StopsTogether
<1>1. PInv /\ [Next]_vars => PInv' /\ [Safe]_vars
  BY StepPInv
<1>2. QED
  BY <1>1, InitPInv, PTL DEF Spec, AccountStopsRightly

\* A ready book shows the exchange's levels at the version it claims, but for
\* those it was not told of or cut off, and the ticker that hurries ahead of
\* depth spoils none of the others (mexc_ws.py, binance_ws.py, orderbook.py).
THEOREM ReadyBookIsTrueHere == Spec => []ReadyBookIsTrue
<1>1. PInv => ReadyBookIsTrue
  BY BoundsFit, M!MexcGives, M2!MexcGives, M!BinanceGives, M2!BinanceGives, M!TopGives
     DEF PInv, ReadyBookIsTrue
<1>2. QED
  BY <1>1, InitPInv, StepPInv, PTL DEF Spec

\* The books of the spot budget agree with themselves and claim no coin but what
\* is held, what resting buys may bring and what the answers kept from them
\* (soft_start_budget.py).
THEOREM SpotBooksHoldHere == Spec => []SpotBooksHold
<1>1. PInv => SpotBooksHold
  BY DEF PInv, SpotBooksHold, M!Spot!SpotInv
<1>2. QED
  BY <1>1, InitPInv, StepPInv, PTL DEF Spec

\* What a component's invariant says includes the values its variables have.
LEMMA PInvTyped == PInv => TypeOK
<1> SUFFICES ASSUME PInv PROVE TypeOK
  OBVIOUS
<1>1. /\ part = "entry" => A!Entry!TypeOK
      /\ part = "entry2" => A2!Entry!TypeOK
      /\ part = "recovery" => A!Recovery!TypeOK
      /\ part = "recovery2" => A2!Recovery!TypeOK
  BY A!EntryTyped, A2!EntryTyped, A!RInvGives, A2!RInvGives DEF PInv
<1>2. /\ part = "guard" => Guard!TypeOK
      /\ part = "guard2" => Guard2!TypeOK
  BY Guard!FInvGives, Guard2!FInvGives DEF PInv
<1>3. /\ part = "mexc" => M!Mexc!TypeOK
      /\ part = "mexc2" => M2!Mexc!TypeOK
      /\ part = "binance" => M!Binance!TypeOK
      /\ part = "binance2" => M2!Binance!TypeOK
      /\ part = "top" => M!Quotes!TypeOK
      /\ part = "burst" => M!Burst!TypeOK
      /\ part = "spot" => M!Spot!TypeOK
  BY M!MexcGives, M2!MexcGives, M!BinanceGives, M2!BinanceGives
     DEF PInv, M!Quotes!TopInv, M!Spot!SpotInv
<1>4. /\ part = "throttle" => C!Throttle!TypeOK
      /\ part = "process" => C!Process!TypeOK
      /\ part = "connection" => C!Connection!TypeOK
  BY C!ThrottleInvGives, C!HInvGives, C!ConnInvTells DEF PInv
<1>5. /\ part = "exit" => C!Exit!TypeOK
      /\ part = "pairs" => C!Pair!TypeOK
      /\ part = "universe" => C!Start!TypeOK
      /\ part = "close" => C!Fill!TypeOK
      /\ part = "config" => C!Reload!TypeOK
      /\ part = "schema" => C!Schema!TypeOK
  BY DEF PInv, C!Exit!ExitInv, C!Pair!PairsInv, C!Pair!PairsTyped, C!Start!UniverseInv,
     C!Fill!FillInv, C!Reload!ReloadInv, C!Reload!ReloadTyped, C!Schema!SchemaInv
<1>6. QED
  BY <1>1, <1>2, <1>3, <1>4, <1>5 DEF TypeOK

\* Every variable of the component at work keeps the values its module allows.
THEOREM PlatformTypeCorrect == Spec => []TypeOK
BY PInvTyped, InitPInv, StepPInv, PTL DEF Spec

=============================================================================
