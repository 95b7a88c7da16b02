------------------------------ MODULE SlotSafety ------------------------------
(***************************************************************************)
(* The drawdown halt ("kill") of one live slot and everything that moves   *)
(* it: LiveSafetyController (src/src/execution/live_safety.py), the part   *)
(* of LiveExecutorPool that makes an in-memory decision survive a restart  *)
(* (src/src/execution/live_pool.py), and the two orders in which a close   *)
(* reaches the controller and the live_trades table.                       *)
(*                                                                         *)
(* The process is one asyncio loop, so code between two awaits is one      *)
(* step; every await is a step boundary, and the process may die at any    *)
(* boundary.  Money is counted in whole units and time in ticks; a tick is *)
(* longer than one database write and shorter than the kill pause.         *)
(***************************************************************************)
EXTENDS Integers, FiniteSets, Functions

CONSTANTS
  Pnls,           \* net results a close may have
  DrawdownLimit,  \* LIVE_MAX_DRAWDOWN, 0 = the automatic halt is off
  KillPause,      \* kill_pause_sec in ticks, 0 = until released
  RequestTTL,     \* KILL_RELEASE_REQ_TTL_SEC in ticks
  DayLength,      \* ticks between two local midnights
  MaxTotal,       \* max_concurrent_total
  PanelTicks,     \* bound: ticks at which the panel may be used
  MaxTime,        \* bound: last tick
  MaxCloses,      \* bound: closes in one behaviour
  MaxCrashes      \* bound: restarts in one behaviour

ASSUME SlotSafetyAssumptions ==
  /\ Pnls \subseteq Int
  /\ DrawdownLimit \in Nat /\ KillPause \in Nat /\ RequestTTL \in Nat
  /\ DayLength \in Nat \ {0} /\ MaxTotal \in Nat /\ MaxTime \in Nat
  /\ PanelTicks \subseteq Nat
  /\ MaxCloses \in Nat /\ MaxCrashes \in Nat

VARIABLES
  now,        \* the wall clock
  phase,      \* "down", "replay" (hydrate_session is looping), "up"
  ctl,        \* SafetyState plus _daily_reset_at_ts and _release_applied
  open,       \* sum of open_live_positions
  opening,    \* can_open_live said yes, the order is in flight
  pend,       \* closes recorded by the controller, INSERT still awaited
  rows,       \* live_trades, today's and earlier
  todo,       \* rows hydrate_session has not replayed yet
  marker,     \* live_state kill_released_at, 0 = absent
  req,        \* live_state kill_release_req (web panel), 0 = absent
  shown,      \* live_state kill_state: the panel shows a halt
  sync,       \* where sync_kill_state is
  stamp,      \* the timestamp sync_kill_state is writing
  opStamp,    \* the timestamp a Telegram release is writing, 0 = none
  closes,     \* closes so far
  crashes,    \* restarts so far
  pauseEnd,   \* history: until when the last breach must halt the slot
  pre,        \* history: the controller at the crash, until the next boot
  late        \* history: closes that met a controller due to roll over

memory == <<ctl, open, opening, pend, todo, sync, stamp, opStamp>>
disk   == <<rows, marker, req, shown>>
history == <<closes, crashes, pauseEnd, pre, late>>
vars   == <<now, phase, memory, disk, history>>

-----------------------------------------------------------------------------
(* Pure operators of the controller.                                       *)

\* session_start_ts / _next_reset_ts
SessionStart(t) == t - (t % DayLength)
NextReset(t)    == SessionStart(t) + DayLength

\* A controller as __init__ leaves it.
FreshCtl(t) ==
  [pnl |-> 0, peak |-> 0, trades |-> 0, kill |-> FALSE, until |-> 0,
   autoReleased |-> FALSE, releaseApplied |-> FALSE, resetAt |-> NextReset(t)]

\* _maybe_reset_daily: the halt itself is left alone; the variant leaves the
\* PnL, too.
DailyReset_keepsPnl(c, t) ==
  IF t >= c.resetAt
  THEN [c EXCEPT !.peak = 0, !.trades = 0, !.resetAt = NextReset(t)]
  ELSE c

DailyReset(c, t) ==
  IF t >= c.resetAt
  THEN [c EXCEPT !.pnl = 0, !.peak = 0, !.trades = 0, !.resetAt = NextReset(t)]
  ELSE c

\* The halt is in force: kill_until_ts = 0 means indefinite.
InForce(c, t) == c.kill /\ (c.until = 0 \/ t < c.until)

\* engage_kill(duration_sec = kill_pause_sec)
KillDeadline(t) == IF KillPause > 0 THEN t + KillPause ELSE 0

\* Variant: a second breach leaves the first deadline standing.
KeepExisting_always(c, t) == c.kill

KeepExisting(c, t) ==
  /\ c.kill
  /\ \/ c.until = 0
     \/ KillDeadline(t) # 0 /\ c.until >= KillDeadline(t)

EngageKill(c, t) ==
  IF KeepExisting(c, t) THEN c
  ELSE [c EXCEPT !.kill = TRUE, !.until = KillDeadline(t)]

DrawdownBreached(c) ==
  DrawdownLimit > 0 /\ c.peak - c.pnl >= DrawdownLimit

\* today_pnl, today_trades and the high-water mark after one close
AddClose(c, p) ==
  [c EXCEPT !.pnl = @ + p, !.trades = @ + 1,
            !.peak = IF c.pnl + p > @ THEN c.pnl + p ELSE @]

\* record_close; unlike can_open_live it does not call _maybe_reset_daily
RecordClose(c, p, t) ==
  IF DrawdownBreached(AddClose(c, p)) THEN EngageKill(AddClose(c, p), t)
  ELSE AddClose(c, p)

\* The open-position counter of record_close stops at zero.
Decrement_unclamped(n) == n - 1
Decrement(n) == IF n > 0 THEN n - 1 ELSE 0

\* release_kill
ReleaseKill(c) == [c EXCEPT !.kill = FALSE, !.until = 0, !.peak = c.pnl]

\* The branch of can_open_live that clears an expired halt.  kill_until_ts
\* keeps its old value.  The variant forgets the new peak.
ExpireKill_keepsPeak(c) == [c EXCEPT !.kill = FALSE, !.autoReleased = TRUE]

ExpireKill(c) ==
  [c EXCEPT !.kill = FALSE, !.autoReleased = TRUE, !.peak = c.pnl]

\* The controller can_open_live leaves behind, whatever it answers; the
\* variant does not look at the deadline.
AfterGate_early(c, t) ==
  LET d == DailyReset(c, t) IN IF d.kill THEN ExpireKill(d) ELSE d

AfterGate(c, t) ==
  LET d == DailyReset(c, t)
  IN IF d.kill /\ ~InForce(d, t) THEN ExpireKill(d) ELSE d

\* One iteration of the loop of hydrate_session over a row r
Rebases(c, r, released) ==
  released # 0 /\ ~c.releaseApplied /\ r.at >= released

ReplayClose(c, r, released) ==
  AddClose(IF Rebases(c, r, released)
           THEN [c EXCEPT !.peak = c.pnl, !.releaseApplied = TRUE] ELSE c,
           r.pnl)

\* hydrate_session after its loop; the variant loses a release that came
\* after the last close.
ReplayDone_noTail(c, released, t) ==
  IF DrawdownBreached(c) THEN EngageKill(c, t) ELSE c

ReplayDone(c, released, t) ==
  LET d == IF released # 0 /\ ~c.releaseApplied
           THEN [c EXCEPT !.peak = c.pnl, !.releaseApplied = TRUE] ELSE c
  IN IF DrawdownBreached(d) THEN EngageKill(d, t) ELSE d

\* _hydrate_safety honours the marker only if it is of the current day; the
\* variant never reads it.
ReleasedToday_unread == 0
ReleasedToday == IF marker >= SessionStart(now) THEN marker ELSE 0

\* _release_req_is_stale
RequestIsStale(r, t) == t - r > RequestTTL

NoCrash == [pnl |-> 0, peak |-> 0, kill |-> FALSE, until |-> 0, at |-> 0,
            clean |-> FALSE]

-----------------------------------------------------------------------------
Init ==
  /\ now = 1 /\ phase = "up" /\ ctl = FreshCtl(1)
  /\ open = 0 /\ opening = FALSE
  /\ pend = {} /\ rows = {} /\ todo = {}
  /\ marker = 0 /\ req = 0 /\ shown = FALSE
  /\ sync = "idle" /\ stamp = 0 /\ opStamp = 0
  /\ closes = 0 /\ crashes = 0 /\ pauseEnd = 0 /\ pre = NoCrash /\ late = {}

\* Time passes, but not during a write of a live_state row nor inside the
\* loop of hydrate_session, which does not await.
Tick ==
  /\ now < MaxTime /\ phase # "replay"
  /\ sync = "idle" /\ opStamp = 0
  /\ now' = now + 1
  /\ UNCHANGED <<phase, memory, disk, history>>

\* Every close the slot has made and not lost
Closes == rows \cup pend

\* Timestamps are whole seconds.  A slot holds one position, so two closes,
\* or a close and a later release, do not share one; the cooldown of a close
\* keeps the gate, and with it an expiry, out of its second.
FreshSecond == \A r \in Closes : r.at # now

\* can_open_live, called by the engine just before the order
CanOpenLive(marginOk) ==
  /\ phase = "up"
  /\ ctl' = AfterGate(ctl, now)
  /\ ctl.kill /\ ~ctl'.kill => FreshSecond
  /\ opening' = (opening \/ (~ctl'.kill /\ marginOk /\ open < MaxTotal))
  /\ UNCHANGED <<now, phase, open, pend, todo, sync, stamp, opStamp, disk,
                 history>>

\* The order came back: record_open on a fill, nothing on a miss
OpenFilled ==
  /\ phase = "up" /\ opening
  /\ opening' = FALSE /\ open' = open + 1
  /\ UNCHANGED <<now, phase, ctl, pend, todo, sync, stamp, opStamp, disk,
                 history>>

OpenMissed ==
  /\ phase = "up" /\ opening
  /\ opening' = FALSE
  /\ UNCHANGED <<now, phase, ctl, open, pend, todo, sync, stamp, opStamp, disk,
                 history>>

\* Bounds of a behaviour; the last tick is left to the loops.
MayClose == closes < MaxCloses /\ now < MaxTime /\ FreshSecond

NewRow(p) == [pnl |-> p, at |-> now]

\* A breach asks for a full pause from the close that made it.
PauseEndAfter(p) ==
  IF KillPause > 0 /\ DrawdownBreached(AddClose(ctl, p)) THEN now + KillPause
  ELSE pauseEnd

\* A close that comes after midnight and before the roll-over is added to the
\* day that is over.
LateAfter(p) == IF now >= ctl.resetAt THEN late \cup {NewRow(p)} ELSE late

\* _close_position: close(), record_close, and only then the alert and the
\* INSERT are awaited
EngineClose(p) ==
  /\ phase = "up" /\ open > 0 /\ MayClose
  /\ ctl' = RecordClose(ctl, p, now)
  /\ open' = Decrement(open)
  /\ pend' = pend \cup {NewRow(p)}
  /\ closes' = closes + 1 /\ pauseEnd' = PauseEndAfter(p)
  /\ late' = LateAfter(p)
  /\ UNCHANGED <<now, phase, opening, todo, sync, stamp, opStamp, disk,
                 crashes, pre>>

PersistTrade(r) ==
  /\ phase = "up"
  /\ pend' = pend \ {r} /\ rows' = rows \cup {r}
  /\ UNCHANGED <<now, phase, ctl, open, opening, todo, marker, req, shown,
                 sync, stamp, opStamp, history>>

\* mark_position_closed_externally and the orphan path of reconcile_once:
\* the row is committed first, record_close follows.  An orphan may have no
\* counted position; the decrement stops at zero.
ExternalClose(p) ==
  /\ phase = "up" /\ MayClose
  /\ ctl' = RecordClose(ctl, p, now)
  /\ open' = Decrement(open)
  /\ rows' = rows \cup {NewRow(p)}
  /\ closes' = closes + 1 /\ pauseEnd' = PauseEndAfter(p)
  /\ late' = LateAfter(p)
  /\ UNCHANGED <<now, phase, opening, pend, todo, marker, req, shown, sync,
                 stamp, opStamp, crashes, pre>>

-----------------------------------------------------------------------------
(* Releasing the halt.                                                     *)

\* The reset button of the slot card: LiveExecutorPool.release_kill, halted
\* or not.  The marker is written after the controller has changed.
OperatorRelease ==
  /\ phase = "up" /\ opStamp = 0 /\ FreshSecond
  /\ ctl' = ReleaseKill(ctl)
  /\ opStamp' = now /\ pauseEnd' = 0
  /\ UNCHANGED <<now, phase, open, opening, pend, todo, sync, stamp, disk,
                 closes, crashes, pre, late>>

\* /unkill: the same, for slots that are halted
Unkill ==
  /\ phase = "up" /\ opStamp = 0 /\ FreshSecond
  /\ InForce(DailyReset(ctl, now), now)
  /\ ctl' = ReleaseKill(DailyReset(ctl, now))
  /\ opStamp' = now /\ pauseEnd' = 0
  /\ UNCHANGED <<now, phase, open, opening, pend, todo, sync, stamp, disk,
                 closes, crashes, pre, late>>

\* persist_kill_release on behalf of Telegram
OperatorMarked ==
  /\ phase = "up" /\ opStamp # 0
  /\ marker' = opStamp /\ opStamp' = 0
  /\ UNCHANGED <<now, phase, ctl, open, opening, pend, todo, sync, stamp,
                 rows, req, shown, history>>

\* The web panel is another process: it can only leave a request.
PanelRequest ==
  /\ now \in PanelTicks
  /\ req' = now
  /\ UNCHANGED <<now, phase, memory, rows, marker, shown, history>>

-----------------------------------------------------------------------------
(* sync_kill_state, one pass of the 30 s rebuild loop.                     *)

\* What follows the request part, up to the next await
AfterRequest(c) ==
  \/ /\ c.autoReleased
     /\ ctl' = c /\ stamp' = now /\ sync' = "autoMark"
  \/ /\ ~c.autoReleased
     /\ ctl' = DailyReset(c, now) /\ stamp' = stamp
     /\ sync' = IF InForce(ctl', now) THEN "show" ELSE "hide"

SyncNoRequest ==
  /\ phase = "up" /\ sync = "idle" /\ req = 0
  /\ AfterRequest(ctl)
  /\ UNCHANGED <<now, phase, open, opening, pend, todo, opStamp, disk,
                 history>>

\* A request older than its TTL is removed; the variant only skips it.
SyncStaleRequest_kept ==
  /\ phase = "up" /\ sync = "idle" /\ req # 0 /\ RequestIsStale(req, now)
  /\ AfterRequest(ctl)
  /\ UNCHANGED <<now, phase, open, opening, pend, todo, opStamp, disk,
                 history>>

SyncStaleRequest ==
  /\ phase = "up" /\ sync = "idle" /\ req # 0 /\ RequestIsStale(req, now)
  /\ sync' = "delete"
  /\ UNCHANGED <<now, phase, ctl, open, opening, pend, todo, stamp, opStamp,
                 disk, history>>

\* A fresh request lifts a halt that is in force ...
SyncRelease ==
  /\ phase = "up" /\ sync = "idle" /\ req # 0 /\ ~RequestIsStale(req, now)
  /\ FreshSecond
  /\ InForce(DailyReset(ctl, now), now)
  /\ ctl' = ReleaseKill(DailyReset(ctl, now))
  /\ stamp' = now /\ sync' = "mark" /\ pauseEnd' = 0
  /\ UNCHANGED <<now, phase, open, opening, pend, todo, opStamp, disk,
                 closes, crashes, pre, late>>

\* ... and is otherwise dropped
SyncNotHalted ==
  /\ phase = "up" /\ sync = "idle" /\ req # 0 /\ ~RequestIsStale(req, now)
  /\ ~InForce(DailyReset(ctl, now), now)
  /\ ctl' = DailyReset(ctl, now)
  /\ sync' = "delete"
  /\ UNCHANGED <<now, phase, open, opening, pend, todo, stamp, opStamp, disk,
                 history>>

SyncMark ==
  /\ phase = "up" /\ sync = "mark"
  /\ marker' = stamp /\ stamp' = 0 /\ sync' = "delete"
  /\ UNCHANGED <<now, phase, ctl, open, opening, pend, todo, opStamp, rows,
                 req, shown, history>>

SyncDelete ==
  /\ phase = "up" /\ sync = "delete"
  /\ req' = 0
  /\ AfterRequest(ctl)
  /\ UNCHANGED <<now, phase, open, opening, pend, todo, opStamp, rows, marker,
                 shown, history>>

\* The flag is taken down after the marker is on disk.
SyncAutoMark ==
  /\ phase = "up" /\ sync = "autoMark"
  /\ marker' = stamp /\ stamp' = 0
  /\ ctl' = [DailyReset(ctl, now) EXCEPT !.autoReleased = FALSE]
  /\ sync' = IF InForce(ctl', now) THEN "show" ELSE "hide"
  /\ UNCHANGED <<now, phase, open, opening, pend, todo, opStamp, rows, req,
                 shown, history>>

SyncMirror ==
  /\ phase = "up" /\ sync \in {"show", "hide"}
  /\ shown' = (sync = "show") /\ sync' = "idle"
  /\ UNCHANGED <<now, phase, ctl, open, opening, pend, todo, stamp, opStamp,
                 rows, marker, req, history>>

-----------------------------------------------------------------------------
(* Restart.                                                                *)

\* The rows of live_trades of the day the clock is in
RowsToday == {r \in rows : r.at >= SessionStart(now)}

\* Everything the process knew is in memory, on disk and current.  A close
\* that met the controller before the day was rolled over is in the table
\* and not in the session.
Clean ==
  /\ pend = {} /\ opStamp = 0 /\ sync # "mark"
  /\ ~ctl.autoReleased
  /\ ctl.trades = Cardinality(RowsToday)

Crash ==
  /\ phase = "up" /\ crashes < MaxCrashes
  /\ phase' = "down" /\ crashes' = crashes + 1 /\ pauseEnd' = 0
  /\ pre' = [pnl |-> ctl.pnl, peak |-> ctl.peak, kill |-> ctl.kill,
             until |-> ctl.until, at |-> now, clean |-> Clean]
  /\ ctl' = FreshCtl(now) /\ open' = 0 /\ opening' = FALSE /\ pend' = {}
  /\ todo' = {} /\ sync' = "idle" /\ stamp' = 0 /\ opStamp' = 0
  /\ late' = {}
  /\ UNCHANGED <<now, disk, closes>>

\* rebuild_from_store of the new process makes a controller and
\* _hydrate_safety reads today's rows; with none the session starts empty.
Boot ==
  /\ phase = "down"
  /\ ctl' = FreshCtl(now)
  /\ todo' = RowsToday
  /\ \/ todo' # {} /\ phase' = "replay" /\ pre' = pre
     \/ todo' = {} /\ phase' = "up" /\ pre' = NoCrash
  /\ UNCHANGED <<now, open, opening, pend, sync, stamp, opStamp, disk, closes,
                 crashes, pauseEnd, late>>

\* hydrate_session takes the rows in closed_at order
Replay(r) ==
  /\ phase = "replay" /\ \A q \in todo : r.at <= q.at
  /\ ctl' = ReplayClose(ctl, r, ReleasedToday)
  /\ todo' = todo \ {r}
  /\ UNCHANGED <<now, phase, open, opening, pend, sync, stamp, opStamp, disk,
                 history>>

ReplayEnd ==
  /\ phase = "replay" /\ todo = {}
  /\ ctl' = ReplayDone(ctl, ReleasedToday, now)
  /\ phase' = "up" /\ pre' = NoCrash
  /\ UNCHANGED <<now, open, opening, pend, todo, sync, stamp, opStamp, disk,
                 closes, crashes, pauseEnd, late>>

-----------------------------------------------------------------------------
Trade ==
  \/ \E ok \in BOOLEAN : CanOpenLive(ok)
  \/ OpenFilled \/ OpenMissed
  \/ \E p \in Pnls : EngineClose(p) \/ ExternalClose(p)
  \/ \E r \in pend : PersistTrade(r)

Release == OperatorRelease \/ Unkill \/ OperatorMarked \/ PanelRequest

Sync ==
  \/ SyncNoRequest \/ SyncStaleRequest \/ SyncRelease \/ SyncNotHalted
  \/ SyncMark \/ SyncDelete \/ SyncAutoMark \/ SyncMirror

Restart == Crash \/ Boot \/ (\E r \in todo : Replay(r)) \/ ReplayEnd

Next == Tick \/ Trade \/ Release \/ Sync \/ Restart

Spec == Init /\ [][Next]_vars

\* The rebuild loop and the restart policy keep running, and time passes
\* between two passes of the loop.
Fairness ==
  /\ WF_vars(Sync) /\ WF_vars(OperatorMarked) /\ SF_vars(Tick)
  /\ WF_vars(Boot \/ (\E r \in todo : Replay(r)) \/ ReplayEnd)

FairSpec == Spec /\ Fairness

-----------------------------------------------------------------------------
(* Properties.                                                             *)

CtlType ==
  [pnl : Int, peak : Int, trades : Nat, kill : BOOLEAN, until : Nat,
   autoReleased : BOOLEAN, releaseApplied : BOOLEAN, resetAt : Nat]

RowType == [pnl : Int, at : Nat]

\* Every variable has its type.
TypeOK ==
  /\ now \in Nat /\ phase \in {"down", "replay", "up"}
  /\ ctl \in CtlType /\ open \in Nat /\ opening \in BOOLEAN
  /\ pend \subseteq RowType /\ rows \subseteq RowType /\ todo \subseteq RowType
  /\ marker \in Nat /\ req \in Nat /\ shown \in BOOLEAN
  /\ sync \in {"idle", "mark", "delete", "autoMark", "show", "hide"}
  /\ stamp \in Nat /\ opStamp \in Nat /\ closes \in Nat /\ crashes \in Nat
  /\ pauseEnd \in Nat /\ late \subseteq RowType
  /\ pre \in [pnl : Int, peak : Int, kill : BOOLEAN, until : Nat, at : Nat,
              clean : BOOLEAN]

\* What live_trades says of the day the clock is in, without the late closes
LedgerPnl ==
  SumFunctionOnSet([r \in rows |-> r.pnl], RowsToday \ late)

\* Once every INSERT is done and the day is rolled over, the controller's
\* daily PnL is the sum of the day's rows of live_trades, through releases,
\* midnights and restarts ("daily counters are reset at local midnight"): the
\* only closes it misses are those that came before its roll-over.
SessionMatchesLedger ==
  phase = "up" /\ pend = {} /\ now < ctl.resetAt => ctl.pnl = LedgerPnl

\* A running slot whose session has fallen by the limit from its peak is
\* halted, through every reset, release, expiry and restart
\* (record_close, hydrate_session and the re-basing of the peak together).
DrawdownHalts ==
  phase = "up" /\ DrawdownBreached(ctl) => ctl.kill

\* The gate lets an order through only when no halt is in force and the
\* session it leaves behind still has drawdown to spend (can_open_live).
HaltedNeverAdmits ==
  [][~opening /\ opening' => ~InForce(ctl, now) /\ ~DrawdownBreached(ctl')]_vars

\* After a breach no order is admitted for a full pause, counted from the last
\* close that breached the limit, unless an operator lifts the halt: neither
\* the reset of the day nor a second engagement shortens it (engage_kill).
PauseServed == [][~opening /\ opening' => now >= pauseEnd]_vars

\* A halt is lifted only by expiry or by an operator, and each way leaves in
\* memory what will carry the re-based peak to live_state (can_open_live's
\* flag, release_kill's marker).
LiftLeavesATrace ==
  [][phase = "up" /\ phase' = "up" /\ ctl.kill /\ ~ctl'.kill
       => \/ ctl.until # 0 /\ now >= ctl.until /\ ctl'.autoReleased
          \/ opStamp' = now
          \/ sync' = "mark" /\ stamp' = now]_vars

BootEnds == phase # "up" /\ phase' = "up"
SameDay  == SessionStart(pre.at) = SessionStart(now)

\* A restart on the same day rebuilds the session the crash destroyed:
\* hydrate_session, "the same steps as record_close ... the same state".
HydrateRestoresSession ==
  [][BootEnds /\ pre.clean /\ SameDay
       => ctl'.pnl = pre.pnl /\ ctl'.peak = pre.peak]_vars

\* A restart does not bring back a halt that had been lifted, by hand or by
\* its deadline (persist_kill_release and _hydrate_safety).
LiftSurvivesRestart ==
  [][BootEnds /\ pre.clean /\ ~pre.kill /\ SameDay => ~ctl'.kill]_vars

\* A restart does not lift a halt that is still in force: "kill persists
\* until kill_until_ts".
HaltSurvivesRestart ==
  [][BootEnds /\ pre.clean /\ pre.kill /\ (pre.until = 0 \/ now < pre.until)
       => ctl'.kill]_vars

\* A request left by the panel is taken up and removed, whatever the slot is
\* doing and whether or not the bot restarts (sync_kill_state).
PanelRequestAnswered == (req # 0) ~> (req = 0)
=============================================================================
