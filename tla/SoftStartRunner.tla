--------------------------- MODULE SoftStartRunner ----------------------------
(***************************************************************************)
(* Account warming of one slot: soft_start_loop and SlotWarmer             *)
(* (src/src/execution/soft_start_runner.py) driving the campaign           *)
(* (soft_start_campaign.py), the futures engine (FuturesSoftStart) and the *)
(* sell-offs of the spot engine (spot_soft_start.py).                      *)
(*                                                                         *)
(* One poll of the loop reads the slot's row once and then passes the      *)
(* phases in order; the operator changes the row at any await.  All keys   *)
(* pasted into the slot open the same exchange account (the decision in    *)
(* start_if_new), and campaign files are always written.                   *)
(***************************************************************************)
EXTENDS FuturesSoftStart

CONSTANTS
  Keys, NoKey,    \* web keys, and none
  FirstKey,       \* the key the slot starts with
  MaxCoins,       \* spot coins worth selling
  MaxPasses,      \* MAX_WIND_DOWN_PASSES
  MaxGrace,       \* MAX_PRECLEAR_GRACE
  MaxStuck,       \* MAX_PRECLEAR_STUCK
  MaxCommands     \* bound: operator commands

ASSUME RunnerAssumptions ==
  /\ NoKey \notin Keys /\ FirstKey \in Keys
  /\ MaxCoins \in Nat /\ MaxPasses \in Nat /\ MaxStuck \in Nat
  /\ MaxGrace \in Nat \ {0}
  /\ MaxCommands \in Nat

VARIABLES
  up,        \* the process runs
  row,       \* webkey_slots: on, live, key
  snap,      \* the row as this poll read it
  phase,     \* where the poll is
  warmer,    \* the SlotWarmer in warmers, up = FALSE: none
  camp,      \* the campaign file: st is "none", "bad" or "ok"
  coins,     \* coins on the spot wallet
  commands

slot == <<up, row, snap, phase, warmer, camp, coins>>
vars == <<futures, slot, commands, faults>>

-----------------------------------------------------------------------------
(* The campaign: SoftStartCampaign as operators on CampaignState.          *)

\* begun: started_at is set.  over: three days passed since.  late: the
\* deadline of the preclearing passed.
NoCampaign == [st |-> "none", begun |-> FALSE, over |-> FALSE, late |-> FALSE,
               finished |-> FALSE, cleared |-> TRUE]
NewCampaign == [NoCampaign EXCEPT !.st = "ok", !.begun = TRUE, !.cleared = FALSE]

\* _load: the unreadable file is renamed away and a default state is used
LoadCampaign(f) == IF f.st = "ok" THEN f ELSE [NoCampaign EXCEPT !.st = f.st]

Unreadable(c) == c.st = "bad"

\* SoftStartCampaign.expired
Expired(c) == Unreadable(c) \/ c.finished \/ c.over

\* start_if_new starts one
StartsNew(c) == ~Unreadable(c) /\ (~c.begun \/ c.finished \/ c.over)

PreclearPending(c) == ~Unreadable(c) /\ ~c.cleared

\* _save of whatever is in memory
Saved(c) == [c EXCEPT !.st = "ok"]

-----------------------------------------------------------------------------
(* The warmer of the slot.                                                 *)

NoWarmer == [up |-> FALSE, key |-> NoKey, drain |-> FALSE, passes |-> 0,
             grace |-> 0, stuck |-> 0, camp |-> NoCampaign]

\* SlotWarmer.__init__
NewWarmer(r, c) ==
  [NoWarmer EXCEPT !.up = TRUE, !.key = r.key, !.camp = LoadCampaign(c)]

Wanted(r) == r.on /\ r.key # NoKey

\* No poll is running; the row read by the last one is forgotten.
NoRow == [on |-> FALSE, live |-> FALSE, key |-> NoKey]
Idle == phase' = "idle" /\ snap' = NoRow
Go(p) == phase' = p /\ snap' = snap
InPoll == phase # "idle" \/ job # <<>>

-----------------------------------------------------------------------------
(* One poll of soft_start_loop.                                            *)

\* list_all, then _sweep_orphan_futures: an engine of its own for a slot
\* that is not warmed and still has something in its file.  Where live
\* trading is on the operator is told instead.
Orphan_readable(r) ==
  /\ ~warmer.up /\ r.key # NoKey /\ ~r.on /\ ~r.live
  /\ ~file.bad /\ HasExposure(file)
Orphan(r) ==
  /\ ~warmer.up /\ r.key # NoKey /\ ~r.on /\ ~r.live
  /\ file.bad \/ HasExposure(file)

Poll ==
  /\ up /\ ~InPoll
  /\ snap' = row /\ phase' = "sweep"
  /\ IF Orphan(row)
     THEN file' = Load(file) /\ job' = Pruned(RecoverJob, file')
     ELSE UNCHANGED <<file, job>>
  /\ UNCHANGED <<faults, tries, sending, order, held, up, row, warmer, camp, coins,
                 commands>>

\* SlotWarmer.stop: nothing is opened any more, what is open is closed
Stopping(w) == [w EXCEPT !.drain = TRUE]
StopJob == Pruned(DrainJob, file)

\* a warmer whose button is off is stopped
MustStop == warmer.up /\ ~Wanted(snap) /\ HasExposure(file)

StopUnwanted ==
  /\ up /\ phase = "sweep" /\ job = <<>> /\ MustStop
  /\ warmer' = Stopping(warmer) /\ job' = StopJob
  /\ Go("stop")
  /\ UNCHANGED <<faults, file, tries, sending, order, held, up, row, camp, coins, commands>>

\* It is dropped when it is clean.
DroppedAfterStop(w, f) == ~Wanted(snap) /\ ~HasExposure(f)

\* the key was pasted anew: the warmer is rebuilt, without a stop
Rekeyed(w) == snap.key # NoKey /\ w.key # snap.key

Settling ==
  /\ up /\ job = <<>>
  /\ phase = "stop" \/ (phase = "sweep" /\ ~MustStop)

\* the stop is settled: the warmer stays and ticks, or waits when it drains
\* because of the button
KeepWarmer ==
  /\ Settling
  /\ warmer.up /\ ~DroppedAfterStop(warmer, file) /\ ~Rekeyed(warmer)
  /\ IF Wanted(snap) THEN Go("tick") ELSE Idle
  /\ UNCHANGED <<faults, futures, up, row, warmer, camp, coins, commands>>

Vacant ==
  Settling /\ (warmer.up => DroppedAfterStop(warmer, file) \/ Rekeyed(warmer))

\* not wanted
NoNewWarmer ==
  /\ Vacant /\ ~Wanted(snap)
  /\ warmer' = NoWarmer /\ Idle
  /\ UNCHANGED <<faults, futures, up, row, camp, coins, commands>>

\* the pool has no client for the slot
NoClient ==
  /\ Vacant /\ Wanted(snap)
  /\ Fault
  /\ warmer' = NoWarmer /\ Idle
  /\ UNCHANGED <<futures, up, row, camp, coins, commands>>

\* SlotWarmer.__init__ reads the campaign; an unreadable file is moved away
MakeWarmer ==
  /\ Vacant /\ Wanted(snap)
  /\ warmer' = NewWarmer(snap, camp)
  /\ camp' = IF Unreadable(camp) THEN NoCampaign ELSE camp
  /\ Go("start")
  /\ UNCHANGED <<faults, futures, up, row, coins, commands>>

\* SlotWarmer.start, after the balances were read: start_if_new, the
\* engines, and recover.  The accounting is reset, the futures file is not.
Start ==
  /\ up /\ phase = "start"
  /\ IF StartsNew(warmer.camp)
     THEN warmer' = [warmer EXCEPT !.camp = NewCampaign] /\ camp' = NewCampaign
     ELSE UNCHANGED <<warmer, camp>>
  /\ file' = Load(file) /\ job' = Pruned(RecoverJob, file')
  /\ Go("tick")
  /\ UNCHANGED <<faults, tries, sending, order, held, up, row, coins, commands>>

-----------------------------------------------------------------------------
(* One tick of the warmer.                                                 *)

\* the warmer is about to do its own work
Ticking == up /\ phase = "tick" /\ job = <<>> /\ ~warmer.drain

\* what the campaign's memory becomes, saved
Keep(c, w) == warmer' = [w EXCEPT !.camp = c] /\ camp' = Saved(c)

\* mark_precleared
Cleared(c) == [c EXCEPT !.cleared = TRUE]

Preclearing == Ticking /\ PreclearPending(warmer.camp)

\* orders went out: another tick for the rest; each is counted by bump
PreclearSold ==
  /\ Preclearing /\ coins > 0
  /\ coins' \in 0 .. coins - 1
  /\ Keep(warmer.camp, warmer) /\ Idle
  /\ UNCHANGED <<faults, futures, up, row, commands>>

\* the wallet could not be read
PreclearFailed ==
  /\ Preclearing
  /\ Fault
  /\ LET w == [warmer EXCEPT !.grace = @ + 1]
     IN  IF w.grace >= MaxGrace THEN Keep(Cleared(w.camp), w)
         ELSE warmer' = w /\ UNCHANGED camp
  /\ Idle
  /\ UNCHANGED <<futures, up, row, coins, commands>>

\* before the deadline the kept share is still above zero
PreclearWaits ==
  /\ Preclearing /\ ~warmer.camp.late
  /\ UNCHANGED warmer /\ Idle
  /\ UNCHANGED <<faults, futures, up, row, camp, coins, commands>>

\* coins that were refused or have no price are tried a few more times
PreclearStuck ==
  /\ Preclearing /\ warmer.camp.late /\ warmer.stuck < MaxStuck
  /\ warmer' = [warmer EXCEPT !.stuck = @ + 1] /\ Idle
  /\ UNCHANGED <<faults, futures, up, row, camp, coins, commands>>

PreclearDone ==
  /\ Preclearing /\ warmer.camp.late
  /\ coins = 0 \/ warmer.stuck >= MaxStuck
  /\ Keep(Cleared(warmer.camp), warmer) /\ Idle
  /\ UNCHANGED <<faults, futures, up, row, coins, commands>>

WindingDown ==
  /\ Ticking /\ ~PreclearPending(warmer.camp) /\ Expired(warmer.camp)

\* MAX_WIND_DOWN_PASSES
MorePasses_always(w) == TRUE
MorePasses(w) == w.passes + 1 < MaxPasses

\* orders went out: another tick for the rest
WindDownPass ==
  /\ WindingDown /\ coins > 0 /\ MorePasses(warmer)
  /\ coins' \in 0 .. coins
  /\ Keep(warmer.camp, [warmer EXCEPT !.passes = IF @ < MaxPasses THEN @ + 1 ELSE @])
  /\ Idle
  /\ UNCHANGED <<faults, futures, up, row, commands>>

\* nothing left to send, the last pass, or an exception: finish, and the
\* loop stops the warmer in the same poll
WindDownLast ==
  /\ WindingDown
  /\ coins' \in IF coins > 0 THEN 0 .. coins ELSE {0}
  /\ Keep([warmer.camp EXCEPT !.finished = TRUE],
          Stopping(warmer))
  /\ job' = StopJob /\ Go("final")
  /\ UNCHANGED <<faults, file, tries, sending, order, held, up, row, commands>>

\* set_futures_allowed, called in every poll (guard C4), and its variant
\* without the guard
FuturesAllowed_always(r) == TRUE
FuturesAllowed(r) == ~r.live

\* spot: may buy.  futures: tick, or drain what is left while the
\* arbitrage is live.

Warm ==
  /\ Ticking /\ ~PreclearPending(warmer.camp) /\ ~Expired(warmer.camp)
  /\ \/ UNCHANGED <<coins, warmer, camp>>
     \/ coins < MaxCoins /\ coins' = coins + 1
        /\ Keep(warmer.camp, warmer)
  /\ IF FuturesAllowed(snap)
     THEN job' = Pruned(TickJob, file)
     ELSE job' = StopJob
  /\ Idle
  /\ UNCHANGED <<faults, file, tries, sending, order, held, up, row, commands>>

\* a warmer that drains since its campaign ended: stop is tried again
RetryStop ==
  /\ up /\ phase = "tick" /\ job = <<>> /\ warmer.drain
  /\ job' = StopJob /\ Go("final")
  /\ UNCHANGED <<faults, file, tries, sending, order, held, up, row, warmer, camp,
                 coins, commands>>

\* stop said clean
MayGo_always(f) == TRUE
MayGo(f) == ~HasExposure(f)

FinalStop == up /\ phase = "final" /\ job = <<>>

\* stop failed: the warmer is kept and the button stays on
StillOpen ==
  /\ FinalStop /\ ~MayGo(file)
  /\ Idle
  /\ UNCHANGED <<faults, futures, up, row, warmer, camp, coins, commands>>

\* store.set_soft_start(False)
SwitchOff ==
  /\ FinalStop /\ MayGo(file)
  /\ row' = [row EXCEPT !.on = FALSE]
  /\ warmer' = NoWarmer /\ Idle
  /\ UNCHANGED <<faults, futures, up, camp, coins, commands>>

\* a failed write is only logged
SwitchOffFailed ==
  /\ FinalStop /\ MayGo(file)
  /\ Fault
  /\ warmer' = NoWarmer /\ Idle
  /\ UNCHANGED <<futures, up, row, camp, coins, commands>>

-----------------------------------------------------------------------------
(* The engine inside the poll.  Opens and closes of a warmer are counted   *)
(* in the campaign, which saves it; an orphan's engine has no campaign.    *)

Quietly(A) == up /\ A /\ UNCHANGED <<slot, commands>>

Counted(A) ==
  /\ up /\ A
  /\ camp' = IF warmer.up THEN Saved(warmer.camp) ELSE camp
  /\ UNCHANGED <<up, row, snap, phase, warmer, coins, commands>>

Engine == Quietly(FuturesStep) \/ Counted(Opened \/ CloseAccepted)

-----------------------------------------------------------------------------
(* The operator.                                                           *)

Command(r) ==
  /\ commands < MaxCommands /\ commands' = commands + 1
  /\ row' = r

\* softstart_on: refused without a key
PressOn ==
  /\ row.key # NoKey /\ ~row.on
  /\ Command([row EXCEPT !.on = TRUE])
  /\ UNCHANGED <<faults, futures, up, snap, phase, warmer, camp, coins>>

PressOff ==
  /\ row.on
  /\ Command([row EXCEPT !.on = FALSE])
  /\ UNCHANGED <<faults, futures, up, snap, phase, warmer, camp, coins>>

SwitchLive ==
  /\ row.key # NoKey
  /\ Command([row EXCEPT !.live = ~@])
  /\ UNCHANGED <<faults, futures, up, snap, phase, warmer, camp, coins>>

\* WebkeyStore.set_webkey and clear_slot_restrictions(wipe_campaign = False)
PasteKey ==
  /\ \E k \in Keys \ {row.key} : Command([row EXCEPT !.key = k])
  /\ UNCHANGED <<faults, futures, up, snap, phase, warmer, camp, coins>>

\* forget_campaign moves the file away
Forgotten == NoCampaign

\* WebkeyStore.delete leaves soft_start_enabled alone; the campaign is
\* forgotten
DeleteKey ==
  /\ row.key # NoKey
  /\ Command([row EXCEPT !.key = NoKey, !.live = FALSE])
  /\ camp' = Forgotten
  /\ UNCHANGED <<faults, futures, up, snap, phase, warmer, coins>>

-----------------------------------------------------------------------------
(* The process and time.                                                   *)

Stopped ==
  /\ up' = FALSE /\ Idle /\ warmer' = NoWarmer
  /\ job' = <<>> /\ tries' = 0 /\ order' = Abandoned(order)

Crash ==
  /\ up /\ Fault
  /\ Stopped
  /\ UNCHANGED <<file, sending, held, row, camp, coins, commands>>

\* The task is cancelled inside a poll: each warmer is stopped once.  The
\* sleep between two polls is outside the try, so there nothing is stopped.
Cancel ==
  /\ up /\ InPoll /\ phase # "cancel" /\ warmer.up
  /\ Fault
  /\ order' = Abandoned(order) /\ tries' = 0
  /\ warmer' = Stopping(warmer) /\ job' = StopJob /\ Go("cancel")
  /\ UNCHANGED <<file, sending, held, up, row, camp, coins, commands>>

Cancelled ==
  /\ up /\ phase = "cancel" /\ job = <<>>
  /\ Stopped
  /\ UNCHANGED <<faults, file, sending, held, row, camp, coins, commands>>

\* A restart takes longer than an order needs to land.
Restart ==
  /\ ~up /\ order # "late"
  /\ up' = TRUE /\ sending' \in BOOLEAN
  /\ UNCHANGED <<faults, file, job, tries, order, held, row, snap, phase, warmer, camp,
                 coins, commands>>

\* while the process is down a state file may become unreadable
CorruptFutures ==
  /\ ~up /\ HasExposure(file) /\ ~file.bad
  /\ file' = [EmptyFile EXCEPT !.bad = TRUE]
  /\ UNCHANGED <<faults, job, tries, sending, order, held, slot, commands>>

CorruptCampaign ==
  /\ ~up /\ camp.st = "ok"
  /\ camp' = [NoCampaign EXCEPT !.st = "bad"]
  /\ UNCHANGED <<faults, futures, up, row, snap, phase, warmer, coins, commands>>

\* three days, or the preclearing window, after started_at
After(c, flag) == IF c.begun THEN [c EXCEPT ![flag] = TRUE] ELSE c

TimePasses(flag) ==
  /\ camp' = After(camp, flag)
  /\ warmer' = [warmer EXCEPT !.camp = After(@, flag)]
  /\ <<camp, warmer>>' # <<camp, warmer>>
  /\ UNCHANGED <<faults, futures, up, row, snap, phase, coins, commands>>

DeadlinePasses == TimePasses("late")
CampaignElapses ==
  /\ camp.late \/ warmer.camp.late
  /\ TimePasses("over")

-----------------------------------------------------------------------------
Init ==
  /\ file = EmptyFile /\ job = <<>> /\ tries = 0 /\ sending \in BOOLEAN
  /\ order = "none" /\ held = 0
  /\ up = TRUE /\ row = [NoRow EXCEPT !.key = FirstKey]
  /\ snap = NoRow /\ phase = "idle" /\ warmer = NoWarmer /\ camp = NoCampaign
  /\ coins \in 0 .. MaxCoins
  /\ commands = 0 /\ faults = 0

LoopStep ==
  \/ Poll \/ StopUnwanted \/ KeepWarmer \/ NoNewWarmer \/ NoClient \/ MakeWarmer \/ Start
  \/ PreclearSold \/ PreclearFailed \/ PreclearWaits \/ PreclearStuck
  \/ PreclearDone \/ WindDownPass \/ WindDownLast \/ Warm
  \/ RetryStop \/ StillOpen \/ SwitchOff \/ SwitchOffFailed \/ Cancelled

Operator == PressOn \/ PressOff \/ SwitchLive \/ PasteKey \/ DeleteKey

ProcessStep == Crash \/ Cancel \/ Restart \/ CorruptFutures \/ CorruptCampaign

Market == FuturesEnv /\ UNCHANGED <<slot, commands>>

Environment ==
  \/ Market
  \/ DeadlinePasses \/ CampaignElapses

Next == LoopStep \/ Engine \/ Operator \/ ProcessStep \/ Environment

Spec == Init /\ [][Next]_vars

\* The loop polls for ever, orders settle and time passes.
Fairness ==
  /\ WF_vars(LoopStep) /\ WF_vars(Engine) /\ WF_vars(Restart)
  /\ WF_vars(Market /\ (OrderFills \/ OrderDies))
  /\ WF_vars(Market /\ HoldElapses)
  /\ WF_vars(DeadlinePasses)

FairSpec == Spec /\ Fairness

-----------------------------------------------------------------------------
Campaigns == [st : {"none", "bad", "ok"}, begun : BOOLEAN, over : BOOLEAN,
              late : BOOLEAN, finished : BOOLEAN, cleared : BOOLEAN]
Rows == [on : BOOLEAN, live : BOOLEAN, key : Keys \cup {NoKey}]
Warmers == [up : BOOLEAN, key : Keys \cup {NoKey}, drain : BOOLEAN,
            passes : 0 .. MaxPasses, grace : 0 .. MaxGrace, stuck : 0 .. MaxStuck,
            camp : Campaigns]
Phases == {"idle", "sweep", "stop", "start", "tick", "final", "cancel"}

TypeOK ==
  /\ file \in Files /\ IsJob(job)
  /\ tries \in 0 .. Rechecks - 1 /\ sending \in BOOLEAN
  /\ order \in Orders /\ held \in Nat
  /\ up \in BOOLEAN /\ row \in Rows /\ snap \in Rows /\ phase \in Phases
  /\ warmer \in Warmers /\ camp \in Campaigns
  /\ coins \in 0 .. MaxCoins /\ commands \in 0 .. MaxCommands

\* A warming position on the exchange, or an open order that may still
\* become one, is known to the state file: crashes between the order and its
\* answer, lost answers, unreadable files and rebuilt warmers included
\* (open_position's breadcrumb, load_state, close_position).
EveryPositionTracked ==
  held > 0 \/ order \in {"sent", "filled", "late"} => file.bad \/ HasExposure(file)

\* No order is sent to open while a position is held or an earlier order may
\* still land (the guards of open_position, PENDING_RECHECKS).
OpensOnlyWhenFlat ==
  [][order # "sent" /\ order' = "sent" => held = 0 /\ order = "none"]_vars

\* The loop switches the button off at the end of a campaign only when
\* nothing is left on the exchange (the "if not clean: continue" of
\* soft_start_loop).
SwitchedOffOnlyFlat ==
  [][phase = "final" /\ row.on /\ ~row'.on /\ phase' = "idle"
       => held = 0 /\ order # "late"]_vars

\* the process sends real orders for a slot that has a key
Warms == up /\ sending /\ row.key # NoKey

\* Once warming is switched off for good, the account becomes flat and stays
\* flat: the position is closed by the warmer, or by _sweep_orphan_futures
\* after a restart or an unreadable file.
OffBecomesFlat ==
  <>[](Warms /\ ~row.on /\ ~row.live) => <>[](held = 0)

\* A warming position never stays under the arbitrage: with live trading on,
\* the warmer closes what it holds and opens nothing more
\* (set_futures_allowed, _drain_futures).
LiveDrainsWarming ==
  <>[](Warms /\ row.on /\ row.live) => <>[](held = 0)

\* A warmer whose campaign is over is stopped and dropped; it does not wait
\* for ever on a coin, a balance or a close (finished, MAX_WIND_DOWN_PASSES,
\* the drain retry of soft_start_loop).
CampaignSwitchesOff ==
  (warmer.up /\ Expired(warmer.camp))
    ~> (~warmer.up \/ ~Expired(warmer.camp) \/ ~sending)
=============================================================================
