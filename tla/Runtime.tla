------------------------------- MODULE Runtime -------------------------------
(***************************************************************************)
(* main of main.py: the order in which one process starts its parts, runs   *)
(* until a signal or until one of its tasks ends, and stops them again,     *)
(* against what goes on meanwhile: signals that enter, watchers that close, *)
(* the passes of reconciliation.  One slot that trades live; an entry k and *)
(* the position it opens have the same name.                               *)
(***************************************************************************)
EXTENDS Integers, Sequences, FiniteSets

CONSTANTS
  Ids,       \* entries
  None,
  MaxStarts  \* bound: processes one after the other

RuntimeAssumptions ==
  /\ IsFiniteSet(Ids) /\ MaxStarts \in Nat \ {0}
  /\ \A S \in SUBSET Ids : None # S

VARIABLES
  phase,   \* "boot", "run", "stop" or "down"
  n,       \* the step of boot or stop that is next
  up,      \* the parts that run
  todo,    \* what reconciliation at boot, or engine.stop, still has to close
  signals, \* on_signal of each entry: "none", "new", "ordered" or "over"
  tracked, closing, \* _open_positions, and of them is_closing
  exch,    \* positions on the exchange
  starts,
  orderly, \* history: the stop has run without an exception so far
  late,    \* history: signals under way when the detector had stopped
  left     \* history: positions found at the start, and those whose close failed
           \* or was cut off

place == <<phase, n, up>>
trades == <<signals, tracked, closing, exch>>
history == <<orderly, late, left>>
vars == <<place, todo, trades, starts, history>>

UnderWay == {k \in Ids : signals[k] \in {"new", "ordered"}}

-----------------------------------------------------------------------------
(* Boot.  Loops that only look on or have modules of their own are left    *)
(* out: the recovery monitor, the fee watchdog, balances, warming.         *)

Stores == <<"databases", "config", "keys">>
Services == <<"writer", "pool">>

Market == <<"universe", "states", "engine", "reconcile", "detector", "evaluation">>

Boot == Stores \o Services \o Market
Next1(step) == phase = "boot" /\ n <= Len(Boot) /\ Boot[n] = step

StartPart(x) ==
  /\ x # "reconcile" /\ Next1(x)
  /\ up' = up \cup {x} /\ n' = n + 1
  /\ UNCHANGED <<phase, todo, trades, starts, history>>

\* startup_reconcile reads the account; a read that fails, or a slot without a
\* key, counts as nothing found
ReadAtBoot ==
  /\ Next1("reconcile") /\ todo = None /\ todo' \in {exch, {}}
  /\ UNCHANGED <<place, trades, starts, history>>

CloseAtBoot(p) ==
  /\ Next1("reconcile") /\ todo # None /\ p \in todo
  /\ todo' = todo \ {p} /\ exch' \in {exch, exch \ {p}}
  /\ UNCHANGED <<place, signals, tracked, closing, starts, history>>

ReconciledAtBoot ==
  /\ Next1("reconcile") /\ todo = {}
  /\ todo' = None /\ n' = n + 1
  /\ UNCHANGED <<phase, up, trades, starts, history>>

\* the tasks main waits for, periodic_reconcile_loop among them
Run ==
  /\ phase = "boot" /\ n > Len(Boot)
  /\ phase' = "run" /\ up' = up \cup {"tasks"}
  /\ UNCHANGED <<n, todo, trades, starts, history>>

-----------------------------------------------------------------------------
(* Trading meanwhile.                                                      *)

Emit(k) ==
  /\ "detector" \in up /\ signals[k] = "none"
  /\ signals' = [signals EXCEPT ![k] = "new"]
  /\ UNCHANGED <<place, todo, tracked, closing, exch, starts, history>>

\* a filter, a gate or the exchange says no
Ends(k) ==
  /\ signals[k] = "new" /\ signals' = [signals EXCEPT ![k] = "over"]
  /\ UNCHANGED <<place, todo, tracked, closing, exch, starts, history>>

Fills(k) ==
  /\ signals[k] = "new" /\ signals' = [signals EXCEPT ![k] = "ordered"]
  /\ exch' = exch \cup {k}
  /\ UNCHANGED <<place, todo, tracked, closing, starts, history>>

\* The tail of the entry; the watcher of a position tracked after engine.stop
\* ends at once.
Track(k) ==
  /\ signals[k] = "ordered" /\ signals' = [signals EXCEPT ![k] = "over"]
  /\ tracked' = tracked \cup {k}
  /\ UNCHANGED <<place, todo, closing, exch, starts, history>>

WatcherCloses(p) ==
  /\ "engine" \in up /\ p \in tracked \ closing
  /\ closing' = closing \cup {p}
  /\ UNCHANGED <<place, todo, signals, tracked, exch, starts, history>>

\* _close_position forgets the position whether it worked or all paths failed.
Closed(p) ==
  /\ tracked' = tracked \ {p} /\ closing' = closing \ {p}
  /\ \/ exch' = exch \ {p} /\ left' = left
     \/ exch' = exch /\ left' = left \cup {p}

WatcherDone(p) ==
  /\ p \in closing /\ Closed(p)
  /\ UNCHANGED <<place, todo, signals, starts, orderly, late>>

\* A pass of reconciliation closes what the engine does not track; what has
\* just been ordered is too young for it.
Sweep(p) ==
  /\ "tasks" \in up /\ p \in exch \ tracked /\ signals[p] # "ordered"
  /\ exch' = exch \ {p}
  /\ UNCHANGED <<place, todo, signals, tracked, closing, starts, history>>

-----------------------------------------------------------------------------
(* The stop.                                                               *)

\* SIGTERM, or one of the tasks has returned or raised
Asked ==
  /\ phase = "run"
  /\ phase' = "stop" /\ n' = 1 /\ orderly' = TRUE
  /\ UNCHANGED <<up, todo, trades, starts, late, left>>

\* The variant stops the engine while the detector still sends signals.
StopOrder_engineFirst ==
  <<"telegram", "feeds", "engine", "detector", "evaluation", "writer", "tasks",
    "clients", "databases">>

StopOrder ==
  <<"telegram", "feeds", "detector", "engine", "evaluation", "writer", "tasks",
    "clients", "databases">>

Stopping(x) == phase = "stop" /\ n <= Len(StopOrder) /\ StopOrder[n] = x

StopPart(x) ==
  /\ x # "engine" /\ Stopping(x)
  /\ up' = up \ {x} /\ n' = n + 1
  /\ late' = IF x = "detector" THEN UnderWay ELSE late
  /\ UNCHANGED <<phase, todo, trades, starts, orderly, left>>

\* engine.stop: _stop ends the watchers that are not closing ...
EngineStops ==
  /\ Stopping("engine") /\ todo = None
  /\ todo' = tracked /\ up' = up \ {"engine"}
  /\ UNCHANGED <<phase, n, trades, starts, history>>

\* ... the positions of that moment are closed one by one, but not those a
\* watcher is closing ...
EngineCloses(p) ==
  /\ Stopping("engine") /\ todo # None /\ p \in todo
  /\ todo' = todo \ {p}
  /\ IF p \in tracked \ closing THEN Closed(p)
                                ELSE UNCHANGED <<tracked, closing, exch, left>>
  /\ UNCHANGED <<place, signals, starts, orderly, late>>

\* ... and then the watchers are cancelled.
WatchersCancelled ==
  /\ Stopping("engine") /\ todo = {}
  /\ left' = left \cup closing /\ closing' = {} /\ todo' = None /\ n' = n + 1
  /\ UNCHANGED <<phase, up, signals, tracked, exch, starts, orderly, late>>

\* The end of the process, with whatever still runs: what it had in memory is
\* gone.
AllGone ==
  /\ phase' = "down" /\ up' = {} /\ todo' = None
  /\ tracked' = {} /\ closing' = {}
  /\ signals' = [k \in Ids |-> IF k \in UnderWay THEN "over" ELSE signals[k]]
  /\ UNCHANGED <<n, exch, starts, late, left>>

Goodbye ==
  /\ phase = "stop" /\ n > Len(StopOrder)
  /\ orderly' = orderly /\ AllGone

\* a crash, an exception at boot, or one that leaves the finally of main
Dies ==
  /\ phase # "down" /\ orderly' = FALSE /\ AllGone

Restart ==
  /\ phase = "down" /\ starts < MaxStarts
  /\ phase' = "boot" /\ n' = 1 /\ starts' = starts + 1
  /\ orderly' = FALSE /\ late' = {} /\ left' = exch
  /\ UNCHANGED <<up, todo, trades>>

-----------------------------------------------------------------------------
Init ==
  /\ phase = "boot" /\ n = 1 /\ up = {} /\ todo = None
  /\ signals = [k \in Ids |-> "none"] /\ tracked = {} /\ closing = {} /\ exch = {}
  /\ starts = 1 /\ orderly = FALSE /\ late = {} /\ left = {}

Parts == {"databases", "config", "keys", "writer", "pool", "universe", "states",
          "engine", "detector", "evaluation"}

Next ==
  \/ \E x \in Parts \cup {"telegram", "feeds", "tasks", "clients"} : StartPart(x) \/ StopPart(x)
  \/ ReadAtBoot \/ ReconciledAtBoot \/ Run
  \/ Asked \/ EngineStops \/ WatchersCancelled \/ Goodbye \/ Dies \/ Restart
  \/ \E k \in Ids :
       \/ CloseAtBoot(k) \/ Emit(k) \/ Ends(k) \/ Fills(k) \/ Track(k)
       \/ WatcherCloses(k) \/ WatcherDone(k) \/ Sweep(k) \/ EngineCloses(k)

Spec == Init /\ [][Next]_vars

-----------------------------------------------------------------------------
TypeOK ==
  /\ phase \in {"boot", "run", "stop", "down"} /\ n \in 1 .. Len(Boot) + 1
  /\ up \subseteq Parts \cup {"tasks"}
  /\ todo = None \/ todo \subseteq Ids
  /\ signals \in [Ids -> {"none", "new", "ordered", "over"}]
  /\ closing \subseteq tracked /\ tracked \subseteq Ids
  /\ exch \subseteq Ids /\ late \subseteq Ids /\ left \subseteq Ids

\* Reconciliation at boot closes whatever position it finds, without asking the
\* engine: no entry of this process may be under way, or its own position would
\* be closed under it (main.py:1473).
BootMeetsNoTrading ==
  phase = "boot" /\ todo # None => UnderWay = {} /\ tracked = {}

\* A process that stops in order leaves no position it opened on the exchange
\* but those of signals that were under way when the detector had stopped, and
\* those whose close failed or was cut off with its watcher.
StopLeavesNothing ==
  phase = "down" /\ orderly => exch \subseteq late \cup left

ProcessHandsOver == BootMeetsNoTrading /\ StopLeavesNothing

-----------------------------------------------------------------------------
(* What every step keeps, for the proofs.                                  *)

Ordered == {k \in Ids : signals[k] = "ordered"}

\* Where the process is.
PlaceType ==
  /\ phase \in {"boot", "run", "stop", "down"}
  /\ n \in 1 .. Len(Boot) + 1
  /\ up \subseteq Parts \cup {"tasks"}
  /\ todo # None => todo \subseteq Ids

TradesType ==
  /\ signals \in [Ids -> {"none", "new", "ordered", "over"}]
  /\ closing \subseteq tracked
  /\ tracked \subseteq Ids /\ exch \subseteq Ids
  /\ late \subseteq Ids /\ left \subseteq Ids

\* Nothing is under way before the detector of this process has started, nor
\* after the process has ended.
QuietBefore ==
  phase = "down" \/ (phase = "boot" /\ n <= 10)
    => "detector" \notin up /\ UnderWay = {} /\ tracked = {}

\* Reconciliation at boot, and the engine's stop, are where todo is used.
TodoFits ==
  /\ phase = "boot" /\ todo # None => n = 9
  /\ phase \in {"run", "down"} => todo = None
  /\ phase = "stop" /\ todo # None => n = 4 /\ "engine" \notin up

\* Every position on the exchange is tracked, just ordered, or left there.
Accounted == phase # "down" => exch \subseteq left \cup tracked \cup Ordered

\* Once the detector has stopped, what is under way is what was then.
LateFits ==
  phase = "stop" /\ n > 3 => "detector" \notin up /\ UnderWay \subseteq late

\* What the engine has not closed by its stop is still on its list, being
\* closed by a watcher, or came late.
EngineFits ==
  /\ phase = "stop" /\ n = 4 /\ todo # None
       => tracked \subseteq todo \cup closing \cup late
  /\ phase = "stop" /\ n > 4 => tracked \subseteq left \cup late

HInv ==
  /\ PlaceType /\ TradesType /\ QuietBefore /\ TodoFits
  /\ Accounted /\ LateFits /\ EngineFits /\ StopLeavesNothing

=============================================================================
