----------------------------- MODULE SignalEntry -----------------------------
(***************************************************************************)
(* From the books of one pair to its positions: the detector               *)
(* (static_gap_detector.py) wakes up when a book changed and emits a       *)
(* signal; each signal is a task of its own (main.py) that enters the pair *)
(* on paper or, for a live pair, on every slot that serves it              *)
(* (shadow_engine.py on_signal to _open_position).  An entry looks at the  *)
(* pair's state when it starts and again, after the simulated delays of a  *)
(* paper entry, before it opens; the operator may change it in between.    *)
(***************************************************************************)
EXTENDS Integers, FiniteSets

CONSTANTS
  Slots,          \* the slots that serve the pair
  MaxPositions,   \* max_positions_per_symbol
  MaxTasks,       \* bound: signals under way at once
  MaxFlips        \* bound: changes of the pair's state

SignalEntryAssumptions ==
  /\ IsFiniteSet(Slots) /\ "paper" \notin Slots
  /\ MaxPositions \in Nat \ {0} /\ MaxTasks \in Nat \ {0} /\ MaxFlips \in Nat

VARIABLES
  gap,       \* what the two books show: "none", "long", "short", or "unusable"
  dirty,     \* the pair is in _dirty_symbols and _book_dirty_event is set
  watched,   \* the books have the detector's listener
  cooling,   \* the detector's cooldown runs
  lastDir,   \* _last_emitted_direction, "none" for no entry
  checked,   \* history: what the last check of usable books saw
  pairLive,  \* is_in_live
  flips,
  tasks,     \* the signals: "free", "new" or "entering"
  entries,   \* of each signal, by account: an entry on its way
  busy,      \* the slots' locks
  held,      \* open positions by account
  resting,   \* accounts in the cooldown after a close
  crossed    \* history: the pair's state changed during an entry

vars == <<gap, dirty, watched, cooling, lastDir, checked, pairLive, flips,
          tasks, entries, busy, held, resting, crossed>>

books == <<gap, dirty, watched>>
detector == <<cooling, lastDir, checked>>
pair == <<pairLive, flips, crossed>>
accounts == <<busy, held, resting>>

Accounts == Slots \cup {"paper"}
Ids == 1 .. MaxTasks
Over == [at |-> "over", slots |-> {}]
Idle == [a \in Accounts |-> Over]
Of(k, a, e) == [entries EXCEPT ![k][a] = e]
AllOver(k) == \A a \in Accounts : entries[k][a] = Over

-----------------------------------------------------------------------------
(* The detector.                                                           *)

BookChanges(g) ==
  /\ g # gap /\ gap' = g
  /\ dirty' = (dirty \/ watched)
  /\ UNCHANGED <<watched, detector, pair, tasks, entries, accounts>>

\* below the minimum, or stopped by a filter of the pair: the direction is
\* forgotten.  The variant keeps it.
Forgets_not(g) == FALSE
Forgets(g) == g = "none"

Suppressed(g) == cooling /\ lastDir = g

\* _check_symbol; the signal's task starts later
Check ==
  /\ checked' = IF gap = "unusable" THEN checked ELSE gap
  /\ IF gap = "unusable" \/ Forgets(gap) \/ gap = "none" \/ Suppressed(gap)
     THEN /\ lastDir' = IF Forgets(gap) THEN "none" ELSE lastDir
          /\ UNCHANGED <<cooling, tasks>>
     ELSE /\ lastDir' = gap /\ cooling' = TRUE
          /\ \E k \in Ids : tasks[k] = "free" /\ tasks' = [tasks EXCEPT ![k] = "new"]

\* A batch is checked without an await.  An error in the check of another
\* pair drops the rest of it.
ScanDirty ==
  /\ dirty /\ dirty' = FALSE
  /\ Check \/ UNCHANGED <<detector, tasks>>
  /\ UNCHANGED <<gap, watched, pair, entries, accounts>>

\* nothing was dirty for scan_interval_sec
SafetyScan ==
  /\ ~dirty /\ dirty' = FALSE
  /\ watched' = TRUE
  /\ Check \/ UNCHANGED <<detector, tasks>>
  /\ UNCHANGED <<gap, pair, entries, accounts>>

CoolingEnds ==
  /\ cooling /\ cooling' = FALSE
  /\ UNCHANGED <<books, lastDir, checked, pair, tasks, entries, accounts>>

-----------------------------------------------------------------------------
(* The entries of a signal.                                                *)

\* _pending_submissions: one entry at a time on a slot and pair.  The variant
\* leaves it out.
Pending_never(a) == FALSE
Pending(a) == \E k \in Ids : entries[k][a].at \in {"waiting", "config", "sent"}

\* _enter_for_slot: cooldown, positions of this account, entry under way;
\* then _try_enter, which lets a live pair through at once
Gated(a) == a \in resting \/ held[a] >= MaxPositions \/ Pending(a)
Targets(a) == IF a = "paper" THEN Slots ELSE {a}
Entered(a) ==
  IF ~pairLive THEN [at |-> "waiting", slots |-> {}]
  ELSE [at |-> "config", slots |-> Targets(a)]

\* funding_guard, no book, no lag: the signal goes nowhere
Start(k) ==
  /\ tasks[k] = "new"
  /\ tasks' = [tasks EXCEPT ![k] = "entering"]
  /\ LET as == IF pairLive THEN Slots ELSE {"paper"}
     IN  \/ UNCHANGED entries
         \/ /\ Cardinality(as) = 1
            /\ \E a \in as : ~Gated(a) /\ entries' = Of(k, a, Entered(a))
         \/ /\ Cardinality(as) > 1
            /\ entries' = [entries EXCEPT ![k] =
                             [a \in Accounts |-> IF a \in as THEN [at |-> "start", slots |-> {}] ELSE Over]]
  /\ UNCHANGED <<books, detector, pair, accounts>>

\* each slot's entry is a task of gather
StartSlot(k, a) ==
  /\ entries[k][a].at = "start"
  /\ \/ entries' = Of(k, a, Over)
     \/ ~Gated(a) /\ entries' = Of(k, a, Entered(a))
  /\ UNCHANGED <<books, detector, pair, tasks, accounts>>

\* The simulated delays of a paper entry are over: rejected, missed, or filled
\* in simulation.  Whether the pair is live is asked again.
PaperFills(k, a) ==
  /\ entries[k][a].at = "waiting"
  /\ \/ entries' = Of(k, a, Over) /\ UNCHANGED held
     \/ pairLive /\ entries' = Of(k, a, [at |-> "config", slots |-> Targets(a)]) /\ UNCHANGED held
     \/ ~pairLive /\ entries' = Of(k, a, Over) /\ held' = [held EXCEPT !["paper"] = @ + 1]
  /\ UNCHANGED <<books, detector, pair, tasks, busy, resting>>

\* no order: of a pair that is not live any more a paper position is kept,
\* filled at the touch or not
NoOrder(k, a) ==
  /\ entries' = Of(k, a, Over)
  /\ held' = IF pairLive THEN held ELSE [held EXCEPT !["paper"] = @ + 1]

\* get_slot_config is back: refused by safety or the settings, slot busy, or sent
Refused(k, a, s) ==
  /\ entries[k][a].at = "config" /\ s \in entries[k][a].slots
  /\ IF entries[k][a].slots = {s} THEN NoOrder(k, a)
     ELSE entries' = [entries EXCEPT ![k][a].slots = @ \ {s}] /\ UNCHANGED held
  /\ UNCHANGED <<books, detector, pair, tasks, busy, resting>>

Sent(k, a, s) ==
  /\ entries[k][a].at = "config" /\ s \in entries[k][a].slots
  /\ s \notin busy /\ busy' = busy \cup {s}
  /\ entries' = Of(k, a, [at |-> "sent", slots |-> {s}])
  /\ UNCHANGED <<books, detector, pair, tasks, held, resting>>

Filled(k, a) ==
  /\ entries[k][a].at = "sent"
  /\ busy' = busy \ entries[k][a].slots
  /\ held' = [b \in Accounts |-> IF b \in entries[k][a].slots THEN held[b] + 1 ELSE held[b]]
  /\ entries' = Of(k, a, Over)
  /\ UNCHANGED <<books, detector, pair, tasks, resting>>

Missed(k, a) ==
  /\ entries[k][a].at = "sent"
  /\ busy' = busy \ entries[k][a].slots
  /\ NoOrder(k, a)
  /\ UNCHANGED <<books, detector, pair, tasks, resting>>

TaskEnds(k) ==
  /\ tasks[k] = "entering" /\ AllOver(k)
  /\ tasks' = [tasks EXCEPT ![k] = "free"]
  /\ UNCHANGED <<books, detector, pair, entries, accounts>>

-----------------------------------------------------------------------------
Closed(a) ==
  /\ held[a] > 0
  /\ held' = [held EXCEPT ![a] = @ - 1] /\ resting' = resting \cup {a}
  /\ UNCHANGED <<books, detector, pair, tasks, entries, busy>>

RestEnds(a) ==
  /\ a \in resting /\ resting' = resting \ {a}
  /\ UNCHANGED <<books, detector, pair, tasks, entries, busy, held>>

Flip ==
  /\ flips < MaxFlips /\ flips' = flips + 1
  /\ pairLive' = ~pairLive
  /\ crossed' = (crossed \/ \E k \in Ids : ~AllOver(k))
  /\ UNCHANGED <<books, detector, tasks, entries, accounts>>

Init ==
  /\ gap = "unusable" /\ dirty = FALSE /\ watched \in BOOLEAN
  /\ cooling = FALSE /\ lastDir = "none" /\ checked = "none"
  /\ pairLive \in BOOLEAN /\ flips = 0 /\ crossed = FALSE
  /\ tasks = [k \in Ids |-> "free"] /\ entries = [k \in Ids |-> Idle]
  /\ busy = {} /\ held = [a \in Accounts |-> 0] /\ resting = {}

OfEntry(k, a) ==
  \/ StartSlot(k, a) \/ PaperFills(k, a) \/ Filled(k, a) \/ Missed(k, a)
  \/ \E s \in Slots : Refused(k, a, s) \/ Sent(k, a, s)

Next ==
  \/ \E g \in {"none", "long", "short", "unusable"} : BookChanges(g)
  \/ ScanDirty \/ SafetyScan \/ CoolingEnds \/ Flip
  \/ \E k \in Ids : Start(k) \/ TaskEnds(k) \/ \E a \in Accounts : OfEntry(k, a)
  \/ \E a \in Accounts : Closed(a) \/ RestEnds(a)

Spec == Init /\ [][Next]_vars

-----------------------------------------------------------------------------
EntryType == [at : {"over", "start", "waiting", "config", "sent"}, slots : SUBSET Slots]

TypeOK ==
  /\ {gap, lastDir, checked} \subseteq {"none", "long", "short", "unusable"}
  /\ tasks \in [Ids -> {"free", "new", "entering"}]
  /\ entries \in [Ids -> [Accounts -> EntryType]]
  /\ busy \subseteq Slots /\ held \in [Accounts -> Nat] /\ resting \subseteq Accounts

\* A gap that opens, or turns round, sends its signal at the first check that
\* sees it, whatever cooldown an earlier signal left: the cooldown only holds
\* back a gap that has been there all along.
GapSignals ==
  checked' \in {"long", "short"} /\ checked' # checked =>
     \E k \in Ids : tasks[k] = "free" /\ tasks'[k] = "new"
OpeningGapSignals == [][GapSignals]_vars

\* No slot holds more positions of the pair than it may, however many signals
\* and slots are entering at once, unless the pair turned live or shadow in
\* the middle of an entry: an entry that began on paper then sends a real
\* order that no gate of the slot has seen.
PositionsWithinLimit ==
  ~crossed => \A a \in Accounts : held[a] <= MaxPositions

=============================================================================
