--------------------------- MODULE Accounts_proofs ---------------------------
(***************************************************************************)
(* Proofs about the positions of the accounts, for any slots and bounds.   *)
(* Signals: an account never holds more positions of a pair than it may.   *)
(* The recovery monitor: a stop has two wrong readings behind it, or three, *)
(* unless one of its visit was right, and it takes every live slot of the  *)
(* account with it.                                                        *)
(***************************************************************************)
EXTENDS Integers, FiniteSets, FiniteSetTheorems, WellFoundedInduction, TLAPS

CONSTANTS
  \* SignalEntry
  Slots, MaxPositions, MaxTasks, MaxFlips,
  \* RecoveryMonitor: its Slots are Numbers
  Numbers, Accounts, Pairs, PairOf, FirstAccount, Amounts, Cap, Buffer,
  CONFIRM_TOL, MAX_CYCLE_DELTA, Unread, MaxMoves, MaxWrong, MaxButtons

VARIABLES
  \* SignalEntry
  gap, dirty, watched, cooling, lastDir, checked, pairLive, flips, tasks, entries,
  busy, held, resting, crossed,
  \* RecoveryMonitor: its crossed is confirmed
  pnl, account, live, mode, armed, row, copy, last, ahead, stopped, job, moves,
  wrongs, buttons, true, run, since, confirmed, touched

Entry == INSTANCE SignalEntry
Recovery == INSTANCE RecoveryMonitor WITH Slots <- Numbers, crossed <- confirmed

-----------------------------------------------------------------------------
(* Signals.                                                                *)

-----------------------------------------------------------------------------
(* The invariant.                                                          *)

UnderWay(k, a) == entries[k][a].at \in {"waiting", "config", "sent"}

\* The entries have the shape of the signals they belong to.
Shape ==
  /\ MaxPositions \in Nat \ {0}
  /\ pairLive \in BOOLEAN /\ crossed \in BOOLEAN
  /\ tasks \in [Entry!Ids -> {"free", "new", "entering"}]
  /\ entries \in [Entry!Ids -> [Entry!Accounts -> Entry!EntryType]]
  /\ held \in [Entry!Accounts -> Nat]
  /\ busy \subseteq Slots /\ resting \subseteq Entry!Accounts
  /\ \A k \in Entry!Ids, a \in Entry!Accounts : entries[k][a].at = "over" => entries[k][a] = Entry!Over

\* A signal that has not started, or that is over, has no entries.
OnlyWhileEntering == \A k \in Entry!Ids : tasks[k] # "entering" => Entry!AllOver(k)

\* While nothing crossed, paper entries are those of a pair that is not live,
\* and a slot's order is for this slot alone.
OwnAccount ==
  \A k \in Entry!Ids, a \in Entry!Accounts :
    /\ entries[k][a].at # "over" => (a = "paper" <=> ~pairLive)
    /\ entries[k][a].at = "waiting" => a = "paper"
    /\ entries[k][a].at \in {"config", "sent"} => entries[k][a].slots = {a} /\ a # "paper"

\* An account has one entry under way at most, and room for it.
OneEntry ==
  \A a \in Entry!Accounts :
    /\ held[a] <= MaxPositions
    /\ \A k \in Entry!Ids : UnderWay(k, a) =>
         /\ held[a] < MaxPositions
         /\ \A j \in Entry!Ids \ {k} : ~UnderWay(j, a)

LInv == Shape /\ OnlyWhileEntering /\ (~crossed => OwnAccount /\ OneEntry)

-----------------------------------------------------------------------------
(* The steps.                                                              *)

\* No slot is called "paper".
LEMMA SlotsArePaperless ==
  ASSUME Entry!SignalEntryAssumptions PROVE \A s \in Slots : s # "paper"
BY DEF Entry!SignalEntryAssumptions

\* What a step of one entry leaves of the others.
LEMMA OfFacts ==
  ASSUME Shape, NEW k \in Entry!Ids, NEW a \in Entry!Accounts, NEW e \in Entry!EntryType,
         e.at = "over" => e = Entry!Over
  PROVE  /\ Entry!Of(k, a, e) \in [Entry!Ids -> [Entry!Accounts -> Entry!EntryType]]
         /\ Entry!Of(k, a, e)[k][a] = e
         /\ \A j \in Entry!Ids, b \in Entry!Accounts :
               j # k \/ b # a => Entry!Of(k, a, e)[j][b] = entries[j][b]
BY DEF Shape, Entry!Of

\* A step that changes no entry and no count, and no signal but to begin one
\* or to end one that has no entries.
LEMMA QuietKeeps ==
  ASSUME LInv, UNCHANGED <<pairLive, crossed, entries, held>>,
         busy' \subseteq Slots, resting' \subseteq Entry!Accounts,
         tasks' \in [Entry!Ids -> {"free", "new", "entering"}],
         \A k \in Entry!Ids : tasks'[k] # "entering" => Entry!AllOver(k)
  PROVE  LInv'
BY DEF LInv, Shape, OnlyWhileEntering, OwnAccount, OneEntry, Entry!AllOver, UnderWay

\* A step of one entry of a signal that is entering: what it has to respect.
LEMMA EntryStep ==
  ASSUME LInv, NEW k \in Entry!Ids, NEW a \in Entry!Accounts, NEW e \in Entry!EntryType,
         e.at = "over" => e = Entry!Over,
         entries' = Entry!Of(k, a, e), UNCHANGED <<pairLive, crossed, resting>>,
         tasks' \in [Entry!Ids -> {"free", "new", "entering"}], tasks'[k] = "entering",
         \A j \in Entry!Ids \ {k} : tasks'[j] = tasks[j],
         busy' \subseteq Slots, held' \in [Entry!Accounts -> Nat],
         ~crossed =>
           /\ e.at # "over" => (a = "paper" <=> ~pairLive)
           /\ e.at = "waiting" => a = "paper"
           /\ e.at \in {"config", "sent"} => e.slots = {a} /\ a # "paper"
           /\ \A b \in Entry!Accounts \ {a} : held'[b] = held[b]
           /\ held'[a] <= MaxPositions
           /\ e.at \in {"waiting", "config", "sent"} => held'[a] < MaxPositions
           /\ e.at \in {"waiting", "config", "sent"} \/ held'[a] # held[a]
                => \A j \in Entry!Ids \ {k} : ~UnderWay(j, a)
  PROVE  LInv'
<1>1. /\ entries' \in [Entry!Ids -> [Entry!Accounts -> Entry!EntryType]]
      /\ entries'[k][a] = e
      /\ \A j \in Entry!Ids, b \in Entry!Accounts :
            j # k \/ b # a => entries'[j][b] = entries[j][b]
  BY OfFacts DEF LInv
<1>2. Shape'
  <2>1. ASSUME NEW j \in Entry!Ids, NEW b \in Entry!Accounts, entries'[j][b].at = "over"
        PROVE  entries'[j][b] = Entry!Over
    BY <1>1, <2>1 DEF LInv, Shape
  <2>2. QED
    BY <1>1, <2>1 DEF LInv, Shape
<1>3. OnlyWhileEntering'
  BY <1>1 DEF LInv, OnlyWhileEntering, Entry!AllOver
<1>4. ~crossed' => OwnAccount'
  BY <1>1 DEF LInv, OwnAccount
<1>5. ~crossed' => OneEntry'
  <2> SUFFICES ASSUME ~crossed, NEW b \in Entry!Accounts
               PROVE  /\ held'[b] <= MaxPositions
                      /\ \A i \in Entry!Ids : UnderWay(i, b)' =>
                           /\ held'[b] < MaxPositions
                           /\ \A j \in Entry!Ids \ {i} : ~UnderWay(j, b)'
    BY DEF OneEntry
  <2>1. /\ \A j \in Entry!Ids : j # k \/ b # a => (UnderWay(j, b)' <=> UnderWay(j, b))
        /\ UnderWay(k, a)' <=> e.at \in {"waiting", "config", "sent"}
    BY <1>1 DEF UnderWay
  <2>2. CASE b # a
    BY <2>1, <2>2 DEF LInv, OneEntry
  <2>3. CASE b = a
    BY <2>1, <2>3 DEF LInv, OneEntry
  <2>4. QED
    BY <2>2, <2>3
<1>6. QED
  BY <1>2, <1>3, <1>4, <1>5 DEF LInv

\* An entry that passed the gate has its account to itself.
LEMMA EnteredFacts ==
  ASSUME LInv, NEW a \in Entry!Accounts, ~Entry!Gated(a)
  PROVE  /\ Entry!Entered(a) \in Entry!EntryType
         /\ Entry!Entered(a).at \in {"waiting", "config"}
         /\ Entry!Entered(a).at = "waiting" <=> ~pairLive
         /\ a # "paper" /\ Entry!Entered(a).at = "config" => Entry!Entered(a).slots = {a}
         /\ held[a] < MaxPositions
         /\ \A j \in Entry!Ids : ~UnderWay(j, a)
BY DEF LInv, Shape, Entry!Gated, Entry!Entered, Entry!EntryType, Entry!Targets,
   Entry!Pending, UnderWay, Entry!Accounts

\* An entry of a slot begins.
LEMMA StartSlotKeeps ==
  ASSUME LInv, NEW k \in Entry!Ids, NEW a \in Entry!Accounts,
         Entry!StartSlot(k, a) PROVE LInv'
<1>1. /\ entries[k][a].at = "start" /\ tasks[k] = "entering"
      /\ UNCHANGED <<pairLive, crossed, resting, tasks, busy, held>>
  BY DEF Entry!StartSlot, LInv, OnlyWhileEntering, Entry!AllOver, Entry!Over,
     Entry!pair, Entry!accounts
<1>2. Entry!Over \in Entry!EntryType /\ Entry!Over.at = "over"
  BY DEF Entry!Over, Entry!EntryType
<1>3. CASE entries' = Entry!Of(k, a, Entry!Over)
  BY <1>1, <1>2, <1>3, EntryStep DEF LInv, Shape, OneEntry
<1>4. CASE ~Entry!Gated(a) /\ entries' = Entry!Of(k, a, Entry!Entered(a))
  <2>1. ~crossed => (a = "paper" <=> ~pairLive)
    BY <1>1 DEF LInv, OwnAccount
  <2>2. QED
    BY <1>1, <1>4, <2>1, EnteredFacts, EntryStep DEF LInv, Shape, OneEntry
<1>5. QED
  BY <1>3, <1>4 DEF Entry!StartSlot

\* The end of an entry without an order.
LEMMA NoOrderKeeps ==
  ASSUME LInv, NEW k \in Entry!Ids, NEW a \in Entry!Accounts, Entry!NoOrder(k, a),
         entries[k][a].at \in {"config", "sent"},
         UNCHANGED <<pairLive, crossed, resting, tasks>>, busy' \subseteq Slots
  PROVE  LInv'
<1>1. tasks[k] = "entering" /\ Entry!Over \in Entry!EntryType /\ Entry!Over.at = "over"
  BY DEF LInv, OnlyWhileEntering, Entry!AllOver, Entry!Over, Entry!EntryType
<1>2. held' \in [Entry!Accounts -> Nat]
  BY DEF Entry!NoOrder, LInv, Shape, Entry!Accounts
<1>3. ~crossed => held' = held
  BY DEF Entry!NoOrder, LInv, OwnAccount
<1>4. QED
  BY <1>1, <1>2, <1>3, EntryStep DEF Entry!NoOrder, LInv, Shape, OneEntry

\* The simulated delays of a paper entry are over.
LEMMA PaperFillsKeeps ==
  ASSUME LInv, NEW k \in Entry!Ids, NEW a \in Entry!Accounts,
         Entry!PaperFills(k, a) PROVE LInv'
<1>1. /\ entries[k][a].at = "waiting" /\ tasks[k] = "entering"
      /\ UNCHANGED <<pairLive, crossed, resting, tasks, busy>>
  BY DEF Entry!PaperFills, LInv, OnlyWhileEntering, Entry!AllOver, Entry!Over,
     Entry!pair
<1>2. Entry!Over \in Entry!EntryType /\ Entry!Over.at = "over"
  BY DEF Entry!Over, Entry!EntryType
<1>3. ~crossed => /\ a = "paper" /\ ~pairLive /\ held[a] < MaxPositions
                  /\ \A j \in Entry!Ids \ {k} : ~UnderWay(j, a)
  BY <1>1 DEF LInv, OwnAccount, OneEntry, UnderWay
<1>4. CASE entries' = Entry!Of(k, a, Entry!Over) /\ UNCHANGED held
  BY <1>1, <1>2, <1>4, EntryStep DEF LInv, Shape, OneEntry
<1>5. CASE /\ pairLive /\ UNCHANGED held
           /\ entries' = Entry!Of(k, a, [at |-> "config", slots |-> Entry!Targets(a)])
  <2> DEFINE e == [at |-> "config", slots |-> Entry!Targets(a)]
  <2>1. e \in Entry!EntryType /\ e.at # "over" /\ crossed
    BY <1>3, <1>5 DEF Entry!EntryType, Entry!Targets, Entry!Accounts, LInv, Shape
  <2> HIDE DEF e
  <2>2. entries' = Entry!Of(k, a, e)
    BY <1>5 DEF e
  <2>3. QED
    BY <1>1, <1>5, <2>1, <2>2, EntryStep DEF LInv, Shape
<1>6. CASE /\ ~pairLive /\ entries' = Entry!Of(k, a, Entry!Over)
           /\ held' = [held EXCEPT !["paper"] = @ + 1]
  <2>1. held' \in [Entry!Accounts -> Nat] /\ \A b \in Entry!Accounts \ {"paper"} : held'[b] = held[b]
    BY <1>6 DEF LInv, Shape, Entry!Accounts
  <2>2. ~crossed => held'[a] <= MaxPositions
    BY <1>3, <1>6 DEF LInv, Shape
  <2>3. QED
    BY <1>1, <1>2, <1>3, <1>6, <2>1, <2>2, EntryStep DEF LInv, Shape
<1>7. QED
  BY <1>4, <1>5, <1>6 DEF Entry!PaperFills

\* The answers about the slots of an entry.
LEMMA RefusedKeeps ==
  ASSUME LInv, NEW k \in Entry!Ids, NEW a \in Entry!Accounts, NEW s \in Slots,
         Entry!Refused(k, a, s)
  PROVE  LInv'
<1>1. /\ entries[k][a].at = "config" /\ s \in entries[k][a].slots
      /\ tasks[k] = "entering"
      /\ UNCHANGED <<pairLive, crossed, resting, tasks, busy>>
  BY DEF Entry!Refused, LInv, OnlyWhileEntering, Entry!AllOver, Entry!Over,
     Entry!pair
<1>2. CASE entries[k][a].slots = {s}
  BY <1>1, <1>2, NoOrderKeeps DEF Entry!Refused, LInv, Shape
<1>3. CASE entries[k][a].slots # {s}
  <2> DEFINE e == [entries[k][a] EXCEPT !.slots = @ \ {s}]
  <2>1. crossed
    BY <1>1, <1>3 DEF LInv, OwnAccount
  <2>2. e \in Entry!EntryType /\ e.at # "over"
    BY <1>1 DEF LInv, Shape, Entry!EntryType
  <2>3. entries' = Entry!Of(k, a, e) /\ held' = held
    BY <1>3 DEF Entry!Refused, Entry!Of, LInv, Shape
  <2> HIDE DEF e
  <2>4. QED
    BY <1>1, <2>1, <2>2, <2>3, EntryStep DEF LInv, Shape
<1>4. QED
  BY <1>2, <1>3

\* An order is sent for one slot.
LEMMA SentKeeps ==
  ASSUME LInv, NEW k \in Entry!Ids, NEW a \in Entry!Accounts, NEW s \in Slots,
         Entry!Sent(k, a, s)
  PROVE  LInv'
<1> DEFINE e == [at |-> "sent", slots |-> {s}]
<1>1. /\ entries[k][a].at = "config" /\ s \in entries[k][a].slots
      /\ tasks[k] = "entering" /\ entries' = Entry!Of(k, a, e)
      /\ UNCHANGED <<pairLive, crossed, resting, tasks, held>>
      /\ busy' \subseteq Slots
  BY DEF Entry!Sent, LInv, Shape, OnlyWhileEntering, Entry!AllOver, Entry!Over,
     Entry!pair
<1>2. e \in Entry!EntryType /\ e.at = "sent" /\ e.slots = {s}
  BY DEF Entry!EntryType
<1>3. ~crossed => /\ a = s /\ a # "paper" /\ pairLive /\ held[a] < MaxPositions
                  /\ \A j \in Entry!Ids \ {k} : ~UnderWay(j, a)
  BY <1>1 DEF LInv, OwnAccount, OneEntry, UnderWay
<1> HIDE DEF e
<1>4. QED
  BY <1>1, <1>2, <1>3, EntryStep DEF LInv, Shape, OneEntry

\* The answer of the exchange.
LEMMA FilledKeeps ==
  ASSUME LInv, NEW k \in Entry!Ids, NEW a \in Entry!Accounts, Entry!Filled(k, a) PROVE LInv'
<1>1. /\ entries[k][a].at = "sent" /\ tasks[k] = "entering"
      /\ entries' = Entry!Of(k, a, Entry!Over)
      /\ UNCHANGED <<pairLive, crossed, resting, tasks>>
      /\ busy' \subseteq Slots
  BY DEF Entry!Filled, LInv, Shape, OnlyWhileEntering, Entry!AllOver, Entry!Over,
     Entry!pair
<1>2. Entry!Over \in Entry!EntryType /\ Entry!Over.at = "over"
  BY DEF Entry!Over, Entry!EntryType
<1>3. /\ held' \in [Entry!Accounts -> Nat]
      /\ \A b \in Entry!Accounts : held'[b] = IF b \in entries[k][a].slots
                                        THEN held[b] + 1 ELSE held[b]
  BY DEF Entry!Filled, LInv, Shape
<1>4. ~crossed => /\ entries[k][a].slots = {a} /\ held[a] < MaxPositions
                  /\ \A j \in Entry!Ids \ {k} : ~UnderWay(j, a)
  BY <1>1 DEF LInv, OwnAccount, OneEntry, UnderWay
<1>5. ~crossed => held'[a] <= MaxPositions
  BY <1>3, <1>4 DEF LInv, Shape
<1>6. QED
  BY <1>1, <1>2, <1>3, <1>4, <1>5, EntryStep DEF LInv, Shape

\* The order was not filled.
LEMMA MissedKeeps ==
  ASSUME LInv, NEW k \in Entry!Ids, NEW a \in Entry!Accounts, Entry!Missed(k, a) PROVE LInv'
<1>1. busy' \subseteq Slots
  BY DEF Entry!Missed, LInv, Shape
<1>2. QED
  BY <1>1, NoOrderKeeps DEF Entry!Missed, Entry!pair

\* The task of a signal begins: nothing to enter, one account, or all slots.
LEMMA StartKeeps ==
  ASSUME Entry!SignalEntryAssumptions, LInv, NEW k \in Entry!Ids, Entry!Start(k) PROVE LInv'
<1> DEFINE as == IF pairLive THEN Slots ELSE {"paper"}
<1>1. /\ tasks[k] = "new" /\ Entry!AllOver(k)
      /\ tasks' = [tasks EXCEPT ![k] = "entering"]
      /\ UNCHANGED <<pairLive, crossed, busy, held, resting>>
  BY DEF Entry!Start, LInv, OnlyWhileEntering, Entry!pair, Entry!accounts
<1>2. /\ tasks' \in [Entry!Ids -> {"free", "new", "entering"}] /\ tasks'[k] = "entering"
      /\ \A j \in Entry!Ids \ {k} : tasks'[j] = tasks[j]
  BY <1>1 DEF LInv, Shape
<1>3. CASE UNCHANGED entries
  BY <1>1, <1>2, <1>3, QuietKeeps DEF LInv, Shape, OnlyWhileEntering
<1>4. CASE \E a \in as : ~Entry!Gated(a) /\ entries' = Entry!Of(k, a, Entry!Entered(a))
  <2>1. PICK a \in as : ~Entry!Gated(a) /\ entries' = Entry!Of(k, a, Entry!Entered(a))
    BY <1>4
  <2>2. a \in Entry!Accounts /\ (~crossed => (a = "paper" <=> ~pairLive))
    BY <2>1, SlotsArePaperless DEF Entry!Accounts
  <2>3. QED
    BY <1>1, <1>2, <2>1, <2>2, EnteredFacts, EntryStep DEF LInv, Shape, OneEntry
<1>5. CASE entries' = [entries EXCEPT ![k] = [a \in Entry!Accounts |->
                         IF a \in as THEN [at |-> "start", slots |-> {}] ELSE Entry!Over]]
  <2>1. /\ \A j \in Entry!Ids, a \in Entry!Accounts : j # k => entries'[j][a] = entries[j][a]
        /\ \A a \in Entry!Accounts :
             entries'[k][a] = IF a \in as THEN [at |-> "start", slots |-> {}] ELSE Entry!Over
    BY <1>5 DEF LInv, Shape
  <2>2. entries' \in [Entry!Ids -> [Entry!Accounts -> Entry!EntryType]]
    BY <1>5 DEF LInv, Shape, Entry!EntryType, Entry!Over
  <2>3. Shape'
    <3>1. \A j \in Entry!Ids, a \in Entry!Accounts :
             entries'[j][a].at = "over" => entries'[j][a] = Entry!Over
      BY <2>1 DEF LInv, Shape
    <3>2. QED
      BY <1>1, <1>2, <2>2, <3>1 DEF LInv, Shape
  <2>4. OnlyWhileEntering'
    BY <1>2, <2>1 DEF LInv, OnlyWhileEntering, Entry!AllOver
  <2>5. \A a \in as : a = "paper" <=> ~pairLive
    BY SlotsArePaperless
  <2>6. OwnAccount => OwnAccount'
    BY <1>1, <2>1, <2>5 DEF OwnAccount, Entry!Over
  <2>7. OneEntry => OneEntry'
    <3>1. \A j \in Entry!Ids, a \in Entry!Accounts : UnderWay(j, a)' => UnderWay(j, a)
      BY <2>1 DEF UnderWay, Entry!Over
    <3>2. QED
      BY <1>1, <3>1 DEF OneEntry
  <2>8. QED
    BY <1>1, <2>3, <2>4, <2>6, <2>7 DEF LInv
<1>6. QED
  BY <1>3, <1>4, <1>5 DEF Entry!Start

\* The task of a signal whose entries are over ends.
LEMMA TaskEndsKeeps ==
  ASSUME LInv, NEW k \in Entry!Ids, Entry!TaskEnds(k) PROVE LInv'
BY QuietKeeps
   DEF Entry!TaskEnds, LInv, Shape, OnlyWhileEntering, Entry!pair, Entry!accounts

\* What the detector does to the signals: one begins.
LEMMA CheckKeeps ==
  ASSUME LInv, Entry!Check \/ UNCHANGED <<Entry!detector, tasks>>,
         UNCHANGED <<Entry!pair, entries, Entry!accounts>>
  PROVE  LInv'
<1>1. UNCHANGED tasks \/ \E k \in Entry!Ids : tasks[k] = "free" /\ tasks' = [tasks EXCEPT ![k] = "new"]
  BY DEF Entry!Check
<1>2. /\ tasks' \in [Entry!Ids -> {"free", "new", "entering"}]
      /\ \A k \in Entry!Ids : tasks'[k] # "entering" => tasks[k] # "entering"
  BY <1>1 DEF LInv, Shape
<1>3. QED
  BY <1>2, QuietKeeps DEF LInv, Shape, OnlyWhileEntering, Entry!pair, Entry!accounts

\* A position is closed.
LEMMA ClosedKeeps ==
  ASSUME LInv, NEW a \in Entry!Accounts, Entry!Closed(a) PROVE LInv'
<1>1. /\ held' \in [Entry!Accounts -> Nat] /\ resting' \subseteq Entry!Accounts
      /\ \A b \in Entry!Accounts : held'[b] <= held[b]
  BY DEF Entry!Closed, LInv, Shape
<1>2. Shape' /\ OnlyWhileEntering'
  BY <1>1
     DEF Entry!Closed, LInv, Shape, OnlyWhileEntering, Entry!AllOver, Entry!pair
<1>3. OwnAccount => OwnAccount'
  BY DEF Entry!Closed, OwnAccount, Entry!pair
<1>4. OneEntry => OneEntry'
  BY <1>1 DEF Entry!Closed, OneEntry, UnderWay, LInv, Shape
<1>5. QED
  BY <1>2, <1>3, <1>4 DEF Entry!Closed, LInv, Entry!pair

\* The operator turns the pair live or back: either an entry was on its way,
\* or there is none to confuse.
LEMMA FlipKeeps ==
  ASSUME LInv, Entry!Flip PROVE LInv'
<1>1. /\ pairLive' \in BOOLEAN /\ crossed' \in BOOLEAN
      /\ UNCHANGED <<tasks, entries, busy, held, resting>>
  BY DEF Entry!Flip, LInv, Shape, Entry!accounts
<1>2. Shape' /\ OnlyWhileEntering'
  BY <1>1 DEF LInv, Shape, OnlyWhileEntering, Entry!AllOver
<1>3. ~crossed' => /\ OwnAccount /\ OneEntry
                   /\ \A k \in Entry!Ids, a \in Entry!Accounts : entries[k][a] = Entry!Over
  BY DEF Entry!Flip, LInv, Shape, Entry!AllOver
<1>4. ~crossed' => OwnAccount'
  BY <1>1, <1>3 DEF OwnAccount, Entry!Over
<1>5. ~crossed' => OneEntry'
  BY <1>1, <1>3 DEF OneEntry, UnderWay
<1>6. QED
  BY <1>2, <1>4, <1>5 DEF LInv

-----------------------------------------------------------------------------
(* The theorems.                                                           *)

\* The detector starts with nothing, no signal is under way.
LEMMA InitLInv ==
  ASSUME Entry!SignalEntryAssumptions, Entry!Init PROVE LInv
<1>1. Shape
  BY DEF Entry!SignalEntryAssumptions, Entry!Init, Shape, Entry!EntryType,
     Entry!Idle, Entry!Over
<1>2. \A k \in Entry!Ids, a \in Entry!Accounts : entries[k][a] = Entry!Over
  BY DEF Entry!Init, Entry!Idle
<1>3. OnlyWhileEntering /\ OwnAccount
  BY <1>2 DEF OnlyWhileEntering, OwnAccount, Entry!AllOver, Entry!Over
<1>4. OneEntry
  BY <1>2
     DEF Entry!Init, OneEntry, UnderWay, Entry!Over, Entry!SignalEntryAssumptions
<1>5. QED
  BY <1>1, <1>3, <1>4 DEF LInv

\* Every step keeps the invariant.
LEMMA StepLInv ==
  ASSUME Entry!SignalEntryAssumptions, LInv, [Entry!Next]_(Entry!vars) PROVE LInv'
<1>1. CASE UNCHANGED Entry!vars
  BY <1>1, QuietKeeps DEF Entry!vars, LInv, Shape, OnlyWhileEntering
<1>2. CASE \E g \in {"none", "long", "short", "unusable"} : Entry!BookChanges(g)
  BY <1>2, QuietKeeps
     DEF Entry!BookChanges, Entry!pair, Entry!accounts, LInv, Shape,
         OnlyWhileEntering
<1>3. CASE Entry!ScanDirty \/ Entry!SafetyScan
  BY <1>3, CheckKeeps DEF Entry!ScanDirty, Entry!SafetyScan
<1>4. CASE Entry!CoolingEnds
  BY <1>4, QuietKeeps
     DEF Entry!CoolingEnds, Entry!pair, Entry!accounts, LInv, Shape,
         OnlyWhileEntering
<1>5. CASE Entry!Flip
  BY <1>5, FlipKeeps
<1>6. CASE \E k \in Entry!Ids : Entry!Start(k) \/ Entry!TaskEnds(k)
  BY <1>6, StartKeeps, TaskEndsKeeps
<1>7. CASE \E k \in Entry!Ids, a \in Entry!Accounts : Entry!OfEntry(k, a)
  BY <1>7, StartSlotKeeps, PaperFillsKeeps, FilledKeeps, MissedKeeps, RefusedKeeps,
     SentKeeps
     DEF Entry!OfEntry
<1>8. ASSUME NEW a \in Entry!Accounts, Entry!RestEnds(a) PROVE LInv'
  BY <1>8, QuietKeeps DEF Entry!RestEnds, Entry!pair, LInv, Shape, OnlyWhileEntering
<1>9. CASE \E a \in Entry!Accounts : Entry!Closed(a)
  BY <1>9, ClosedKeeps
<1>10. QED
  BY <1>1, <1>2, <1>3, <1>4, <1>5, <1>6, <1>7, <1>8, <1>9 DEF Entry!Next

\* What the invariant says of a state.
LEMMA LInvGives == LInv => Entry!PositionsWithinLimit
BY DEF LInv, OneEntry, Entry!PositionsWithinLimit

\* While nothing crossed, an entry is alone on its account and has
\* room for its position.
THEOREM EntryInvariant ==
  ASSUME Entry!SignalEntryAssumptions PROVE Entry!Spec => []LInv
BY InitLInv, StepLInv, PTL DEF Entry!Spec

\* No slot holds more positions of the pair than max_positions_per_symbol,
\* however many signals and slots are entering at once, unless the pair's
\* state changed during an entry (on_signal, _enter_for_slot,
\* _open_position).
THEOREM LimitHolds ==
  ASSUME Entry!SignalEntryAssumptions PROVE Entry!Spec => []Entry!PositionsWithinLimit
BY LInvGives, EntryInvariant, PTL

\* The detector's own variables.
Seen == {"none", "long", "short", "unusable"}
DInv ==
  /\ gap \in Seen /\ lastDir \in {"none", "long", "short"}
  /\ checked = lastDir

\* The direction remembered is the one the last check saw: every way through
\* _check_symbol leaves them the same.
LEMMA CheckRemembers ==
  ASSUME LInv, DInv, Entry!Check \/ UNCHANGED <<Entry!detector, tasks>>
  PROVE  /\ lastDir' \in {"none", "long", "short"} /\ checked' = lastDir'
         /\ Entry!GapSignals
BY DEF LInv, Shape, DInv, Entry!Check, Entry!Forgets, Entry!Suppressed,
   Entry!GapSignals, Seen, Entry!detector

\* The detector starts without a direction, and has checked nothing.
LEMMA InitDInv == Entry!Init => DInv
BY DEF Entry!Init, DInv, Seen

\* Every step keeps the direction remembered, and sends the signal of a gap
\* that the detector sees for the first time.
LEMMA StepDInv ==
  ASSUME LInv, DInv, [Entry!Next]_(Entry!vars) PROVE DInv' /\ Entry!GapSignals
<1>1. CASE Entry!ScanDirty \/ Entry!SafetyScan
  BY <1>1, CheckRemembers DEF Entry!ScanDirty, Entry!SafetyScan, DInv
<1>2. ASSUME NEW g \in Seen, Entry!BookChanges(g) PROVE DInv' /\ Entry!GapSignals
  BY <1>2 DEF Entry!BookChanges, DInv, Entry!detector, Entry!GapSignals
<1>3. ASSUME UNCHANGED <<gap, lastDir, checked>> PROVE DInv' /\ Entry!GapSignals
  BY <1>3 DEF DInv, Entry!GapSignals
<1>4. CASE Entry!CoolingEnds \/ Entry!Flip
  BY <1>3, <1>4 DEF Entry!CoolingEnds, Entry!Flip, Entry!books, Entry!detector
<1>5. CASE \E k \in Entry!Ids : Entry!Start(k) \/ Entry!TaskEnds(k)
  BY <1>3, <1>5 DEF Entry!Start, Entry!TaskEnds, Entry!books, Entry!detector
<1>6. CASE \E k \in Entry!Ids, a \in Entry!Accounts : Entry!OfEntry(k, a)
  <2>1. PICK k \in Entry!Ids, a \in Entry!Accounts : Entry!OfEntry(k, a)
    BY <1>6
  <2>2. UNCHANGED <<Entry!books, Entry!detector>>
    BY <2>1
       DEF Entry!OfEntry, Entry!StartSlot, Entry!PaperFills, Entry!Filled,
           Entry!Missed, Entry!Refused, Entry!Sent
  <2>3. QED
    BY <1>3, <2>2 DEF Entry!books, Entry!detector
<1>7. CASE \E a \in Entry!Accounts : Entry!Closed(a) \/ Entry!RestEnds(a)
  BY <1>3, <1>7 DEF Entry!Closed, Entry!RestEnds, Entry!books, Entry!detector
<1>8. CASE UNCHANGED Entry!vars
  BY <1>8, <1>3 DEF Entry!vars
<1>9. QED
  BY <1>1, <1>2, <1>4, <1>5, <1>6, <1>7, <1>8 DEF Entry!Next, Seen

\* The invariants say what values the variables have.
LEMMA EntryTyped == LInv /\ DInv => Entry!TypeOK
BY DEF LInv, Shape, DInv, Seen, Entry!TypeOK

\* The variables keep their types.
THEOREM EntryTypeCorrect ==
  ASSUME Entry!SignalEntryAssumptions PROVE Entry!Spec => []Entry!TypeOK
BY EntryTyped, InitDInv, StepDInv, EntryInvariant, PTL DEF Entry!Spec

\* A gap that opens or turns round sends its signal at the first check that
\* sees it, whatever the cooldown (static_gap_detector.py, _check_symbol).
THEOREM GapsSignal ==
  ASSUME Entry!SignalEntryAssumptions PROVE Entry!Spec => Entry!OpeningGapSignals
<1>1. LInv /\ DInv /\ [Entry!Next]_(Entry!vars) => DInv' /\ [Entry!GapSignals]_(Entry!vars)
  BY StepDInv
<1>2. QED
  BY <1>1, InitDInv, EntryInvariant, PTL DEF Entry!Spec, Entry!OpeningGapSignals


-----------------------------------------------------------------------------
(* The recovery monitor.                                                   *)

-----------------------------------------------------------------------------
(* The Recovery!pass visits the slots in order.                                     *)

\* Every set of slots that is not empty has a lowest one.
LEMMA MinIsMember ==
  ASSUME NEW T \in SUBSET Nat, T # {}
  PROVE  Recovery!Min(T) \in T
<1> DEFINE R == {p \in Nat \X Nat : p[1] < p[2]}
<1>1. OpToRel(<, Nat) = R
  BY DEF OpToRel
<1>2. IsWellFoundedOn(R, Nat)
  BY <1>1, NatLessThanWellFounded
<1>3. PICK x \in T : \A y \in T : ~(<<y, x>> \in R)
  BY <1>2, WFMin
<1>4. ASSUME NEW y \in T PROVE x <= y
  <2>1. ~(y < x)
    BY <1>3
  <2>2. QED
    BY <2>1
<1>5. QED
  BY <1>4 DEF Recovery!Min

-----------------------------------------------------------------------------
(* The invariant.                                                          *)

JobType ==
  [at : {"wait", "read", "arm", "confirm", "list", "off", "demote", "clear"},
   slot : Nat, account : Accounts \cup {Unread}, why : {"none", "cap", "back"},
   first : Amounts \cup {Unread}, targets : SUBSET Numbers]

WorldTyped ==
  /\ pnl \in [Accounts -> Amounts] /\ account \in [Numbers -> Accounts]
  /\ live \in [Numbers -> BOOLEAN] /\ mode \in [Numbers -> BOOLEAN]
  /\ armed \in [Numbers -> BOOLEAN]
  /\ row \subseteq Pairs /\ copy \subseteq Pairs

MonitorTyped ==
  /\ last \in [Numbers -> Amounts \cup {Unread}]
  /\ ahead \subseteq Numbers /\ stopped \subseteq Numbers
  /\ job \in JobType

HistoryTyped ==
  /\ true \in [Numbers -> Amounts \cup {Unread}]
  /\ run \in [Numbers -> Nat] /\ since \in [Numbers -> Nat]
  /\ confirmed \in BOOLEAN /\ touched \subseteq Numbers

\* The visit is of a slot, and of its account unless the operator moved it.
VisitFits ==
  job.at # "wait" =>
    /\ Recovery!S \in Numbers /\ job.account \in Accounts
    /\ Recovery!S \notin touched => account[Recovery!S] = job.account

\* While no first reading has been wrong since, the last one is the right one.
LastIsRight ==
  \A s \in Numbers : /\ since[s] = 0 => last[s] = true[s]
                     /\ last[s] = Unread => true[s] = Unread

\* A first reading that was wrong counts, and so does the one that it is near.
FirstCounts ==
  job.at = "confirm" =>
    /\ job.first \in Amounts /\ job.why # "none"
    /\ ~confirmed => run[Recovery!S] >= 1 /\ since[Recovery!S] >= 1
    /\ ~confirmed /\ true[Recovery!S] # Unread /\ Recovery!Far(job.first, true[Recovery!S]) => since[Recovery!S] >= 2

\* What is still live of the account is still to be stopped, and is not the one
\* that is being stopped.
Remaining(s) == s \in Numbers /\ live[s] /\ account[s] = job.account /\ s \notin touched
StopFits ==
  /\ job.at \in {"off", "demote", "clear"} =>
       /\ job.targets # {}
       /\ Recovery!S \notin touched => \A s \in Numbers : Remaining(s) => s \in job.targets
  /\ job.at \in {"demote", "clear"} /\ Recovery!S \notin touched =>
       \A s \in Numbers : Remaining(s) => s # Recovery!Target

RInv ==
  /\ WorldTyped /\ MonitorTyped /\ HistoryTyped
  /\ VisitFits /\ LastIsRight /\ FirstCounts /\ StopFits

-----------------------------------------------------------------------------
(* Every step keeps it.                                                    *)

\* Between two visits the monitor stops nothing.
LEMMA WaitingFits == Recovery!Waiting \in JobType /\ Recovery!Waiting.at = "wait" /\ Recovery!Waiting.targets = {}
BY DEF Recovery!Waiting, JobType

\* A visit is of a slot.
LEMMA StepVisit ==
  ASSUME Recovery!RecoveryAssumptions, RInv, Recovery!Visit
  PROVE  RInv'
<1> USE DEF RInv
<1> DEFINE s == Recovery!Min(ahead)
<1>1. s \in Numbers
  BY MinIsMember DEF MonitorTyped, Recovery!RecoveryAssumptions, Recovery!Visit
<1>2. CASE s \in stopped \/ ~mode[s]
  BY <1>2
     DEF Recovery!Visit, Recovery!Leave, Recovery!At, Recovery!world, Recovery!rows,
         Recovery!pairs, Recovery!bounds, WorldTyped, MonitorTyped, HistoryTyped,
         VisitFits, LastIsRight, FirstCounts, StopFits, Recovery!S, Remaining,
         Recovery!Target
<1>3. CASE ~(s \in stopped \/ ~mode[s])
  <2>1. /\ job' = [Recovery!Waiting EXCEPT !.at = "read", !.slot = s, !.account = account[s]]
        /\ confirmed' = FALSE /\ touched' = {} /\ ahead' = ahead
    BY <1>3 DEF Recovery!Visit
  <2>2. job' = [at |-> "read", slot |-> s, account |-> account[s], why |-> "none",
                first |-> Unread, targets |-> {}]
    BY <2>1 DEF Recovery!Waiting
  <2>3. job' \in JobType /\ Recovery!S' = s
    BY <1>1, <2>2 DEF JobType, WorldTyped, Recovery!RecoveryAssumptions, Recovery!S
  <2>4. WorldTyped' /\ MonitorTyped' /\ HistoryTyped'
    BY <2>1, <2>3
       DEF Recovery!Visit, Recovery!world, Recovery!rows, Recovery!pairs,
           Recovery!bounds, WorldTyped, MonitorTyped, HistoryTyped
  <2>5. VisitFits'
    BY <1>1, <2>1, <2>2, <2>3
       DEF VisitFits, WorldTyped, Recovery!Visit, Recovery!world, Recovery!rows
  <2>6. LastIsRight' /\ FirstCounts' /\ StopFits'
    BY <2>2 DEF LastIsRight, FirstCounts, StopFits, Recovery!Visit
  <2>7. QED
    BY <2>4, <2>5, <2>6
<1>4. QED
  BY <1>2, <1>3

\* A first reading is remembered, right or wrong; one that is passed over, or
\* that calls for nothing, ends the visit or its check.
LEMMA StepRead ==
  ASSUME Recovery!RecoveryAssumptions, RInv, NEW v \in Amounts, Recovery!Read(v)
  PROVE  RInv'
<1> USE DEF RInv
<1>1. /\ job.at = "read" /\ Recovery!S \in Numbers /\ job.account \in Accounts
      /\ UNCHANGED <<pnl, account, live, mode, armed, row, copy, stopped, touched>>
  BY DEF Recovery!Read, Recovery!At, VisitFits, Recovery!world, Recovery!rows,
     Recovery!pairs, Recovery!bounds
<1>2. \/ job' = Recovery!Waiting /\ ahead' = ahead \ {Recovery!S}
      \/ /\ job' = [job EXCEPT !.at = "confirm", !.why = Recovery!Calls(v), !.first = v]
         /\ Recovery!Calls(v) # "none" /\ ~Recovery!Implausible(Recovery!S, v)
         /\ ahead' = ahead
      \/ job' = [job EXCEPT !.at = "arm"] /\ ahead' = ahead
  BY DEF Recovery!Read, Recovery!Nothing, Recovery!Leave
<1>3. Recovery!Calls(v) \in {"none", "cap", "back"}
  BY DEF Recovery!Calls
<1>4. job' \in JobType
  <2>1. job \in JobType
    BY DEF MonitorTyped
  <2>2. [job EXCEPT !.at = "confirm", !.why = Recovery!Calls(v), !.first = v] \in JobType
    BY <1>3, <2>1 DEF JobType
  <2>3. [job EXCEPT !.at = "arm"] \in JobType
    BY <2>1 DEF JobType
  <2>4. QED
    BY <1>2, <2>2, <2>3, WaitingFits
<1>5. \/ job'.at = "wait"
       \/ /\ job'.at = "confirm" /\ job'.why = Recovery!Calls(v) /\ job'.first = v
          /\ Recovery!Calls(v) # "none" /\ ~Recovery!Implausible(Recovery!S, v)
          /\ Recovery!S' = Recovery!S /\ job'.account = job.account
       \/ /\ job'.at = "arm"
          /\ Recovery!S' = Recovery!S /\ job'.account = job.account
  <2>1. CASE job' = Recovery!Waiting
    BY <2>1, WaitingFits
  <2>2. CASE /\ job' = [job EXCEPT !.at = "confirm", !.why = Recovery!Calls(v), !.first = v]
             /\ Recovery!Calls(v) # "none" /\ ~Recovery!Implausible(Recovery!S, v)
    <3>1. job'.at = "confirm" /\ job'.why = Recovery!Calls(v) /\ job'.first = v
      BY <2>2 DEF JobType, MonitorTyped
    <3>2. Recovery!S' = Recovery!S /\ job'.account = job.account
      BY <2>2 DEF Recovery!S, JobType, MonitorTyped
    <3>3. QED
      BY <2>2, <3>1, <3>2
  <2>3. CASE job' = [job EXCEPT !.at = "arm"]
    BY <2>3 DEF Recovery!S, JobType, MonitorTyped
  <2>4. QED
    BY <1>2, <2>1, <2>2, <2>3
<1>6. /\ last' = [last EXCEPT ![Recovery!S] = v]
      /\ confirmed' = (confirmed \/ (v = pnl[job.account] /\ Recovery!Calls(v) # "none"))
      /\ run' = [run EXCEPT ![Recovery!S] = IF v = pnl[job.account] THEN 0 ELSE run[Recovery!S] + 1]
  BY DEF Recovery!Read, Recovery!Remember
<1>7. CASE v = pnl[job.account]
  <2>1. true' = [true EXCEPT ![Recovery!S] = v] /\ since' = [since EXCEPT ![Recovery!S] = 0]
    BY <1>7 DEF Recovery!Read
  <2>2. WorldTyped' /\ MonitorTyped'
    BY <1>1, <1>2, <1>4, <1>6 DEF WorldTyped, MonitorTyped
  <2>3. HistoryTyped'
    BY <1>1, <1>6, <1>7, <2>1 DEF HistoryTyped
  <2>4. VisitFits' /\ StopFits'
    BY <1>1, <1>5 DEF VisitFits, StopFits
  <2>5. LastIsRight'
    BY <1>1, <1>6, <2>1
       DEF LastIsRight, MonitorTyped, HistoryTyped, Recovery!RecoveryAssumptions
  <2>6. FirstCounts'
    BY <1>6, <1>7, <1>5 DEF FirstCounts
  <2>7. QED
    BY <2>2, <2>3, <2>4, <2>5, <2>6
<1>8. CASE v # pnl[job.account]
  <2>1. true' = true /\ since' = [since EXCEPT ![Recovery!S] = since[Recovery!S] + 1]
    BY <1>8 DEF Recovery!Read
  <2>2. WorldTyped' /\ MonitorTyped'
    BY <1>1, <1>2, <1>4, <1>6 DEF WorldTyped, MonitorTyped
  <2>3. HistoryTyped'
    BY <1>1, <1>6, <1>8, <2>1 DEF HistoryTyped
  <2>4. VisitFits' /\ StopFits'
    BY <1>1, <1>5 DEF VisitFits, StopFits
  <2>5. LastIsRight'
    BY <1>1, <1>6, <2>1
       DEF LastIsRight, MonitorTyped, HistoryTyped, Recovery!RecoveryAssumptions
  <2>6. FirstCounts'
    <3>1. run'[Recovery!S] >= 1 /\ since'[Recovery!S] >= 1
      BY <1>1, <1>6, <1>8, <2>1 DEF HistoryTyped
    <3>2. ASSUME ~Recovery!Implausible(Recovery!S, v), true[Recovery!S] # Unread,
                 Recovery!Far(v, true[Recovery!S])
          PROVE  since'[Recovery!S] >= 2
      <4> DEFINE T == Recovery!S
      <4>0. /\ since[T] = 0 => last[T] = true[T]
            /\ last[T] = Unread => true[T] = Unread
        <5> HIDE DEF T
        <5>1. T \in Numbers
          BY <1>1 DEF T
        <5>2. LastIsRight
          OBVIOUS
        <5>3. QED
          BY <5>1, <5>2 DEF LastIsRight
      <4>1. last[Recovery!S] # Unread
        BY <3>2, <4>0
      <4>2. last[Recovery!S] # true[Recovery!S]
        BY <3>2, <4>1 DEF Recovery!Implausible, Recovery!Far
      <4>3. since[Recovery!S] # 0
        BY <4>0, <4>2
      <4>4. QED
        BY <1>1, <2>1, <4>3 DEF HistoryTyped
    <3>3. QED
      BY <1>5, <2>1, <3>1, <3>2 DEF FirstCounts
  <2>7. QED
    BY <2>2, <2>3, <2>4, <2>5, <2>6
<1>9. QED
  BY <1>7, <1>8

\* A slot that is off is no longer to be stopped.
LEMMA StepClear ==
  ASSUME Recovery!RecoveryAssumptions, RInv, Recovery!Clear
  PROVE  RInv'
<1> USE DEF RInv
<1>1. /\ job.at = "clear" /\ Recovery!S \in Numbers
      /\ UNCHANGED <<pnl, account, live, mode, row, copy, last, true, run, since, confirmed, touched>>
      /\ armed' = [armed EXCEPT ![Recovery!Target] = FALSE]
      /\ stopped' = stopped \cup {Recovery!Target}
  BY DEF Recovery!Clear, Recovery!At, VisitFits, Recovery!pairs, Recovery!bounds,
     Recovery!history
<1>2. Recovery!Target \in job.targets /\ job.targets \subseteq Numbers
  <2>1. job.targets \subseteq Numbers /\ job.targets # {}
    BY <1>1 DEF StopFits, MonitorTyped, JobType
  <2>2. Recovery!Min(job.targets) \in job.targets
    BY <2>1, MinIsMember DEF Recovery!RecoveryAssumptions
  <2>3. QED
    BY <2>1, <2>2 DEF Recovery!Target
<1>3. \/ job' = Recovery!Waiting /\ ahead' = ahead \ {Recovery!S}
      \/ /\ job' = [job EXCEPT !.at = "off", !.targets = job.targets \ {Recovery!Target}]
         /\ job.targets # {Recovery!Target} /\ ahead' = ahead
  BY DEF Recovery!Clear, Recovery!Nothing, Recovery!Leave
<1>4. job' \in JobType
  <2>1. job \in JobType
    BY DEF MonitorTyped
  <2>2. [job EXCEPT !.at = "off", !.targets = job.targets \ {Recovery!Target}] \in JobType
    BY <2>1 DEF JobType
  <2>3. QED
    BY <1>3, <2>2, WaitingFits
<1>5. \/ job'.at = "wait"
       \/ /\ job'.at = "off" /\ job'.targets = job.targets \ {Recovery!Target}
          /\ job.targets # {Recovery!Target} /\ Recovery!S' = Recovery!S
          /\ job'.account = job.account
  BY <1>3, WaitingFits DEF Recovery!S, JobType, MonitorTyped
<1>6. WorldTyped'
  BY <1>1 DEF WorldTyped
<1>7. MonitorTyped' /\ HistoryTyped' /\ LastIsRight'
  BY <1>1, <1>2, <1>3, <1>4 DEF MonitorTyped, HistoryTyped, LastIsRight
<1>8. VisitFits' /\ FirstCounts'
  BY <1>1, <1>5 DEF VisitFits, FirstCounts
<1>9. StopFits'
  <2>1. CASE job'.at = "wait"
    BY <2>1 DEF StopFits
  <2>2. CASE job'.at = "off"
    <3>1. \A s \in Numbers : Remaining(s)' => Remaining(s)
      BY <1>1, <1>5, <2>2 DEF Remaining
    <3>2. QED
      BY <1>1, <1>2, <1>5, <2>2, <3>1 DEF StopFits
  <2>3. QED
    BY <1>5, <2>1, <2>2
<1>10. QED
  BY <1>6, <1>7, <1>8, <1>9

\* Every step keeps the invariant.
LEMMA StepRInv ==
  ASSUME Recovery!RecoveryAssumptions, RInv, [Recovery!Next]_(Recovery!vars)
  PROVE  RInv'
<1> USE DEF RInv
<1>0. Recovery!RecoveryAssumptions
  OBVIOUS
<1>1. CASE Recovery!BeginPass
  <2>1. WorldTyped'
    BY <1>1
       DEF WorldTyped, Recovery!BeginPass, Recovery!At, Recovery!world,
           Recovery!rows, Recovery!pairs, Recovery!bounds, Recovery!history
  <2>2. MonitorTyped'
    BY <1>1
       DEF WorldTyped, MonitorTyped, VisitFits, Recovery!BeginPass, Recovery!At,
           Recovery!world, Recovery!rows, Recovery!pairs, Recovery!bounds,
           Recovery!history, JobType
  <2>3. HistoryTyped'
    BY <1>1
       DEF MonitorTyped, HistoryTyped, VisitFits, Recovery!BeginPass, Recovery!At,
           Recovery!world, Recovery!rows, Recovery!pairs, Recovery!bounds,
           Recovery!history
  <2>4. VisitFits'
    BY <1>1
       DEF WorldTyped, MonitorTyped, HistoryTyped, JobType, VisitFits,
           Recovery!BeginPass, Recovery!At, Recovery!world, Recovery!rows,
           Recovery!pairs, Recovery!bounds, Recovery!history, Recovery!S
  <2>5. LastIsRight'
    BY <1>1
       DEF WorldTyped, MonitorTyped, HistoryTyped, JobType, LastIsRight, VisitFits,
           Recovery!BeginPass, Recovery!At, Recovery!world, Recovery!rows,
           Recovery!pairs, Recovery!bounds, Recovery!history
  <2>6. FirstCounts'
    BY <1>1
       DEF WorldTyped, MonitorTyped, HistoryTyped, JobType, FirstCounts,
           LastIsRight, VisitFits, Recovery!BeginPass, Recovery!At, Recovery!world,
           Recovery!rows, Recovery!pairs, Recovery!bounds, Recovery!history,
           Recovery!S, Recovery!Far
  <2>7. StopFits'
    BY <1>1
       DEF WorldTyped, MonitorTyped, HistoryTyped, JobType, StopFits, VisitFits,
           Recovery!BeginPass, Recovery!At, Recovery!world, Recovery!rows,
           Recovery!pairs, Recovery!bounds, Recovery!history, Recovery!S, Remaining,
           Recovery!Target
  <2>8. QED
    BY <2>1, <2>2, <2>3, <2>4, <2>5, <2>6, <2>7 DEF RInv
<1>2. CASE Recovery!Visit
  BY <1>2, StepVisit
<1>3. CASE Recovery!NoReading
  <2>1. WorldTyped'
    BY <1>3
       DEF WorldTyped, Recovery!NoReading, Recovery!Nothing, Recovery!Waiting,
           Recovery!Leave, Recovery!At, Recovery!world, Recovery!rows,
           Recovery!pairs, Recovery!bounds, Recovery!history
  <2>2. MonitorTyped'
    BY <1>3
       DEF WorldTyped, MonitorTyped, VisitFits, Recovery!NoReading,
           Recovery!Nothing, Recovery!Waiting, Recovery!Leave, Recovery!At,
           Recovery!world, Recovery!rows, Recovery!pairs, Recovery!bounds,
           Recovery!history, JobType
  <2>3. HistoryTyped'
    BY <1>3
       DEF MonitorTyped, HistoryTyped, VisitFits, Recovery!NoReading,
           Recovery!Nothing, Recovery!Waiting, Recovery!Leave, Recovery!At,
           Recovery!world, Recovery!rows, Recovery!pairs, Recovery!bounds,
           Recovery!history
  <2>4. VisitFits'
    BY <1>3
       DEF WorldTyped, MonitorTyped, HistoryTyped, JobType, VisitFits,
           Recovery!NoReading, Recovery!Nothing, Recovery!Waiting, Recovery!Leave,
           Recovery!At, Recovery!world, Recovery!rows, Recovery!pairs,
           Recovery!bounds, Recovery!history, Recovery!S
  <2>5. LastIsRight'
    BY <1>3
       DEF WorldTyped, MonitorTyped, HistoryTyped, JobType, LastIsRight, VisitFits,
           Recovery!NoReading, Recovery!Nothing, Recovery!Waiting, Recovery!Leave,
           Recovery!At, Recovery!world, Recovery!rows, Recovery!pairs,
           Recovery!bounds, Recovery!history
  <2>6. FirstCounts'
    BY <1>3
       DEF WorldTyped, MonitorTyped, HistoryTyped, JobType, FirstCounts,
           LastIsRight, VisitFits, Recovery!NoReading, Recovery!Nothing,
           Recovery!Waiting, Recovery!Leave, Recovery!At, Recovery!world,
           Recovery!rows, Recovery!pairs, Recovery!bounds, Recovery!history,
           Recovery!S, Recovery!Far
  <2>7. StopFits'
    BY <1>3
       DEF WorldTyped, MonitorTyped, HistoryTyped, JobType, StopFits, VisitFits,
           Recovery!NoReading, Recovery!Nothing, Recovery!Waiting, Recovery!Leave,
           Recovery!At, Recovery!world, Recovery!rows, Recovery!pairs,
           Recovery!bounds, Recovery!history, Recovery!S, Remaining, Recovery!Target
  <2>8. QED
    BY <2>1, <2>2, <2>3, <2>4, <2>5, <2>6, <2>7 DEF RInv
<1>4. ASSUME NEW v \in Amounts, Recovery!Read(v) PROVE RInv'
  BY <1>4, StepRead
<1>5. CASE Recovery!Arm
  <2>1. WorldTyped'
    BY <1>5
       DEF WorldTyped, Recovery!Arm, Recovery!Nothing, Recovery!Waiting,
           Recovery!Leave, Recovery!At, Recovery!rows, Recovery!pairs,
           Recovery!bounds, Recovery!history
  <2>2. MonitorTyped'
    BY <1>5
       DEF WorldTyped, MonitorTyped, VisitFits, Recovery!Arm, Recovery!Nothing,
           Recovery!Waiting, Recovery!Leave, Recovery!At, Recovery!rows,
           Recovery!pairs, Recovery!bounds, Recovery!history, JobType
  <2>3. HistoryTyped'
    BY <1>5
       DEF MonitorTyped, HistoryTyped, VisitFits, Recovery!Arm, Recovery!Nothing,
           Recovery!Waiting, Recovery!Leave, Recovery!At, Recovery!rows,
           Recovery!pairs, Recovery!bounds, Recovery!history
  <2>4. VisitFits'
    BY <1>5
       DEF WorldTyped, MonitorTyped, HistoryTyped, JobType, VisitFits, Recovery!Arm,
           Recovery!Nothing, Recovery!Waiting, Recovery!Leave, Recovery!At,
           Recovery!rows, Recovery!pairs, Recovery!bounds, Recovery!history,
           Recovery!S
  <2>5. LastIsRight'
    BY <1>5
       DEF WorldTyped, MonitorTyped, HistoryTyped, JobType, LastIsRight, VisitFits,
           Recovery!Arm, Recovery!Nothing, Recovery!Waiting, Recovery!Leave,
           Recovery!At, Recovery!rows, Recovery!pairs, Recovery!bounds,
           Recovery!history
  <2>6. FirstCounts'
    BY <1>5
       DEF WorldTyped, MonitorTyped, HistoryTyped, JobType, FirstCounts,
           LastIsRight, VisitFits, Recovery!Arm, Recovery!Nothing, Recovery!Waiting,
           Recovery!Leave, Recovery!At, Recovery!rows, Recovery!pairs,
           Recovery!bounds, Recovery!history, Recovery!S, Recovery!Far
  <2>7. StopFits'
    BY <1>5
       DEF WorldTyped, MonitorTyped, HistoryTyped, JobType, StopFits, VisitFits,
           Recovery!Arm, Recovery!Nothing, Recovery!Waiting, Recovery!Leave,
           Recovery!At, Recovery!rows, Recovery!pairs, Recovery!bounds,
           Recovery!history, Recovery!S, Remaining, Recovery!Target
  <2>8. QED
    BY <2>1, <2>2, <2>3, <2>4, <2>5, <2>6, <2>7 DEF RInv
<1>6. ASSUME NEW v \in Amounts, Recovery!Confirm(v) PROVE RInv'
  <2>1. WorldTyped'
    BY <1>6
       DEF WorldTyped, Recovery!Confirm, Recovery!Shows, Recovery!Remember,
           Recovery!Nothing, Recovery!Waiting, Recovery!Leave, Recovery!At,
           Recovery!world, Recovery!rows, Recovery!pairs, Recovery!bounds
  <2>2. MonitorTyped'
    BY <1>6
       DEF WorldTyped, MonitorTyped, VisitFits, Recovery!Confirm, Recovery!Shows,
           Recovery!Remember, Recovery!Nothing, Recovery!Waiting, Recovery!Leave,
           Recovery!At, Recovery!world, Recovery!rows, Recovery!pairs,
           Recovery!bounds, JobType
  <2>3. HistoryTyped'
    BY <1>6
       DEF MonitorTyped, HistoryTyped, VisitFits, Recovery!Confirm, Recovery!Shows,
           Recovery!Remember, Recovery!Nothing, Recovery!Waiting, Recovery!Leave,
           Recovery!At, Recovery!world, Recovery!rows, Recovery!pairs,
           Recovery!bounds
  <2>4. VisitFits'
    BY <1>6
       DEF WorldTyped, MonitorTyped, HistoryTyped, JobType, VisitFits,
           Recovery!Confirm, Recovery!Shows, Recovery!Remember, Recovery!Nothing,
           Recovery!Waiting, Recovery!Leave, Recovery!At, Recovery!world,
           Recovery!rows, Recovery!pairs, Recovery!bounds, Recovery!S
  <2>5. LastIsRight'
    <3>1. last' = last /\ true' = true
      BY <1>6 DEF Recovery!Confirm
    <3>2. since' = since \/ since' = [since EXCEPT ![Recovery!S] = since[Recovery!S] + 1]
      BY <1>6 DEF Recovery!Confirm
    <3>3. \A s \in Numbers : since[s] \in Nat
      BY DEF RInv, HistoryTyped
    <3>4. \A s \in Numbers : since'[s] = 0 => since[s] = 0
      <4> SUFFICES ASSUME NEW s \in Numbers, since[s] # 0 PROVE since'[s] # 0
        OBVIOUS
      <4>1. CASE since' = since
        BY <4>1
      <4>2. CASE since' = [since EXCEPT ![Recovery!S] = since[Recovery!S] + 1]
        <5>1. since \in [Numbers -> Nat]
          BY DEF RInv, HistoryTyped
        <5>2. QED
          BY <3>3, <4>2, <5>1
      <4>3. QED
        BY <3>2, <4>1, <4>2
    <3>5. LastIsRight
      BY DEF RInv
    <3>6. QED
      BY <3>1, <3>4, <3>5 DEF LastIsRight
  <2>6. FirstCounts'
    BY <1>6
       DEF WorldTyped, MonitorTyped, HistoryTyped, JobType, FirstCounts,
           LastIsRight, VisitFits, Recovery!Confirm, Recovery!Shows,
           Recovery!Remember, Recovery!Nothing, Recovery!Waiting, Recovery!Leave,
           Recovery!At, Recovery!world, Recovery!rows, Recovery!pairs,
           Recovery!bounds, Recovery!S, Recovery!Far
  <2>7. StopFits'
    BY <1>6
       DEF WorldTyped, MonitorTyped, HistoryTyped, JobType, StopFits, VisitFits,
           Recovery!Confirm, Recovery!Shows, Recovery!Remember, Recovery!Nothing,
           Recovery!Waiting, Recovery!Leave, Recovery!At, Recovery!world,
           Recovery!rows, Recovery!pairs, Recovery!bounds, Recovery!S, Remaining,
           Recovery!Target
  <2>8. QED
    BY <2>1, <2>2, <2>3, <2>4, <2>5, <2>6, <2>7 DEF RInv
<1>7. CASE Recovery!ListTargets
  <2>1. WorldTyped'
    BY <1>7
       DEF WorldTyped, Recovery!ListTargets, Recovery!Siblings, Recovery!At,
           Recovery!world, Recovery!rows, Recovery!pairs, Recovery!bounds,
           Recovery!pass, Recovery!history
  <2>2. MonitorTyped'
    BY <1>7
       DEF WorldTyped, MonitorTyped, VisitFits, Recovery!ListTargets,
           Recovery!Siblings, Recovery!At, Recovery!world, Recovery!rows,
           Recovery!pairs, Recovery!bounds, Recovery!pass, Recovery!history, JobType
  <2>3. HistoryTyped'
    BY <1>7
       DEF MonitorTyped, HistoryTyped, VisitFits, Recovery!ListTargets,
           Recovery!Siblings, Recovery!At, Recovery!world, Recovery!rows,
           Recovery!pairs, Recovery!bounds, Recovery!pass, Recovery!history
  <2>4. VisitFits'
    BY <1>7
       DEF WorldTyped, MonitorTyped, HistoryTyped, JobType, VisitFits,
           Recovery!ListTargets, Recovery!Siblings, Recovery!At, Recovery!world,
           Recovery!rows, Recovery!pairs, Recovery!bounds, Recovery!pass,
           Recovery!history, Recovery!S
  <2>5. LastIsRight'
    BY <1>7
       DEF WorldTyped, MonitorTyped, HistoryTyped, JobType, LastIsRight, VisitFits,
           Recovery!ListTargets, Recovery!Siblings, Recovery!At, Recovery!world,
           Recovery!rows, Recovery!pairs, Recovery!bounds, Recovery!pass,
           Recovery!history
  <2>6. FirstCounts'
    BY <1>7
       DEF WorldTyped, MonitorTyped, HistoryTyped, JobType, FirstCounts,
           LastIsRight, VisitFits, Recovery!ListTargets, Recovery!Siblings,
           Recovery!At, Recovery!world, Recovery!rows, Recovery!pairs,
           Recovery!bounds, Recovery!pass, Recovery!history, Recovery!S,
           Recovery!Far
  <2>7. StopFits'
    BY <1>7
       DEF WorldTyped, MonitorTyped, HistoryTyped, JobType, StopFits, VisitFits,
           Recovery!ListTargets, Recovery!Siblings, Recovery!At, Recovery!world,
           Recovery!rows, Recovery!pairs, Recovery!bounds, Recovery!pass,
           Recovery!history, Recovery!S, Remaining, Recovery!Target
  <2>8. QED
    BY <2>1, <2>2, <2>3, <2>4, <2>5, <2>6, <2>7 DEF RInv
<1>8. CASE Recovery!SwitchOff
  <2>1. WorldTyped'
    BY <1>8
       DEF WorldTyped, Recovery!SwitchOff, Recovery!At, Recovery!pairs,
           Recovery!bounds, Recovery!pass, Recovery!history
  <2>2. MonitorTyped'
    BY <1>8
       DEF WorldTyped, MonitorTyped, VisitFits, Recovery!SwitchOff, Recovery!At,
           Recovery!pairs, Recovery!bounds, Recovery!pass, Recovery!history, JobType
  <2>3. HistoryTyped'
    BY <1>8
       DEF MonitorTyped, HistoryTyped, VisitFits, Recovery!SwitchOff, Recovery!At,
           Recovery!pairs, Recovery!bounds, Recovery!pass, Recovery!history
  <2>4. VisitFits'
    BY <1>8
       DEF WorldTyped, MonitorTyped, HistoryTyped, JobType, VisitFits,
           Recovery!SwitchOff, Recovery!At, Recovery!pairs, Recovery!bounds,
           Recovery!pass, Recovery!history, Recovery!S
  <2>5. LastIsRight'
    BY <1>8
       DEF WorldTyped, MonitorTyped, HistoryTyped, JobType, LastIsRight, VisitFits,
           Recovery!SwitchOff, Recovery!At, Recovery!pairs, Recovery!bounds,
           Recovery!pass, Recovery!history
  <2>6. FirstCounts'
    BY <1>8
       DEF WorldTyped, MonitorTyped, HistoryTyped, JobType, FirstCounts,
           LastIsRight, VisitFits, Recovery!SwitchOff, Recovery!At, Recovery!pairs,
           Recovery!bounds, Recovery!pass, Recovery!history, Recovery!S,
           Recovery!Far
  <2>7. StopFits'
    BY <1>8
       DEF WorldTyped, MonitorTyped, HistoryTyped, JobType, StopFits, VisitFits,
           Recovery!SwitchOff, Recovery!At, Recovery!pairs, Recovery!bounds,
           Recovery!pass, Recovery!history, Recovery!S, Remaining, Recovery!Target
  <2>8. QED
    BY <2>1, <2>2, <2>3, <2>4, <2>5, <2>6, <2>7 DEF RInv
<1>9. CASE Recovery!Demote
  <2>1. WorldTyped'
    BY <1>9
       DEF WorldTyped, Recovery!Demote, Recovery!At, Recovery!world, Recovery!rows,
           Recovery!pairs, Recovery!bounds, Recovery!pass, Recovery!history
  <2>2. MonitorTyped'
    BY <1>9
       DEF WorldTyped, MonitorTyped, VisitFits, Recovery!Demote, Recovery!At,
           Recovery!world, Recovery!rows, Recovery!pairs, Recovery!bounds,
           Recovery!pass, Recovery!history, JobType
  <2>3. HistoryTyped'
    BY <1>9
       DEF MonitorTyped, HistoryTyped, VisitFits, Recovery!Demote, Recovery!At,
           Recovery!world, Recovery!rows, Recovery!pairs, Recovery!bounds,
           Recovery!pass, Recovery!history
  <2>4. VisitFits'
    BY <1>9
       DEF WorldTyped, MonitorTyped, HistoryTyped, JobType, VisitFits,
           Recovery!Demote, Recovery!At, Recovery!world, Recovery!rows,
           Recovery!pairs, Recovery!bounds, Recovery!pass, Recovery!history,
           Recovery!S
  <2>5. LastIsRight'
    BY <1>9
       DEF WorldTyped, MonitorTyped, HistoryTyped, JobType, LastIsRight, VisitFits,
           Recovery!Demote, Recovery!At, Recovery!world, Recovery!rows,
           Recovery!pairs, Recovery!bounds, Recovery!pass, Recovery!history
  <2>6. FirstCounts'
    BY <1>9
       DEF WorldTyped, MonitorTyped, HistoryTyped, JobType, FirstCounts,
           LastIsRight, VisitFits, Recovery!Demote, Recovery!At, Recovery!world,
           Recovery!rows, Recovery!pairs, Recovery!bounds, Recovery!pass,
           Recovery!history, Recovery!S, Recovery!Far
  <2>7. StopFits'
    BY <1>9
       DEF WorldTyped, MonitorTyped, HistoryTyped, JobType, StopFits, VisitFits,
           Recovery!Demote, Recovery!At, Recovery!world, Recovery!rows,
           Recovery!pairs, Recovery!bounds, Recovery!pass, Recovery!history,
           Recovery!S, Remaining, Recovery!Target
  <2>8. QED
    BY <2>1, <2>2, <2>3, <2>4, <2>5, <2>6, <2>7 DEF RInv
<1>10. CASE Recovery!Clear
  BY <1>10, StepClear
<1>11. ASSUME NEW a \in Accounts, NEW v \in Amounts, Recovery!Moves(a, v) PROVE RInv'
  <2>1. WorldTyped'
    BY <1>11
       DEF WorldTyped, Recovery!Moves, Recovery!rows, Recovery!pairs,
           Recovery!bounds, Recovery!pass, Recovery!history
  <2>2. MonitorTyped'
    BY <1>11
       DEF WorldTyped, MonitorTyped, VisitFits, Recovery!Moves, Recovery!rows,
           Recovery!pairs, Recovery!bounds, Recovery!pass, Recovery!history, JobType
  <2>3. HistoryTyped'
    BY <1>11
       DEF MonitorTyped, HistoryTyped, VisitFits, Recovery!Moves, Recovery!rows,
           Recovery!pairs, Recovery!bounds, Recovery!pass, Recovery!history
  <2>4. VisitFits'
    BY <1>11
       DEF WorldTyped, MonitorTyped, HistoryTyped, JobType, VisitFits,
           Recovery!Moves, Recovery!rows, Recovery!pairs, Recovery!bounds,
           Recovery!pass, Recovery!history, Recovery!S
  <2>5. LastIsRight'
    BY <1>11
       DEF WorldTyped, MonitorTyped, HistoryTyped, JobType, LastIsRight, VisitFits,
           Recovery!Moves, Recovery!rows, Recovery!pairs, Recovery!bounds,
           Recovery!pass, Recovery!history
  <2>6. FirstCounts'
    BY <1>11
       DEF WorldTyped, MonitorTyped, HistoryTyped, JobType, FirstCounts,
           LastIsRight, VisitFits, Recovery!Moves, Recovery!rows, Recovery!pairs,
           Recovery!bounds, Recovery!pass, Recovery!history, Recovery!S,
           Recovery!Far
  <2>7. StopFits'
    BY <1>11
       DEF WorldTyped, MonitorTyped, HistoryTyped, JobType, StopFits, VisitFits,
           Recovery!Moves, Recovery!rows, Recovery!pairs, Recovery!bounds,
           Recovery!pass, Recovery!history, Recovery!S, Remaining, Recovery!Target
  <2>8. QED
    BY <2>1, <2>2, <2>3, <2>4, <2>5, <2>6, <2>7 DEF RInv
<1>12. ASSUME NEW s \in Numbers, Recovery!LiveOn(s) PROVE RInv'
  <2>1. WorldTyped'
    BY <1>12
       DEF WorldTyped, Recovery!LiveOn, Recovery!Command, Recovery!pass,
           Recovery!RecoveryAssumptions
  <2>2. MonitorTyped'
    BY <1>12
       DEF WorldTyped, MonitorTyped, VisitFits, Recovery!LiveOn, Recovery!Command,
           Recovery!pass, Recovery!RecoveryAssumptions, JobType
  <2>3. HistoryTyped'
    BY <1>12
       DEF MonitorTyped, HistoryTyped, VisitFits, Recovery!LiveOn, Recovery!Command,
           Recovery!pass, Recovery!RecoveryAssumptions
  <2>4. VisitFits'
    BY <1>12
       DEF WorldTyped, MonitorTyped, HistoryTyped, JobType, VisitFits,
           Recovery!LiveOn, Recovery!Command, Recovery!pass,
           Recovery!RecoveryAssumptions, Recovery!S
  <2>5. LastIsRight'
    BY <1>12
       DEF WorldTyped, MonitorTyped, HistoryTyped, JobType, LastIsRight, VisitFits,
           Recovery!LiveOn, Recovery!Command, Recovery!pass,
           Recovery!RecoveryAssumptions
  <2>6. FirstCounts'
    BY <1>12
       DEF WorldTyped, MonitorTyped, HistoryTyped, JobType, FirstCounts,
           LastIsRight, VisitFits, Recovery!LiveOn, Recovery!Command, Recovery!pass,
           Recovery!RecoveryAssumptions, Recovery!S, Recovery!Far
  <2>7. StopFits'
    BY <1>12
       DEF WorldTyped, MonitorTyped, HistoryTyped, JobType, StopFits, VisitFits,
           Recovery!LiveOn, Recovery!Command, Recovery!pass,
           Recovery!RecoveryAssumptions, Recovery!S, Remaining, Recovery!Target
  <2>8. QED
    BY <2>1, <2>2, <2>3, <2>4, <2>5, <2>6, <2>7 DEF RInv
<1>13. ASSUME NEW s \in Numbers, Recovery!LiveOff(s) PROVE RInv'
  <2>1. WorldTyped'
    BY <1>13 DEF WorldTyped, Recovery!LiveOff, Recovery!Command, Recovery!pass
  <2>2. MonitorTyped'
    BY <1>13
       DEF WorldTyped, MonitorTyped, VisitFits, Recovery!LiveOff, Recovery!Command,
           Recovery!pass, JobType
  <2>3. HistoryTyped'
    BY <1>13
       DEF MonitorTyped, HistoryTyped, VisitFits, Recovery!LiveOff,
           Recovery!Command, Recovery!pass
  <2>4. VisitFits'
    BY <1>13
       DEF WorldTyped, MonitorTyped, HistoryTyped, JobType, VisitFits,
           Recovery!LiveOff, Recovery!Command, Recovery!pass, Recovery!S
  <2>5. LastIsRight'
    BY <1>13
       DEF WorldTyped, MonitorTyped, HistoryTyped, JobType, LastIsRight, VisitFits,
           Recovery!LiveOff, Recovery!Command, Recovery!pass
  <2>6. FirstCounts'
    BY <1>13
       DEF WorldTyped, MonitorTyped, HistoryTyped, JobType, FirstCounts,
           LastIsRight, VisitFits, Recovery!LiveOff, Recovery!Command,
           Recovery!pass, Recovery!S, Recovery!Far
  <2>7. StopFits'
    BY <1>13
       DEF WorldTyped, MonitorTyped, HistoryTyped, JobType, StopFits, VisitFits,
           Recovery!LiveOff, Recovery!Command, Recovery!pass, Recovery!S, Remaining,
           Recovery!Target
  <2>8. QED
    BY <2>1, <2>2, <2>3, <2>4, <2>5, <2>6, <2>7 DEF RInv
<1>14. ASSUME NEW s \in Numbers, Recovery!ModeOn(s) PROVE RInv'
  <2>1. WorldTyped'
    BY <1>14
       DEF WorldTyped, Recovery!ModeOn, Recovery!pairs, Recovery!bounds,
           Recovery!pass, Recovery!history
  <2>2. MonitorTyped'
    BY <1>14
       DEF WorldTyped, MonitorTyped, VisitFits, Recovery!ModeOn, Recovery!pairs,
           Recovery!bounds, Recovery!pass, Recovery!history, JobType
  <2>3. HistoryTyped'
    BY <1>14
       DEF MonitorTyped, HistoryTyped, VisitFits, Recovery!ModeOn, Recovery!pairs,
           Recovery!bounds, Recovery!pass, Recovery!history
  <2>4. VisitFits'
    BY <1>14
       DEF WorldTyped, MonitorTyped, HistoryTyped, JobType, VisitFits,
           Recovery!ModeOn, Recovery!pairs, Recovery!bounds, Recovery!pass,
           Recovery!history, Recovery!S
  <2>5. LastIsRight'
    BY <1>14
       DEF WorldTyped, MonitorTyped, HistoryTyped, JobType, LastIsRight, VisitFits,
           Recovery!ModeOn, Recovery!pairs, Recovery!bounds, Recovery!pass,
           Recovery!history
  <2>6. FirstCounts'
    BY <1>14
       DEF WorldTyped, MonitorTyped, HistoryTyped, JobType, FirstCounts,
           LastIsRight, VisitFits, Recovery!ModeOn, Recovery!pairs, Recovery!bounds,
           Recovery!pass, Recovery!history, Recovery!S, Recovery!Far
  <2>7. StopFits'
    BY <1>14
       DEF WorldTyped, MonitorTyped, HistoryTyped, JobType, StopFits, VisitFits,
           Recovery!ModeOn, Recovery!pairs, Recovery!bounds, Recovery!pass,
           Recovery!history, Recovery!S, Remaining, Recovery!Target
  <2>8. QED
    BY <2>1, <2>2, <2>3, <2>4, <2>5, <2>6, <2>7 DEF RInv
<1>15. ASSUME NEW s \in Numbers, NEW a \in Accounts, Recovery!Rekey(s, a) PROVE RInv'
  <2>1. WorldTyped'
    BY <1>15
       DEF WorldTyped, Recovery!Rekey, Recovery!Command, Recovery!pairs,
           Recovery!pass
  <2>2. MonitorTyped'
    BY <1>15
       DEF WorldTyped, MonitorTyped, VisitFits, Recovery!Rekey, Recovery!Command,
           Recovery!pairs, Recovery!pass, JobType
  <2>3. HistoryTyped'
    BY <1>15
       DEF MonitorTyped, HistoryTyped, VisitFits, Recovery!Rekey, Recovery!Command,
           Recovery!pairs, Recovery!pass
  <2>4. VisitFits'
    BY <1>15
       DEF WorldTyped, MonitorTyped, HistoryTyped, JobType, VisitFits,
           Recovery!Rekey, Recovery!Command, Recovery!pairs, Recovery!pass,
           Recovery!S
  <2>5. LastIsRight'
    BY <1>15
       DEF WorldTyped, MonitorTyped, HistoryTyped, JobType, LastIsRight, VisitFits,
           Recovery!Rekey, Recovery!Command, Recovery!pairs, Recovery!pass
  <2>6. FirstCounts'
    BY <1>15
       DEF WorldTyped, MonitorTyped, HistoryTyped, JobType, FirstCounts,
           LastIsRight, VisitFits, Recovery!Rekey, Recovery!Command, Recovery!pairs,
           Recovery!pass, Recovery!S, Recovery!Far
  <2>7. StopFits'
    BY <1>15
       DEF WorldTyped, MonitorTyped, HistoryTyped, JobType, StopFits, VisitFits,
           Recovery!Rekey, Recovery!Command, Recovery!pairs, Recovery!pass,
           Recovery!S, Remaining, Recovery!Target
  <2>8. QED
    BY <2>1, <2>2, <2>3, <2>4, <2>5, <2>6, <2>7 DEF RInv
<1>16. CASE Recovery!Load
  <2>1. WorldTyped'
    BY <1>16
       DEF WorldTyped, Recovery!Load, Recovery!rows, Recovery!bounds, Recovery!pass,
           Recovery!history
  <2>2. MonitorTyped'
    BY <1>16
       DEF WorldTyped, MonitorTyped, VisitFits, Recovery!Load, Recovery!rows,
           Recovery!bounds, Recovery!pass, Recovery!history, JobType
  <2>3. HistoryTyped'
    BY <1>16
       DEF MonitorTyped, HistoryTyped, VisitFits, Recovery!Load, Recovery!rows,
           Recovery!bounds, Recovery!pass, Recovery!history
  <2>4. VisitFits'
    BY <1>16
       DEF WorldTyped, MonitorTyped, HistoryTyped, JobType, VisitFits,
           Recovery!Load, Recovery!rows, Recovery!bounds, Recovery!pass,
           Recovery!history, Recovery!S
  <2>5. LastIsRight'
    BY <1>16
       DEF WorldTyped, MonitorTyped, HistoryTyped, JobType, LastIsRight, VisitFits,
           Recovery!Load, Recovery!rows, Recovery!bounds, Recovery!pass,
           Recovery!history
  <2>6. FirstCounts'
    BY <1>16
       DEF WorldTyped, MonitorTyped, HistoryTyped, JobType, FirstCounts,
           LastIsRight, VisitFits, Recovery!Load, Recovery!rows, Recovery!bounds,
           Recovery!pass, Recovery!history, Recovery!S, Recovery!Far
  <2>7. StopFits'
    BY <1>16
       DEF WorldTyped, MonitorTyped, HistoryTyped, JobType, StopFits, VisitFits,
           Recovery!Load, Recovery!rows, Recovery!bounds, Recovery!pass,
           Recovery!history, Recovery!S, Remaining, Recovery!Target
  <2>8. QED
    BY <2>1, <2>2, <2>3, <2>4, <2>5, <2>6, <2>7 DEF RInv
<1>17. CASE Recovery!Restart
  <2>1. WorldTyped'
    BY <1>17
       DEF WorldTyped, Recovery!Restart, Recovery!Waiting, Recovery!rows,
           Recovery!bounds
  <2>2. MonitorTyped'
    BY <1>17
       DEF WorldTyped, MonitorTyped, VisitFits, Recovery!Restart, Recovery!Waiting,
           Recovery!rows, Recovery!bounds, JobType
  <2>3. HistoryTyped'
    BY <1>17
       DEF MonitorTyped, HistoryTyped, VisitFits, Recovery!Restart,
           Recovery!Waiting, Recovery!rows, Recovery!bounds
  <2>4. VisitFits'
    BY <1>17
       DEF WorldTyped, MonitorTyped, HistoryTyped, JobType, VisitFits,
           Recovery!Restart, Recovery!Waiting, Recovery!rows, Recovery!bounds,
           Recovery!S
  <2>5. LastIsRight'
    BY <1>17
       DEF WorldTyped, MonitorTyped, HistoryTyped, JobType, LastIsRight, VisitFits,
           Recovery!Restart, Recovery!Waiting, Recovery!rows, Recovery!bounds
  <2>6. FirstCounts'
    BY <1>17
       DEF WorldTyped, MonitorTyped, HistoryTyped, JobType, FirstCounts,
           LastIsRight, VisitFits, Recovery!Restart, Recovery!Waiting,
           Recovery!rows, Recovery!bounds, Recovery!S, Recovery!Far
  <2>7. StopFits'
    BY <1>17
       DEF WorldTyped, MonitorTyped, HistoryTyped, JobType, StopFits, VisitFits,
           Recovery!Restart, Recovery!Waiting, Recovery!rows, Recovery!bounds,
           Recovery!S, Remaining, Recovery!Target
  <2>8. QED
    BY <2>1, <2>2, <2>3, <2>4, <2>5, <2>6, <2>7 DEF RInv
<1>18. CASE UNCHANGED Recovery!vars
  BY <1>18
     DEF Recovery!vars, WorldTyped, MonitorTyped, HistoryTyped, VisitFits,
         LastIsRight, FirstCounts, StopFits, Recovery!S, Remaining, Recovery!Target
<1>19. QED
  BY <1>1, <1>2, <1>3, <1>4, <1>5, <1>6, <1>7, <1>8, <1>9, <1>10, <1>11, <1>12,
     <1>13, <1>14, <1>15, <1>16, <1>17, <1>18
     DEF Recovery!Next, Recovery!Monitor

\* Nothing is read or stopped when the bot starts.
LEMMA InitRInv == ASSUME Recovery!RecoveryAssumptions PROVE Recovery!Init => RInv
<1> SUFFICES ASSUME Recovery!Init PROVE RInv
  OBVIOUS
<1>1. WorldTyped
  BY DEF Recovery!Init, WorldTyped, Recovery!RecoveryAssumptions
<1>2. MonitorTyped /\ HistoryTyped
  BY WaitingFits DEF Recovery!Init, MonitorTyped, HistoryTyped
<1>3. VisitFits /\ LastIsRight /\ FirstCounts /\ StopFits
  BY WaitingFits DEF Recovery!Init, VisitFits, LastIsRight, FirstCounts, StopFits
<1>4. QED
  BY <1>1, <1>2, <1>3 DEF RInv

\* A stop has its wrong readings.
LEMMA StepStopNeedsReadings ==
  ASSUME Recovery!RecoveryAssumptions, RInv, [Recovery!Next]_(Recovery!vars)
  PROVE  Recovery!StopNeedsReadings
<1> SUFFICES ASSUME job.at = "confirm", job'.at = "list", ~confirmed'
             PROVE  /\ run'[Recovery!S] >= 2
                    /\ true[Recovery!S] # Unread /\ Recovery!Far(job.first, true[Recovery!S]) => since'[Recovery!S] >= 3
  BY DEF Recovery!StopNeedsReadings
<1>1. PICK v \in Amounts : Recovery!Confirm(v)
  BY DEF Recovery!Next, Recovery!Monitor, Recovery!vars, Recovery!BeginPass,
     Recovery!Visit, Recovery!NoReading, Recovery!Read, Recovery!Arm,
     Recovery!ListTargets, Recovery!SwitchOff, Recovery!Demote, Recovery!Clear,
     Recovery!At, Recovery!Moves, Recovery!LiveOn, Recovery!LiveOff,
     Recovery!Command, Recovery!Rekey, Recovery!ModeOn, Recovery!Load,
     Recovery!Restart, Recovery!Nothing, Recovery!Waiting, Recovery!bounds,
     Recovery!pass, Recovery!history
<1>2. Recovery!Agrees(v) /\ Recovery!S \in Numbers
  BY <1>1, WaitingFits DEF Recovery!Confirm, Recovery!Nothing, RInv, VisitFits
<1>3. Recovery!Calls(v) = job.why /\ job.why # "none"
  BY <1>2 DEF Recovery!Agrees, RInv, FirstCounts
<1>4. confirmed' = (confirmed \/ v = pnl[job.account])
  BY <1>1, <1>3 DEF Recovery!Confirm, Recovery!Remember
<1>5. v # pnl[job.account] /\ ~confirmed
  BY <1>4 DEF RInv, HistoryTyped
<1>6. run' = [run EXCEPT ![Recovery!S] = run[Recovery!S] + 1] /\ since' = [since EXCEPT ![Recovery!S] = since[Recovery!S] + 1]
  BY <1>1, <1>5 DEF Recovery!Confirm, Recovery!Remember
<1>7. QED
  BY <1>2, <1>5, <1>6 DEF RInv, FirstCounts, HistoryTyped

\* A stop takes the account.
LEMMA StepStopsTogether ==
  ASSUME Recovery!RecoveryAssumptions, RInv
  PROVE  Recovery!StopsTogether
<1> SUFFICES ASSUME Recovery!Clear, job'.at = "wait", Recovery!S \notin touched,
                    NEW s \in Numbers, account[s] = job.account, live[s]
             PROVE  s \in touched
  BY DEF Recovery!StopsTogether
<1>1. job.at = "clear" /\ job.targets = {Recovery!Target}
  <2>1. job \in JobType
    BY DEF RInv, MonitorTyped
  <2>2. [job EXCEPT !.at = "off", !.targets = job.targets \ {Recovery!Target}].at = "off"
    BY <2>1 DEF JobType
  <2>3. QED
    BY <2>2 DEF Recovery!Clear, Recovery!At
<1>2. QED
  BY <1>1 DEF RInv, StopFits, Remaining

\* Every reachable state is well typed.
LEMMA RInvGives == RInv => Recovery!TypeOK
BY DEF RInv, WorldTyped, MonitorTyped, JobType, Recovery!TypeOK

\* Readings and stops fit what the account showed, for any slots, accounts,
\* amounts and bounds.
THEOREM RecoveryTypeCorrect == ASSUME Recovery!RecoveryAssumptions PROVE Recovery!Spec => []Recovery!TypeOK
BY InitRInv, StepRInv, RInvGives, PTL DEF Recovery!Spec

\* No slot is stopped for a wrong reading alone, and no slot of a stopped
\* account is left live (main.py, _pnl_confirms and _recovery_stop).
THEOREM AccountsStopRightly ==
  ASSUME Recovery!RecoveryAssumptions PROVE Recovery!Spec => Recovery!AccountStopsRightly
<1>1. RInv /\ [Recovery!Next]_(Recovery!vars) => RInv' /\ [Recovery!StopNeedsReadings /\ Recovery!StopsTogether]_(Recovery!vars)
  BY StepRInv, StepStopNeedsReadings, StepStopsTogether
<1>2. QED
  BY <1>1, InitRInv, PTL DEF Recovery!Spec, Recovery!AccountStopsRightly


=============================================================================
