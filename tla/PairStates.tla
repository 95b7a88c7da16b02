------------------------------ MODULE PairStates ------------------------------
(***************************************************************************)
(* The state of each pair (state/pair_state_manager.py, transitions.py):   *)
(* the row of pair_states and the copy the bot trades by.  It is moved by  *)
(* the evaluation every minute, by the operator's buttons, by the engine   *)
(* that pauses a pair whose entry failed, and by the panel, which is       *)
(* another process and writes the row alone.  A transition looks at a      *)
(* copy, writes the row, and reads all rows back: two awaits, between      *)
(* which anyone else may come.                                             *)
(***************************************************************************)
EXTENDS Integers, Sequences, FiniteSets, Functions

CONSTANTS
  Pairs,
  MaxClock,    \* bound: time, in lengths of a timed pause
  MaxButtons   \* bound: buttons the operator presses

PairStatesAssumptions == IsFiniteSet(Pairs) /\ MaxClock \in Nat \ {0} /\ MaxButtons \in Nat

VARIABLES
  clock, buttons,
  row,      \* pair_states: state, paused_until (0 for NULL), pause_reason
  copy,     \* _states
  ordered,  \* pairs with a live entry on its way
  plan,     \* the operator's button: transitions still to be made
  walk,     \* _evaluate_all: the states it goes by and the pairs ahead
  move,     \* the transition each of the three has under way
  endless,  \* history: pairs whose last transition was a pause with no end
  touched   \* history: pairs written since the evaluation read the rows

vars == <<clock, buttons, row, copy, ordered, plan, walk, move, endless, touched>>

history == <<endless, touched>>
Movers == {"operator", "engine", "evaluation"}

Running == [state |-> "shadow", until |-> 0, why |-> "none"]
Still == [at |-> "none"]
Resting == [seen |-> <<>>, left |-> {}]

\* what a transition asks for; the reason matters by what reads it
To(p, state) == [pair |-> p, state |-> state, until |-> 0, why |-> "none", ends |-> TRUE]
PauseFor(p, until) == [To(p, "paused") EXCEPT !.until = until, !.why = "button"]
PauseForGood(p, why) ==
  [pair |-> p, state |-> "paused", until |-> 0, why |-> why, ends |-> FALSE]

-----------------------------------------------------------------------------
(* _apply_transition.                                                      *)

\* nothing to do when the copy looked at is there already
Begin(who, t, from) ==
  move' = [move EXCEPT ![who] = IF from.state = t.state THEN Still
                                ELSE [at |-> "write", to |-> t, wasPaused |-> from.state = "paused"]]

\* Entering a pause always writes its end, leaving one clears it.  The
\* variant leaves the end of an earlier pause in the row.
Written_kept(r, t, wasPaused) ==
  IF t.state = "paused" THEN [state |-> "paused", until |-> IF t.ends THEN t.until ELSE r.until, why |-> t.why]
  ELSE [r EXCEPT !.state = t.state]
Written(r, t, wasPaused) ==
  IF t.state = "paused" THEN [state |-> "paused", until |-> t.until, why |-> t.why]
  ELSE IF wasPaused THEN [Running EXCEPT !.state = t.state]
  ELSE [r EXCEPT !.state = t.state]

Write(who) ==
  /\ move[who].at = "write"
  /\ LET t == move[who].to
     IN  /\ row' = [row EXCEPT ![t.pair] = Written(@, t, move[who].wasPaused)]
         /\ endless' = IF t.ends THEN endless \ {t.pair} ELSE endless \cup {t.pair}
         /\ touched' = touched \cup {t.pair}
  /\ move' = [move EXCEPT ![who] = [at |-> "load"]]
  /\ UNCHANGED <<clock, buttons, copy, ordered, plan, walk>>

\* _load_states_from_db
Load(who) ==
  /\ move[who].at = "load"
  /\ copy' = row
  /\ move' = [move EXCEPT ![who] = Still]
  /\ UNCHANGED <<clock, buttons, row, ordered, plan, walk, history>>

-----------------------------------------------------------------------------
(* The evaluation.                                                         *)

EvaluateAll ==
  /\ walk.left = {} /\ move["evaluation"] = Still
  /\ copy' = row
  /\ walk' = [seen |-> row, left |-> Pairs]
  /\ touched' = {}
  /\ UNCHANGED <<clock, buttons, row, ordered, plan, move, endless>>

\* evaluate_transition as the criteria stand: rejection, promotion and
\* demotion are switched off, a timed pause ends, a manual one never
Manual(why) == why \in {"off", "pair"}
Due(s) == s.state = "paused" /\ ~Manual(s.why) /\ s.until > 0 /\ clock >= s.until

Evaluate(p) ==
  /\ p \in walk.left /\ move["evaluation"] = Still
  /\ walk' = [walk EXCEPT !.left = @ \ {p}]
  /\ IF Due(walk.seen[p]) THEN Begin("evaluation", To(p, "shadow"), walk.seen[p])
                          ELSE UNCHANGED move
  /\ UNCHANGED <<clock, buttons, row, copy, ordered, plan, history>>

-----------------------------------------------------------------------------
(* The operator.                                                           *)

\* what a button makes, one transition after the other
Press ==
  /\ plan = <<>> /\ move["operator"] = Still
  /\ buttons < MaxButtons /\ buttons' = buttons + 1
  /\ UNCHANGED <<clock, row, copy, ordered, walk, move, history>>

\* in whatever order the pairs are listed
ForEach(S, T(_)) ==
  \E order \in [1 .. Cardinality(S) -> S] :
     /\ IsInjective(order)
     /\ plan' = [i \in 1 .. Cardinality(S) |-> T(order[i])]

PromoteButton(p) == Press /\ plan' = <<To(p, "live")>>
DemoteButton(p) == Press /\ plan' = <<To(p, "shadow")>>
PauseButton(p) == Press /\ plan' = <<PauseFor(p, clock + 1)>>
ResumeButton(p) == Press /\ plan' = <<To(p, "shadow")>>

\* Shadow OFF and Shadow ON
ForToggle == {p \in Pairs : copy[p].state = "shadow"}
ToggledOff == {p \in Pairs : copy[p].state = "paused" /\ copy[p].why = "off"}
ShadowOff == Press /\ ForEach(ForToggle, LAMBDA p : PauseForGood(p, "off"))
ShadowOn == Press /\ ForEach(ToggledOff, LAMBDA p : To(p, "shadow"))

\* the toggle of one pair leaves a live pair alone
ToggleOne(p) ==
  /\ Press
  /\ \/ copy[p].state = "shadow" /\ plan' = <<PauseForGood(p, "pair")>>
     \/ copy[p].state = "paused" /\ plan' = <<To(p, "shadow")>>

NextOfButton ==
  /\ plan # <<>> /\ move["operator"] = Still
  /\ plan' = Tail(plan)
  /\ Begin("operator", Head(plan), copy[Head(plan).pair])
  /\ UNCHANGED <<clock, buttons, row, copy, ordered, walk, history>>

-----------------------------------------------------------------------------
(* The engine and the panel.                                               *)

EntrySent(p) ==
  /\ copy[p].state = "live" /\ p \notin ordered
  /\ ordered' = ordered \cup {p}
  /\ UNCHANGED <<clock, buttons, row, copy, plan, walk, move, history>>

EntryDone(p) ==
  /\ p \in ordered /\ move["engine"] = Still
  /\ ordered' = ordered \ {p}
  /\ \/ UNCHANGED move
     \/ Begin("engine", PauseForGood(p, "auto"), copy[p])
  /\ UNCHANGED <<clock, buttons, row, copy, plan, walk, history>>

\* set_account, set_all_pairs_shadow: the state column alone
PanelWrites(S, state) ==
  /\ \E p \in S : row[p].state # state
  /\ row' = [p \in Pairs |-> IF p \in S THEN [row[p] EXCEPT !.state = state] ELSE row[p]]
  /\ endless' = endless \ S /\ touched' = touched \cup S
  /\ UNCHANGED <<clock, buttons, copy, ordered, plan, walk, move>>

PanelLive(p) == PanelWrites({p}, "live")
PanelShadow(p) == PanelWrites({p}, "shadow")
KillAll == PanelWrites({p \in Pairs : row[p].state = "live"}, "shadow")

-----------------------------------------------------------------------------
Tick ==
  /\ clock < MaxClock /\ clock' = clock + 1
  /\ UNCHANGED <<buttons, row, copy, ordered, plan, walk, move, history>>

\* initialize
Restart ==
  /\ copy' = row /\ ordered' = {} /\ plan' = <<>> /\ walk' = Resting
  /\ move' = [w \in Movers |-> Still]
  /\ touched' = {}
  /\ UNCHANGED <<clock, buttons, row, endless>>

Init ==
  /\ clock = 1 /\ buttons = 0
  /\ row \in [Pairs -> {Running, [Running EXCEPT !.state = "live"]}]
  /\ copy = row /\ ordered = {} /\ plan = <<>> /\ walk = Resting
  /\ move = [w \in Movers |-> Still]
  /\ endless = {} /\ touched = {}

OfPair(p) ==
  \/ Evaluate(p)
  \/ PromoteButton(p) \/ DemoteButton(p) \/ PauseButton(p) \/ ResumeButton(p) \/ ToggleOne(p)
  \/ EntrySent(p) \/ EntryDone(p) \/ PanelLive(p) \/ PanelShadow(p)

Next ==
  \/ \E w \in Movers : Write(w) \/ Load(w)
  \/ \E p \in Pairs : OfPair(p)
  \/ EvaluateAll \/ ShadowOff \/ ShadowOn \/ NextOfButton \/ KillAll \/ Tick \/ Restart

Spec == Init /\ [][Next]_vars

-----------------------------------------------------------------------------
TypeOK ==
  /\ row \in [Pairs -> [state : {"shadow", "live", "paused"}, until : 0 .. MaxClock + 1,
                        why : {"none", "button", "off", "pair", "auto"}]]
  /\ copy \in [Pairs -> [state : {"shadow", "live", "paused"}, until : 0 .. MaxClock + 1,
                         why : {"none", "button", "off", "pair", "auto"}]]
  /\ walk.left \subseteq Pairs /\ ordered \subseteq Pairs

\* A pause with no end, the operator's or the engine's, is never ended by the
\* evaluation, whatever timed pauses the pair went through before, unless the
\* pair was written after the evaluation read the rows.
PauseHolds ==
  \A p \in endless :
     row[p].state = "paused" /\ move["evaluation"].at = "write"
       /\ row'[p].state # "paused" /\ Write("evaluation") =>
     p \in touched
EndlessPauseHolds == [][PauseHolds]_vars

-----------------------------------------------------------------------------
(* The inductive invariant.                                                *)

Transitions == [pair : Pairs, state : {"shadow", "live", "paused"}, until : 0 .. MaxClock + 1,
                why : {"none", "button", "off", "pair", "auto"}, ends : BOOLEAN]

\* what a transition asks for is a pause with its end or for good, or no pause
Proper(t) == t \in Transitions /\ (~t.ends => t.state = "paused" /\ t.until = 0)

Moves ==
  [at : {"none"}] \cup [at : {"load"}]
    \cup [at : {"write"}, to : {t \in Transitions : Proper(t)}, wasPaused : BOOLEAN]

PairsTyped ==
  /\ TypeOK
  /\ clock \in 1 .. MaxClock /\ endless \subseteq Pairs
  /\ plan \in Seq({t \in Transitions : Proper(t)})
  /\ move \in [Movers -> Moves]

Walking == walk.left # {} \/ move["evaluation"].at = "write"

\* The evaluation ends a pause that had an end when the rows were read; what
\* nobody wrote since still is as it was read; a pause with no end has none
\* in its row.
PairsInv ==
  /\ PairsTyped
  /\ \A p \in endless : row[p].until = 0
  /\ Walking => \A p \in Pairs \ touched : walk.seen[p] = row[p]
  /\ move["evaluation"].at = "write" =>
       LET t == move["evaluation"].to
       IN  t.ends /\ walk.seen[t.pair].until # 0

=============================================================================
