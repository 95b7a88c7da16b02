-------------------------- MODULE Components_proofs --------------------------
(***************************************************************************)
(* Proofs about the smaller components, for any values of their constants:  *)
(* each is instantiated under the name MCPlatform gives it.  They share the *)
(* names of constants and variables, and nothing else: a variable here is a *)
(* different thing to each component that has it.                           *)
(***************************************************************************)
EXTENDS Integers, Sequences, FiniteSets, Functions, FiniteSetTheorems, TLAPS

CONSTANTS
  \* ExitRules
  Prices, Gone, Rulebooks, ABSOLUTE_MAX_HOLD, FEED_STALE, MAX_HOLD, SL_GRACE,
  STOP_LOSS, REVERSAL_MAX, MIN_HOLD, MaxTime,
  \* PairStates: its Pairs are Evaluated
  Evaluated, MaxClock, MaxButtons,
  \* Universe
  Slots, Pairs, NoPair, Configs, Reference,
  \* CloseFill: its MaxTime is MaxNow
  Window, MaxPositions, MaxNow, MaxTries, MaxDrops,
  \* ConfigReload, with Pairs
  Global, Consumers, Detector, None, MaxEdits,
  \* SchemaUpgrade, with Slots
  First, MaxStarts,
  \* SharedConnection
  Tasks, Attempts, MaxOutside,
  \* OpenThrottle: its MaxClock is ThrottleClock
  Mode, Lag, ThrottleClock, MaxSends,
  \* Runtime, with None: its MaxStarts is MaxProcesses
  Ids, MaxProcesses

VARIABLES
  \* ExitRules
  time, looked, rules, price, priceAt, known, heard, lead, current, peak,
  progress, reason, best,
  \* PairStates
  clock, buttons, row, copy, ordered, plan, walk, move, endless, touched,
  \* Universe, with known
  config, boot, todo, active, listed, state, configs, assigned, slotLive,
  subscribed, traded, during, lost,
  \* CloseFill, with listed
  now, opened, held, closedAt, wire, line, drops, cached, job, tries, booked, mixed,
  \* ConfigReload, with job
  disk, fault, edits, glob, pairs, mtime, view, base0, slipped, clean, upto,
  \* SchemaUpgrade, with disk
  db, open, at, rows, starts, owned, torn, rebuilt, refused,
  \* SharedConnection
  file, tx, cursors, task, queue, results, locked, outside, undone, lone,
  \* OpenThrottle, with clock and row
  sends, latch, persisted, seen, hold, gate, request, answer, saving, sweep, limit,
  \* Runtime, with todo and starts
  phase, n, up, signals, tracked, closing, exch, orderly, late, left

Exit == INSTANCE ExitRules
Pair == INSTANCE PairStates WITH Pairs <- Evaluated
Start == INSTANCE Universe
Fill == INSTANCE CloseFill WITH MaxTime <- MaxNow
Reload == INSTANCE ConfigReload
Schema == INSTANCE SchemaUpgrade
Connection == INSTANCE SharedConnection
Throttle == INSTANCE OpenThrottle WITH MaxClock <- ThrottleClock
Process == INSTANCE Runtime WITH MaxStarts <- MaxProcesses

-----------------------------------------------------------------------------
(* Exits.                                                                  *)

\* A rule that holds makes the watcher leave: the first one names the exit.
LEMMA RuleDecides ==
  ASSUME Exit!Holding # {}
  PROVE  Exit!Exit # "none"
<1> DEFINE H == Exit!Holding
<1>1. H \subseteq 1 .. 9 /\ H # {}
  BY DEF Exit!Holding, Exit!Rules
<1>2. \E x \in H : \A y \in H : x =< y
  <2> SUFFICES ASSUME \A x \in H : \E y \in H : y < x
               PROVE  FALSE
    BY <1>1
  <2> HIDE DEF H
  <2>1. 1 \notin H /\ 2 \notin H /\ 3 \notin H
    BY <1>1
  <2>2. 4 \notin H /\ 5 \notin H /\ 6 \notin H
    BY <1>1, <2>1
  <2>3. 7 \notin H /\ 8 \notin H /\ 9 \notin H
    BY <1>1, <2>1, <2>2
  <2>4. \A x \in 1 .. 9 : x \in 1 .. 3 \/ x \in 4 .. 6 \/ x \in 7 .. 9
    OBVIOUS
  <2>5. \A x \in 1 .. 9 : x = 1 \/ x = 2 \/ x = 3 \/ x = 4 \/ x = 5 \/ x = 6 \/ x = 7 \/ x = 8 \/ x = 9
    BY <2>4
  <2> QED
    BY <1>1, <2>1, <2>2, <2>3, <2>5
<1>3. Exit!Min(H) \in H
  <2> HIDE DEF H
  <2> QED
    BY <1>2 DEF Exit!Min
<1>4. \A i \in 1 .. 9 : Exit!Rules[i] # "none"
  BY DEF Exit!Rules
<1>5. QED
  BY <1>1, <1>3, <1>4 DEF Exit!Exit

\* A position opens with its entry as the best price told.
LEMMA InitExitInv == ASSUME Exit!ExitAssumptions, Exit!Init PROVE Exit!ExitInv
BY DEF Exit!ExitAssumptions, Exit!Init, Exit!ExitInv, Exit!TypeOK,
   Exit!HeldWithinLimit

\* Every step keeps it.
LEMMA StepExitInv ==
  ASSUME Exit!ExitAssumptions, Exit!ExitInv, [Exit!Next]_(Exit!vars)
  PROVE  Exit!ExitInv'
<1> USE DEF Exit!ExitAssumptions, Exit!ExitInv, Exit!TypeOK, Exit!HeldWithinLimit,
   Exit!Open, Exit!feed, Exit!position
<1>1. CASE UNCHANGED Exit!vars
  BY <1>1 DEF Exit!vars
<1>2. ASSUME NEW p \in Prices, Exit!PriceMoves(p) PROVE Exit!ExitInv'
  BY <1>2 DEF Exit!PriceMoves, Exit!Noted, Exit!Better
<1>3. ASSUME NEW p \in Prices \cup {Gone}, Exit!LeadMoves(p) PROVE Exit!ExitInv'
  BY <1>3 DEF Exit!LeadMoves
<1>4. CASE Exit!BookGoes \/ Exit!BookComes
  BY <1>4 DEF Exit!BookGoes, Exit!BookComes
<1>5. CASE Exit!LookAtTime \/ Exit!LookBlind \/ Exit!LookAtFeed \/ Exit!LookFails
  BY <1>5
     DEF Exit!LookAtTime, Exit!LookBlind, Exit!LookAtFeed, Exit!LookFails,
         Exit!Overdue
<1>6. CASE Exit!LookAtPrice
  BY <1>6 DEF Exit!LookAtPrice, Exit!Overdue, Exit!Better
<1>7. CASE Exit!Tick
  BY <1>7 DEF Exit!Tick
<1>8. QED
  BY <1>1, <1>2, <1>3, <1>4, <1>5, <1>6, <1>7 DEF Exit!Next

\* A look at a good book leaves a position that has fallen back from the best
\* price told: its peak is that price, and the trail rule holds.
LEMMA LookTrails ==
  ASSUME Exit!ExitAssumptions, Exit!ExitInv
  PROVE  Exit!TrailCounts
<1> SUFFICES ASSUME Exit!LookAtPrice, time >= MIN_HOLD, best # Gone, best > 0,
                    best - price >= rules.trail
             PROVE  reason' # "none"
  BY DEF Exit!TrailCounts
<1>1. price \in Int /\ best \in Int /\ rules.trail \in Int
  BY DEF Exit!ExitInv, Exit!ExitAssumptions, Exit!TypeOK
<1>2. peak' = Exit!Better(best, price)
  BY DEF Exit!LookAtPrice, Exit!ExitInv
<1>3. peak' \in Int /\ peak' >= best /\ peak' - price >= rules.trail
  BY <1>1, <1>2 DEF Exit!Better
<1>4. Exit!Trail
  BY <1>1, <1>3 DEF Exit!Trail
<1>5. 7 \in Exit!Holding
  <2>1. 7 \in DOMAIN Exit!Rules /\ Exit!Rules[7] = "simple_trail"
    BY DEF Exit!Rules
  <2>2. Exit!Holds("simple_trail") = (Exit!Simple /\ Exit!Trail)
    BY DEF Exit!Holds
  <2>3. QED
    BY <1>4, <2>1, <2>2 DEF Exit!Holding, Exit!Simple
<1>6. QED
  BY <1>5, RuleDecides DEF Exit!LookAtPrice

\* A price told between two looks counts for the trailing exit, whatever the
\* rulebook and the clocks are (update_extremes, _check_exit).
THEOREM TrailCountsAll ==
  ASSUME Exit!ExitAssumptions
  PROVE  Exit!Spec => []Exit!TypeOK /\ [][Exit!TrailCounts]_(Exit!vars)
<1>1. Exit!ExitInv /\ [Exit!Next]_(Exit!vars) => Exit!ExitInv' /\ [Exit!TrailCounts]_(Exit!vars)
  BY StepExitInv, LookTrails
<1>2. Exit!ExitInv => Exit!TypeOK
  BY DEF Exit!ExitInv
<1>3. QED
  BY <1>1, <1>2, InitExitInv, PTL DEF Exit!Spec

-----------------------------------------------------------------------------
(* Pair states.                                                            *)

PairState == {"shadow", "live", "paused"}

\* The transitions that anyone asks for are pauses with their end or for good,
\* or no pause.
LEMMA ToIsProper ==
  ASSUME Pair!PairStatesAssumptions, NEW p \in Evaluated, NEW s \in {"shadow", "live"}
  PROVE  Pair!Proper(Pair!To(p, s)) /\ Pair!To(p, s) \in Pair!Transitions /\ Pair!To(p, s).ends
BY DEF Pair!PairStatesAssumptions, Pair!Proper, Pair!To, Pair!Transitions

\* ... a pause with its end,
LEMMA PauseIsProper ==
  ASSUME Pair!PairStatesAssumptions, NEW p \in Evaluated, NEW u \in 0 .. MaxClock + 1
  PROVE  Pair!Proper(Pair!PauseFor(p, u)) /\ Pair!PauseFor(p, u) \in Pair!Transitions
BY DEF Pair!PairStatesAssumptions, Pair!Proper, Pair!PauseFor, Pair!To,
   Pair!Transitions

\* ... and a pause for good.
LEMMA GoodIsProper ==
  ASSUME Pair!PairStatesAssumptions, NEW p \in Evaluated, NEW w \in {"off", "pair", "auto"}
  PROVE  Pair!Proper(Pair!PauseForGood(p, w)) /\ Pair!PauseForGood(p, w) \in Pair!Transitions
BY DEF Pair!PairStatesAssumptions, Pair!Proper, Pair!PauseForGood, Pair!Transitions

\* A button for several pairs plans one transition for each.
LEMMA PlanTyped ==
  ASSUME Pair!PairStatesAssumptions, NEW S \in SUBSET Evaluated,
         NEW f \in [1 .. Pair!Cardinality(S) -> {t \in Pair!Transitions : Pair!Proper(t)}]
  PROVE  f \in Seq({t \in Pair!Transitions : Pair!Proper(t)})
<1>1. IsFiniteSet(Evaluated)
  BY DEF Pair!PairStatesAssumptions, Pair!IsFiniteSet, IsFiniteSet
<1>2. Pair!Cardinality(S) = Cardinality(S)
  BY DEF Pair!Cardinality, Cardinality
<1>3. Pair!Cardinality(S) \in Nat
  BY <1>1, <1>2, FS_Subset, FS_CardinalityType
<1>4. QED
  BY <1>3

\* What a mover begins is nothing, or the writing of what was asked.
LEMMA BeginTyped ==
  ASSUME NEW w \in Pair!Movers, NEW t \in Pair!Transitions, Pair!Proper(t), NEW from,
         move \in [Pair!Movers -> Pair!Moves], Pair!Begin(w, t, from)
  PROVE  /\ move' \in [Pair!Movers -> Pair!Moves]
         /\ \A u \in Pair!Movers \ {w} : move'[u] = move[u]
         /\ move'[w].at = "write" => move'[w].to = t
<1> DEFINE m == [at |-> "write", to |-> t, wasPaused |-> from.state = "paused"]
<1>1. m \in Pair!Moves /\ Pair!Still \in Pair!Moves
  BY DEF Pair!Moves, Pair!Still
<1>2. m.at = "write" /\ m.to = t /\ Pair!Still.at = "none"
  BY DEF Pair!Still
<1>3. move' = [move EXCEPT ![w] = IF from.state = t.state THEN Pair!Still ELSE m]
  BY DEF Pair!Begin
<1> HIDE DEF m
<1>4. QED
  BY <1>1, <1>2, <1>3

\* At the start nobody writes and no pause is without end.
LEMMA InitPairsInv == ASSUME Pair!PairStatesAssumptions, Pair!Init PROVE Pair!PairsInv
<1>1. row \in [Evaluated -> [state : PairState, until : 0 .. MaxClock + 1,
                         why : {"none", "button", "off", "pair", "auto"}]]
  BY DEF Pair!Init, Pair!Running, Pair!PairStatesAssumptions, PairState
<1>2. Pair!Still \in Pair!Moves
  BY DEF Pair!Still, Pair!Moves
<1>3. plan \in Seq({t \in Pair!Transitions : Pair!Proper(t)})
  BY DEF Pair!Init
<1>4. Pair!PairsTyped
  BY <1>1, <1>2, <1>3
     DEF Pair!Init, Pair!PairsTyped, Pair!TypeOK, Pair!PairStatesAssumptions,
         PairState, Pair!Resting
<1>5. QED
  BY <1>4
     DEF Pair!PairsInv, Pair!Init, Pair!Walking, Pair!Resting, Pair!Still,
         Pair!Movers

RowsStay == row' = row /\ endless' = endless /\ touched' = touched /\ walk' = walk

\* A step that leaves the rows and the evaluation alone.
LEMMA QuietStep ==
  ASSUME Pair!PairsInv, Pair!PairsTyped', RowsStay,
         move'["evaluation"] = move["evaluation"]
  PROVE  Pair!PairsInv'
BY DEF Pair!PairsInv, RowsStay, Pair!Walking

\* Write.
LEMMA WriteKeeps ==
  ASSUME Pair!PairStatesAssumptions, Pair!PairsInv, NEW w \in Pair!Movers, Pair!Write(w)
  PROVE  Pair!PairsInv'
<1> DEFINE t == move[w].to
<1> DEFINE r == Pair!Written(row[t.pair], t, move[w].wasPaused)
<1>1. /\ move[w] \in Pair!Moves /\ move[w].at = "write"
      /\ t \in Pair!Transitions /\ Pair!Proper(t) /\ t.pair \in Evaluated
  BY DEF Pair!PairsInv, Pair!PairsTyped, Pair!Write, Pair!Moves, Pair!Transitions
<1>2. /\ row' = [row EXCEPT ![t.pair] = r]
      /\ endless' = IF t.ends THEN endless \ {t.pair} ELSE endless \cup {t.pair}
      /\ touched' = touched \cup {t.pair}
      /\ move' = [move EXCEPT ![w] = [at |-> "load"]]
      /\ UNCHANGED <<clock, buttons, copy, ordered, plan, walk>>
  BY DEF Pair!Write
<1> DEFINE Rec == [state : PairState, until : 0 .. MaxClock + 1,
                   why : {"none", "button", "off", "pair", "auto"}]
<1>3. row \in [Evaluated -> Rec] /\ t.state \in PairState /\ t.until \in 0 .. MaxClock + 1
      /\ t.why \in {"none", "button", "off", "pair", "auto"}
  BY <1>1
     DEF Pair!PairsInv, Pair!PairsTyped, Pair!TypeOK, PairState, Pair!Transitions
<1>4. r \in Rec
  <2>1. row[t.pair] \in Rec
    BY <1>1, <1>3
  <2>2. [row[t.pair] EXCEPT !.state = t.state] \in Rec
    BY <1>3, <2>1
  <2>3. [Pair!Running EXCEPT !.state = t.state] \in Rec
    BY <1>3 DEF Pair!Running, Pair!PairStatesAssumptions
  <2>4. [state |-> "paused", until |-> t.until, why |-> t.why] \in Rec
    BY <1>3 DEF PairState
  <2>5. QED
    BY <2>2, <2>3, <2>4 DEF Pair!Written
<1>5. ~t.ends => r.until = 0
  BY <1>1 DEF Pair!Proper, Pair!Written
<1>6. [at |-> "load"] \in Pair!Moves /\ [at |-> "load"].at # "write"
  BY DEF Pair!Moves
<1> HIDE DEF r, t
<1>7. Pair!PairsTyped'
  BY <1>1, <1>2, <1>3, <1>4, <1>6
     DEF Pair!PairsInv, Pair!PairsTyped, Pair!TypeOK, PairState
<1>8. \A p \in endless' : row'[p].until = 0
  BY <1>1, <1>2, <1>3, <1>5 DEF Pair!PairsInv, Pair!PairsTyped
<1>9. Pair!Walking' => \A p \in Evaluated \ touched' : walk'.seen[p] = row'[p]
  BY <1>1, <1>2, <1>3, <1>6
     DEF Pair!PairsInv, Pair!PairsTyped, Pair!Walking, Pair!Movers
<1>10. move'["evaluation"].at = "write" =>
       /\ move["evaluation"].at = "write"
       /\ move'["evaluation"] = move["evaluation"]
  BY <1>2, <1>6 DEF Pair!PairsInv, Pair!PairsTyped
<1>11. QED
  BY <1>2, <1>7, <1>8, <1>9, <1>10 DEF Pair!PairsInv

\* The evaluation reads the rows.
LEMMA ReadKeeps ==
  ASSUME Pair!PairStatesAssumptions, Pair!PairsInv, Pair!EvaluateAll
  PROVE  Pair!PairsInv'
BY DEF Pair!PairsInv, Pair!PairsTyped, Pair!TypeOK, Pair!EvaluateAll, Pair!Walking,
   Pair!Still, Pair!history

\* Evaluate: what it begins ends a pause that had an end when the rows were read.
LEMMA EvaluateKeeps ==
  ASSUME Pair!PairStatesAssumptions, Pair!PairsInv, NEW p \in Evaluated, Pair!Evaluate(p)
  PROVE  Pair!PairsInv'
<1>1. /\ Pair!To(p, "shadow") \in Pair!Transitions /\ Pair!Proper(Pair!To(p, "shadow"))
      /\ Pair!To(p, "shadow").ends /\ Pair!To(p, "shadow").pair = p
  BY ToIsProper DEF Pair!To
<1>2. Pair!Walking /\ row' = row /\ endless' = endless /\ touched' = touched
      /\ walk'.seen = walk.seen /\ walk'.left \subseteq Evaluated
      /\ move["evaluation"].at # "write"
  BY DEF Pair!Evaluate, Pair!Walking, Pair!history, Pair!Still, Pair!PairsInv,
     Pair!PairsTyped, Pair!TypeOK
<1>3. /\ move' \in [Pair!Movers -> Pair!Moves]
      /\ move'["evaluation"].at = "write" =>
           move'["evaluation"].to = Pair!To(p, "shadow") /\ walk.seen[p].until # 0
  <2>1. CASE Pair!Due(walk.seen[p])
    <3>1. Pair!Begin("evaluation", Pair!To(p, "shadow"), walk.seen[p])
      BY <2>1 DEF Pair!Evaluate
    <3>2. move \in [Pair!Movers -> Pair!Moves] /\ "evaluation" \in Pair!Movers
      BY DEF Pair!PairsInv, Pair!PairsTyped, Pair!Movers
    <3>3. walk.seen[p].until # 0
      BY <2>1 DEF Pair!Due
    <3>4. QED
      BY <1>1, <3>1, <3>2, <3>3, BeginTyped
  <2>2. CASE ~Pair!Due(walk.seen[p])
    BY <1>2, <2>2 DEF Pair!Evaluate, Pair!PairsInv, Pair!PairsTyped
  <2>3. QED
    BY <2>1, <2>2
<1>4. Pair!PairsTyped'
  BY <1>2, <1>3
     DEF Pair!Evaluate, Pair!PairsInv, Pair!PairsTyped, Pair!TypeOK, Pair!history
<1>5. QED
  BY <1>1, <1>2, <1>3, <1>4 DEF Pair!PairsInv

\* The operator and the engine begin something, or plan it.
LEMMA OthersKeep ==
  ASSUME Pair!PairStatesAssumptions, Pair!PairsInv, RowsStay,
         UNCHANGED <<clock, copy>>, ordered' \subseteq Evaluated,
         plan' \in Seq({t \in Pair!Transitions : Pair!Proper(t)}),
         \/ UNCHANGED move
         \/ \E w \in {"operator", "engine"}, t \in Pair!Transitions, p \in Evaluated :
               Pair!Proper(t) /\ Pair!Begin(w, t, copy[p])
  PROVE  Pair!PairsInv'
<1>1. move' \in [Pair!Movers -> Pair!Moves] /\ move'["evaluation"] = move["evaluation"]
  <2>1. ASSUME NEW w \in {"operator", "engine"}, NEW t \in Pair!Transitions,
               NEW p \in Evaluated,
               Pair!Proper(t), Pair!Begin(w, t, copy[p])
        PROVE  move' \in [Pair!Movers -> Pair!Moves] /\ move'["evaluation"] = move["evaluation"]
    <3>1. w \in Pair!Movers /\ "evaluation" \in Pair!Movers \ {w} /\ move \in [Pair!Movers -> Pair!Moves]
      BY DEF Pair!Movers, Pair!PairsInv, Pair!PairsTyped
    <3>2. QED
      BY <2>1, <3>1, BeginTyped
  <2>2. QED
    BY <2>1 DEF Pair!PairsInv, Pair!PairsTyped
<1>2. Pair!PairsTyped'
  BY <1>1 DEF Pair!PairsInv, Pair!PairsTyped, Pair!TypeOK, RowsStay
<1>3. QED
  BY <1>1, <1>2, QuietStep

\* A button plans proper transitions, and leaves the rest alone.
LEMMA PressKeeps ==
  ASSUME Pair!PairStatesAssumptions, Pair!PairsInv, Pair!Press,
         plan' \in Seq({t \in Pair!Transitions : Pair!Proper(t)})
  PROVE  Pair!PairsInv'
<1>1. RowsStay /\ UNCHANGED <<clock, copy, move>> /\ ordered' \subseteq Evaluated
  BY DEF Pair!Press, RowsStay, Pair!history, Pair!PairsInv, Pair!PairsTyped,
     Pair!TypeOK
<1>2. QED
  BY <1>1, OthersKeep

\* The buttons of a pair.
LEMMA ButtonsKeep ==
  ASSUME Pair!PairStatesAssumptions, Pair!PairsInv, NEW p \in Evaluated,
         \/ Pair!PromoteButton(p) \/ Pair!DemoteButton(p) \/ Pair!PauseButton(p)
         \/ Pair!ResumeButton(p)
         \/ Pair!ToggleOne(p)
  PROVE  Pair!PairsInv'
<1> DEFINE P == {t \in Pair!Transitions : Pair!Proper(t)}
<1>1. Pair!Press /\ clock + 1 \in 0 .. MaxClock + 1
  BY DEF Pair!PromoteButton, Pair!DemoteButton, Pair!PauseButton, Pair!ResumeButton,
     Pair!ToggleOne, Pair!PairsInv, Pair!PairsTyped, Pair!PairStatesAssumptions
<1>2. \E t \in P : plan' = <<t>>
  BY <1>1, ToIsProper, PauseIsProper, GoodIsProper
     DEF Pair!PromoteButton, Pair!DemoteButton, Pair!PauseButton, Pair!ResumeButton,
         Pair!ToggleOne
<1>3. QED
  BY <1>1, <1>2, PressKeeps

\* Shadow OFF and Shadow ON: a transition for each pair.
LEMMA ToggleKeeps ==
  ASSUME Pair!PairStatesAssumptions, Pair!PairsInv, Pair!ShadowOff \/ Pair!ShadowOn
  PROVE  Pair!PairsInv'
<1> DEFINE P == {t \in Pair!Transitions : Pair!Proper(t)}
<1>1. Pair!ForToggle \subseteq Evaluated /\ Pair!ToggledOff \subseteq Evaluated /\ Pair!Press
  BY DEF Pair!ForToggle, Pair!ToggledOff, Pair!ShadowOff, Pair!ShadowOn
<1>2. CASE Pair!ShadowOff
  <2>1. PICK order \in [1 .. Pair!Cardinality(Pair!ForToggle) -> Pair!ForToggle] :
          plan' = [i \in 1 .. Pair!Cardinality(Pair!ForToggle) |-> Pair!PauseForGood(order[i], "off")]
    BY <1>2 DEF Pair!ShadowOff, Pair!ForEach
  <2>2. plan' \in [1 .. Pair!Cardinality(Pair!ForToggle) -> P]
    BY <1>1, <2>1, GoodIsProper
  <2>3. QED
    BY <1>1, <2>2, PlanTyped, PressKeeps
<1>3. CASE Pair!ShadowOn
  <2>1. PICK order \in [1 .. Pair!Cardinality(Pair!ToggledOff) -> Pair!ToggledOff] :
          plan' = [i \in 1 .. Pair!Cardinality(Pair!ToggledOff) |-> Pair!To(order[i], "shadow")]
    BY <1>3 DEF Pair!ShadowOn, Pair!ForEach
  <2>2. plan' \in [1 .. Pair!Cardinality(Pair!ToggledOff) -> P]
    BY <1>1, <2>1, ToIsProper
  <2>3. QED
    BY <1>1, <2>2, PlanTyped, PressKeeps
<1>4. QED
  BY <1>2, <1>3

\* The next transition of a button begins.
LEMMA NextOfButtonKeeps ==
  ASSUME Pair!PairStatesAssumptions, Pair!PairsInv, Pair!NextOfButton
  PROVE  Pair!PairsInv'
<1> DEFINE P == {t \in Pair!Transitions : Pair!Proper(t)}
<1>1. plan \in Seq(P) /\ plan # <<>>
  BY DEF Pair!PairsInv, Pair!PairsTyped, Pair!NextOfButton
<1>2. Head(plan) \in P /\ Tail(plan) \in Seq(P)
  BY <1>1
<1>3. Head(plan).pair \in Evaluated
  BY <1>2 DEF Pair!Transitions
<1>4. /\ plan' = Tail(plan) /\ Pair!Begin("operator", Head(plan), copy[Head(plan).pair])
      /\ RowsStay /\ UNCHANGED <<clock, copy>> /\ ordered' \subseteq Evaluated
  BY DEF Pair!NextOfButton, RowsStay, Pair!history, Pair!PairsInv, Pair!PairsTyped,
     Pair!TypeOK
<1>5. QED
  BY <1>2, <1>3, <1>4, OthersKeep

\* The engine.
LEMMA EngineKeeps ==
  ASSUME Pair!PairStatesAssumptions, Pair!PairsInv, NEW p \in Evaluated,
         Pair!EntrySent(p) \/ Pair!EntryDone(p)
  PROVE  Pair!PairsInv'
<1>1. /\ Pair!PauseForGood(p, "auto") \in Pair!Transitions
      /\ Pair!Proper(Pair!PauseForGood(p, "auto"))
  BY GoodIsProper
<1>2. /\ RowsStay /\ UNCHANGED <<clock, copy, plan>> /\ ordered' \subseteq Evaluated
      /\ UNCHANGED move \/ Pair!Begin("engine", Pair!PauseForGood(p, "auto"), copy[p])
  BY DEF Pair!EntrySent, Pair!EntryDone, RowsStay, Pair!history, Pair!PairsInv,
     Pair!PairsTyped, Pair!TypeOK
<1>3. plan' \in Seq({t \in Pair!Transitions : Pair!Proper(t)})
  BY <1>2 DEF Pair!PairsInv, Pair!PairsTyped
<1>4. QED
  BY <1>1, <1>2, <1>3, OthersKeep

\* The panel writes the state of pairs, which have no pause for good then.
LEMMA PanelKeeps ==
  ASSUME Pair!PairStatesAssumptions, Pair!PairsInv, NEW S \in SUBSET Evaluated,
         NEW s \in {"shadow", "live"}, Pair!PanelWrites(S, s)
  PROVE  Pair!PairsInv'
<1>1. row' = [p \in Evaluated |-> IF p \in S THEN [row[p] EXCEPT !.state = s] ELSE row[p]]
  BY DEF Pair!PanelWrites
<1>2. UNCHANGED <<clock, copy, ordered, plan, walk, move>> /\ endless' = endless \ S
      /\ touched' = touched \cup S
  BY DEF Pair!PanelWrites
<1>3. Pair!PairsTyped'
  <2> DEFINE Rec == [state : PairState, until : 0 .. MaxClock + 1,
                     why : {"none", "button", "off", "pair", "auto"}]
  <2>1. row \in [Evaluated -> Rec] /\ s \in PairState
    BY DEF Pair!PairsInv, Pair!PairsTyped, Pair!TypeOK, PairState
  <2>2. \A p \in Evaluated : [row[p] EXCEPT !.state = s] \in Rec
    BY <2>1
  <2>3. row' \in [Evaluated -> Rec]
    BY <1>1, <2>1, <2>2
  <2>4. QED
    BY <1>2, <2>3 DEF Pair!PairsInv, Pair!PairsTyped, Pair!TypeOK, PairState
<1>4. \A p \in Evaluated \ S : row'[p] = row[p]
  BY <1>1
<1>5. QED
  BY <1>2, <1>3, <1>4 DEF Pair!PairsInv, Pair!PairsTyped, Pair!Walking

\* Load, the clock and a restart.
LEMMA RestKeeps ==
  ASSUME Pair!PairStatesAssumptions, Pair!PairsInv,
         Pair!Tick \/ Pair!Restart \/ \E w \in Pair!Movers : Pair!Load(w)
  PROVE  Pair!PairsInv'
<1>1. Pair!Still \in Pair!Moves /\ Pair!Still.at # "write"
  BY DEF Pair!Still, Pair!Moves
<1>2. CASE Pair!Tick
  <2>1. Pair!PairsTyped' /\ RowsStay /\ UNCHANGED move
    BY <1>2
       DEF Pair!Tick, Pair!PairsInv, Pair!PairsTyped, Pair!TypeOK, Pair!history,
           RowsStay, Pair!PairStatesAssumptions
  <2>2. QED
    BY <2>1, QuietStep
<1>3. CASE Pair!Restart
  <2>1. Pair!PairsTyped'
    BY <1>1, <1>3
       DEF Pair!Restart, Pair!PairsInv, Pair!PairsTyped, Pair!TypeOK, Pair!Resting
  <2>2. ~Pair!Walking' /\ move'["evaluation"].at # "write"
    BY <1>1, <1>3 DEF Pair!Restart, Pair!Walking, Pair!Resting, Pair!Movers
  <2>3. QED
    BY <1>3, <2>1, <2>2 DEF Pair!Restart, Pair!PairsInv
<1>4. ASSUME NEW w \in Pair!Movers, Pair!Load(w)
      PROVE  Pair!PairsInv'
  <2>1. Pair!PairsTyped' /\ RowsStay /\ move' = [move EXCEPT ![w] = Pair!Still]
    BY <1>1, <1>4
       DEF Pair!Load, Pair!PairsInv, Pair!PairsTyped, Pair!TypeOK, Pair!history,
           RowsStay
  <2>2. CASE w = "evaluation"
    BY <1>1, <2>1, <2>2 DEF Pair!PairsInv, Pair!PairsTyped, RowsStay, Pair!Walking
  <2>3. CASE w # "evaluation"
    <3>1. move'["evaluation"] = move["evaluation"]
      BY <2>1, <2>3 DEF Pair!PairsInv, Pair!PairsTyped, Pair!Movers
    <3>2. QED
      BY <2>1, <3>1, QuietStep
  <2>4. QED
    BY <2>2, <2>3
<1>5. QED
  BY <1>2, <1>3, <1>4

\* Every step keeps the invariant of the pairs.
LEMMA StepPairsInv ==
  ASSUME Pair!PairStatesAssumptions, Pair!PairsInv, [Pair!Next]_(Pair!vars)
  PROVE  Pair!PairsInv'
<1>1. CASE UNCHANGED Pair!vars
  BY <1>1 DEF Pair!vars, Pair!PairsInv, Pair!PairsTyped, Pair!TypeOK, Pair!Walking
<1>2. ASSUME NEW p \in Evaluated, Pair!OfPair(p) PROVE Pair!PairsInv'
  <2>1. CASE Pair!PanelLive(p) \/ Pair!PanelShadow(p)
    BY <2>1, PanelKeeps DEF Pair!PanelLive, Pair!PanelShadow
  <2>2. QED
    BY <1>2, <2>1, EvaluateKeeps, ButtonsKeep, EngineKeeps DEF Pair!OfPair
<1>3. CASE Pair!KillAll
  BY <1>3, PanelKeeps DEF Pair!KillAll
<1>4. CASE Pair!ShadowOff \/ Pair!ShadowOn
  BY <1>4, ButtonsKeep, ToggleKeeps
<1>5. QED
  BY <1>1, <1>2, <1>3, <1>4, WriteKeeps, ReadKeeps, NextOfButtonKeeps, RestKeeps
     DEF Pair!Next

\* A pause with no end that nobody wrote since the rows were read had none then.
LEMMA PauseIsHeld ==
  ASSUME Pair!PairStatesAssumptions, Pair!PairsInv
  PROVE  Pair!PauseHolds
<1> SUFFICES ASSUME NEW p \in endless, row[p].state = "paused", row'[p].state # "paused",
                    move["evaluation"].at = "write", Pair!Write("evaluation"), p \notin touched
             PROVE  FALSE
  BY DEF Pair!PauseHolds
<1> DEFINE t == move["evaluation"].to
<1>1. p \in Evaluated /\ row[p].until = 0 /\ t.pair \in Evaluated /\ walk.seen[t.pair].until # 0
  BY DEF Pair!PairsInv, Pair!PairsTyped, Pair!Moves, Pair!Transitions, Pair!Movers
<1>2. walk.seen[p] = row[p]
  BY <1>1 DEF Pair!PairsInv, Pair!Walking
<1>3. row' = [row EXCEPT ![t.pair] = Pair!Written(@, t, move["evaluation"].wasPaused)]
  BY DEF Pair!Write
<1>4. p = t.pair
  BY <1>1, <1>3 DEF Pair!PairsInv, Pair!PairsTyped, Pair!TypeOK
<1>5. QED
  BY <1>1, <1>2, <1>4

\* The evaluation ends no pause that has no end, for any pairs and however
\* long the bot runs (evaluate_transitions, transition).
THEOREM PauseHoldsAll ==
  ASSUME Pair!PairStatesAssumptions
  PROVE  Pair!Spec => []Pair!TypeOK /\ [][Pair!PauseHolds]_(Pair!vars)
<1>1. Pair!PairsInv /\ [Pair!Next]_(Pair!vars) => Pair!PairsInv' /\ [Pair!PauseHolds]_(Pair!vars)
  BY StepPairsInv, PauseIsHeld
<1>2. Pair!PairsInv => Pair!TypeOK
  BY DEF Pair!PairsInv, Pair!PairsTyped
<1>3. QED
  BY <1>1, <1>2, InitPairsInv, PTL DEF Pair!Spec

-----------------------------------------------------------------------------
(* Starts.                                                                 *)

\* Before the first start no slot is live.
LEMMA InitUniverseInv == ASSUME Start!UniverseAssumptions,
                                Start!Init PROVE Start!UniverseInv
BY DEF Start!UniverseAssumptions, Start!Init, Start!UniverseInv, Start!TypeOK,
   Start!At, Start!LiveSlotsTrade

\* The steps of a start but the pruning.
LEMMA StartKeeps ==
  ASSUME Start!UniverseAssumptions, Start!UniverseInv,
         \/ \E c \in Configs : Start!StartUp(c)
         \/ \E p \in Pairs : Start!Mark(p) \/ Start!List(p)
         \/ Start!SyncReads \/ Start!SyncLooks \/ Start!Unlist \/ Start!PruneLooks
         \/ Start!PruneConfigs \/ Start!PruneUniverse
         \/ Start!Subscribe \/ Start!LoadStates \/ Start!Ready \/ Start!Dies
  PROVE  Start!UniverseInv'
<1> USE DEF Start!UniverseAssumptions, Start!UniverseInv, Start!TypeOK, Start!At,
   Start!LiveSlotsTrade, Start!start, Start!registry, Start!slots, Start!process,
   Start!history, Start!Goto, Start!Ahead
<1>1. ASSUME NEW c \in Configs, Start!StartUp(c) PROVE Start!UniverseInv'
  BY <1>1 DEF Start!StartUp
<1>2. ASSUME NEW p \in Pairs, Start!Mark(p) \/ Start!List(p) PROVE Start!UniverseInv'
  BY <1>2 DEF Start!Mark, Start!List
<1>3. CASE Start!SyncReads
  BY <1>3 DEF Start!SyncReads, Start!Tradable
<1>4. CASE Start!SyncLooks \/ Start!Unlist
  BY <1>4 DEF Start!SyncLooks, Start!Unlist, Start!Unlistable
<1>5. CASE Start!PruneLooks
  BY <1>5 DEF Start!PruneLooks, Start!Prunable, Start!Rows, Start!Row
<1>6. CASE Start!PruneConfigs \/ Start!PruneUniverse
  BY <1>6 DEF Start!PruneConfigs, Start!PruneUniverse
<1>7. CASE Start!Subscribe \/ Start!LoadStates \/ Start!Ready \/ Start!Dies
  BY <1>7
     DEF Start!Subscribe, Start!LoadStates, Start!Ready, Start!Dies, Start!Rows,
         Start!Row
<1>8. QED
  BY <1>1, <1>2, <1>3, <1>4, <1>5, <1>6, <1>7

\* The delete of the pruning: a live pair among them was turned live meanwhile.
LEMMA PruneKeeps ==
  ASSUME Start!UniverseAssumptions, Start!UniverseInv, Start!PruneStates
  PROVE  Start!UniverseInv'
BY DEF Start!UniverseAssumptions, Start!UniverseInv, Start!TypeOK, Start!At,
   Start!LiveSlotsTrade, Start!PruneStates, Start!Goto, Start!registry, Start!slots,
   Start!process

\* A start seeds the pairs it knows.
LEMMA SeedKeeps ==
  ASSUME Start!UniverseAssumptions, Start!UniverseInv, NEW p \in Pairs, Start!Seed(p)
  PROVE  Start!UniverseInv'
BY DEF Start!UniverseAssumptions, Start!UniverseInv, Start!TypeOK, Start!At,
   Start!LiveSlotsTrade, Start!Seed, Start!Ahead, Start!Row, Start!slots,
   Start!process, Start!history

\* A pair is left to the shadow only when no other live slot has it.
LEMMA OthersStayLive ==
  ASSUME Start!UniverseInv, NEW s \in Slots, NEW x \in Slots \ {s}, slotLive[x],
         NEW p \in Pairs
  PROVE  /\ Start!Shadowed(state, s, p) \in [Pairs -> {"none", "shadow", "live"}]
         /\ Start!Shadowed(state, s, p)[assigned[x]] = state[assigned[x]]
         /\ \A q \in Pairs : Start!Shadowed(state, s, p)[q] = "live" => state[q] = "live"
BY DEF Start!UniverseInv, Start!TypeOK, Start!Shadowed, Start!Other

\* A pair goes back to shadow.
LEMMA ShadowedTyped ==
  ASSUME Start!UniverseInv, NEW s \in Slots, NEW p \in Pairs
  PROVE  /\ Start!Shadowed(state, s, p) \in [Pairs -> {"none", "shadow", "live"}]
         /\ \A q \in Pairs : Start!Shadowed(state, s, p)[q] = "live" => state[q] = "live"
BY DEF Start!UniverseInv, Start!TypeOK, Start!Shadowed

\* assign_pair.
LEMMA AssignKeeps ==
  ASSUME Start!UniverseAssumptions, Start!UniverseInv, NEW s \in Slots, NEW p \in Pairs,
         Start!AssignPair(s, p)
  PROVE  Start!UniverseInv'
<1> DEFINE f == Start!Displaced(s, p)
<1>1. /\ f \in [Pairs -> {"none", "shadow", "live"}]
      /\ \A q \in Pairs : f[q] = "live" => state[q] = "live"
      /\ \A x \in Slots \ {s} : slotLive[x] => f[assigned[x]] = state[assigned[x]]
  <2>1. CASE assigned[s] \in {NoPair, p}
    BY <2>1 DEF Start!Displaced, Start!UniverseInv, Start!TypeOK
  <2>2. CASE assigned[s] \notin {NoPair, p}
    <3>1. assigned[s] \in Pairs /\ f = Start!Shadowed(state, s, assigned[s])
      BY <2>2 DEF Start!Displaced, Start!UniverseInv, Start!TypeOK
    <3>2. QED
      BY <3>1, OthersStayLive, ShadowedTyped
  <2>3. QED
    BY <2>1, <2>2
<1>2. /\ assigned' = [assigned EXCEPT ![s] = p] /\ slotLive' = slotLive
      /\ state' = IF slotLive[s] THEN [f EXCEPT ![p] = "live"] ELSE f
      /\ during' = during \cup {p}
      /\ lost' = IF slotLive[s] THEN lost \ {p} ELSE lost
      /\ UNCHANGED <<Start!start, Start!registry, listed, Start!process>>
  BY DEF Start!AssignPair, Start!Promoted
<1> HIDE DEF f
<1>3. Start!TypeOK'
  BY <1>1, <1>2
     DEF Start!UniverseInv, Start!TypeOK, Start!start, Start!registry, Start!process
<1>4. \A x \in Slots : slotLive'[x] => assigned'[x] # NoPair
  BY <1>2 DEF Start!UniverseInv, Start!TypeOK, Start!UniverseAssumptions
<1>5. Start!At("pruneStates")' => \A q \in todo' : state'[q] = "live" => q \in during'
  BY <1>1, <1>2 DEF Start!UniverseInv, Start!TypeOK, Start!At, Start!start
<1>6. ASSUME NEW x \in Slots, slotLive'[x]
      PROVE  state'[assigned'[x]] = "live" \/ assigned'[x] \in lost'
  <2>1. CASE x = s
    BY <1>1, <1>2, <1>6, <2>1 DEF Start!UniverseInv, Start!TypeOK
  <2>2. CASE x # s
    <3>1. assigned'[x] = assigned[x] /\ assigned[x] \in Pairs /\ slotLive[x]
      BY <1>2, <1>6, <2>2 DEF Start!UniverseInv, Start!TypeOK
    <3>2. state[assigned[x]] = "live" \/ assigned[x] \in lost
      BY <3>1 DEF Start!UniverseInv, Start!LiveSlotsTrade
    <3>3. f[assigned[x]] = state[assigned[x]]
      BY <1>1, <2>2, <3>1
    <3>4. QED
      BY <1>1, <1>2, <3>1, <3>2, <3>3
  <2>3. QED
    BY <2>1, <2>2
<1>7. QED
  BY <1>3, <1>4, <1>5, <1>6 DEF Start!UniverseInv, Start!LiveSlotsTrade

\* unassign and live off: the pair is left to the shadow.
LEMMA LeaveKeeps ==
  ASSUME Start!UniverseAssumptions, Start!UniverseInv, NEW s \in Slots,
         Start!Unassign(s) \/ Start!LiveOff(s)
  PROVE  Start!UniverseInv'
<1>1. assigned[s] \in Pairs
  BY DEF Start!UniverseInv, Start!TypeOK, Start!Unassign, Start!LiveOff
<1>2. /\ slotLive' = [slotLive EXCEPT ![s] = FALSE]
      /\ state' = Start!Shadowed(state, s, assigned[s])
      /\ assigned' = assigned \/ assigned' = [assigned EXCEPT ![s] = NoPair]
      /\ UNCHANGED <<Start!start, Start!registry, listed, Start!process, Start!history>>
  BY DEF Start!Unassign, Start!LiveOff
<1>3. Start!TypeOK'
  BY <1>1, <1>2, ShadowedTyped
     DEF Start!UniverseInv, Start!TypeOK, Start!start, Start!registry,
         Start!process, Start!history
<1>4. Start!At("pruneStates")' => \A q \in todo' : state'[q] = "live" => q \in during'
  BY <1>1, <1>2, ShadowedTyped
     DEF Start!UniverseInv, Start!TypeOK, Start!At, Start!start, Start!history
<1>5. ASSUME NEW x \in Slots, slotLive'[x]
      PROVE  /\ assigned'[x] # NoPair
             /\ state'[assigned'[x]] = "live" \/ assigned'[x] \in lost'
  <2>1. x \in Slots \ {s} /\ slotLive[x] /\ assigned'[x] = assigned[x] /\ lost' = lost
    BY <1>2, <1>5 DEF Start!UniverseInv, Start!TypeOK, Start!history
  <2>2. QED
    BY <1>1, <1>2, <2>1, OthersStayLive DEF Start!UniverseInv, Start!LiveSlotsTrade
<1>6. QED
  BY <1>3, <1>4, <1>5 DEF Start!UniverseInv, Start!LiveSlotsTrade

\* live on.
LEMMA LiveOnKeeps ==
  ASSUME Start!UniverseAssumptions, Start!UniverseInv, NEW s \in Slots, Start!LiveOn(s)
  PROVE  Start!UniverseInv'
BY DEF Start!UniverseAssumptions, Start!UniverseInv, Start!TypeOK, Start!At,
   Start!LiveSlotsTrade, Start!LiveOn, Start!start, Start!registry, Start!process

\* Every step keeps it.
LEMMA StepUniverseInv ==
  ASSUME Start!UniverseAssumptions, Start!UniverseInv, [Start!Next]_(Start!vars)
  PROVE  Start!UniverseInv'
<1>1. CASE UNCHANGED Start!vars
  BY <1>1
     DEF Start!vars, Start!start, Start!registry, Start!slots, Start!process,
         Start!history, Start!UniverseInv, Start!TypeOK, Start!At,
         Start!LiveSlotsTrade
<1>2. QED
  BY <1>1, StartKeeps, PruneKeeps, SeedKeeps, AssignKeeps, LeaveKeeps, LiveOnKeeps
     DEF Start!Next

\* No start and no delete takes the pair from a live slot, for any slots and
\* lists of pairs (prune_stale_pair_states, delete_pair).
THEOREM LiveSlotsTradeAll ==
  ASSUME Start!UniverseAssumptions
  PROVE  Start!Spec => []Start!TypeOK /\ []Start!LiveSlotsTrade
<1>1. Start!UniverseInv => Start!TypeOK /\ Start!LiveSlotsTrade
  BY DEF Start!UniverseInv
<1>2. QED
  BY <1>1, InitUniverseInv, StepUniverseInv, PTL DEF Start!Spec

-----------------------------------------------------------------------------
(* Closes.                                                                 *)

\* At the start nothing is open and nothing booked.
LEMMA InitFillInv == ASSUME Fill!CloseFillAssumptions, Fill!Init PROVE Fill!FillInv
BY DEF Fill!CloseFillAssumptions, Fill!Init, Fill!FillInv, Fill!TypeOK, Fill!NoJob,
   Fill!AtWork, Fill!NotYet, Fill!BookedWithItsOwnClose

\* What a close knows while it is under way.
LEMMA AtWorkFacts ==
  ASSUME Fill!FillInv, Fill!AtWork
  PROVE  /\ opened \in 1 .. MaxPositions /\ job \in Fill!Job /\ job.at # "none"
         /\ job.pid \in {0, opened}
BY DEF Fill!FillInv, Fill!Job, Fill!TypeOK

\* A close under way is one.
LEMMA JobsAreWork == ASSUME NEW j \in Fill!Job PROVE j # Fill!NoJob
BY DEF Fill!Job, Fill!NoJob

\* The push of a close is of the position that is gone.
LEMMA VanishesTyped ==
  ASSUME Fill!FillInv, held, Fill!Vanishes
  PROVE  wire' \in Seq(1 .. MaxPositions) /\ ~held'
<1> DEFINE W == 1 .. MaxPositions
<1>1. wire \in Seq(W) /\ opened \in W
  BY DEF Fill!FillInv, Fill!TypeOK
<1> HIDE DEF W
<1>2. wire' \in Seq(W)
  BY <1>1 DEF Fill!Vanishes
<1>3. QED
  BY <1>2 DEF Fill!Vanishes, W

\* The exchange and the clock.
LEMMA ExchangeKeeps ==
  ASSUME Fill!CloseFillAssumptions, Fill!FillInv,
         Fill!Open \/ Fill!Liquidated \/ Fill!Tick \/ \E i \in 1 .. MaxPositions : Fill!Lists(i)
  PROVE  Fill!FillInv'
<1> USE DEF Fill!CloseFillAssumptions, Fill!FillInv, Fill!TypeOK, Fill!exchange,
   Fill!stream, Fill!result, Fill!AtWork, Fill!Mine, Fill!BookedWithItsOwnClose,
   Fill!NotYet
<1>1. CASE Fill!Open
  BY <1>1 DEF Fill!Open, Fill!NoJob, Fill!Job
<1>2. CASE Fill!Liquidated
  <2>1. wire' \in Seq(1 .. MaxPositions)
    BY <1>2, VanishesTyped DEF Fill!Liquidated
  <2>2. QED
    BY <1>2, <2>1 DEF Fill!Liquidated, Fill!Vanishes, Fill!Job
<1>3. CASE Fill!Tick
  BY <1>3 DEF Fill!Tick, Fill!Job
<1>4. ASSUME NEW i \in 1 .. MaxPositions, Fill!Lists(i) PROVE Fill!FillInv'
  BY <1>4 DEF Fill!Lists, Fill!Job
<1>5. QED
  BY <1>1, <1>2, <1>3, <1>4

\* The private stream.
LEMMA StreamKeeps ==
  ASSUME Fill!CloseFillAssumptions, Fill!FillInv, Fill!Push \/ Fill!Drop \/ Fill!Login
  PROVE  Fill!FillInv'
<1> USE DEF Fill!CloseFillAssumptions, Fill!FillInv, Fill!TypeOK, Fill!exchange,
   Fill!stream, Fill!result, Fill!AtWork, Fill!Mine, Fill!BookedWithItsOwnClose,
   Fill!NotYet
<1>1. CASE Fill!Push
  <2>1. Head(wire) \in 1 .. MaxPositions /\ wire' \in Seq(1 .. MaxPositions)
    BY <1>1 DEF Fill!Push
  <2>2. cached' = [id |-> Head(wire), fresh |-> Fill!AtWork] /\ Fill!AtWork \in BOOLEAN
    BY <1>1 DEF Fill!Push
  <2>3. cached' \in [id : 0 .. MaxPositions, fresh : BOOLEAN]
    BY <2>1, <2>2
  <2>4. cached'.id = Head(wire) /\ job' = job /\ opened' = opened /\ booked' = booked
        /\ UNCHANGED <<now, held, listed>>
    BY <1>1 DEF Fill!Push
  <2>5. mixed \subseteq mixed' /\ (Fill!AtWork /\ Head(wire) # opened => opened \in mixed')
    BY <1>1 DEF Fill!Push
  <2> QED
    BY <2>1, <2>3, <2>4, <2>5 DEF Fill!Job
<1>2. CASE Fill!Drop \/ Fill!Login
  <2>1. wire' \in Seq(1 .. MaxPositions)
    <3>1. CASE Fill!Drop
      BY <3>1 DEF Fill!Drop
    <3>2. CASE Fill!Login
      BY <3>2 DEF Fill!Login
    <3>3. QED
      BY <1>2, <3>1, <3>2
  <2>2. UNCHANGED <<now, opened, held, closedAt, listed, cached, job, tries, booked, mixed>>
    BY <1>2 DEF Fill!Drop, Fill!Login
  <2>3. QED
    BY <2>1, <2>2 DEF Fill!Job
<1>3. QED
  BY <1>1, <1>2

\* A close is asked for: what was pushed so far does not count.
LEMMA AskedKeeps ==
  ASSUME Fill!CloseFillAssumptions, Fill!FillInv, NEW site \in {"both", "capped"},
         NEW c \in BOOLEAN,
         NEW pid \in {0, opened}, opened > 0, Fill!Asked(site, c, pid),
         wire' \in Seq(1 .. MaxPositions), held' => held,
         UNCHANGED <<now, opened, listed, booked, mixed>>
  PROVE  Fill!FillInv'
<1>1. job' = [at |-> site, capped |-> c, pid |-> pid, since |-> now] /\ now \in Nat
      /\ cached' = [cached EXCEPT !.fresh = FALSE]
  BY DEF Fill!Asked, Fill!FillInv, Fill!TypeOK, Fill!CloseFillAssumptions
<1>2. job' \in [at : {"both", "capped", "push", "rest"}, capped : BOOLEAN, pid : {0, opened}, since : Nat]
  BY <1>1
<1>3. cached' \in [id : 0 .. MaxPositions, fresh : BOOLEAN] /\ ~cached'.fresh
  BY <1>1 DEF Fill!FillInv
<1>4. QED
  BY <1>2, <1>3
     DEF Fill!FillInv, Fill!TypeOK, Fill!Job, Fill!BookedWithItsOwnClose,
         Fill!AtWork, Fill!NotYet

\* The close goes on: its order, its answer, the snapshot.
LEMMA JobKeeps ==
  ASSUME Fill!CloseFillAssumptions, Fill!FillInv, Fill!AtWork,
         job' = Fill!NoJob \/ job' \in Fill!Job,
         wire' \in Seq(1 .. MaxPositions), held' => held,
         UNCHANGED <<now, opened, listed, cached, booked, mixed>>
  PROVE  Fill!FillInv'
<1>1. Fill!AtWork' => job' \in Fill!Job
  BY DEF Fill!AtWork, Fill!NoJob
<1>2. job'.at \in {"none", "both", "capped", "push", "rest"} /\ job'.pid \in {0, opened}
  BY DEF Fill!NoJob, Fill!Job
<1>3. QED
  BY <1>1, <1>2
     DEF Fill!FillInv, Fill!TypeOK, Fill!Job, Fill!BookedWithItsOwnClose,
         Fill!AtWork, Fill!NotYet

\* The position is booked with its own close, with none, or is mixed.
LEMMA BookedKeeps ==
  ASSUME Fill!CloseFillAssumptions, Fill!FillInv, Fill!AtWork,
         NEW id \in 0 .. MaxPositions, Fill!Booked(id), mixed \subseteq mixed',
         id \in {0, opened} \/ opened \in mixed',
         cached' = cached \/ cached' = [cached EXCEPT !.fresh = FALSE],
         UNCHANGED <<now, opened, held, listed, wire>>
  PROVE  Fill!FillInv'
<1>1. opened \in 1 .. MaxPositions
  BY AtWorkFacts
<1>2. booked' = [booked EXCEPT ![opened] = id] /\ job' = Fill!NoJob
  BY DEF Fill!Booked, Fill!Mine
<1>3. cached' \in [id : 0 .. MaxPositions, fresh : BOOLEAN]
  BY DEF Fill!FillInv
<1>4. booked' \in [1 .. MaxPositions -> Fill!NotYet .. MaxPositions]
  BY <1>1, <1>2
     DEF Fill!FillInv, Fill!TypeOK, Fill!NotYet, Fill!CloseFillAssumptions
<1>5. Fill!BookedWithItsOwnClose'
  BY <1>1, <1>2 DEF Fill!FillInv, Fill!TypeOK, Fill!BookedWithItsOwnClose
<1>6. QED
  BY <1>1, <1>2, <1>3, <1>4, <1>5
     DEF Fill!FillInv, Fill!TypeOK, Fill!AtWork, Fill!NoJob

\* The steps of a close.
LEMMA CloseKeeps ==
  ASSUME Fill!CloseFillAssumptions, Fill!FillInv,
         \/ Fill!Close \/ Fill!CloseCapped \/ Fill!SnapshotTaken \/ Fill!OrderDone
         \/ Fill!OrderLeavesRest \/ Fill!OrderFails
         \/ Fill!PushTells \/ Fill!PushSilent \/ Fill!RestSilent
         \/ \E i \in 1 .. MaxPositions : Fill!RestTells(i)
  PROVE  Fill!FillInv'
<1> DEFINE Wire == wire' \in Seq(1 .. MaxPositions)
<1>1. /\ wire \in Seq(1 .. MaxPositions) /\ opened \in 0 .. MaxPositions
      /\ held => opened > 0
  BY DEF Fill!FillInv, Fill!TypeOK
<1>2. held /\ Fill!Vanishes => Wire /\ ~held'
  BY VanishesTyped
<1>3. CASE Fill!Close
  BY <1>1, <1>3, AskedKeeps DEF Fill!Close, Fill!Mine, Fill!exchange, Fill!result
<1>4. CASE Fill!CloseCapped
  BY <1>1, <1>4, AskedKeeps
     DEF Fill!CloseCapped, Fill!Mine, Fill!exchange, Fill!result
<1>5. CASE Fill!SnapshotTaken \/ Fill!OrderDone \/ Fill!OrderLeavesRest \/ Fill!PushSilent
  <2>1. Fill!AtWork
    BY <1>5
       DEF Fill!SnapshotTaken, Fill!OrderDone, Fill!OrderLeavesRest,
           Fill!PushSilent, Fill!AtWork, Fill!NoJob
  <2>2. job' \in Fill!Job
    BY <1>5, <2>1, AtWorkFacts
       DEF Fill!SnapshotTaken, Fill!OrderDone, Fill!OrderLeavesRest,
           Fill!PushSilent, Fill!Job, Fill!Mine
  <2>3. Wire /\ (held' => held) /\ UNCHANGED <<now, opened, listed, cached, booked, mixed>>
    BY <1>1, <1>2, <1>5
       DEF Fill!SnapshotTaken, Fill!OrderDone, Fill!OrderLeavesRest,
           Fill!PushSilent, Fill!exchange, Fill!stream, Fill!result, Fill!Vanishes
  <2>4. QED
    BY <2>1, <2>2, <2>3, JobKeeps
<1>6. CASE Fill!OrderFails
  <2>1. Fill!AtWork
    BY <1>6 DEF Fill!OrderFails, Fill!AtWork, Fill!NoJob
  <2>2. Wire /\ (held' => held) /\ UNCHANGED <<now, opened, listed, booked, mixed>>
    BY <1>1, <1>2, <1>6 DEF Fill!OrderFails, Fill!result, Fill!Vanishes
  <2>3. CASE job.capped
    <3>1. Fill!Asked("both", FALSE, 0)
      BY <1>6, <2>3 DEF Fill!OrderFails
    <3>2. opened > 0
      BY <2>1, AtWorkFacts
    <3>3. QED
      BY <2>2, <3>1, <3>2, AskedKeeps
  <2>4. CASE ~job.capped
    BY <1>6, <2>1, <2>2, <2>4, JobKeeps DEF Fill!OrderFails
  <2>5. QED
    BY <2>3, <2>4
<1>7. CASE Fill!PushTells
  <2>1. Fill!AtWork /\ cached.id \in 0 .. MaxPositions
    BY <1>7 DEF Fill!PushTells, Fill!AtWork, Fill!NoJob, Fill!FillInv, Fill!TypeOK
  <2>2. cached.id \in {0, opened} \/ opened \in mixed
    BY <1>7, <2>1 DEF Fill!PushTells, Fill!Counts, Fill!FillInv
  <2>3. QED
    BY <1>7, <2>1, <2>2, BookedKeeps DEF Fill!PushTells, Fill!exchange, Fill!stream
<1>8. ASSUME NEW i \in 1 .. MaxPositions, Fill!RestTells(i) PROVE Fill!FillInv'
  <2>1. Fill!AtWork
    BY <1>8 DEF Fill!RestTells, Fill!AtWork, Fill!NoJob
  <2>2. i = opened \/ opened \in mixed'
    BY <1>8, <2>1, AtWorkFacts DEF Fill!RestTells, Fill!Found, Fill!Mine
  <2>3. mixed \subseteq mixed'
    BY <1>8 DEF Fill!RestTells
  <2>4. QED
    BY <1>8, <2>1, <2>2, <2>3, BookedKeeps
       DEF Fill!RestTells, Fill!exchange, Fill!stream
<1>9. CASE Fill!RestSilent
  <2>1. Fill!AtWork /\ opened > 0
    BY <1>9, AtWorkFacts DEF Fill!RestSilent, Fill!AtWork, Fill!NoJob
  <2>2. UNCHANGED <<now, opened, held, listed, wire, mixed>> /\ Wire
    BY <1>1, <1>9 DEF Fill!RestSilent, Fill!exchange
  <2>3. CASE job.capped
    BY <1>9, <2>1, <2>2, <2>3, AskedKeeps DEF Fill!RestSilent
  <2>4. CASE ~job.capped /\ held
    BY <1>9, <2>1, <2>2, <2>4, JobKeeps DEF Fill!RestSilent
  <2>5. CASE ~job.capped /\ ~held
    <3>1. Fill!Booked(0) /\ cached' = cached /\ mixed' = mixed
      BY <1>9, <2>5 DEF Fill!RestSilent
    <3>2. 0 \in 0 .. MaxPositions
      BY DEF Fill!CloseFillAssumptions
    <3>3. QED
      BY <2>1, <2>2, <3>1, <3>2, BookedKeeps
  <2>6. QED
    BY <2>3, <2>4, <2>5
<1>10. QED
  BY <1>3, <1>4, <1>5, <1>6, <1>7, <1>8, <1>9

\* Every step keeps it.
LEMMA StepFillInv ==
  ASSUME Fill!CloseFillAssumptions, Fill!FillInv, [Fill!Next]_(Fill!vars)
  PROVE  Fill!FillInv'
<1>1. CASE UNCHANGED Fill!vars
  BY <1>1
     DEF Fill!vars, Fill!exchange, Fill!stream, Fill!result, Fill!FillInv,
         Fill!TypeOK, Fill!AtWork, Fill!Job, Fill!BookedWithItsOwnClose
<1>2. QED
  BY <1>1, ExchangeKeeps, StreamKeeps, CloseKeeps DEF Fill!Next

\* A position is booked with its own close or with none, for any number of
\* positions, closes and lost connections (_handle_close).
THEOREM OwnCloseAll ==
  ASSUME Fill!CloseFillAssumptions
  PROVE  Fill!Spec => []Fill!TypeOK /\ []Fill!BookedWithItsOwnClose
<1>1. Fill!FillInv => Fill!TypeOK /\ Fill!BookedWithItsOwnClose
  BY DEF Fill!FillInv
<1>2. QED
  BY <1>1, InitFillInv, StepFillInv, PTL DEF Fill!Spec

-----------------------------------------------------------------------------
(* Configuration.                                                          *)

\* The fields of a check.
LEMMA JobFields ==
  ASSUME NEW j \in Reload!Jobs
  PROVE  /\ j.who \in Consumers \cup {"boot", None} /\ j.at \in Reload!Places
         /\ j.todo \subseteq Pairs /\ j.seen \subseteq Pairs /\ j.file \in Pairs \cup {None}
         /\ j.mt \in 0 .. MaxEdits /\ j.got \in [Pairs -> Reload!Config \cup {None}]
         /\ j.calm \in BOOLEAN
BY DEF Reload!Jobs

\* No check, and one that begins.
LEMMA IdleIs ==
  ASSUME Reload!ReloadAssumptions
  PROVE  /\ Reload!Idle \in Reload!Jobs /\ Reload!Idle.who = None
         /\ Reload!Idle.at = "idle" /\ Reload!Idle.calm = TRUE /\ Reload!Idle.mt = 0
         /\ Reload!Idle.got = Reload!Nobody
BY DEF Reload!Idle, Reload!Jobs, Reload!Nobody, Reload!ReloadAssumptions,
   Reload!Places

\* ... a check that begins,
LEMMA BegunIs ==
  ASSUME Reload!ReloadAssumptions, NEW w \in Consumers \cup {"boot", None},
         NEW a \in Reload!Places
  PROVE  LET j == [Reload!Idle EXCEPT !.who = w, !.at = a]
         IN  /\ j \in Reload!Jobs /\ j.who = w /\ j.at = a /\ j.calm = TRUE /\ j.mt = 0
             /\ j.got = Reload!Nobody
<1>1. Reload!Idle \in Reload!Jobs /\ Reload!Idle.calm = TRUE /\ Reload!Idle.mt = 0 /\ Reload!Idle.got = Reload!Nobody
  BY IdleIs
<1>2. QED
  BY <1>1 DEF Reload!Jobs

\* ... and the one at boot.
LEMMA BootingIs ==
  ASSUME Reload!ReloadAssumptions
  PROVE  /\ Reload!Booting \in Reload!Jobs /\ Reload!Booting.who = "boot"
         /\ Reload!Booting.at = "readGlobal"
         /\ Reload!Booting.calm = TRUE /\ Reload!Booting.mt = 0
         /\ Reload!Booting.got = Reload!Nobody
<1>1. "boot" \in Consumers \cup {"boot", None} /\ "readGlobal" \in Reload!Places
  BY DEF Reload!Places
<1>2. QED
  BY <1>1, BegunIs DEF Reload!Booting

\* A pair is what its two edits are.
LEMMA ConfigIs ==
  ASSUME NEW c \in Reload!Config, NEW x, NEW y, c.own = x, c.base = y
  PROVE  c = [own |-> x, base |-> y]
BY DEF Reload!Config

\* An exception: boot starts anew, a reader goes on to build.
LEMMA RaiseIs ==
  ASSUME Reload!ReloadAssumptions, Reload!ReloadInv, Reload!Raise,
         job.at \notin Reload!Bulks \cup {"idle"}
  PROVE  /\ job' \in Reload!Jobs /\ job'.mt <= edits /\ job'.who = job.who
         /\ job'.got = Reload!Nobody
         /\ job'.who = "boot" => job'.at = "readGlobal" /\ job'.calm = TRUE
         /\ job'.who # "boot" => job'.at = "build" /\ job'.calm = job.calm
         /\ job'.who # None
<1>1. job \in Reload!Jobs /\ job.mt <= edits /\ job.got = Reload!Nobody /\ job.who # None /\ edits \in 0 .. MaxEdits
  BY DEF Reload!ReloadInv, Reload!ReloadTyped, Reload!TypeOK
<1>2. CASE job.who = "boot"
  <2>1. job' = Reload!Booting
    BY <1>2 DEF Reload!Raise
  <2>2. QED
    <3>1. "boot" # None /\ 0 <= edits
      BY <1>1 DEF Reload!ReloadAssumptions
    <3>2. /\ job' \in Reload!Jobs /\ job'.who = "boot" /\ job'.at = "readGlobal"
          /\ job'.calm = TRUE /\ job'.mt = 0 /\ job'.got = Reload!Nobody
      BY <2>1, BootingIs
    <3>3. QED
      BY <1>2, <3>1, <3>2
<1>3. CASE job.who # "boot"
  <2>1. job' = [job EXCEPT !.at = "build"]
    BY <1>3 DEF Reload!Raise
  <2>2. QED
    BY <1>1, <1>3, <2>1 DEF Reload!Jobs, Reload!Places
<1>4. QED
  BY <1>2, <1>3

\* At boot nothing is loaded and no reader has rebuilt.
LEMMA InitReloadInv == ASSUME Reload!ReloadAssumptions, Reload!Init PROVE Reload!ReloadInv
<1> USE DEF Reload!ReloadAssumptions
<1>1. /\ job \in Reload!Jobs /\ job.who = "boot" /\ job.at = "readGlobal" /\ job.calm = TRUE
      /\ job.mt = 0 /\ job.got = Reload!Nobody
  BY BootingIs DEF Reload!Init
<1>2. Reload!Nobody \in [Pairs -> Reload!Config \cup {None}]
  BY DEF Reload!Nobody
<1>3. Reload!ReloadTyped
  <2>1. Reload!TypeOK
    <3>1. disk \in [Reload!Files -> 0 .. MaxEdits] /\ mtime \in [Reload!Files -> 0 .. MaxEdits]
      BY DEF Reload!Init
    <3>2. view \in [Consumers -> [Pairs -> Reload!Config \cup {None}]] /\ pairs = Reload!Nobody
      BY <1>2 DEF Reload!Init
    <3>3. fault \in [Reload!Files -> {"fine", "refused", "unreadable"}]
      BY DEF Reload!Init
    <3>4. glob \in 0 .. MaxEdits /\ base0 \in 0 .. MaxEdits
      BY DEF Reload!Init
    <3>5. slipped \subseteq Reload!Files /\ clean \in BOOLEAN /\ upto \subseteq Consumers
      BY DEF Reload!Init
    <3>6. QED
      BY <1>1, <1>2, <3>1, <3>2, <3>3, <3>4, <3>5 DEF Reload!TypeOK
  <2>2. \A f \in Reload!Files : disk[f] \in {0, 1} /\ mtime[f] = 0 /\ fault[f] = "fine"
    BY DEF Reload!Init
  <2>3. QED
    BY <1>1, <2>1, <2>2
       DEF Reload!ReloadTyped, Reload!Init, Reload!Bulks, Reload!Walks
<1>4. QED
  BY <1>1, <1>3
     DEF Reload!ReloadInv, Reload!LoaderInv, Reload!Loaded, Reload!CalmInv,
         Reload!ViewFollowsFiles, Reload!Walks, Reload!Bulks, Reload!Files,
         Reload!Init

\* An edit of a file, at whatever place the check is.
LEMMA EditsKeeps ==
  ASSUME Reload!ReloadAssumptions, Reload!ReloadInv, NEW f \in Reload!Files,
         Reload!Delete(f) \/ Reload!Chmod(f) \/ \E k \in {"fine", "refused", "unreadable"} : Reload!Save(f, k)
  PROVE  Reload!ReloadInv'
<1>1. /\ Reload!Edited /\ job' \in Reload!Jobs /\ ~job'.calm
      /\ job'.who = job.who /\ job'.at = job.at /\ job'.todo = job.todo
      /\ job'.file = job.file /\ job'.mt = job.mt /\ job'.got = job.got
  <2>1. Reload!Edited
    BY DEF Reload!Delete, Reload!Chmod, Reload!Save
  <2>2. job' = [job EXCEPT !.calm = FALSE] /\ job \in Reload!Jobs
    BY <2>1 DEF Reload!Edited, Reload!ReloadInv, Reload!ReloadTyped, Reload!TypeOK
  <2>3. QED
    BY <2>1, <2>2 DEF Reload!Jobs
<1>2. job \in Reload!Jobs
  BY DEF Reload!ReloadInv, Reload!ReloadTyped, Reload!TypeOK
<1> USE DEF Reload!Places, Reload!Walks, Reload!Bulks, Reload!At, Reload!Step,
   Reload!files, Reload!loader, Reload!readers, Reload!marks, Reload!Delete,
   Reload!Chmod, Reload!Save, Reload!Edited
<1>3. Reload!ReloadTyped'
  <2>1. edits' \in 0 .. MaxEdits /\ edits' = edits + 1 /\ edits \in Nat
    BY <1>1
       DEF Reload!ReloadInv, Reload!ReloadTyped, Reload!TypeOK,
           Reload!ReloadAssumptions
  <2>2. /\ disk' \in [Reload!Files -> 0 .. MaxEdits] /\ \A h \in Reload!Files : disk'[h] <= edits' /\ (disk'[h] = 0 => fault'[h] = "fine")
        /\ fault' \in [Reload!Files -> {"fine", "refused", "unreadable"}]
    <3>1. CASE Reload!Delete(f)
      BY <3>1, <2>1
         DEF Reload!ReloadInv, Reload!ReloadTyped, Reload!TypeOK,
             Reload!ReloadAssumptions
    <3>2. CASE Reload!Chmod(f)
      BY <3>2, <2>1
         DEF Reload!ReloadInv, Reload!ReloadTyped, Reload!TypeOK,
             Reload!ReloadAssumptions
    <3>3. ASSUME NEW k \in {"fine", "refused", "unreadable"}, Reload!Save(f, k)
          PROVE  /\ disk' \in [Reload!Files -> 0 .. MaxEdits] /\ \A h \in Reload!Files : disk'[h] <= edits' /\ (disk'[h] = 0 => fault'[h] = "fine")
                 /\ fault' \in [Reload!Files -> {"fine", "refused", "unreadable"}]
      BY <3>3, <2>1
         DEF Reload!ReloadInv, Reload!ReloadTyped, Reload!TypeOK,
             Reload!ReloadAssumptions
    <3>4. QED
      BY <3>1, <3>2, <3>3
  <2>3. \A h \in Reload!Files : mtime'[h] <= edits'
    BY <1>1, <2>1 DEF Reload!ReloadInv, Reload!ReloadTyped, Reload!TypeOK
  <2>4. QED
    <3>1. Reload!TypeOK'
      BY <1>1, <2>2
         DEF Reload!ReloadInv, Reload!ReloadTyped, Reload!TypeOK, Reload!Edited
    <3>2. upto' = {} /\ job'.mt <= edits'
      BY <1>1, <1>2, <2>1, JobFields
         DEF Reload!ReloadInv, Reload!ReloadTyped, Reload!Edited,
             Reload!ReloadAssumptions
    <3>3. QED
      BY <1>1, <2>1, <2>2, <2>3, <3>1, <3>2 DEF Reload!ReloadInv, Reload!ReloadTyped
<1>4. Reload!LoaderInv'
  BY <1>1, <1>2, JobFields
     DEF Reload!ReloadInv, Reload!ReloadTyped, Reload!TypeOK, Reload!LoaderInv,
         Reload!Loaded, Reload!AsOnDisk, Reload!Listed, Reload!Readable,
         Reload!Files, Reload!ReloadAssumptions
<1>5. job'.calm => Reload!CalmInv'
  BY <1>1, <1>2, JobFields
     DEF Reload!ReloadInv, Reload!ReloadTyped, Reload!TypeOK, Reload!CalmInv,
         Reload!Listed, Reload!Readable, Reload!Files, Reload!ReloadAssumptions
<1>6. clean' => Reload!CleanInv'
  BY <1>1, <1>2, JobFields
     DEF Reload!ReloadInv, Reload!ReloadTyped, Reload!TypeOK, Reload!CalmInv,
         Reload!CleanInv, Reload!Listed, Reload!Readable, Reload!Files,
         Reload!ReloadAssumptions
<1>7. (upto' # {} => clean') /\ Reload!ViewFollowsFiles'
  BY <1>1, <1>2, JobFields
     DEF Reload!ReloadInv, Reload!ReloadTyped, Reload!TypeOK, Reload!CleanInv,
         Reload!LoaderInv, Reload!Loaded, Reload!AsOnDisk, Reload!ViewFollowsFiles,
         Reload!Asked, Reload!Readable, Reload!Files, Reload!ReloadAssumptions
<1>8. QED
  BY <1>3, <1>4, <1>5, <1>6, <1>7 DEF Reload!ReloadInv

\* A reader asks for a check.
LEMMA BeginsKeeps ==
  ASSUME Reload!ReloadAssumptions, Reload!ReloadInv, NEW c \in Consumers,
         Reload!BeginCheck(c) \/ Reload!WithinTtl(c)
  PROVE  Reload!ReloadInv'
<1>1. /\ job' \in Reload!Jobs /\ job'.who = c /\ job'.calm = TRUE /\ job'.mt = 0
      /\ job'.got = Reload!Nobody
      /\ job'.at \in {"global", "build"}
  <2>1. CASE Reload!BeginCheck(c)
    <3>1. "global" \in Reload!Places /\ job' = [Reload!Idle EXCEPT !.who = c, !.at = "global"]
      BY <2>1 DEF Reload!BeginCheck, Reload!Step, Reload!Places
    <3>2. c \in Consumers \cup {"boot", None}
      OBVIOUS
    <3>3. QED
      BY <3>1, <3>2, BegunIs
  <2>2. CASE Reload!WithinTtl(c)
    <3>1. "build" \in Reload!Places /\ job' = [Reload!Idle EXCEPT !.who = c, !.at = "build"]
      BY <2>2 DEF Reload!WithinTtl, Reload!Step, Reload!Places
    <3>2. c \in Consumers \cup {"boot", None}
      OBVIOUS
    <3>3. QED
      BY <3>1, <3>2, BegunIs
  <2>3. QED
    BY <2>1, <2>2
<1>2. job \in Reload!Jobs
  BY DEF Reload!ReloadInv, Reload!ReloadTyped, Reload!TypeOK
<1> USE DEF Reload!Places, Reload!Walks, Reload!Bulks, Reload!At, Reload!Step,
   Reload!files, Reload!loader, Reload!readers, Reload!marks, Reload!BeginCheck,
   Reload!WithinTtl
<1>3. Reload!ReloadTyped'
  BY <1>1, <1>2, JobFields
     DEF Reload!ReloadInv, Reload!ReloadTyped, Reload!TypeOK, Reload!Listed,
         Reload!Readable, Reload!Files, Reload!Config, Reload!ReloadAssumptions
<1>4. Reload!LoaderInv'
  BY <1>1, <1>2, JobFields
     DEF Reload!ReloadInv, Reload!ReloadTyped, Reload!TypeOK, Reload!LoaderInv,
         Reload!Loaded, Reload!AsOnDisk, Reload!Listed, Reload!Readable,
         Reload!Files, Reload!ReloadAssumptions
<1>5. job'.calm => Reload!CalmInv'
  BY <1>1, <1>2, JobFields
     DEF Reload!ReloadInv, Reload!ReloadTyped, Reload!TypeOK, Reload!CalmInv,
         Reload!Listed, Reload!Readable, Reload!Files, Reload!ReloadAssumptions
<1>6. clean' => Reload!CleanInv'
  BY <1>1, <1>2, JobFields
     DEF Reload!ReloadInv, Reload!ReloadTyped, Reload!TypeOK, Reload!CalmInv,
         Reload!CleanInv, Reload!Listed, Reload!Readable, Reload!Files,
         Reload!ReloadAssumptions
<1>7. (upto' # {} => clean') /\ Reload!ViewFollowsFiles'
  BY <1>1, <1>2, JobFields
     DEF Reload!ReloadInv, Reload!ReloadTyped, Reload!TypeOK, Reload!CleanInv,
         Reload!LoaderInv, Reload!Loaded, Reload!AsOnDisk, Reload!ViewFollowsFiles,
         Reload!Asked, Reload!Readable, Reload!Files, Reload!ReloadAssumptions
<1>8. QED
  BY <1>3, <1>4, <1>5, <1>6, <1>7 DEF Reload!ReloadInv

\* The check looks at global.yaml.
LEMMA CheckGlobalKeeps ==
  ASSUME Reload!ReloadAssumptions, Reload!ReloadInv, Reload!CheckGlobal
  PROVE  Reload!ReloadInv'
<1>1. /\ job' \in Reload!Jobs
      /\ job'.who = job.who /\ job'.mt = job.mt /\ job'.calm = job.calm
      /\ job'.got = job.got /\ job'.file = job.file
      /\ IF disk[Global] # 0 /\ disk[Global] # mtime[Global]
           THEN job'.at = "readGlobal"
           ELSE job'.at = "walk" /\ job'.todo = Reload!Listed /\ job'.seen = Reload!Listed
  BY JobFields
     DEF Reload!ReloadInv, Reload!ReloadTyped, Reload!TypeOK, Reload!Step,
         Reload!At, Reload!Jobs, Reload!Places, Reload!Walks, Reload!Bulks,
         Reload!Listed, Reload!ReloadAssumptions, Reload!CheckGlobal, Reload!Changed
<1>2. job \in Reload!Jobs
  BY DEF Reload!ReloadInv, Reload!ReloadTyped, Reload!TypeOK
<1> USE DEF Reload!Places, Reload!Walks, Reload!Bulks, Reload!At, Reload!Step,
   Reload!files, Reload!loader, Reload!readers, Reload!marks, Reload!CheckGlobal,
   Reload!Changed
<1>3. Reload!ReloadTyped'
  BY <1>1, <1>2, JobFields
     DEF Reload!ReloadInv, Reload!ReloadTyped, Reload!TypeOK, Reload!Listed,
         Reload!Readable, Reload!Files, Reload!Config, Reload!ReloadAssumptions
<1>4. Reload!LoaderInv'
  BY <1>1, <1>2, JobFields
     DEF Reload!ReloadInv, Reload!ReloadTyped, Reload!TypeOK, Reload!LoaderInv,
         Reload!Loaded, Reload!AsOnDisk, Reload!Listed, Reload!Readable,
         Reload!Files, Reload!ReloadAssumptions
<1>5. job'.calm => Reload!CalmInv'
  BY <1>1, <1>2, JobFields
     DEF Reload!ReloadInv, Reload!ReloadTyped, Reload!TypeOK, Reload!CalmInv,
         Reload!Listed, Reload!Readable, Reload!Files, Reload!ReloadAssumptions
<1>6. clean' => Reload!CleanInv'
  BY <1>1, <1>2, JobFields
     DEF Reload!ReloadInv, Reload!ReloadTyped, Reload!TypeOK, Reload!CalmInv,
         Reload!CleanInv, Reload!Listed, Reload!Readable, Reload!Files,
         Reload!ReloadAssumptions
<1>7. (upto' # {} => clean') /\ Reload!ViewFollowsFiles'
  BY <1>1, <1>2, JobFields
     DEF Reload!ReloadInv, Reload!ReloadTyped, Reload!TypeOK, Reload!CleanInv,
         Reload!LoaderInv, Reload!Loaded, Reload!AsOnDisk, Reload!ViewFollowsFiles,
         Reload!Asked, Reload!Readable, Reload!Files, Reload!ReloadAssumptions
<1>8. QED
  BY <1>3, <1>4, <1>5, <1>6, <1>7 DEF Reload!ReloadInv

\* The defaults are gone: every pair is read anew.
LEMMA NoGlobalKeeps ==
  ASSUME Reload!ReloadAssumptions, Reload!ReloadInv, Reload!ReadGlobal, disk[Global] = 0
  PROVE  Reload!ReloadInv'
<1>1. /\ job' \in Reload!Jobs /\ glob' = 0
      /\ job'.who = job.who /\ job'.mt = job.mt /\ job'.calm = job.calm
      /\ job'.got = job.got /\ job'.file = job.file
      /\ job'.at = "bulk" /\ job'.todo = Reload!Listed
  <2>1. job' = Reload!AllPairs /\ glob' = 0 /\ job \in Reload!Jobs
    BY DEF Reload!ReadGlobal, Reload!ReloadInv, Reload!ReloadTyped, Reload!TypeOK,
       Reload!Files
  <2>2. QED
    BY <2>1
       DEF Reload!AllPairs, Reload!Jobs, Reload!Places, Reload!Bulks, Reload!Listed
<1>2. job \in Reload!Jobs
  BY DEF Reload!ReloadInv, Reload!ReloadTyped, Reload!TypeOK
<1> USE DEF Reload!Places, Reload!Walks, Reload!Bulks, Reload!At, Reload!Step,
   Reload!files, Reload!loader, Reload!readers, Reload!marks, Reload!ReadGlobal,
   Reload!Nobody
<1>3. Reload!ReloadTyped'
  BY <1>1, <1>2, JobFields
     DEF Reload!ReloadInv, Reload!ReloadTyped, Reload!TypeOK, Reload!Listed,
         Reload!Readable, Reload!Files, Reload!Config, Reload!ReloadAssumptions
<1>4. Reload!LoaderInv'
  BY <1>1, <1>2, JobFields
     DEF Reload!ReloadInv, Reload!ReloadTyped, Reload!TypeOK, Reload!LoaderInv,
         Reload!Loaded, Reload!AsOnDisk, Reload!Listed, Reload!Readable,
         Reload!Files, Reload!ReloadAssumptions
<1>5. job'.calm => Reload!CalmInv'
  BY <1>1, <1>2, JobFields
     DEF Reload!ReloadInv, Reload!ReloadTyped, Reload!TypeOK, Reload!CalmInv,
         Reload!Listed, Reload!Readable, Reload!Files, Reload!ReloadAssumptions
<1>6. clean' => Reload!CleanInv'
  BY <1>1, <1>2, JobFields
     DEF Reload!ReloadInv, Reload!ReloadTyped, Reload!TypeOK, Reload!CalmInv,
         Reload!CleanInv, Reload!Listed, Reload!Readable, Reload!Files,
         Reload!ReloadAssumptions
<1>7. (upto' # {} => clean') /\ Reload!ViewFollowsFiles'
  BY <1>1, <1>2, JobFields
     DEF Reload!ReloadInv, Reload!ReloadTyped, Reload!TypeOK, Reload!CleanInv,
         Reload!LoaderInv, Reload!Loaded, Reload!AsOnDisk, Reload!ViewFollowsFiles,
         Reload!Asked, Reload!Readable, Reload!Files, Reload!ReloadAssumptions
<1>8. QED
  BY <1>3, <1>4, <1>5, <1>6, <1>7 DEF Reload!ReloadInv

\* The defaults cannot be read or are refused.
LEMMA BadGlobalKeeps ==
  ASSUME Reload!ReloadAssumptions, Reload!ReloadInv, Reload!ReadGlobal, disk[Global] # 0,
         fault[Global] # "fine"
  PROVE  Reload!ReloadInv'
<1>1. /\ job' \in Reload!Jobs /\ job'.mt <= edits /\ job'.who = job.who
      /\ job'.got = Reload!Nobody
      /\ job'.who = "boot" => job'.at = "readGlobal" /\ job'.calm = TRUE
      /\ job'.who # "boot" => job'.at = "build" /\ job'.calm = job.calm
      /\ job'.who # None
      /\ glob' = glob \/ glob' = disk[Global]
  <2>1. Reload!Raise /\ (glob' = glob \/ glob' = disk[Global])
    BY DEF Reload!ReadGlobal, Reload!ReloadInv, Reload!ReloadTyped, Reload!TypeOK,
       Reload!Files
  <2>2. QED
    BY <2>1, RaiseIs DEF Reload!ReadGlobal, Reload!At, Reload!Bulks
<1>2. job \in Reload!Jobs
  BY DEF Reload!ReloadInv, Reload!ReloadTyped, Reload!TypeOK
<1> USE DEF Reload!Places, Reload!Walks, Reload!Bulks, Reload!At, Reload!Step,
   Reload!files, Reload!loader, Reload!readers, Reload!marks, Reload!ReadGlobal
<1>3. Reload!ReloadTyped'
  BY <1>1, <1>2, JobFields
     DEF Reload!ReloadInv, Reload!ReloadTyped, Reload!TypeOK, Reload!Listed,
         Reload!Readable, Reload!Files, Reload!Config, Reload!ReloadAssumptions
<1>4. Reload!LoaderInv'
  BY <1>1, <1>2, JobFields
     DEF Reload!ReloadInv, Reload!ReloadTyped, Reload!TypeOK, Reload!LoaderInv,
         Reload!Loaded, Reload!AsOnDisk, Reload!Listed, Reload!Readable,
         Reload!Files, Reload!ReloadAssumptions
<1>5. job'.calm => Reload!CalmInv'
  BY <1>1, <1>2, JobFields
     DEF Reload!ReloadInv, Reload!ReloadTyped, Reload!TypeOK, Reload!CalmInv,
         Reload!Listed, Reload!Readable, Reload!Files, Reload!ReloadAssumptions
<1>6. clean' => Reload!CleanInv'
  BY <1>1, <1>2, JobFields
     DEF Reload!ReloadInv, Reload!ReloadTyped, Reload!TypeOK, Reload!CalmInv,
         Reload!CleanInv, Reload!Listed, Reload!Readable, Reload!Files,
         Reload!ReloadAssumptions
<1>7. (upto' # {} => clean') /\ Reload!ViewFollowsFiles'
  BY <1>1, <1>2, JobFields
     DEF Reload!ReloadInv, Reload!ReloadTyped, Reload!TypeOK, Reload!CleanInv,
         Reload!LoaderInv, Reload!Loaded, Reload!AsOnDisk, Reload!ViewFollowsFiles,
         Reload!Asked, Reload!Readable, Reload!Files, Reload!ReloadAssumptions
<1>8. QED
  BY <1>3, <1>4, <1>5, <1>6, <1>7 DEF Reload!ReloadInv

\* The defaults are read.
LEMMA GoodGlobalKeeps ==
  ASSUME Reload!ReloadAssumptions, Reload!ReloadInv, Reload!ReadGlobal, disk[Global] # 0,
         fault[Global] = "fine"
  PROVE  Reload!ReloadInv'
<1>1. /\ job' \in Reload!Jobs /\ glob' = disk[Global]
      /\ job'.who = job.who /\ job'.mt = job.mt /\ job'.calm = job.calm
      /\ job'.got = job.got /\ job'.file = job.file
      /\ job'.at = "statGlobal"
  <2>1. job' = [job EXCEPT !.at = "statGlobal"] /\ glob' = disk[Global] /\ job \in Reload!Jobs
    BY DEF Reload!ReadGlobal, Reload!ReloadInv, Reload!ReloadTyped, Reload!TypeOK
  <2>2. QED
    BY <2>1 DEF Reload!Jobs, Reload!Places
<1>2. job \in Reload!Jobs
  BY DEF Reload!ReloadInv, Reload!ReloadTyped, Reload!TypeOK
<1> USE DEF Reload!Places, Reload!Walks, Reload!Bulks, Reload!At, Reload!Step,
   Reload!files, Reload!loader, Reload!readers, Reload!marks, Reload!ReadGlobal
<1>3. Reload!ReloadTyped'
  BY <1>1, <1>2, JobFields
     DEF Reload!ReloadInv, Reload!ReloadTyped, Reload!TypeOK, Reload!Listed,
         Reload!Readable, Reload!Files, Reload!Config, Reload!ReloadAssumptions
<1>4. Reload!LoaderInv'
  BY <1>1, <1>2, JobFields
     DEF Reload!ReloadInv, Reload!ReloadTyped, Reload!TypeOK, Reload!LoaderInv,
         Reload!Loaded, Reload!AsOnDisk, Reload!Listed, Reload!Readable,
         Reload!Files, Reload!ReloadAssumptions
<1>5. job'.calm => Reload!CalmInv'
  BY <1>1, <1>2, JobFields
     DEF Reload!ReloadInv, Reload!ReloadTyped, Reload!TypeOK, Reload!CalmInv,
         Reload!Listed, Reload!Readable, Reload!Files, Reload!ReloadAssumptions
<1>6. clean' => Reload!CleanInv'
  BY <1>1, <1>2, JobFields
     DEF Reload!ReloadInv, Reload!ReloadTyped, Reload!TypeOK, Reload!CalmInv,
         Reload!CleanInv, Reload!Listed, Reload!Readable, Reload!Files,
         Reload!ReloadAssumptions
<1>7. (upto' # {} => clean') /\ Reload!ViewFollowsFiles'
  BY <1>1, <1>2, JobFields
     DEF Reload!ReloadInv, Reload!ReloadTyped, Reload!TypeOK, Reload!CleanInv,
         Reload!LoaderInv, Reload!Loaded, Reload!AsOnDisk, Reload!ViewFollowsFiles,
         Reload!Asked, Reload!Readable, Reload!Files, Reload!ReloadAssumptions
<1>8. QED
  BY <1>3, <1>4, <1>5, <1>6, <1>7 DEF Reload!ReloadInv

\* The defaults are gone when their mtime is asked for.
LEMMA LostGlobalKeeps ==
  ASSUME Reload!ReloadAssumptions, Reload!ReloadInv, Reload!StatGlobal, disk[Global] = 0
  PROVE  Reload!ReloadInv'
<1>1. /\ job' \in Reload!Jobs /\ job'.mt <= edits /\ job'.who = job.who
      /\ job'.got = Reload!Nobody
      /\ job'.who = "boot" => job'.at = "readGlobal" /\ job'.calm = TRUE
      /\ job'.who # "boot" => job'.at = "build" /\ job'.calm = job.calm
      /\ job'.who # None
  <2>1. Reload!Raise
    BY DEF Reload!StatGlobal
  <2>2. QED
    BY <2>1, RaiseIs DEF Reload!StatGlobal, Reload!At, Reload!Bulks
<1>2. job \in Reload!Jobs
  BY DEF Reload!ReloadInv, Reload!ReloadTyped, Reload!TypeOK
<1> USE DEF Reload!Places, Reload!Walks, Reload!Bulks, Reload!At, Reload!Step,
   Reload!files, Reload!loader, Reload!readers, Reload!marks, Reload!StatGlobal
<1>3. Reload!ReloadTyped'
  BY <1>1, <1>2, JobFields
     DEF Reload!ReloadInv, Reload!ReloadTyped, Reload!TypeOK, Reload!Listed,
         Reload!Readable, Reload!Files, Reload!Config, Reload!ReloadAssumptions
<1>4. Reload!LoaderInv'
  BY <1>1, <1>2, JobFields
     DEF Reload!ReloadInv, Reload!ReloadTyped, Reload!TypeOK, Reload!LoaderInv,
         Reload!Loaded, Reload!AsOnDisk, Reload!Listed, Reload!Readable,
         Reload!Files, Reload!ReloadAssumptions
<1>5. job'.calm => Reload!CalmInv'
  BY <1>1, <1>2, JobFields
     DEF Reload!ReloadInv, Reload!ReloadTyped, Reload!TypeOK, Reload!CalmInv,
         Reload!Listed, Reload!Readable, Reload!Files, Reload!ReloadAssumptions
<1>6. clean' => Reload!CleanInv'
  BY <1>1, <1>2, JobFields
     DEF Reload!ReloadInv, Reload!ReloadTyped, Reload!TypeOK, Reload!CalmInv,
         Reload!CleanInv, Reload!Listed, Reload!Readable, Reload!Files,
         Reload!ReloadAssumptions
<1>7. (upto' # {} => clean') /\ Reload!ViewFollowsFiles'
  BY <1>1, <1>2, JobFields
     DEF Reload!ReloadInv, Reload!ReloadTyped, Reload!TypeOK, Reload!CleanInv,
         Reload!LoaderInv, Reload!Loaded, Reload!AsOnDisk, Reload!ViewFollowsFiles,
         Reload!Asked, Reload!Readable, Reload!Files, Reload!ReloadAssumptions
<1>8. QED
  BY <1>3, <1>4, <1>5, <1>6, <1>7 DEF Reload!ReloadInv

\* The mtime of the defaults is taken, after they were read.
LEMMA StatGlobalKeeps ==
  ASSUME Reload!ReloadAssumptions, Reload!ReloadInv, Reload!StatGlobal, disk[Global] # 0
  PROVE  Reload!ReloadInv'
<1>1. /\ job' \in Reload!Jobs
      /\ job'.who = job.who /\ job'.mt = job.mt /\ job'.calm = job.calm
      /\ job'.got = job.got /\ job'.file = job.file
      /\ job'.at = "bulk" /\ job'.todo = Reload!Listed
  <2>1. job' = Reload!AllPairs /\ job \in Reload!Jobs
    BY DEF Reload!StatGlobal, Reload!ReloadInv, Reload!ReloadTyped, Reload!TypeOK
  <2>2. QED
    BY <2>1
       DEF Reload!AllPairs, Reload!Jobs, Reload!Places, Reload!Bulks, Reload!Listed
<1>2. job \in Reload!Jobs
  BY DEF Reload!ReloadInv, Reload!ReloadTyped, Reload!TypeOK
<1> USE DEF Reload!Places, Reload!Walks, Reload!Bulks, Reload!At, Reload!Step,
   Reload!files, Reload!loader, Reload!readers, Reload!marks, Reload!StatGlobal,
   Reload!Nobody
<1>3. Reload!ReloadTyped'
  BY <1>1, <1>2, JobFields
     DEF Reload!ReloadInv, Reload!ReloadTyped, Reload!TypeOK, Reload!Listed,
         Reload!Readable, Reload!Files, Reload!Config, Reload!ReloadAssumptions
<1>4. Reload!LoaderInv'
  BY <1>1, <1>2, JobFields
     DEF Reload!ReloadInv, Reload!ReloadTyped, Reload!TypeOK, Reload!LoaderInv,
         Reload!Loaded, Reload!AsOnDisk, Reload!Listed, Reload!Readable,
         Reload!Files, Reload!ReloadAssumptions
<1>5. job'.calm => Reload!CalmInv'
  BY <1>1, <1>2, JobFields
     DEF Reload!ReloadInv, Reload!ReloadTyped, Reload!TypeOK, Reload!CalmInv,
         Reload!Listed, Reload!Readable, Reload!Files, Reload!ReloadAssumptions
<1>6. clean' => Reload!CleanInv'
  BY <1>1, <1>2, JobFields
     DEF Reload!ReloadInv, Reload!ReloadTyped, Reload!TypeOK, Reload!CalmInv,
         Reload!CleanInv, Reload!Listed, Reload!Readable, Reload!Files,
         Reload!ReloadAssumptions
<1>7. (upto' # {} => clean') /\ Reload!ViewFollowsFiles'
  BY <1>1, <1>2, JobFields
     DEF Reload!ReloadInv, Reload!ReloadTyped, Reload!TypeOK, Reload!CleanInv,
         Reload!LoaderInv, Reload!Loaded, Reload!AsOnDisk, Reload!ViewFollowsFiles,
         Reload!Asked, Reload!Readable, Reload!Files, Reload!ReloadAssumptions
<1>8. QED
  BY <1>3, <1>4, <1>5, <1>6, <1>7 DEF Reload!ReloadInv

\* The check of all pairs reads a file.
LEMMA BulkReadsKeeps ==
  ASSUME Reload!ReloadAssumptions, Reload!ReloadInv, NEW p \in Pairs, Reload!BulkRead(p),
         Reload!Readable(p)
  PROVE  Reload!ReloadInv'
<1>1. /\ job' \in Reload!Jobs
      /\ job'.who = job.who /\ job'.mt = job.mt /\ job'.calm = job.calm
      /\ job'.todo = job.todo
      /\ job'.at = "bulkStat" /\ job'.file = p
      /\ job'.got = [job.got EXCEPT ![p] = Reload!Parsed(p)]
      /\ Reload!Parsed(p) \in Reload!Config
  <2>1. job' = [job EXCEPT !.at = "bulkStat", !.file = p, !.got[p] = Reload!Parsed(p)] /\ job \in Reload!Jobs
    BY DEF Reload!BulkRead, Reload!Step, Reload!ReloadInv, Reload!ReloadTyped,
       Reload!TypeOK
  <2>2. Reload!Parsed(p) \in Reload!Config
    BY DEF Reload!Parsed, Reload!Config, Reload!ReloadInv, Reload!ReloadTyped,
       Reload!TypeOK, Reload!Files
  <2>3. QED
    BY <2>1, <2>2 DEF Reload!Jobs, Reload!Places, Reload!Bulks
<1>2. job \in Reload!Jobs
  BY DEF Reload!ReloadInv, Reload!ReloadTyped, Reload!TypeOK
<1> USE DEF Reload!Places, Reload!Walks, Reload!Bulks, Reload!At, Reload!Step,
   Reload!files, Reload!loader, Reload!readers, Reload!marks, Reload!BulkRead,
   Reload!Parsed
<1>3. Reload!ReloadTyped'
  BY <1>1, <1>2, JobFields
     DEF Reload!ReloadInv, Reload!ReloadTyped, Reload!TypeOK, Reload!Listed,
         Reload!Readable, Reload!Files, Reload!Config, Reload!ReloadAssumptions
<1>4. Reload!LoaderInv'
  BY <1>1, <1>2, JobFields
     DEF Reload!ReloadInv, Reload!ReloadTyped, Reload!TypeOK, Reload!LoaderInv,
         Reload!Loaded, Reload!AsOnDisk, Reload!Listed, Reload!Readable,
         Reload!Files, Reload!ReloadAssumptions
<1>5. job'.calm => Reload!CalmInv'
  BY <1>1, <1>2, JobFields
     DEF Reload!ReloadInv, Reload!ReloadTyped, Reload!TypeOK, Reload!CalmInv,
         Reload!Listed, Reload!Readable, Reload!Files, Reload!ReloadAssumptions
<1>6. clean' => Reload!CleanInv'
  BY <1>1, <1>2, JobFields
     DEF Reload!ReloadInv, Reload!ReloadTyped, Reload!TypeOK, Reload!CalmInv,
         Reload!CleanInv, Reload!Listed, Reload!Readable, Reload!Files,
         Reload!ReloadAssumptions
<1>7. (upto' # {} => clean') /\ Reload!ViewFollowsFiles'
  BY <1>1, <1>2, JobFields
     DEF Reload!ReloadInv, Reload!ReloadTyped, Reload!TypeOK, Reload!CleanInv,
         Reload!LoaderInv, Reload!Loaded, Reload!AsOnDisk, Reload!ViewFollowsFiles,
         Reload!Asked, Reload!Readable, Reload!Files, Reload!ReloadAssumptions
<1>8. QED
  BY <1>3, <1>4, <1>5, <1>6, <1>7 DEF Reload!ReloadInv

\* A file it cannot read loses its pair.
LEMMA BulkSkipsKeeps ==
  ASSUME Reload!ReloadAssumptions, Reload!ReloadInv, NEW p \in Pairs, Reload!BulkRead(p),
         ~Reload!Readable(p)
  PROVE  Reload!ReloadInv'
<1>1. /\ job' \in Reload!Jobs
      /\ job'.who = job.who /\ job'.mt = job.mt /\ job'.calm = job.calm
      /\ job'.at = job.at /\ job'.got = job.got /\ job'.file = job.file
      /\ job'.todo = job.todo \ {p}
  <2>1. job' = [job EXCEPT !.todo = @ \ {p}] /\ job \in Reload!Jobs
    BY DEF Reload!BulkRead, Reload!Step, Reload!ReloadInv, Reload!ReloadTyped,
       Reload!TypeOK
  <2>3. QED
    BY <2>1 DEF Reload!Jobs
<1>2. job \in Reload!Jobs
  BY DEF Reload!ReloadInv, Reload!ReloadTyped, Reload!TypeOK
<1> USE DEF Reload!Places, Reload!Walks, Reload!Bulks, Reload!At, Reload!Step,
   Reload!files, Reload!loader, Reload!readers, Reload!marks, Reload!BulkRead
<1>3. Reload!ReloadTyped'
  BY <1>1, <1>2, JobFields
     DEF Reload!ReloadInv, Reload!ReloadTyped, Reload!TypeOK, Reload!Listed,
         Reload!Readable, Reload!Files, Reload!Config, Reload!ReloadAssumptions
<1>4. Reload!LoaderInv'
  BY <1>1, <1>2, JobFields
     DEF Reload!ReloadInv, Reload!ReloadTyped, Reload!TypeOK, Reload!LoaderInv,
         Reload!Loaded, Reload!AsOnDisk, Reload!Listed, Reload!Readable,
         Reload!Files, Reload!ReloadAssumptions
<1>5. job'.calm => Reload!CalmInv'
  BY <1>1, <1>2, JobFields
     DEF Reload!ReloadInv, Reload!ReloadTyped, Reload!TypeOK, Reload!CalmInv,
         Reload!Listed, Reload!Readable, Reload!Files, Reload!ReloadAssumptions
<1>6. clean' => Reload!CleanInv'
  BY <1>1, <1>2, JobFields
     DEF Reload!ReloadInv, Reload!ReloadTyped, Reload!TypeOK, Reload!CalmInv,
         Reload!CleanInv, Reload!Listed, Reload!Readable, Reload!Files,
         Reload!ReloadAssumptions
<1>7. (upto' # {} => clean') /\ Reload!ViewFollowsFiles'
  BY <1>1, <1>2, JobFields
     DEF Reload!ReloadInv, Reload!ReloadTyped, Reload!TypeOK, Reload!CleanInv,
         Reload!LoaderInv, Reload!Loaded, Reload!AsOnDisk, Reload!ViewFollowsFiles,
         Reload!Asked, Reload!Readable, Reload!Files, Reload!ReloadAssumptions
<1>8. QED
  BY <1>3, <1>4, <1>5, <1>6, <1>7 DEF Reload!ReloadInv

\* It takes the mtime of the file, after it was read.
LEMMA BulkStatKeeps ==
  ASSUME Reload!ReloadAssumptions, Reload!ReloadInv, Reload!BulkStat
  PROVE  Reload!ReloadInv'
<1>1. /\ job' \in Reload!Jobs
      /\ job'.who = job.who /\ job'.mt = job.mt /\ job'.calm = job.calm
      /\ job'.got = job.got
      /\ job'.at = "bulk" /\ job'.todo = job.todo \ {job.file} /\ job'.file = None
      /\ job.file \in Pairs
  <2>1. /\ job' = [job EXCEPT !.at = "bulk", !.todo = @ \ {job.file}, !.file = None]
        /\ job \in Reload!Jobs /\ job.file \in job.todo
    BY DEF Reload!BulkStat, Reload!Step, Reload!At, Reload!ReloadInv,
       Reload!ReloadTyped, Reload!TypeOK
  <2>2. QED
    BY <2>1 DEF Reload!Jobs, Reload!Places, Reload!Bulks
<1>2. job \in Reload!Jobs
  BY DEF Reload!ReloadInv, Reload!ReloadTyped, Reload!TypeOK
<1> USE DEF Reload!Places, Reload!Walks, Reload!Bulks, Reload!At, Reload!Step,
   Reload!files, Reload!loader, Reload!readers, Reload!marks, Reload!BulkStat
<1>3. Reload!ReloadTyped'
  <2>1. mtime' \in [Reload!Files -> 0 .. MaxEdits] /\ \A f \in Reload!Files : mtime'[f] <= edits
    BY <1>1 DEF Reload!ReloadInv, Reload!ReloadTyped, Reload!TypeOK, Reload!Files
  <2>2. slipped' \subseteq Reload!Files
    BY <1>1 DEF Reload!ReloadInv, Reload!ReloadTyped, Reload!TypeOK, Reload!Files
  <2>3. Reload!TypeOK'
    BY <1>1, <2>1, <2>2 DEF Reload!ReloadInv, Reload!ReloadTyped, Reload!TypeOK
  <2>4. QED
    BY <1>1, <1>2, <2>1, <2>3 DEF Reload!ReloadInv, Reload!ReloadTyped
<1>4. Reload!LoaderInv'
  <2>1. PICK q \in Pairs : q = job.file
    BY <1>1
  <2>2. job.got[q] \in Reload!Config /\ job.got[q].base = glob
    BY <1>1, <1>2, <2>1, JobFields DEF Reload!ReloadInv, Reload!LoaderInv
  <2>3. Reload!Loaded(Global)' => Reload!Loaded(Global) /\ glob = disk[Global]
    BY <1>1
       DEF Reload!ReloadInv, Reload!ReloadTyped, Reload!TypeOK, Reload!LoaderInv,
           Reload!Loaded, Reload!Files, Reload!ReloadAssumptions
  <2>4. Reload!Loaded(q)' => job.got[q].own = disk[q]
    BY <2>1
       DEF Reload!ReloadInv, Reload!ReloadTyped, Reload!TypeOK, Reload!Loaded,
           Reload!Files
  <2>5. \A p \in Pairs \ {q} : Reload!Loaded(p)' => Reload!Loaded(p)
    BY <2>1
       DEF Reload!ReloadInv, Reload!ReloadTyped, Reload!TypeOK, Reload!Loaded,
           Reload!Files
  <2>6. Reload!Loaded(Global)' /\ Reload!Loaded(q)' => job.got[q] = Reload!AsOnDisk(q)
    BY <2>2, <2>3, <2>4, ConfigIs DEF Reload!AsOnDisk
  <2>7. \A p \in Pairs : Reload!AsOnDisk(p)' = Reload!AsOnDisk(p)
    BY DEF Reload!AsOnDisk
  <2>8. ASSUME NEW p \in Pairs, p \notin job'.todo, Reload!Loaded(Global)',
               Reload!Loaded(p)'
        PROVE  job'.got[p] = Reload!AsOnDisk(p)
    <3>1. CASE p = q
      BY <1>1, <2>6, <2>8, <3>1
    <3>2. CASE p # q
      <4>1. p \in Pairs \ job.todo /\ Reload!Loaded(p) /\ Reload!Loaded(Global)
        BY <1>1, <2>1, <2>3, <2>5, <2>8, <3>2
      <4>2. job.got[p] = Reload!AsOnDisk(p)
        BY <4>1 DEF Reload!ReloadInv, Reload!LoaderInv
      <4>3. QED
        BY <1>1, <4>2
    <3>3. QED
      BY <3>1, <3>2
  <2>9. QED
    BY <1>1, <2>3, <2>7, <2>8 DEF Reload!LoaderInv
<1>5. job'.calm => Reload!CalmInv'
  BY <1>1, <1>2, JobFields
     DEF Reload!ReloadInv, Reload!ReloadTyped, Reload!TypeOK, Reload!CalmInv,
         Reload!Listed, Reload!Readable, Reload!Files, Reload!ReloadAssumptions
<1>6. clean' => Reload!CleanInv'
  BY <1>1, <1>2, JobFields
     DEF Reload!ReloadInv, Reload!ReloadTyped, Reload!TypeOK, Reload!CalmInv,
         Reload!CleanInv, Reload!Listed, Reload!Readable, Reload!Files,
         Reload!ReloadAssumptions
<1>7. (upto' # {} => clean') /\ Reload!ViewFollowsFiles'
  BY <1>1, <1>2, JobFields
     DEF Reload!ReloadInv, Reload!ReloadTyped, Reload!TypeOK, Reload!CleanInv,
         Reload!LoaderInv, Reload!Loaded, Reload!AsOnDisk, Reload!ViewFollowsFiles,
         Reload!Asked, Reload!Readable, Reload!Files, Reload!ReloadAssumptions
<1>8. QED
  BY <1>3, <1>4, <1>5, <1>6, <1>7 DEF Reload!ReloadInv

\* All pairs are read.
LEMMA BulkEndKeeps ==
  ASSUME Reload!ReloadAssumptions, Reload!ReloadInv, Reload!BulkEnd
  PROVE  Reload!ReloadInv'
<1>1. /\ job' \in Reload!Jobs
      /\ job'.who = job.who /\ job'.mt = job.mt /\ job'.calm = job.calm
      /\ job'.todo = job.todo /\ job'.file = job.file /\ job'.got = Reload!Nobody
      /\ job'.at = IF job.who = "boot" THEN "boot" ELSE "build"
  <2>1. job' = Reload!Ended /\ job \in Reload!Jobs /\ Reload!At("bulk")
    BY DEF Reload!BulkEnd, Reload!ReloadInv, Reload!ReloadTyped, Reload!TypeOK
  <2>2. Reload!Nobody \in [Pairs -> Reload!Config \cup {None}]
    BY DEF Reload!Nobody
  <2>3. QED
    BY <2>1, <2>2 DEF Reload!Ended, Reload!Jobs, Reload!Places
<1>2. job \in Reload!Jobs
  BY DEF Reload!ReloadInv, Reload!ReloadTyped, Reload!TypeOK
<1> USE DEF Reload!Places, Reload!Walks, Reload!Bulks, Reload!At, Reload!Step,
   Reload!files, Reload!loader, Reload!readers, Reload!marks, Reload!BulkEnd
<1>3. Reload!ReloadTyped'
  BY <1>1, <1>2, JobFields
     DEF Reload!ReloadInv, Reload!ReloadTyped, Reload!TypeOK, Reload!Listed,
         Reload!Readable, Reload!Files, Reload!Config, Reload!ReloadAssumptions
<1>4. Reload!LoaderInv'
  BY <1>1, <1>2, JobFields
     DEF Reload!ReloadInv, Reload!ReloadTyped, Reload!TypeOK, Reload!LoaderInv,
         Reload!Loaded, Reload!AsOnDisk, Reload!Listed, Reload!Readable,
         Reload!Files, Reload!ReloadAssumptions
<1>5. job'.calm => Reload!CalmInv'
  BY <1>1, <1>2, JobFields
     DEF Reload!ReloadInv, Reload!ReloadTyped, Reload!TypeOK, Reload!CalmInv,
         Reload!Listed, Reload!Readable, Reload!Files, Reload!ReloadAssumptions
<1>6. clean' => Reload!CleanInv'
  BY <1>1, <1>2, JobFields
     DEF Reload!ReloadInv, Reload!ReloadTyped, Reload!TypeOK, Reload!CalmInv,
         Reload!CleanInv, Reload!Listed, Reload!Readable, Reload!Files,
         Reload!ReloadAssumptions
<1>7. (upto' # {} => clean') /\ Reload!ViewFollowsFiles'
  BY <1>1, <1>2, JobFields
     DEF Reload!ReloadInv, Reload!ReloadTyped, Reload!TypeOK, Reload!CleanInv,
         Reload!LoaderInv, Reload!Loaded, Reload!AsOnDisk, Reload!ViewFollowsFiles,
         Reload!Asked, Reload!Readable, Reload!Files, Reload!ReloadAssumptions
<1>8. QED
  BY <1>3, <1>4, <1>5, <1>6, <1>7 DEF Reload!ReloadInv

\* The walk finds a file gone.
LEMMA WalkRaisesKeeps ==
  ASSUME Reload!ReloadAssumptions, Reload!ReloadInv, NEW p \in Pairs, Reload!WalkStat(p),
         disk[p] = 0
  PROVE  Reload!ReloadInv'
<1>1. /\ job' \in Reload!Jobs /\ job'.mt <= edits /\ job'.who = job.who
      /\ job'.got = Reload!Nobody
      /\ job'.who = "boot" => job'.at = "readGlobal" /\ job'.calm = TRUE
      /\ job'.who # "boot" => job'.at = "build" /\ job'.calm = job.calm
      /\ job'.who # None
  <2>1. Reload!Raise
    BY DEF Reload!WalkStat
  <2>2. QED
    BY <2>1, RaiseIs DEF Reload!WalkStat, Reload!At, Reload!Bulks
<1>2. job \in Reload!Jobs
  BY DEF Reload!ReloadInv, Reload!ReloadTyped, Reload!TypeOK
<1> USE DEF Reload!Places, Reload!Walks, Reload!Bulks, Reload!At, Reload!Step,
   Reload!files, Reload!loader, Reload!readers, Reload!marks, Reload!WalkStat
<1>3. Reload!ReloadTyped'
  BY <1>1, <1>2, JobFields
     DEF Reload!ReloadInv, Reload!ReloadTyped, Reload!TypeOK, Reload!Listed,
         Reload!Readable, Reload!Files, Reload!Config, Reload!ReloadAssumptions
<1>4. Reload!LoaderInv'
  BY <1>1, <1>2, JobFields
     DEF Reload!ReloadInv, Reload!ReloadTyped, Reload!TypeOK, Reload!LoaderInv,
         Reload!Loaded, Reload!AsOnDisk, Reload!Listed, Reload!Readable,
         Reload!Files, Reload!ReloadAssumptions
<1>5. job'.calm => Reload!CalmInv'
  BY <1>1, <1>2, JobFields
     DEF Reload!ReloadInv, Reload!ReloadTyped, Reload!TypeOK, Reload!CalmInv,
         Reload!Listed, Reload!Readable, Reload!Files, Reload!ReloadAssumptions
<1>6. clean' => Reload!CleanInv'
  BY <1>1, <1>2, JobFields
     DEF Reload!ReloadInv, Reload!ReloadTyped, Reload!TypeOK, Reload!CalmInv,
         Reload!CleanInv, Reload!Listed, Reload!Readable, Reload!Files,
         Reload!ReloadAssumptions
<1>7. (upto' # {} => clean') /\ Reload!ViewFollowsFiles'
  BY <1>1, <1>2, JobFields
     DEF Reload!ReloadInv, Reload!ReloadTyped, Reload!TypeOK, Reload!CleanInv,
         Reload!LoaderInv, Reload!Loaded, Reload!AsOnDisk, Reload!ViewFollowsFiles,
         Reload!Asked, Reload!Readable, Reload!Files, Reload!ReloadAssumptions
<1>8. QED
  BY <1>3, <1>4, <1>5, <1>6, <1>7 DEF Reload!ReloadInv

\* It finds a file that changed.
LEMMA WalkFindsKeeps ==
  ASSUME Reload!ReloadAssumptions, Reload!ReloadInv, NEW p \in Pairs, Reload!WalkStat(p),
         disk[p] # 0, Reload!Changed(p)
  PROVE  Reload!ReloadInv'
<1>1. /\ job' \in Reload!Jobs
      /\ job'.who = job.who /\ job'.todo = job.todo /\ job'.calm = job.calm
      /\ job'.got = job.got /\ job'.seen = job.seen
      /\ job'.at = "walkRead" /\ job'.file = p /\ job'.mt = disk[p]
  <2>1. job' = [job EXCEPT !.at = "walkRead", !.file = p, !.mt = disk[p]] /\ job \in Reload!Jobs
    BY DEF Reload!WalkStat, Reload!ReloadInv, Reload!ReloadTyped, Reload!TypeOK
  <2>2. disk[p] \in 0 .. MaxEdits
    BY DEF Reload!ReloadInv, Reload!ReloadTyped, Reload!TypeOK, Reload!Files
  <2>3. QED
    BY <2>1, <2>2 DEF Reload!Jobs, Reload!Places, Reload!Walks
<1>2. job \in Reload!Jobs
  BY DEF Reload!ReloadInv, Reload!ReloadTyped, Reload!TypeOK
<1> USE DEF Reload!Places, Reload!Walks, Reload!Bulks, Reload!At, Reload!Step,
   Reload!files, Reload!loader, Reload!readers, Reload!marks, Reload!WalkStat,
   Reload!Changed
<1>3. Reload!ReloadTyped'
  BY <1>1, <1>2, JobFields
     DEF Reload!ReloadInv, Reload!ReloadTyped, Reload!TypeOK, Reload!Listed,
         Reload!Readable, Reload!Files, Reload!Config, Reload!ReloadAssumptions
<1>4. Reload!LoaderInv'
  BY <1>1, <1>2, JobFields
     DEF Reload!ReloadInv, Reload!ReloadTyped, Reload!TypeOK, Reload!LoaderInv,
         Reload!Loaded, Reload!AsOnDisk, Reload!Listed, Reload!Readable,
         Reload!Files, Reload!ReloadAssumptions
<1>5. job'.calm => Reload!CalmInv'
  BY <1>1, <1>2, JobFields
     DEF Reload!ReloadInv, Reload!ReloadTyped, Reload!TypeOK, Reload!CalmInv,
         Reload!Listed, Reload!Readable, Reload!Files, Reload!ReloadAssumptions
<1>6. clean' => Reload!CleanInv'
  BY <1>1, <1>2, JobFields
     DEF Reload!ReloadInv, Reload!ReloadTyped, Reload!TypeOK, Reload!CalmInv,
         Reload!CleanInv, Reload!Listed, Reload!Readable, Reload!Files,
         Reload!ReloadAssumptions
<1>7. (upto' # {} => clean') /\ Reload!ViewFollowsFiles'
  BY <1>1, <1>2, JobFields
     DEF Reload!ReloadInv, Reload!ReloadTyped, Reload!TypeOK, Reload!CleanInv,
         Reload!LoaderInv, Reload!Loaded, Reload!AsOnDisk, Reload!ViewFollowsFiles,
         Reload!Asked, Reload!Readable, Reload!Files, Reload!ReloadAssumptions
<1>8. QED
  BY <1>3, <1>4, <1>5, <1>6, <1>7 DEF Reload!ReloadInv

\* It finds a file as it was.
LEMMA WalkPassesKeeps ==
  ASSUME Reload!ReloadAssumptions, Reload!ReloadInv, NEW p \in Pairs, Reload!WalkStat(p),
         disk[p] # 0, ~Reload!Changed(p)
  PROVE  Reload!ReloadInv'
<1>1. /\ job' \in Reload!Jobs
      /\ job'.who = job.who /\ job'.at = job.at /\ job'.mt = job.mt
      /\ job'.file = job.file /\ job'.calm = job.calm /\ job'.got = job.got
      /\ job'.seen = job.seen
      /\ job'.todo = job.todo \ {p}
  <2>1. job' = [job EXCEPT !.todo = @ \ {p}] /\ job \in Reload!Jobs
    BY DEF Reload!WalkStat, Reload!ReloadInv, Reload!ReloadTyped, Reload!TypeOK
  <2>2. QED
    BY <2>1 DEF Reload!Jobs
<1>2. job \in Reload!Jobs
  BY DEF Reload!ReloadInv, Reload!ReloadTyped, Reload!TypeOK
<1> USE DEF Reload!Places, Reload!Walks, Reload!Bulks, Reload!At, Reload!Step,
   Reload!files, Reload!loader, Reload!readers, Reload!marks, Reload!WalkStat,
   Reload!Changed
<1>3. Reload!ReloadTyped'
  BY <1>1, <1>2, JobFields
     DEF Reload!ReloadInv, Reload!ReloadTyped, Reload!TypeOK, Reload!Listed,
         Reload!Readable, Reload!Files, Reload!Config, Reload!ReloadAssumptions
<1>4. Reload!LoaderInv'
  BY <1>1, <1>2, JobFields
     DEF Reload!ReloadInv, Reload!ReloadTyped, Reload!TypeOK, Reload!LoaderInv,
         Reload!Loaded, Reload!AsOnDisk, Reload!Listed, Reload!Readable,
         Reload!Files, Reload!ReloadAssumptions
<1>5. job'.calm => Reload!CalmInv'
  BY <1>1, <1>2, JobFields
     DEF Reload!ReloadInv, Reload!ReloadTyped, Reload!TypeOK, Reload!CalmInv,
         Reload!Listed, Reload!Readable, Reload!Files, Reload!ReloadAssumptions
<1>6. clean' => Reload!CleanInv'
  BY <1>1, <1>2, JobFields
     DEF Reload!ReloadInv, Reload!ReloadTyped, Reload!TypeOK, Reload!CalmInv,
         Reload!CleanInv, Reload!Listed, Reload!Readable, Reload!Files,
         Reload!ReloadAssumptions
<1>7. (upto' # {} => clean') /\ Reload!ViewFollowsFiles'
  BY <1>1, <1>2, JobFields
     DEF Reload!ReloadInv, Reload!ReloadTyped, Reload!TypeOK, Reload!CleanInv,
         Reload!LoaderInv, Reload!Loaded, Reload!AsOnDisk, Reload!ViewFollowsFiles,
         Reload!Asked, Reload!Readable, Reload!Files, Reload!ReloadAssumptions
<1>8. QED
  BY <1>3, <1>4, <1>5, <1>6, <1>7 DEF Reload!ReloadInv

\* It reads the file.
LEMMA WalkReadKeeps ==
  ASSUME Reload!ReloadAssumptions, Reload!ReloadInv, Reload!WalkRead
  PROVE  Reload!ReloadInv'
<1>1. /\ job' \in Reload!Jobs
      /\ job'.who = job.who /\ job'.calm = job.calm /\ job'.got = job.got
      /\ job'.seen = job.seen
      /\ job'.at = "walk" /\ job'.todo = job.todo \ {job.file}
      /\ job'.mt = 0 /\ job.file \in Pairs
  <2>1. /\ job' = [job EXCEPT !.at = "walk", !.todo = @ \ {job.file}, !.file = None, !.mt = 0]
        /\ job \in Reload!Jobs /\ job.file \in job.todo
    BY DEF Reload!WalkRead, Reload!Step, Reload!At, Reload!ReloadInv,
       Reload!ReloadTyped, Reload!TypeOK
  <2>2. 0 \in 0 .. MaxEdits
    BY DEF Reload!ReloadAssumptions
  <2>3. QED
    BY <2>1, <2>2 DEF Reload!Jobs, Reload!Places, Reload!Walks
<1>2. job \in Reload!Jobs
  BY DEF Reload!ReloadInv, Reload!ReloadTyped, Reload!TypeOK
<1> USE DEF Reload!Places, Reload!Walks, Reload!Bulks, Reload!At, Reload!Step,
   Reload!files, Reload!loader, Reload!readers, Reload!marks, Reload!WalkRead,
   Reload!Parsed
<1>3. Reload!ReloadTyped'
  BY <1>1, <1>2, JobFields
     DEF Reload!ReloadInv, Reload!ReloadTyped, Reload!TypeOK, Reload!Listed,
         Reload!Readable, Reload!Files, Reload!Config, Reload!ReloadAssumptions
<1>4. Reload!LoaderInv'
  BY <1>1, <1>2, JobFields
     DEF Reload!ReloadInv, Reload!ReloadTyped, Reload!TypeOK, Reload!LoaderInv,
         Reload!Loaded, Reload!AsOnDisk, Reload!Listed, Reload!Readable,
         Reload!Files, Reload!ReloadAssumptions
<1>5. job'.calm => Reload!CalmInv'
  BY <1>1, <1>2, JobFields
     DEF Reload!ReloadInv, Reload!ReloadTyped, Reload!TypeOK, Reload!CalmInv,
         Reload!Listed, Reload!Readable, Reload!Files, Reload!ReloadAssumptions
<1>6. clean' => Reload!CleanInv'
  BY <1>1, <1>2, JobFields
     DEF Reload!ReloadInv, Reload!ReloadTyped, Reload!TypeOK, Reload!CalmInv,
         Reload!CleanInv, Reload!Listed, Reload!Readable, Reload!Files,
         Reload!ReloadAssumptions
<1>7. (upto' # {} => clean') /\ Reload!ViewFollowsFiles'
  <2>1. /\ UNCHANGED <<disk, fault, view, base0, clean, upto>>
        /\ slipped' = slipped \/ (Reload!Readable(job.file) /\ slipped' = slipped \ {job.file})
    BY <1>1
  <2>2. CASE slipped' = slipped
    BY <2>1, <2>2
       DEF Reload!ReloadInv, Reload!ViewFollowsFiles, Reload!Asked, Reload!Readable
  <2>3. CASE Reload!Readable(job.file)
    <3>1. ~clean
      <4> SUFFICES ASSUME clean
                   PROVE  FALSE
        OBVIOUS
      <4>1. Reload!CleanInv /\ Reload!CalmInv
        BY DEF Reload!ReloadInv, Reload!CleanInv
      <4>2. QED
        BY <1>1, <2>3, <4>1 DEF Reload!CleanInv, Reload!CalmInv
    <3>2. upto' = {} /\ upto = {}
      BY <2>1, <3>1 DEF Reload!ReloadInv
    <3>3. QED
      BY <3>2 DEF Reload!ViewFollowsFiles
  <2>4. QED
    BY <2>1, <2>2, <2>3
<1>8. QED
  BY <1>3, <1>4, <1>5, <1>6, <1>7 DEF Reload!ReloadInv

\* The walk is over.
LEMMA WalkEndKeeps ==
  ASSUME Reload!ReloadAssumptions, Reload!ReloadInv, Reload!WalkEnd
  PROVE  Reload!ReloadInv'
<1>1. /\ job' \in Reload!Jobs
      /\ job'.who = job.who /\ job'.mt = job.mt /\ job'.calm = job.calm
      /\ job'.todo = job.todo /\ job'.file = job.file /\ job'.got = Reload!Nobody
      /\ job'.at = IF job.who = "boot" THEN "boot" ELSE "build"
  <2>1. job' = Reload!Ended /\ job \in Reload!Jobs /\ Reload!At("walk")
    BY DEF Reload!WalkEnd, Reload!ReloadInv, Reload!ReloadTyped, Reload!TypeOK
  <2>2. Reload!Nobody \in [Pairs -> Reload!Config \cup {None}]
    BY DEF Reload!Nobody
  <2>3. QED
    BY <2>1, <2>2 DEF Reload!Ended, Reload!Jobs, Reload!Places
<1>2. job \in Reload!Jobs
  BY DEF Reload!ReloadInv, Reload!ReloadTyped, Reload!TypeOK
<1> USE DEF Reload!Places, Reload!Walks, Reload!Bulks, Reload!At, Reload!Step,
   Reload!files, Reload!loader, Reload!readers, Reload!marks, Reload!WalkEnd,
   Reload!Removed
<1>3. Reload!ReloadTyped'
  BY <1>1, <1>2, JobFields
     DEF Reload!ReloadInv, Reload!ReloadTyped, Reload!TypeOK, Reload!Listed,
         Reload!Readable, Reload!Files, Reload!Config, Reload!ReloadAssumptions
<1>4. Reload!LoaderInv'
  BY <1>1, <1>2, JobFields
     DEF Reload!ReloadInv, Reload!ReloadTyped, Reload!TypeOK, Reload!LoaderInv,
         Reload!Loaded, Reload!AsOnDisk, Reload!Listed, Reload!Readable,
         Reload!Files, Reload!ReloadAssumptions
<1>5. job'.calm => Reload!CalmInv'
  BY <1>1, <1>2, JobFields
     DEF Reload!ReloadInv, Reload!ReloadTyped, Reload!TypeOK, Reload!CalmInv,
         Reload!Listed, Reload!Readable, Reload!Files, Reload!ReloadAssumptions
<1>6. clean' => Reload!CleanInv'
  BY <1>1, <1>2, JobFields
     DEF Reload!ReloadInv, Reload!ReloadTyped, Reload!TypeOK, Reload!CalmInv,
         Reload!CleanInv, Reload!Listed, Reload!Readable, Reload!Files,
         Reload!ReloadAssumptions
<1>7. (upto' # {} => clean') /\ Reload!ViewFollowsFiles'
  BY <1>1, <1>2, JobFields
     DEF Reload!ReloadInv, Reload!ReloadTyped, Reload!TypeOK, Reload!CleanInv,
         Reload!LoaderInv, Reload!Loaded, Reload!AsOnDisk, Reload!ViewFollowsFiles,
         Reload!Asked, Reload!Readable, Reload!Files, Reload!ReloadAssumptions
<1>8. QED
  BY <1>3, <1>4, <1>5, <1>6, <1>7 DEF Reload!ReloadInv

\* A reader rebuilds.
LEMMA BuildKeeps ==
  ASSUME Reload!ReloadAssumptions, Reload!ReloadInv, Reload!Build
  PROVE  Reload!ReloadInv'
<1>1. /\ job' \in Reload!Jobs /\ job'.who = None /\ job'.at = "idle" /\ job'.calm = TRUE
      /\ job'.mt = 0 /\ job'.got = Reload!Nobody
  BY IdleIs DEF Reload!Build
<1>2. job \in Reload!Jobs
  BY DEF Reload!ReloadInv, Reload!ReloadTyped, Reload!TypeOK
<1> USE DEF Reload!Places, Reload!Walks, Reload!Bulks, Reload!At, Reload!Step,
   Reload!files, Reload!loader, Reload!readers, Reload!marks, Reload!Build,
   Reload!Seen
<1>3. Reload!ReloadTyped'
  BY <1>1, <1>2, JobFields
     DEF Reload!ReloadInv, Reload!ReloadTyped, Reload!TypeOK, Reload!Listed,
         Reload!Readable, Reload!Files, Reload!Config, Reload!ReloadAssumptions
<1>4. Reload!LoaderInv'
  BY <1>1, <1>2, JobFields
     DEF Reload!ReloadInv, Reload!ReloadTyped, Reload!TypeOK, Reload!LoaderInv,
         Reload!Loaded, Reload!AsOnDisk, Reload!Listed, Reload!Readable,
         Reload!Files, Reload!ReloadAssumptions
<1>5. job'.calm => Reload!CalmInv'
  BY <1>1, <1>2, JobFields
     DEF Reload!ReloadInv, Reload!ReloadTyped, Reload!TypeOK, Reload!CalmInv,
         Reload!Listed, Reload!Readable, Reload!Files, Reload!ReloadAssumptions
<1>6. clean' => Reload!CleanInv'
  BY <1>1, <1>2, JobFields
     DEF Reload!ReloadInv, Reload!ReloadTyped, Reload!TypeOK, Reload!CalmInv,
         Reload!CleanInv, Reload!Listed, Reload!Readable, Reload!Files,
         Reload!ReloadAssumptions
<1>7. (upto' # {} => clean') /\ Reload!ViewFollowsFiles'
  <2> DEFINE who == job.who
  <2>1. who \in Consumers /\ UNCHANGED <<disk, fault, slipped, base0, glob, pairs, clean, mtime>>
    BY <1>1, <1>2, JobFields
       DEF Reload!ReloadInv, Reload!ReloadTyped, Reload!ReloadAssumptions,
           Reload!Build
  <2>2. view' = [view EXCEPT ![who] = [p \in Pairs |-> Reload!Seen(who, p)]]
    BY DEF Reload!Build
  <2>3. upto' = IF clean THEN upto \cup {who} ELSE upto
    BY DEF Reload!Build
  <2>4. \A c \in Consumers \ {who} : view'[c] = view[c]
    BY <2>1, <2>2 DEF Reload!ReloadInv, Reload!ReloadTyped, Reload!TypeOK
  <2>5. \A p \in Pairs : view'[who][p] = Reload!Seen(who, p)
    BY <2>1, <2>2 DEF Reload!ReloadInv, Reload!ReloadTyped, Reload!TypeOK
  <2> HIDE DEF who
  <2>6. ASSUME clean, NEW p \in Pairs, Reload!Readable(Global),
               disk[p] # 0 => Reload!Readable(p),
               slipped \cap {Global, p} = {}
        PROVE  Reload!Seen(who, p) = Reload!Asked(who, p)
    <3>1. Reload!CleanInv /\ Reload!LoaderInv
      BY <2>6 DEF Reload!ReloadInv
    <3>2. Reload!Loaded(Global) /\ glob = disk[Global]
      BY <2>6, <3>1
         DEF Reload!CleanInv, Reload!LoaderInv, Reload!Loaded, Reload!Readable
    <3>3. CASE disk[p] # 0
      <4>1. Reload!Loaded(p)
        BY <2>6, <3>1, <3>3 DEF Reload!CleanInv, Reload!Loaded
      <4>2. pairs[p] = Reload!AsOnDisk(p) /\ job.at \notin Reload!Bulks
        BY <3>1, <3>2, <4>1 DEF Reload!CleanInv, Reload!LoaderInv
      <4>3. Reload!AsOnDisk(p) \in Reload!Config
        BY DEF Reload!AsOnDisk, Reload!Config, Reload!ReloadInv, Reload!ReloadTyped,
           Reload!TypeOK, Reload!Files
      <4>4. QED
        BY <3>3, <4>2, <4>3
           DEF Reload!Seen, Reload!Asked, Reload!AsOnDisk, Reload!ReloadAssumptions
    <3>4. CASE disk[p] = 0
      BY <3>1, <3>2, <3>4 DEF Reload!CleanInv, Reload!Seen, Reload!Asked
    <3>5. QED
      BY <3>3, <3>4
  <2>7. upto' # {} => clean'
    BY <2>1, <2>3 DEF Reload!ReloadInv
  <2>8. Reload!ViewFollowsFiles'
    <3> SUFFICES ASSUME NEW c \in upto', NEW p \in Pairs, Reload!Readable(Global)', disk'[p] # 0 => Reload!Readable(p)',
                        slipped' \cap {Global, p} = {}
                 PROVE  view'[c][p] = Reload!Asked(c, p)'
      BY DEF Reload!ViewFollowsFiles
    <3>1. Reload!Readable(Global) /\ (disk[p] # 0 => Reload!Readable(p)) /\ slipped \cap {Global, p} = {}
      BY <2>1 DEF Reload!Readable
    <3>2. Reload!Asked(c, p)' = Reload!Asked(c, p)
      BY <2>1 DEF Reload!Asked
    <3>3. clean
      BY <2>3 DEF Reload!ReloadInv
    <3>4. CASE c = who
      BY <2>5, <2>6, <3>1, <3>2, <3>3, <3>4
    <3>5. CASE c # who
      <4>1. c \in upto /\ c \in Consumers
        BY <2>3, <3>5 DEF Reload!ReloadInv, Reload!ReloadTyped, Reload!TypeOK
      <4>2. view[c][p] = Reload!Asked(c, p)
        BY <3>1, <4>1 DEF Reload!ReloadInv, Reload!ViewFollowsFiles
      <4>3. QED
        BY <2>4, <3>2, <3>5, <4>1, <4>2
    <3>6. QED
      BY <3>4, <3>5
  <2>9. QED
    BY <2>7, <2>8
<1>8. QED
  BY <1>3, <1>4, <1>5, <1>6, <1>7 DEF Reload!ReloadInv

\* Boot is over.
LEMMA BootKeeps ==
  ASSUME Reload!ReloadAssumptions, Reload!ReloadInv, Reload!Boot
  PROVE  Reload!ReloadInv'
<1>1. /\ job' \in Reload!Jobs /\ job'.who = None /\ job'.at = "idle" /\ job'.calm = TRUE
      /\ job'.mt = 0 /\ job'.got = Reload!Nobody
  BY IdleIs DEF Reload!Boot
<1>2. job \in Reload!Jobs
  BY DEF Reload!ReloadInv, Reload!ReloadTyped, Reload!TypeOK
<1> USE DEF Reload!Places, Reload!Walks, Reload!Bulks, Reload!At, Reload!Step,
   Reload!files, Reload!loader, Reload!readers, Reload!marks, Reload!Boot
<1>3. Reload!ReloadTyped'
  BY <1>1, <1>2, JobFields
     DEF Reload!ReloadInv, Reload!ReloadTyped, Reload!TypeOK, Reload!Listed,
         Reload!Readable, Reload!Files, Reload!Config, Reload!ReloadAssumptions
<1>4. Reload!LoaderInv'
  BY <1>1, <1>2, JobFields
     DEF Reload!ReloadInv, Reload!ReloadTyped, Reload!TypeOK, Reload!LoaderInv,
         Reload!Loaded, Reload!AsOnDisk, Reload!Listed, Reload!Readable,
         Reload!Files, Reload!ReloadAssumptions
<1>5. job'.calm => Reload!CalmInv'
  BY <1>1, <1>2, JobFields
     DEF Reload!ReloadInv, Reload!ReloadTyped, Reload!TypeOK, Reload!CalmInv,
         Reload!Listed, Reload!Readable, Reload!Files, Reload!ReloadAssumptions
<1>6. clean' => Reload!CleanInv'
  BY <1>1, <1>2, JobFields
     DEF Reload!ReloadInv, Reload!ReloadTyped, Reload!TypeOK, Reload!CalmInv,
         Reload!CleanInv, Reload!Listed, Reload!Readable, Reload!Files,
         Reload!ReloadAssumptions
<1>7. (upto' # {} => clean') /\ Reload!ViewFollowsFiles'
  BY <1>1, <1>2, JobFields
     DEF Reload!ReloadInv, Reload!ReloadTyped, Reload!TypeOK, Reload!CleanInv,
         Reload!LoaderInv, Reload!Loaded, Reload!AsOnDisk, Reload!ViewFollowsFiles,
         Reload!Asked, Reload!Readable, Reload!Files, Reload!ReloadAssumptions
<1>8. QED
  BY <1>3, <1>4, <1>5, <1>6, <1>7 DEF Reload!ReloadInv

\* Every step keeps the invariant.
LEMMA StepReloadInv ==
  ASSUME Reload!ReloadAssumptions, Reload!ReloadInv, [Reload!Next]_(Reload!vars)
  PROVE  Reload!ReloadInv'
<1>1. CASE UNCHANGED Reload!vars
  BY <1>1
     DEF Reload!vars, Reload!files, Reload!loader, Reload!readers, Reload!marks,
         Reload!ReloadInv, Reload!ReloadTyped, Reload!TypeOK, Reload!LoaderInv,
         Reload!Loaded, Reload!AsOnDisk, Reload!CalmInv, Reload!CleanInv,
         Reload!ViewFollowsFiles, Reload!Asked, Reload!Readable, Reload!Listed
<1>2. CASE Reload!CheckGlobal
  BY <1>2, CheckGlobalKeeps
<1>3. CASE Reload!ReadGlobal
  BY <1>3, NoGlobalKeeps, BadGlobalKeeps, GoodGlobalKeeps
<1>4. CASE Reload!StatGlobal
  BY <1>4, LostGlobalKeeps, StatGlobalKeeps
<1>5. CASE Reload!BulkStat \/ Reload!BulkEnd
  BY <1>5, BulkStatKeeps, BulkEndKeeps
<1>6. ASSUME NEW p \in Pairs, Reload!BulkRead(p) PROVE Reload!ReloadInv'
  BY <1>6, BulkReadsKeeps, BulkSkipsKeeps
<1>7. ASSUME NEW p \in Pairs, Reload!WalkStat(p) PROVE Reload!ReloadInv'
  BY <1>7, WalkRaisesKeeps, WalkFindsKeeps, WalkPassesKeeps
<1>8. CASE Reload!WalkRead \/ Reload!WalkEnd
  BY <1>8, WalkReadKeeps, WalkEndKeeps
<1>9. CASE Reload!Build \/ Reload!Boot
  BY <1>9, BuildKeeps, BootKeeps
<1>10. ASSUME NEW c \in Consumers,
              Reload!BeginCheck(c) \/ Reload!WithinTtl(c) PROVE Reload!ReloadInv'
  BY <1>10, BeginsKeeps
<1>11. ASSUME NEW f \in Reload!Files,
              Reload!Delete(f) \/ Reload!Chmod(f) \/ \E k \in {"fine", "refused", "unreadable"} : Reload!Save(f, k)
       PROVE  Reload!ReloadInv'
  BY <1>11, EditsKeeps
<1>12. QED
  BY <1>1, <1>2, <1>3, <1>4, <1>5, <1>6, <1>7, <1>8, <1>9, <1>10, <1>11
     DEF Reload!Next, Reload!Check

\* A reader that rebuilds after a check works with the files as they are, for
\* any pairs, readers and edits (maybe_reload).
THEOREM FilesAreFollowedAll ==
  ASSUME Reload!ReloadAssumptions
  PROVE  Reload!Spec => []Reload!TypeOK /\ []Reload!ViewFollowsFiles
<1>1. Reload!ReloadInv => Reload!TypeOK /\ Reload!ViewFollowsFiles
  BY DEF Reload!ReloadInv, Reload!ReloadTyped
<1>2. QED
  BY <1>1, InitReloadInv, StepReloadInv, PTL DEF Reload!Spec

-----------------------------------------------------------------------------
(* Storage: the migrations at start.                                       *)

\* The databases there are.
LEMMA InstalledSound ==
  ASSUME Schema!SchemaAssumptions, NEW d \in Schema!Installed
  PROVE  Schema!Sound(d)
BY DEF Schema!SchemaAssumptions, Schema!Installed, Schema!Layout, Schema!Sound,
   Schema!DbType, Schema!Columns, Schema!Sizing

\* Before the first start nothing is open.
LEMMA InitSchemaInv == ASSUME Schema!SchemaAssumptions, Schema!Init PROVE Schema!SchemaInv
<1>1. Schema!Sound(disk)
  BY InstalledSound DEF Schema!Init
<1>2. owned \subseteq Slots
  BY <1>1
     DEF Schema!Init, Schema!Sound, Schema!DbType, Schema!Keys,
         Schema!SchemaAssumptions
<1>3. Schema!TypeOK
  <2>1. disk \in Schema!DbType /\ db \in Schema!DbType
    BY <1>1 DEF Schema!Init, Schema!Sound
  <2>2. starts \in 0 .. MaxStarts /\ rows \subseteq Slots /\ at = "down"
    BY DEF Schema!Init, Schema!SchemaAssumptions
  <2>3. open = FALSE /\ torn = FALSE /\ rebuilt = FALSE /\ refused = {}
    BY DEF Schema!Init
  <2>4. QED
    BY <1>2, <2>1, <2>2, <2>3 DEF Schema!TypeOK
<1>4. owned \subseteq Schema!Keys(db) \cup rows /\ owned \subseteq Schema!Keys(disk) \cup rows
  BY DEF Schema!Init
<1>5. QED
  BY <1>1, <1>3, <1>4 DEF Schema!Init, Schema!SchemaInv, Schema!KeysSurvive

\* The steps of the migrations to v5 and of the table of v5.
LEMMA ToV5Keeps ==
  ASSUME Schema!SchemaAssumptions, Schema!SchemaInv,
         Schema!SkipToV5 \/ Schema!RecreateOdd \/ Schema!DropV4 \/ Schema!CreateV5 \/ Schema!RefillV5 \/ Schema!SlotTable
  PROVE  Schema!SchemaInv'
<1> USE DEF Schema!SchemaAssumptions, Schema!SchemaInv, Schema!TypeOK, Schema!Sound,
   Schema!DbType, Schema!KeysSurvive, Schema!Keys, Schema!Steps, Schema!Goto,
   Schema!history, Schema!LeftOut
<1>1. CASE Schema!SkipToV5
  BY <1>1 DEF Schema!SkipToV5, Schema!Nothing
<1>2. CASE Schema!RecreateOdd
  BY <1>2 DEF Schema!RecreateOdd, Schema!Does, Schema!Dropped, Schema!AlreadyV5
<1>3. CASE Schema!DropV4
  BY <1>3 DEF Schema!DropV4, Schema!Does, Schema!Dropped
<1>4. CASE Schema!CreateV5
  BY <1>4 DEF Schema!CreateV5, Schema!Commits
<1>5. CASE Schema!RefillV5
  BY <1>5 DEF Schema!RefillV5, Schema!Inserts
<1>6. CASE Schema!SlotTable
  BY <1>6 DEF Schema!SlotTable, Schema!Commits
<1>7. QED
  BY <1>1, <1>2, <1>3, <1>4, <1>5, <1>6

\* The steps after it.
LEMMA AfterV5Keeps ==
  ASSUME Schema!SchemaAssumptions, Schema!SchemaInv,
         Schema!TakeOldKey \/ Schema!DropOldTable \/ Schema!SlotColumns \/ Schema!SkipV6 \/ Schema!BeginV6 \/ Schema!RebuildV6
           \/ Schema!CommitV6 \/ Schema!SoftColumn \/ Schema!Seed
  PROVE  Schema!SchemaInv'
<1> USE DEF Schema!SchemaAssumptions, Schema!SchemaInv, Schema!TypeOK, Schema!Sound,
   Schema!DbType, Schema!KeysSurvive, Schema!Keys, Schema!Steps, Schema!Goto,
   Schema!history, Schema!LeftOut
<1>1. CASE Schema!TakeOldKey
  <2>1. db' = [db EXCEPT !.old = "none", !.keys = @ \cup {First}]
    BY <1>1 DEF Schema!TakeOldKey, Schema!Inserts
  <2>2. /\ db' \in Schema!DbType /\ db'.slots = db.slots /\ db'.cols = db.cols
        /\ db'.keys = db.keys \cup {First} /\ db.old = "key"
    BY <1>1, <2>1 DEF Schema!TakeOldKey
  <2>3. db.slots = "v5"
    BY <1>1 DEF Schema!TakeOldKey
  <2>4. QED
    BY <1>1, <2>2 DEF Schema!TakeOldKey, Schema!Inserts
<1>2. CASE Schema!DropOldTable
  BY <1>2 DEF Schema!DropOldTable, Schema!Does
<1>3. CASE Schema!SlotColumns
  <2>1. PICK fails \in SUBSET ((Schema!Columns \ {"soft_start"}) \ db.cols) :
          /\ Schema!Does([db EXCEPT !.cols = @ \cup ((Schema!Columns \ {"soft_start"}) \ fails)])
          /\ refused' = refused \cup fails
    BY <1>3 DEF Schema!SlotColumns, Schema!AddColumns
  <2>2. db' = [db EXCEPT !.cols = @ \cup ((Schema!Columns \ {"soft_start"}) \ fails)]
    BY <2>1 DEF Schema!Does
  <2>3. /\ db' \in Schema!DbType /\ db'.slots = db.slots /\ db'.keys = db.keys
        /\ db'.old = db.old
        /\ db'.cols = db.cols \cup ((Schema!Columns \ {"soft_start"}) \ fails)
    BY <2>2
  <2>4. /\ disk' = IF open THEN disk ELSE db'
        /\ UNCHANGED <<open, rows, starts, owned, torn, rebuilt>> /\ at = "columns" /\ at' = "v6"
    BY <1>3, <2>1, <2>2 DEF Schema!SlotColumns, Schema!Does
  <2>5. Schema!Sound(db') /\ Schema!Sound(disk') /\ Schema!Keys(db') = Schema!Keys(db) /\ rows = {}
    BY <2>3, <2>4
  <2>6. Schema!Keys(disk') = Schema!Keys(disk)
    BY <2>4, <2>5
  <2>7. /\ Schema!Columns \ ({"soft_start"} \cup db'.cols) \subseteq refused'
        /\ refused' \subseteq Schema!Columns /\ db.slots = "v5" /\ ~rebuilt
    BY <2>1, <2>3, <2>4
  <2> HIDE DEF Schema!Sound, Schema!DbType, Schema!Keys
  <2>8. QED
    BY <2>3, <2>4, <2>5, <2>6, <2>7
<1>4. CASE Schema!SkipV6
  BY <1>4 DEF Schema!SkipV6, Schema!Nothing
<1>5. CASE Schema!BeginV6
  BY <1>5 DEF Schema!BeginV6
<1>6. CASE Schema!RebuildV6
  <2>1. db' = [db EXCEPT !.sizing = {},
                   !.cols = IF "slots" \in db.sizing THEN @ \cap {"assigned_pair"} ELSE @]
    BY <1>6 DEF Schema!RebuildV6, Schema!Does
  <2>2. /\ db' \in Schema!DbType /\ db'.slots = db.slots /\ db'.keys = db.keys
        /\ db'.old = db.old
        /\ "slots" \notin db.sizing => db'.cols = db.cols
    BY <2>1
  <2>3. /\ rebuilt' \in BOOLEAN /\ ~rebuilt /\ (~rebuilt' => db'.cols = db.cols)
        /\ rebuilt' => "assigned_pair" \in db.cols /\ db'.cols = db.cols \cap {"assigned_pair"}
    <3>1. CASE "slots" \in db.sizing
      BY <1>6, <2>1, <3>1 DEF Schema!RebuildV6
    <3>2. CASE "slots" \notin db.sizing
      BY <1>6, <2>2, <3>2 DEF Schema!RebuildV6
    <3>3. QED
      BY <3>1, <3>2
  <2>4. /\ disk' = IF open THEN disk ELSE db'
        /\ UNCHANGED <<open, rows, starts, owned, torn, refused>> /\ at = "rebuild" /\ at' = "commit"
    BY <1>6 DEF Schema!RebuildV6, Schema!Does
  <2>5. Schema!Sound(db') /\ Schema!Sound(disk') /\ Schema!Keys(db') = Schema!Keys(db) /\ rows = {}
    BY <2>2, <2>4
  <2>6. Schema!Keys(disk') = Schema!Keys(disk)
    BY <2>4, <2>5
  <2>7. Schema!Columns \ ({"soft_start"} \cup db'.cols) \subseteq refused' \cup Schema!LeftOut'
    BY <2>3, <2>4
  <2>8. db.slots = "v5"
    BY <2>4
  <2> HIDE DEF Schema!Sound, Schema!DbType, Schema!Keys, Schema!LeftOut
  <2>9. QED
    BY <2>2, <2>3, <2>4, <2>5, <2>6, <2>7, <2>8
<1>7. CASE Schema!CommitV6
  BY <1>7 DEF Schema!CommitV6, Schema!Commits
<1>8. CASE Schema!SoftColumn
  <2>1. PICK fails \in SUBSET ({"soft_start"} \ db.cols) :
          /\ Schema!Does([db EXCEPT !.cols = @ \cup ({"soft_start"} \ fails)])
          /\ refused' = refused \cup fails
    BY <1>8 DEF Schema!SoftColumn, Schema!AddColumns
  <2>2. db' = [db EXCEPT !.cols = @ \cup ({"soft_start"} \ fails)]
    BY <2>1 DEF Schema!Does
  <2>3. /\ db' \in Schema!DbType /\ db'.slots = db.slots /\ db'.keys = db.keys
        /\ db'.old = db.old /\ db'.cols = db.cols \cup ({"soft_start"} \ fails)
    BY <2>2 DEF Schema!Columns
  <2>4. /\ disk' = IF open THEN disk ELSE db'
        /\ UNCHANGED <<open, rows, starts, owned, torn, rebuilt>> /\ at = "soft" /\ at' = "seed"
    BY <1>8, <2>1, <2>2 DEF Schema!SoftColumn, Schema!Does
  <2>5. Schema!Sound(db') /\ Schema!Sound(disk') /\ Schema!Keys(db') = Schema!Keys(db) /\ rows = {}
    BY <2>3, <2>4
  <2>6. Schema!Keys(disk') = Schema!Keys(disk)
    BY <2>4, <2>5
  <2>7. /\ Schema!Columns \ db'.cols \subseteq refused' \cup Schema!LeftOut'
        /\ refused' \subseteq Schema!Columns /\ db.slots = "v5"
    BY <2>1, <2>3, <2>4 DEF Schema!Columns
  <2> HIDE DEF Schema!Sound, Schema!DbType, Schema!Keys, Schema!LeftOut
  <2>8. QED
    BY <2>3, <2>4, <2>5, <2>6, <2>7
<1>9. CASE Schema!Seed
  BY <1>9 DEF Schema!Seed, Schema!Commits
<1>10. QED
  BY <1>1, <1>2, <1>3, <1>4, <1>5, <1>6, <1>7, <1>8, <1>9

\* Starts, their ends, and keys pasted meanwhile.
LEMMA AroundKeeps ==
  ASSUME Schema!SchemaAssumptions, Schema!SchemaInv,
         Schema!Start \/ Schema!BaseTables \/ Schema!Fails \/ Schema!Crash \/ \E s \in Slots : Schema!SetKey(s)
  PROVE  Schema!SchemaInv'
<1> USE DEF Schema!SchemaAssumptions, Schema!SchemaInv, Schema!TypeOK, Schema!Sound,
   Schema!DbType, Schema!KeysSurvive, Schema!Keys, Schema!Steps, Schema!Goto,
   Schema!history, Schema!LeftOut
<1>1. CASE Schema!Start
  <2>1. starts' \in 0 .. MaxStarts
    BY <1>1 DEF Schema!Start
  <2> HIDE DEF Schema!Sound, Schema!DbType, Schema!Keys
  <2>2. QED
    BY <1>1, <2>1 DEF Schema!Start
<1>2. CASE Schema!BaseTables
  BY <1>2 DEF Schema!BaseTables, Schema!Nothing
<1>3. CASE Schema!Fails
  BY <1>3 DEF Schema!Fails, Schema!Closes
<1>4. CASE Schema!Crash
  BY <1>4 DEF Schema!Crash, Schema!Closes
<1>5. ASSUME NEW s \in Slots, Schema!SetKey(s) PROVE Schema!SchemaInv'
  <2>1. db' = [db EXCEPT !.keys = @ \cup {s}] /\ disk' = db'
    BY <1>5 DEF Schema!SetKey, Schema!Commits
  <2>2. /\ db' \in Schema!DbType /\ db'.slots = db.slots /\ db'.cols = db.cols
        /\ db'.keys = db.keys \cup {s} /\ db'.old = db.old
    BY <2>1
  <2>3. db.slots = "v5"
    BY <1>5 DEF Schema!SetKey
  <2>4. QED
    BY <1>5, <2>1, <2>2, <2>3 DEF Schema!SetKey, Schema!Commits
<1>6. QED
  BY <1>1, <1>2, <1>3, <1>4, <1>5

\* Every step keeps the invariant.
LEMMA StepSchemaInv ==
  ASSUME Schema!SchemaAssumptions, Schema!SchemaInv, [Schema!Next]_(Schema!vars)
  PROVE  Schema!SchemaInv'
<1>1. CASE UNCHANGED Schema!vars
  BY <1>1 DEF Schema!vars, Schema!SchemaInv, Schema!TypeOK, Schema!KeysSurvive,
     Schema!LeftOut
<1>2. QED
  BY <1>1, ToV5Keeps, AfterV5Keeps, AroundKeeps DEF Schema!Next

\* No start loses a key, and none leaves out a column but one that it could
\* not add or that its rebuild for v6 dropped, over a database of any age and
\* with a crash at any statement (init_db, _migrate_v4_to_v5,
\* _add_columns_idempotent).
THEOREM KeysSurviveAll ==
  ASSUME Schema!SchemaAssumptions
  PROVE  Schema!Spec => []Schema!TypeOK /\ []Schema!KeysSurvive /\ []Schema!ColumnsArePresent
<1>1. Schema!SchemaInv => Schema!TypeOK /\ Schema!KeysSurvive /\ Schema!ColumnsArePresent
  BY DEF Schema!SchemaInv, Schema!ColumnsArePresent
<1>2. QED
  BY <1>1, InitSchemaInv, StepSchemaInv, PTL DEF Schema!Spec

-----------------------------------------------------------------------------
(* Storage: the shared connection.                                         *)

Members(s) == {s[i] : i \in DOMAIN s}
TaskType == [kind : Connection!Kinds, at : Connection!Ops \cup {"new", "sleep", "done", "failed"},
          tries : 0 .. Attempts - 1, stale : BOOLEAN]

\* What an append does to the elements of a sequence,
LEMMA AppendMembers ==
  ASSUME NEW S, NEW s \in Seq(S), NEW x \in S
  PROVE  /\ Append(s, x) \in Seq(S) /\ Members(Append(s, x)) = Members(s) \cup {x}
         /\ DOMAIN Append(s, x) = 1 .. Len(s) + 1 /\ Len(s) \in Nat
         /\ DOMAIN s = 1 .. Len(s)
         /\ \A i \in 1 .. Len(s) : Append(s, x)[i] = s[i]
         /\ Append(s, x)[Len(s) + 1] = x
<1>1. /\ Append(s, x) \in Seq(S) /\ Len(s) \in Nat /\ DOMAIN s = 1 .. Len(s)
      /\ DOMAIN Append(s, x) = 1 .. Len(s) + 1
      /\ \A i \in 1 .. Len(s) : Append(s, x)[i] = s[i]
      /\ Append(s, x)[Len(s) + 1] = x
  OBVIOUS
<1>2. Members(Append(s, x)) \subseteq Members(s) \cup {x}
  <2> SUFFICES ASSUME NEW i \in 1 .. Len(s) + 1 PROVE Append(s, x)[i] \in Members(s) \cup {x}
    BY <1>1 DEF Members
  <2>1. i \in 1 .. Len(s) \/ i = Len(s) + 1
    BY <1>1
  <2>2. QED
    BY <1>1, <2>1 DEF Members
<1>3. Members(s) \cup {x} \subseteq Members(Append(s, x))
  <2>1. x \in Members(Append(s, x))
    <3>1. Len(s) + 1 \in 1 .. Len(s) + 1
      BY <1>1
    <3>2. QED
      BY <1>1, <3>1 DEF Members
  <2>2. ASSUME NEW i \in 1 .. Len(s) PROVE s[i] \in Members(Append(s, x))
    <3>1. i \in 1 .. Len(s) + 1
      BY <1>1
    <3>2. QED
      BY <1>1, <3>1 DEF Members
  <2>3. QED
    BY <1>1, <2>1, <2>2 DEF Members
<1>4. QED
  BY <1>1, <1>2, <1>3

\* and what a tail does.
LEMMA TailMembers ==
  ASSUME NEW S, NEW s \in Seq(S), s # <<>>
  PROVE  /\ Tail(s) \in Seq(S) /\ Head(s) \in Members(s) /\ Head(s) = s[1]
         /\ Len(s) \in Nat \ {0} /\ DOMAIN s = 1 .. Len(s)
         /\ DOMAIN Tail(s) = 1 .. Len(s) - 1
         /\ \A i \in 1 .. Len(s) - 1 : Tail(s)[i] = s[i + 1] /\ i + 1 \in 1 .. Len(s)
         /\ \A e \in Members(s) : e = Head(s) \/ e \in Members(Tail(s))
         /\ Members(Tail(s)) \subseteq Members(s)
<1>1. /\ Tail(s) \in Seq(S) /\ Head(s) = s[1] /\ Len(s) \in Nat \ {0}
      /\ DOMAIN s = 1 .. Len(s)
      /\ DOMAIN Tail(s) = 1 .. Len(s) - 1
  OBVIOUS
<1>2. \A i \in 1 .. Len(s) - 1 : Tail(s)[i] = s[i + 1] /\ i + 1 \in 1 .. Len(s)
  OBVIOUS
<1>3. Head(s) \in Members(s)
  <2>1. 1 \in 1 .. Len(s)
    BY <1>1
  <2>2. QED
    BY <1>1, <2>1 DEF Members
<1>4. ASSUME NEW i \in 1 .. Len(s), i # 1 PROVE s[i] \in Members(Tail(s))
  <2>1. i - 1 \in 1 .. Len(s) - 1 /\ (i - 1) + 1 = i
    BY <1>1, <1>4
  <2>2. Tail(s)[i - 1] = s[i]
    BY <1>2, <2>1
  <2>3. QED
    BY <1>1, <2>1, <2>2 DEF Members
<1>5. QED
  BY <1>1, <1>2, <1>3, <1>4 DEF Members

\* The queue takes a task that waits for nothing,
LEMMA QueueGrows ==
  ASSUME NEW t \in Tasks, queue \in Seq(Tasks), t \notin Connection!Queued,
         \A i, j \in DOMAIN queue : queue[i] = queue[j] => i = j,
         queue' = Append(queue, t)
  PROVE  /\ queue' \in Seq(Tasks) /\ Connection!Queued' = Connection!Queued \cup {t}
         /\ \A i, j \in DOMAIN queue' : queue'[i] = queue'[j] => i = j
<1>1. queue' \in Seq(Tasks) /\ Connection!Queued' = Connection!Queued \cup {t}
  BY AppendMembers DEF Connection!Queued, Members
<1>2. ASSUME NEW i \in DOMAIN queue', NEW j \in DOMAIN queue',
             queue'[i] = queue'[j] PROVE i = j
  <2> DEFINE m == Len(queue)
  <2>1. /\ m \in Nat /\ DOMAIN queue = 1 .. m /\ DOMAIN queue' = 1 .. m + 1
        /\ \A k \in 1 .. m : queue'[k] = queue[k] /\ queue[k] # t
        /\ queue'[m + 1] = t
    BY AppendMembers DEF Connection!Queued
  <2> HIDE DEF m
  <2>2. (i \in 1 .. m \/ i = m + 1) /\ (j \in 1 .. m \/ j = m + 1)
    BY <2>1
  <2>3. QED
    BY <1>2, <2>1, <2>2
<1>3. QED
  BY <1>1, <1>2

\* and gives its first one to the thread.
LEMMA QueueShrinks ==
  ASSUME queue \in Seq(Tasks), queue # <<>>,
         \A i, j \in DOMAIN queue : queue[i] = queue[j] => i = j,
         queue' = Tail(queue)
  PROVE  /\ queue' \in Seq(Tasks)
         /\ Connection!Queued' = Connection!Queued \ {Head(queue)}
         /\ Head(queue) \in Connection!Queued
         /\ \A i, j \in DOMAIN queue' : queue'[i] = queue'[j] => i = j
<1> DEFINE m == Len(queue)
<1>1. /\ m \in Nat \ {0} /\ DOMAIN queue = 1 .. m /\ DOMAIN queue' = 1 .. m - 1
      /\ \A k \in 1 .. m - 1 : queue'[k] = queue[k + 1] /\ k + 1 \in 1 .. m
      /\ Head(queue) = queue[1]
  BY TailMembers
<1>2. /\ queue' \in Seq(Tasks) /\ Head(queue) \in Connection!Queued
      /\ \A e \in Connection!Queued : e = Head(queue) \/ e \in Connection!Queued'
      /\ Connection!Queued' \subseteq Connection!Queued
  <2>1. Connection!Queued = Members(queue) /\ Connection!Queued' = Members(Tail(queue))
    BY DEF Connection!Queued, Members
  <2>2. /\ Tail(queue) \in Seq(Tasks) /\ Head(queue) \in Members(queue)
        /\ \A e \in Members(queue) : e = Head(queue) \/ e \in Members(Tail(queue))
        /\ Members(Tail(queue)) \subseteq Members(queue)
    BY TailMembers
  <2>3. QED
    BY <2>1, <2>2
<1> HIDE DEF m
<1>3. Head(queue) \notin Connection!Queued'
  <2> SUFFICES ASSUME NEW k \in 1 .. m - 1, queue'[k] = queue[1] PROVE FALSE
    BY <1>1 DEF Connection!Queued
  <2>1. k + 1 = 1
    BY <1>1
  <2>2. QED
    BY <1>1, <2>1
<1>4. ASSUME NEW i \in 1 .. m - 1, NEW j \in 1 .. m - 1, queue'[i] = queue'[j] PROVE i = j
  <2>1. i + 1 = j + 1
    BY <1>1, <1>4
  <2>2. QED
    BY <1>1, <2>1
<1>5. QED
  BY <1>1, <1>2, <1>3, <1>4

\* The answers get one more,
LEMMA ResultsGrow ==
  ASSUME NEW r \in [t : Tasks, ok : BOOLEAN], results \in Seq([t : Tasks, ok : BOOLEAN]),
         \A q \in Connection!Told : q.t # r.t,
         \A i, j \in DOMAIN results : results[i].t = results[j].t => i = j,
         results' = Append(results, r)
  PROVE  /\ results' \in Seq([t : Tasks, ok : BOOLEAN])
         /\ Connection!Told' = Connection!Told \cup {r}
         /\ \A i, j \in DOMAIN results' : results'[i].t = results'[j].t => i = j
<1> DEFINE R == [t : Tasks, ok : BOOLEAN]
<1>0. results \in Seq(R) /\ r \in R
  OBVIOUS
<1> HIDE DEF R
<1>1. results' \in Seq(R) /\ Connection!Told' = Connection!Told \cup {r}
  BY <1>0, AppendMembers DEF Connection!Told, Members
<1>2. ASSUME NEW i \in DOMAIN results', NEW j \in DOMAIN results',
             results'[i].t = results'[j].t
      PROVE  i = j
  <2> DEFINE m == Len(results)
  <2>1. /\ m \in Nat /\ DOMAIN results = 1 .. m /\ DOMAIN results' = 1 .. m + 1
        /\ \A k \in 1 .. m : results'[k] = results[k] /\ results[k].t # r.t
        /\ results'[m + 1] = r
    BY <1>0, AppendMembers DEF Connection!Told
  <2> HIDE DEF m
  <2>2. (i \in 1 .. m \/ i = m + 1) /\ (j \in 1 .. m \/ j = m + 1)
    BY <2>1
  <2>3. QED
    BY <1>2, <2>1, <2>2
<1>3. QED
  BY <1>1, <1>2 DEF R

\* and the loop takes the first one.
LEMMA ResultsShrink ==
  ASSUME results \in Seq([t : Tasks, ok : BOOLEAN]), results # <<>>,
         \A i, j \in DOMAIN results : results[i].t = results[j].t => i = j,
         results' = Tail(results)
  PROVE  /\ results' \in Seq([t : Tasks, ok : BOOLEAN]) /\ Head(results) \in Connection!Told
         /\ Head(results) \in [t : Tasks, ok : BOOLEAN]
         /\ Connection!Told' = {r \in Connection!Told : r.t # Head(results).t}
         /\ \A i, j \in DOMAIN results' : results'[i].t = results'[j].t => i = j
<1> DEFINE m == Len(results)
<1> DEFINE R == [t : Tasks, ok : BOOLEAN]
<1>0. results \in Seq(R)
  OBVIOUS
<1> HIDE DEF R
<1>1. /\ m \in Nat \ {0} /\ DOMAIN results = 1 .. m /\ DOMAIN results' = 1 .. m - 1
      /\ \A k \in 1 .. m - 1 : results'[k] = results[k + 1] /\ k + 1 \in 1 .. m
      /\ Head(results) = results[1]
  BY <1>0, TailMembers
<1>2. /\ results' \in Seq(R) /\ Head(results) \in Connection!Told
      /\ \A e \in Connection!Told : e = Head(results) \/ e \in Connection!Told'
      /\ Connection!Told' \subseteq Connection!Told
  <2>1. Connection!Told = Members(results) /\ Connection!Told' = Members(Tail(results))
    BY DEF Connection!Told, Members
  <2>2. /\ Tail(results) \in Seq(R) /\ Head(results) \in Members(results)
        /\ \A e \in Members(results) : e = Head(results) \/ e \in Members(Tail(results))
        /\ Members(Tail(results)) \subseteq Members(results)
    BY <1>0, TailMembers
  <2>3. QED
    BY <2>1, <2>2
<1>3. Head(results) \in R
  BY <1>0
<1> HIDE DEF m
<1>4. \A e \in Connection!Told' : e.t # Head(results).t
  <2> SUFFICES ASSUME NEW k \in 1 .. m - 1, results'[k].t = results[1].t PROVE FALSE
    BY <1>1 DEF Connection!Told
  <2>1. k + 1 = 1
    BY <1>1
  <2>2. QED
    BY <1>1, <2>1
<1>5. ASSUME NEW i \in 1 .. m - 1, NEW j \in 1 .. m - 1,
             results'[i].t = results'[j].t PROVE i = j
  <2>1. i + 1 = j + 1
    BY <1>1, <1>5
  <2>2. QED
    BY <1>1, <2>1
<1>6. QED
  BY <1>1, <1>2, <1>3, <1>4, <1>5 DEF R

\* The queue holds tasks, the answers are theirs.
LEMMA InRange == Connection!TypeOK => Connection!Queued \subseteq Tasks /\ \A r \in Connection!Told : r.t \in Tasks
<1> SUFFICES ASSUME Connection!TypeOK PROVE Connection!Queued \subseteq Tasks /\ \A r \in Connection!Told : r.t \in Tasks
  OBVIOUS
<1>1. ASSUME NEW i \in DOMAIN queue PROVE queue[i] \in Tasks
  BY DEF Connection!TypeOK
<1>2. ASSUME NEW i \in DOMAIN results PROVE results[i].t \in Tasks
  <2> DEFINE R == [t : Tasks, ok : BOOLEAN]
  <2>1. results \in Seq(R)
    BY DEF Connection!TypeOK
  <2> HIDE DEF R
  <2>2. results[i] \in R
    BY <2>1
  <2>3. QED
    BY <2>2 DEF R
<1>3. QED
  BY <1>1, <1>2 DEF Connection!Queued, Connection!Told

\* An answer leaves the loop with a task that waits for nothing,
LEMMA AnswerStep ==
  ASSUME Connection!ConnInv, NEW t \in Tasks, NEW op, Connection!Answered(t, op)
  PROVE  /\ results' \in Seq([t : Tasks, ok : BOOLEAN])
         /\ Connection!Told' = {r \in Connection!Told : r.t # t}
         /\ \A i, j \in DOMAIN results' : results'[i].t = results'[j].t => i = j
         /\ Connection!Answer \in Connection!Told /\ Connection!Answer.t = t
         /\ Connection!Answer.ok \in BOOLEAN /\ t \notin Connection!Queued
         /\ task[t].at = op /\ ~Connection!AtRest(t)
         /\ UNCHANGED <<Connection!tables, Connection!others, lone>>
<1>1. /\ results \in Seq([t : Tasks, ok : BOOLEAN]) /\ results # <<>>
      /\ results' = Tail(results)
      /\ \A i, j \in DOMAIN results : results[i].t = results[j].t => i = j
      /\ Connection!Answer = Head(results) /\ Connection!Answer.t = t /\ task[t].at = op
      /\ UNCHANGED <<Connection!tables, Connection!others, lone>>
  BY DEF Connection!ConnInv, Connection!TypeOK, Connection!OneAtATime,
     Connection!Answered, Connection!Answer
<1>2. /\ results' \in Seq([t : Tasks, ok : BOOLEAN]) /\ Head(results) \in Connection!Told
      /\ Head(results) \in [t : Tasks, ok : BOOLEAN]
      /\ Connection!Told' = {r \in Connection!Told : r.t # Head(results).t}
      /\ \A i, j \in DOMAIN results' : results'[i].t = results'[j].t => i = j
  BY <1>1, ResultsShrink
<1>3. t \notin Connection!Queued /\ task[t].at \in Connection!Ops
  BY <1>1, <1>2 DEF Connection!ConnInv, Connection!OneAtATime
<1>4. QED
  BY <1>1, <1>2, <1>3 DEF Connection!AtRest, Connection!Ops

\* and a statement that was served has an answer instead.
LEMMA ServeStep ==
  ASSUME Connection!ConnInv, NEW t \in Tasks, NEW op, NEW ok \in BOOLEAN,
         Connection!Serve(t, op, ok)
  PROVE  /\ queue' \in Seq(Tasks) /\ Connection!Queued' = Connection!Queued \ {t}
         /\ t \in Connection!Queued
         /\ \A i, j \in DOMAIN queue' : queue'[i] = queue'[j] => i = j
         /\ results' \in Seq([t : Tasks, ok : BOOLEAN])
         /\ Connection!Told' = Connection!Told \cup {[t |-> t, ok |-> ok]}
         /\ \A i, j \in DOMAIN results' : results'[i].t = results'[j].t => i = j
         /\ \A r \in Connection!Told : r.t # t
         /\ task[t].at = op /\ op \in Connection!Ops /\ ~Connection!AtRest(t)
         /\ UNCHANGED <<Connection!others, lone>>
<1>1. /\ queue \in Seq(Tasks) /\ queue # <<>> /\ queue' = Tail(queue) /\ Head(queue) = t
      /\ \A i, j \in DOMAIN queue : queue[i] = queue[j] => i = j
      /\ results \in Seq([t : Tasks, ok : BOOLEAN])
      /\ results' = Append(results, [t |-> t, ok |-> ok])
      /\ \A i, j \in DOMAIN results : results[i].t = results[j].t => i = j
      /\ task[t].at = op /\ UNCHANGED <<Connection!others, lone>>
  BY DEF Connection!ConnInv, Connection!TypeOK, Connection!OneAtATime,
     Connection!Serve
<1>2. /\ queue' \in Seq(Tasks) /\ Connection!Queued' = Connection!Queued \ {t}
      /\ t \in Connection!Queued
      /\ \A i, j \in DOMAIN queue' : queue'[i] = queue'[j] => i = j
  BY <1>1, QueueShrinks
<1>3. \A r \in Connection!Told : r.t # t
  BY <1>2 DEF Connection!ConnInv, Connection!OneAtATime
<1>4. task[t].at \in Connection!Ops
  BY <1>2 DEF Connection!ConnInv, Connection!OneAtATime
<1>5. [t |-> t, ok |-> ok] \in [t : Tasks, ok : BOOLEAN] /\ [t |-> t, ok |-> ok].t = t
  OBVIOUS
<1>6. /\ results' \in Seq([t : Tasks, ok : BOOLEAN])
      /\ Connection!Told' = Connection!Told \cup {[t |-> t, ok |-> ok]}
      /\ \A i, j \in DOMAIN results' : results'[i].t = results'[j].t => i = j
  <2> DEFINE r == [t |-> t, ok |-> ok]
  <2>1. r \in [t : Tasks, ok : BOOLEAN] /\ (\A q \in Connection!Told : q.t # r.t) /\ results' = Append(results, r)
    BY <1>1, <1>3, <1>5
  <2>2. QED
    BY <1>1, <2>1, ResultsGrow
<1>7. QED
  BY <1>1, <1>2, <1>3, <1>4, <1>6 DEF Connection!AtRest, Connection!Ops

\* The row of a task another one's step leaves alone is where it was.
LEMMA OthersFit ==
  ASSUME Connection!ConnInv, NEW u \in Tasks, task'[u] = task[u],
         u \in Connection!Queued' <=> u \in Connection!Queued,
         \A r \in Connection!Told' : r.t = u => r \in Connection!Told,
         Connection!Unwritten(u) => Connection!Unwritten(u)', Connection!Written(u) => Connection!Written(u)',
         u \in file \cup undone => u \in (file \cup undone)', u \in cursors' => u \in cursors
  PROVE  Connection!RowFits(u)' /\ Connection!CursorFits(u)'
<1>1. Connection!RowFits(u) /\ Connection!CursorFits(u)
  BY DEF Connection!ConnInv
<1>3. Connection!RowFits(u)'
  <2>1. /\ task'[u].kind = "read" =>
             Connection!Unwritten(u)' /\ task'[u].at \in {"new", "commit", "select", "close", "done"}
        /\ task'[u].kind # "read" => task'[u].at \notin {"new", "select", "close"}
        /\ task'[u].at \in {"failed", "undo", "rollback", "sleep"} => Connection!Unwritten(u)'
        /\ task'[u].at = "insert" /\ u \in Connection!Queued' => Connection!Unwritten(u)'
    BY <1>1 DEF Connection!RowFits
  <2>2. task'[u].at = "insert" =>
          \A r \in Connection!Told' : r.t = u => IF r.ok THEN Connection!Written(u)' ELSE Connection!Unwritten(u)'
    BY <1>1 DEF Connection!RowFits
  <2>3. /\ task'[u].kind # "read" /\ task'[u].at = "commit" =>
             Connection!Written(u)' /\ (u \notin Connection!Queued' => u \in (file \cup undone)')
        /\ task'[u].kind # "read" /\ task'[u].at = "done" => u \in (file \cup undone)'
    BY <1>1 DEF Connection!RowFits
  <2>4. QED
    BY <2>1, <2>2, <2>3 DEF Connection!RowFits
<1>4. Connection!CursorFits(u)'
  BY <1>1 DEF Connection!CursorFits
<1>5. QED
  BY <1>3, <1>4

\* What a step of the loop owes the invariant: the fit of its own task.
LEMMA LoopKeeps ==
  ASSUME Connection!ConnInv, NEW t \in Tasks, UNCHANGED <<Connection!tables,
         Connection!others>>, lone' \in Tasks \cup {Connection!Nobody},
         task' \in [Tasks -> TaskType], \A u \in Tasks : u # t => task'[u] = task[u], t \notin Connection!Queued,
         results' \in Seq([t : Tasks, ok : BOOLEAN]), Connection!Told' = {r \in Connection!Told : r.t # t},
         \A i, j \in DOMAIN results' : results'[i].t = results'[j].t => i = j,
         \/ queue' = queue
         \/ queue' = Append(queue, t) /\ task'[t].at \in Connection!Ops,
         Connection!RowFits(t)', Connection!CursorFits(t)', task'[t].at = "new" => ~task'[t].stale, Connection!LoneFits'
  PROVE  Connection!ConnInv'
<1>0. /\ queue \in Seq(Tasks) /\ Connection!OneAtATime /\ Connection!TypeOK
      /\ \A i, j \in DOMAIN queue : queue[i] = queue[j] => i = j
  BY DEF Connection!ConnInv, Connection!TypeOK, Connection!OneAtATime
<1>1. /\ queue' \in Seq(Tasks)
      /\ Connection!Queued' \in {Connection!Queued, Connection!Queued \cup {t}}
      /\ t \in Connection!Queued' => task'[t].at \in Connection!Ops
      /\ \A i, j \in DOMAIN queue' : queue'[i] = queue'[j] => i = j
  <2>1. CASE queue' = queue
    <3>1. Connection!Queued' = Connection!Queued
      BY <2>1 DEF Connection!Queued
    <3>2. QED
      BY <1>0, <2>1, <3>1
  <2>2. CASE queue' = Append(queue, t) /\ task'[t].at \in Connection!Ops
    BY <1>0, <2>2, QueueGrows
  <2>3. QED
    BY <2>1, <2>2
<1>2. Connection!TypeOK'
  BY <1>0, <1>1
     DEF Connection!TypeOK, Connection!tables, Connection!others, TaskType
<1>3. Connection!OneAtATime'
  <2>1. \A u \in Connection!Queued' : task'[u].at \in Connection!Ops
    <3> SUFFICES ASSUME NEW u \in Connection!Queued', u # t PROVE task'[u].at \in Connection!Ops
      BY <1>1
    <3>1. u \in Connection!Queued /\ u \in Tasks
      BY <1>0, <1>1 DEF Connection!Queued
    <3>2. QED
      BY <1>0, <3>1 DEF Connection!OneAtATime
  <2>2. ASSUME NEW r \in Connection!Told' PROVE r.t \notin Connection!Queued' /\ task'[r.t].at \in Connection!Ops
    <3>1. r \in Connection!Told /\ r.t # t /\ r.t \in Tasks
      BY <1>0, InRange
    <3>2. r.t \notin Connection!Queued /\ task[r.t].at \in Connection!Ops
      BY <1>0, <3>1 DEF Connection!OneAtATime
    <3>3. QED
      BY <1>1, <3>1, <3>2
  <2>3. QED
    BY <1>1, <2>1, <2>2 DEF Connection!OneAtATime
<1>4. ASSUME NEW u \in Tasks,
             u # t PROVE Connection!RowFits(u)' /\ Connection!CursorFits(u)'
  <2>1. /\ task'[u] = task[u] /\ (u \in Connection!Queued' <=> u \in Connection!Queued)
        /\ \A r \in Connection!Told' : r.t = u => r \in Connection!Told
    BY <1>1, <1>4
  <2>2. /\ Connection!Unwritten(u) => Connection!Unwritten(u)'
        /\ Connection!Written(u) => Connection!Written(u)'
        /\ u \in file \cup undone => u \in (file \cup undone)'
        /\ u \in cursors' => u \in cursors
    BY DEF Connection!Unwritten, Connection!Written, Connection!tables
  <2>3. QED
    BY <2>1, <2>2, OthersFit
<1>5. /\ \A u \in Tasks : task'[u].at = "new" => ~task'[u].stale
      /\ ~tx'.open => tx'.rows = {} /\ (cursors' = {} => tx'.snap = Connection!None)
      /\ locked' => outside' < MaxOutside
  BY DEF Connection!ConnInv, Connection!tables, Connection!others
<1>6. QED
  BY <1>2, <1>3, <1>4, <1>5 DEF Connection!ConnInv

\* And one of the thread, which also changes the tables: the rows of others
\* are where they were, or have gone from the transaction to the file or the
\* undone.
LEMMA ThreadKeeps ==
  ASSUME Connection!ConnInv, NEW t \in Tasks, NEW op, NEW ok \in BOOLEAN,
         Connection!Serve(t, op, ok),
         file' \subseteq Tasks, cursors' \subseteq Tasks, undone' \subseteq Tasks,
         tx' \in [open : BOOLEAN, rows : SUBSET Tasks, snap : {Connection!None} \cup 0 .. MaxOutside],
         task' \in [Tasks -> TaskType], \A u \in Tasks : u # t => task'[u] = task[u],
         task'[t].at = op,
         file \cup undone \subseteq file' \cup undone',
         \A u \in Tasks : u # t =>
           /\ u \in file' \cup tx'.rows => u \in file \cup tx.rows
           /\ u \in tx.rows => u \in file' \cup tx'.rows \cup undone'
           /\ u \in cursors' => u \in cursors,
         Connection!RowFits(t)', Connection!CursorFits(t)', Connection!LoneFits',
         ~tx'.open => tx'.rows = {} /\ (cursors' = {} => tx'.snap = Connection!None)
  PROVE  Connection!ConnInv'
<1>0. Connection!OneAtATime /\ Connection!TypeOK
  BY DEF Connection!ConnInv
<1>1. /\ queue' \in Seq(Tasks) /\ Connection!Queued' = Connection!Queued \ {t}
      /\ t \in Connection!Queued
      /\ \A i, j \in DOMAIN queue' : queue'[i] = queue'[j] => i = j
      /\ results' \in Seq([t : Tasks, ok : BOOLEAN])
      /\ Connection!Told' = Connection!Told \cup {[t |-> t, ok |-> ok]}
      /\ \A i, j \in DOMAIN results' : results'[i].t = results'[j].t => i = j
      /\ task[t].at = op /\ op \in Connection!Ops /\ UNCHANGED <<Connection!others, lone>>
  <2>1. queue' \in Seq(Tasks)
    BY ServeStep
  <2>2. Connection!Queued' = Connection!Queued \ {t} /\ t \in Connection!Queued
    BY ServeStep
  <2>3. \A i, j \in DOMAIN queue' : queue'[i] = queue'[j] => i = j
    BY ServeStep
  <2>4. results' \in Seq([t : Tasks, ok : BOOLEAN])
    BY ServeStep
  <2>5. Connection!Told' = Connection!Told \cup {[t |-> t, ok |-> ok]}
    BY ServeStep
  <2>6. \A i, j \in DOMAIN results' : results'[i].t = results'[j].t => i = j
    BY ServeStep
  <2>7. task[t].at = op /\ op \in Connection!Ops /\ UNCHANGED <<Connection!others, lone>>
    BY ServeStep
  <2>8. QED
    BY <2>1, <2>2, <2>3, <2>4, <2>5, <2>6, <2>7
<1>2. Connection!TypeOK'
  BY <1>0, <1>1 DEF Connection!TypeOK, Connection!others, TaskType
<1>3. Connection!OneAtATime'
  <2>1. \A u \in Connection!Queued' : task'[u].at \in Connection!Ops
    <3> SUFFICES ASSUME NEW u \in Connection!Queued' PROVE task'[u].at \in Connection!Ops
      OBVIOUS
    <3>1. u \in Connection!Queued /\ u \in Tasks /\ u # t
      BY <1>0, <1>1, InRange
    <3>2. QED
      BY <1>0, <3>1 DEF Connection!OneAtATime
  <2>2. ASSUME NEW r \in Connection!Told' PROVE r.t \notin Connection!Queued' /\ task'[r.t].at \in Connection!Ops
    <3>1. CASE r = [t |-> t, ok |-> ok]
      BY <1>1, <3>1
    <3>2. CASE r \in Connection!Told
      <4>1. r.t \notin Connection!Queued /\ task[r.t].at \in Connection!Ops /\ r.t \in Tasks
        BY <1>0, <3>2, InRange DEF Connection!OneAtATime
      <4>2. QED
        BY <1>1, <4>1
    <3>3. QED
      BY <1>1, <3>1, <3>2
  <2>3. QED
    BY <1>1, <2>1, <2>2 DEF Connection!OneAtATime
<1>4. ASSUME NEW u \in Tasks,
             u # t PROVE Connection!RowFits(u)' /\ Connection!CursorFits(u)'
  <2>1. /\ task'[u] = task[u] /\ (u \in Connection!Queued' <=> u \in Connection!Queued)
        /\ \A r \in Connection!Told' : r.t = u => r \in Connection!Told
    BY <1>1, <1>4
  <2>2. /\ Connection!Unwritten(u) => Connection!Unwritten(u)'
        /\ Connection!Written(u) => Connection!Written(u)'
        /\ u \in file \cup undone => u \in (file \cup undone)'
        /\ u \in cursors' => u \in cursors
    BY <1>4 DEF Connection!Unwritten, Connection!Written
  <2>3. QED
    BY <2>1, <2>2, OthersFit
<1>5. \A u \in Tasks : task'[u].at = "new" => ~task'[u].stale
  BY <1>1 DEF Connection!ConnInv, Connection!Ops
<1>6. locked' => outside' < MaxOutside
  BY <1>1 DEF Connection!ConnInv, Connection!others
<1>7. QED
  BY <1>2, <1>3, <1>4, <1>5, <1>6 DEF Connection!ConnInv

-----------------------------------------------------------------------------
\* A coroutine that begins has written nothing and asks for its first statement.
LEMMA BeginKeeps ==
  ASSUME Connection!ConnInv, NEW t \in Tasks, NEW kind \in Connection!Kinds,
         Connection!Begin(t, kind) PROVE Connection!ConnInv'
<1>1. /\ task \in [Tasks -> TaskType] /\ task[t].at = "new" /\ ~task[t].stale
      /\ queue \in Seq(Tasks) /\ tx.open \in BOOLEAN
      /\ Connection!RowFits(t) /\ Connection!CursorFits(t) /\ results' = results
      /\ results \in Seq([t : Tasks, ok : BOOLEAN])
      /\ \A i, j \in DOMAIN results : results[i].t = results[j].t => i = j
  BY DEF Connection!Begin, Connection!ConnInv, Connection!TypeOK, TaskType,
     Connection!OneAtATime
<1>2. /\ t \notin Connection!Queued /\ \A r \in Connection!Told : r.t # t
  BY <1>1 DEF Connection!ConnInv, Connection!OneAtATime, Connection!Ops
<1>3. Connection!Told' = {r \in Connection!Told : r.t # t}
  BY <1>1, <1>2 DEF Connection!Told
<1>4. /\ Connection!FirstOp(kind) \in Connection!Ops
      /\ kind # "read" => Connection!FirstOp(kind) = "insert"
      /\ kind = "read" => Connection!FirstOp(kind) \in {"commit", "select"}
      /\ kind = "read" /\ Connection!FirstOp(kind) = "select" => ~tx.open
  BY DEF Connection!FirstOp, Connection!Ops
<1>5. /\ task' \in [Tasks -> TaskType] /\ \A u \in Tasks : u # t => task'[u] = task[u]
      /\ task'[t].kind = kind /\ task'[t].at = Connection!FirstOp(kind) /\ ~task'[t].stale
  BY <1>1, <1>4 DEF Connection!Begin, TaskType
<1>6. queue' = Append(queue, t) /\ UNCHANGED <<Connection!tables, Connection!others>>
  BY DEF Connection!Begin
<1>7. t \in Connection!Queued' /\ Connection!Unwritten(t)'
  <2>1. Connection!Queued' = Connection!Queued \cup {t}
    BY <1>1, <1>2, <1>6, QueueGrows DEF Connection!ConnInv, Connection!OneAtATime
  <2>2. task[t].kind = "read" /\ Connection!Unwritten(t)
    BY <1>1 DEF Connection!RowFits
  <2>3. QED
    BY <1>6, <2>1, <2>2 DEF Connection!Unwritten, Connection!tables
<1>8. Connection!RowFits(t)'
  <2>1. \A r \in Connection!Told' : r.t # t
    BY <1>3
  <2>2. CASE kind = "read"
    BY <1>4, <1>5, <1>7, <2>1, <2>2 DEF Connection!RowFits
  <2>3. CASE kind # "read"
    BY <1>4, <1>5, <1>7, <2>1, <2>3 DEF Connection!RowFits
  <2>4. QED
    BY <2>2, <2>3
<1>9. Connection!CursorFits(t)'
  BY <1>1, <1>6 DEF Connection!CursorFits, Connection!tables
<1>10. Connection!LoneFits' /\ lone' \in Tasks \cup {Connection!Nobody}
  <2>1. lone' = IF \A u \in Tasks \ {t} : Connection!AtRest(u) THEN t ELSE Connection!Nobody
    BY DEF Connection!Begin
  <2>2. CASE \A u \in Tasks \ {t} : Connection!AtRest(u)
    <3>1. lone' = t /\ \A u \in Tasks \ {t} : Connection!AtRest(u)'
      BY <1>5, <2>1, <2>2 DEF Connection!AtRest
    <3>2. tx'.open = tx.open
      BY <1>6 DEF Connection!tables
    <3>3. QED
      BY <1>4, <1>5, <1>7, <3>1, <3>2 DEF Connection!LoneFits
  <2>3. CASE ~\A u \in Tasks \ {t} : Connection!AtRest(u)
    BY <2>1, <2>3 DEF Connection!LoneFits
  <2>4. QED
    BY <2>2, <2>3
<1>11. QED
  BY <1>1, <1>2, <1>3, <1>4, <1>5, <1>6, <1>8, <1>9, <1>10, LoopKeeps

\* While another task has the connection for itself, a task rests.
LEMMA LoneWorks ==
  ASSUME Connection!ConnInv, NEW t \in Tasks, ~Connection!AtRest(t),
         lone # Connection!Nobody
  PROVE  lone = t
BY DEF Connection!ConnInv, Connection!LoneFits, Connection!TypeOK

\* A coroutine that goes on after an answer asks for its next statement,
LEMMA AsksKeeps ==
  ASSUME Connection!ConnInv, NEW t \in Tasks, NEW op, Connection!Answered(t, op),
         NEW to \in Connection!Ops, Connection!Ask(t, to),
         task[t].kind = "read" => to \in {"select", "close"},
         task[t].kind # "read" => to \in {"commit", "undo"},
         to = "commit" => Connection!Written(t), to = "undo" => Connection!Unwritten(t),
         to = "select" => op = "commit", t \in cursors => to = "close"
  PROVE  Connection!ConnInv'
<1>1. /\ results' \in Seq([t : Tasks, ok : BOOLEAN])
      /\ Connection!Told' = {r \in Connection!Told : r.t # t}
      /\ \A i, j \in DOMAIN results' : results'[i].t = results'[j].t => i = j
  BY AnswerStep
<1>2. t \notin Connection!Queued /\ task[t].at = op /\ ~Connection!AtRest(t) /\ UNCHANGED <<Connection!tables, Connection!others, lone>>
  BY AnswerStep
<1>3. /\ task \in [Tasks -> TaskType] /\ queue \in Seq(Tasks) /\ Connection!RowFits(t)
      /\ \A i, j \in DOMAIN queue : queue[i] = queue[j] => i = j
  BY DEF Connection!ConnInv, Connection!TypeOK, TaskType, Connection!OneAtATime
<1>4. queue' = Append(queue, t)
  BY DEF Connection!Ask
<1>5. /\ task' \in [Tasks -> TaskType] /\ \A u \in Tasks : u # t => task'[u] = task[u]
      /\ task'[t].kind = task[t].kind /\ task'[t].at = to /\ task'[t].stale = task[t].stale
  BY <1>3 DEF Connection!Ask, TaskType
<1>6. t \in Connection!Queued'
  BY <1>2, <1>3, <1>4, QueueGrows
<1>7. (Connection!Written(t)' <=> Connection!Written(t)) /\ (Connection!Unwritten(t)' <=> Connection!Unwritten(t))
  BY <1>2 DEF Connection!Written, Connection!Unwritten, Connection!tables
<1>8. Connection!RowFits(t)'
  <2>1. CASE task[t].kind = "read"
    BY <1>3, <1>5, <1>6, <1>7, <2>1 DEF Connection!RowFits
  <2>2. CASE task[t].kind # "read"
    BY <1>3, <1>5, <1>6, <1>7, <2>2 DEF Connection!RowFits
  <2>3. QED
    BY <2>1, <2>2
<1>9. Connection!CursorFits(t)'
  BY <1>2, <1>5, <1>6 DEF Connection!CursorFits, Connection!tables
<1>10. Connection!LoneFits'
  <2>1. CASE lone # Connection!Nobody
    <3>1. lone = t /\ lone' = t
      BY <1>2, <2>1, LoneWorks
    <3>2. \A u \in Tasks \ {t} : Connection!AtRest(u)'
      BY <1>5, <2>1, <3>1
         DEF Connection!ConnInv, Connection!LoneFits, Connection!AtRest
    <3>3. task[t].kind = "read" => ~task[t].stale /\ (to = "select" => ~tx.open)
      BY <1>2, <2>1, <3>1 DEF Connection!ConnInv, Connection!LoneFits
    <3>4. tx'.open = tx.open
      BY <1>2 DEF Connection!tables
    <3>5. QED
      BY <1>5, <1>6, <3>1, <3>2, <3>3, <3>4 DEF Connection!LoneFits
  <2>2. CASE lone = Connection!Nobody
    BY <1>2, <2>2 DEF Connection!LoneFits
  <2>3. QED
    BY <2>1, <2>2
<1>11. task'[t].at # "new" /\ lone' \in Tasks \cup {Connection!Nobody}
  BY <1>2, <1>5 DEF Connection!ConnInv, Connection!TypeOK, Connection!Ops
<1>12. QED
  BY <1>1, <1>2, <1>4, <1>5, <1>8, <1>9, <1>10, <1>11, LoopKeeps

\* or has its end, or waits to try again.
LEMMA RestsKeeps ==
  ASSUME Connection!ConnInv, NEW t \in Tasks, NEW op, Connection!Answered(t, op),
         NEW end \in {"sleep", "done", "failed", "rollback"}, queue' = queue \/ end = "rollback",
         queue' = queue \/ queue' = Append(queue, t),
         task' \in [Tasks -> TaskType], \A u \in Tasks : u # t => task'[u] = task[u],
         task'[t].kind = task[t].kind, task'[t].at = end, task'[t].stale = task[t].stale,
         task[t].kind = "read" => end = "done",
         end # "done" => Connection!Unwritten(t),
         task[t].kind # "read" /\ end = "done" => t \in file \cup undone,
         t \notin cursors
  PROVE  Connection!ConnInv'
<1>1. /\ results' \in Seq([t : Tasks, ok : BOOLEAN])
      /\ Connection!Told' = {r \in Connection!Told : r.t # t}
      /\ \A i, j \in DOMAIN results' : results'[i].t = results'[j].t => i = j
  BY AnswerStep
<1>2. t \notin Connection!Queued /\ task[t].at = op /\ ~Connection!AtRest(t) /\ UNCHANGED <<Connection!tables, Connection!others, lone>>
  BY AnswerStep
<1>3. Connection!RowFits(t)
  BY DEF Connection!ConnInv
<1>4. /\ Connection!Unwritten(t)' <=> Connection!Unwritten(t)
      /\ t \in (file \cup undone)' <=> t \in file \cup undone
      /\ t \notin cursors' /\ tx'.open = tx.open
  BY <1>2 DEF Connection!Unwritten, Connection!tables
<1>5. Connection!RowFits(t)'
  <2>1. CASE task[t].kind = "read"
    <3>1. Connection!Unwritten(t)
      BY <1>3, <2>1 DEF Connection!RowFits
    <3>2. QED
      BY <1>4, <2>1, <3>1 DEF Connection!RowFits
  <2>2. CASE task[t].kind # "read"
    BY <1>4, <2>2 DEF Connection!RowFits
  <2>3. QED
    BY <2>1, <2>2
<1>6. Connection!CursorFits(t)'
  BY <1>4 DEF Connection!CursorFits
<1>7. Connection!LoneFits'
  <2>1. CASE lone # Connection!Nobody
    <3>1. lone = t /\ lone' = t
      BY <1>2, <2>1, LoneWorks
    <3>2. \A u \in Tasks \ {t} : Connection!AtRest(u)'
      BY <2>1, <3>1 DEF Connection!ConnInv, Connection!LoneFits, Connection!AtRest
    <3>3. task[t].kind = "read" => ~task[t].stale
      BY <2>1, <3>1 DEF Connection!ConnInv, Connection!LoneFits
    <3>4. QED
      BY <3>1, <3>2, <3>3 DEF Connection!LoneFits
  <2>2. CASE lone = Connection!Nobody
    BY <1>2, <2>2 DEF Connection!LoneFits
  <2>3. QED
    BY <2>1, <2>2
<1>8. task'[t].at # "new" /\ lone' \in Tasks \cup {Connection!Nobody}
  BY <1>2 DEF Connection!ConnInv, Connection!TypeOK
<1>9. \/ queue' = queue
      \/ queue' = Append(queue, t) /\ task'[t].at \in Connection!Ops
  BY DEF Connection!Ops
<1>10. QED
  BY <1>1, <1>2, <1>5, <1>6, <1>7, <1>8, <1>9, LoopKeeps

\* The row of a task whose INSERT was answered is where the answer says.
LEMMA InsertAnswered ==
  ASSUME Connection!ConnInv, NEW t \in Tasks, Connection!Answered(t, "insert")
  PROVE  /\ task[t].kind # "read" /\ t \notin cursors
         /\ IF Connection!Answer.ok THEN Connection!Written(t) ELSE Connection!Unwritten(t)
         /\ task \in [Tasks -> TaskType] /\ Connection!Answer.ok \in BOOLEAN
<1>1. task[t].at = "insert" /\ Connection!Answer \in Connection!Told /\ Connection!Answer.t = t /\ Connection!Answer.ok \in BOOLEAN
  BY AnswerStep
<1>2. Connection!RowFits(t) /\ Connection!CursorFits(t) /\ task \in [Tasks -> TaskType]
  BY DEF Connection!ConnInv, Connection!TypeOK, TaskType
<1>3. task[t].kind # "read" /\ t \notin cursors
  BY <1>1, <1>2 DEF Connection!RowFits, Connection!CursorFits
<1>4. IF Connection!Answer.ok THEN Connection!Written(t) ELSE Connection!Unwritten(t)
  BY <1>1, <1>2 DEF Connection!RowFits
<1>5. QED
  BY <1>1, <1>2, <1>3, <1>4

\* A row that is in asks for its commit.
LEMMA InsertedKeeps == ASSUME Connection!ConnInv, NEW t \in Tasks,
                              Connection!Inserted(t) PROVE Connection!ConnInv'
<1>1. Connection!Answered(t, "insert") /\ Connection!Answer.ok /\ Connection!Ask(t, "commit")
  BY DEF Connection!Inserted
<1>2. task[t].kind # "read" /\ t \notin cursors /\ Connection!Written(t)
  BY <1>1, InsertAnswered
<1>3. QED
  BY <1>1, <1>2, AsksKeeps DEF Connection!Ops

\* A write that gives up has no row to leave behind,
LEMMA GivesUpKeeps == ASSUME Connection!ConnInv, NEW t \in Tasks,
                             Connection!GivesUp(t) PROVE Connection!ConnInv'
<1>1. Connection!Answered(t, "insert") /\ ~Connection!Answer.ok
  BY DEF Connection!GivesUp
<1>2. task[t].kind # "read" /\ t \notin cursors /\ Connection!Unwritten(t) /\ task \in [Tasks -> TaskType]
  BY <1>1, InsertAnswered
<1>3. CASE task[t].kind = "batch"
  <2>1. Connection!Ask(t, "undo")
    BY <1>3 DEF Connection!GivesUp
  <2>2. QED
    BY <1>1, <1>2, <2>1, AsksKeeps DEF Connection!Ops
<1>4. CASE task[t].kind # "batch"
  <2>1. Connection!Rest(t, "failed")
    BY <1>4 DEF Connection!GivesUp
  <2>2. /\ task' \in [Tasks -> TaskType] /\ \A u \in Tasks : u # t => task'[u] = task[u]
        /\ task'[t].kind = task[t].kind /\ task'[t].at = "failed"
        /\ task'[t].stale = task[t].stale /\ queue' = queue
    BY <1>2, <2>1 DEF Connection!Rest, TaskType
  <2>3. QED
    BY <1>1, <1>2, <2>2, RestsKeeps
<1>5. QED
  BY <1>3, <1>4

\* and one that tries again has none yet.
LEMMA TriesAgainKeeps ==
  ASSUME Connection!ConnectionAssumptions, Connection!ConnInv, NEW t \in Tasks,
         Connection!TriesAgain(t) PROVE Connection!ConnInv'
<1>1. Connection!Answered(t, "insert") /\ ~Connection!Answer.ok /\ ~Connection!LastTry(t)
  BY DEF Connection!TriesAgain
<1>2. task[t].kind # "read" /\ t \notin cursors /\ Connection!Unwritten(t) /\ task \in [Tasks -> TaskType]
  BY <1>1, InsertAnswered
<1> DEFINE back == task[t].kind # "control" /\ tx.open
<1> DEFINE to == IF back THEN "rollback" ELSE "sleep"
<1>3. /\ task' = [task EXCEPT ![t].tries = @ + 1, ![t].at = to]
      /\ queue' = IF back THEN Append(queue, t) ELSE queue
  BY DEF Connection!TriesAgain
<1>4. to \in {"sleep", "rollback"} /\ (queue' = queue \/ to = "rollback")
      /\ (queue' = queue \/ queue' = Append(queue, t))
  BY <1>3
<1> HIDE DEF to
<1>5. task[t].tries \in 0 .. Attempts - 1 /\ task[t].tries + 1 \in 0 .. Attempts - 1
  BY <1>1, <1>2 DEF Connection!LastTry, TaskType, Connection!ConnectionAssumptions
<1>6. /\ task' \in [Tasks -> TaskType] /\ \A u \in Tasks : u # t => task'[u] = task[u]
      /\ task'[t].kind = task[t].kind /\ task'[t].at = to
      /\ task'[t].stale = task[t].stale
  <2> DEFINE r == [task[t] EXCEPT !.tries = @ + 1, !.at = to]
  <2>1. task[t] \in TaskType /\ task' = [task EXCEPT ![t] = r]
    BY <1>2, <1>3
  <2>2. r \in TaskType /\ r.kind = task[t].kind /\ r.at = to /\ r.stale = task[t].stale
    BY <1>4, <1>5, <2>1 DEF TaskType, Connection!Ops
  <2> HIDE DEF r
  <2>3. QED
    BY <1>2, <2>1, <2>2
<1>7. QED
  BY <1>1, <1>2, <1>4, <1>6, RestsKeeps

\* Those that come to rest after a rollback, a commit or the last row read.
LEMMA EndsKeep ==
  ASSUME Connection!ConnInv, NEW t \in Tasks,
         Connection!RolledBack(t) \/ Connection!Undone(t) \/ Connection!Committed(t) \/ Connection!Closed(t)
  PROVE  Connection!ConnInv'
<1>1. task \in [Tasks -> TaskType] /\ Connection!RowFits(t) /\ Connection!CursorFits(t)
  BY DEF Connection!ConnInv, Connection!TypeOK, TaskType
<1>2. ASSUME NEW op, NEW end \in {"sleep", "done", "failed"}, Connection!Answered(t, op),
             Connection!Rest(t, end)
      PROVE  /\ task' \in [Tasks -> TaskType] /\ \A u \in Tasks : u # t => task'[u] = task[u]
             /\ task'[t].kind = task[t].kind /\ task'[t].at = end
             /\ task'[t].stale = task[t].stale /\ queue' = queue
             /\ task[t].at = op /\ t \notin Connection!Queued
  <2>1. task[t].at = op /\ t \notin Connection!Queued
    BY <1>2, AnswerStep
  <2>2. QED
    BY <1>1, <1>2, <2>1 DEF Connection!Rest, TaskType
<1>3. CASE Connection!RolledBack(t)
  <2>1. Connection!Answered(t, "rollback") /\ Connection!Rest(t, "sleep")
    BY <1>3 DEF Connection!RolledBack
  <2>2. task[t].at = "rollback"
    BY <1>2, <2>1
  <2>3. task[t].kind # "read" /\ Connection!Unwritten(t) /\ t \notin cursors
    BY <1>1, <2>2 DEF Connection!RowFits, Connection!CursorFits
  <2>4. QED
    BY <1>2, <2>1, <2>3, RestsKeeps
<1>4. CASE Connection!Undone(t)
  <2>1. Connection!Answered(t, "undo") /\ Connection!Rest(t, "failed")
    BY <1>4 DEF Connection!Undone
  <2>2. task[t].at = "undo"
    BY <1>2, <2>1
  <2>3. task[t].kind # "read" /\ Connection!Unwritten(t) /\ t \notin cursors
    BY <1>1, <2>2 DEF Connection!RowFits, Connection!CursorFits
  <2>4. QED
    BY <1>2, <2>1, <2>3, RestsKeeps
<1>5. CASE Connection!Committed(t)
  <2>1. Connection!Answered(t, "commit")
    BY <1>5 DEF Connection!Committed
  <2>2. task[t].at = "commit" /\ t \notin Connection!Queued
    BY <2>1, AnswerStep
  <2>3. t \notin cursors
    BY <1>1, <2>2 DEF Connection!CursorFits
  <2>4. CASE task[t].kind = "read"
    <3>1. Connection!Ask(t, "select")
      BY <1>5, <2>4 DEF Connection!Committed
    <3>2. QED
      BY <2>1, <2>3, <2>4, <3>1, AsksKeeps DEF Connection!Ops
  <2>5. CASE task[t].kind # "read"
    <3>1. Connection!Rest(t, "done")
      BY <1>5, <2>5 DEF Connection!Committed
    <3>2. t \in file \cup undone
      BY <1>1, <2>2, <2>5 DEF Connection!RowFits
    <3>3. QED
      BY <1>2, <2>1, <2>3, <2>5, <3>1, <3>2, RestsKeeps
  <2>6. QED
    BY <2>4, <2>5
<1>6. CASE Connection!Closed(t)
  <2>1. Connection!Answered(t, "close") /\ Connection!Rest(t, "done")
    BY <1>6 DEF Connection!Closed
  <2>2. task[t].at = "close" /\ t \notin Connection!Queued
    BY <1>2, <2>1
  <2>3. task[t].kind = "read" /\ t \notin cursors
    BY <1>1, <2>2 DEF Connection!RowFits, Connection!CursorFits
  <2>4. QED
    BY <1>2, <2>1, <2>3, RestsKeeps
<1>7. QED
  BY <1>3, <1>4, <1>5, <1>6

\* A read that has its rows closes its cursor.
LEMMA SelectedKeeps == ASSUME Connection!ConnInv, NEW t \in Tasks,
                              Connection!Selected(t) PROVE Connection!ConnInv'
<1>1. Connection!Answered(t, "select") /\ Connection!Ask(t, "close")
  BY DEF Connection!Selected
<1>2. task[t].at = "select"
  BY <1>1, AnswerStep
<1>3. task[t].kind = "read"
  BY <1>2 DEF Connection!ConnInv, Connection!RowFits
<1>4. QED
  BY <1>1, <1>3, AsksKeeps DEF Connection!Ops

\* A write that has slept asks for its INSERT again.
LEMMA WakesKeeps == ASSUME Connection!ConnInv, NEW t \in Tasks,
                           Connection!Wakes(t) PROVE Connection!ConnInv'
<1>1. /\ task \in [Tasks -> TaskType] /\ queue \in Seq(Tasks) /\ Connection!RowFits(t)
      /\ Connection!CursorFits(t)
      /\ \A i, j \in DOMAIN queue : queue[i] = queue[j] => i = j
      /\ task[t].at = "sleep" /\ queue' = Append(queue, t)
      /\ UNCHANGED <<Connection!tables, results, Connection!others, lone>>
      /\ results \in Seq([t : Tasks, ok : BOOLEAN])
      /\ \A i, j \in DOMAIN results : results[i].t = results[j].t => i = j
  BY DEF Connection!Wakes, Connection!Ask, Connection!ConnInv, Connection!TypeOK,
     TaskType, Connection!OneAtATime
<1>2. /\ t \notin Connection!Queued /\ \A r \in Connection!Told : r.t # t
  BY <1>1 DEF Connection!ConnInv, Connection!OneAtATime, Connection!Ops
<1>3. Connection!Told' = {r \in Connection!Told : r.t # t}
  BY <1>1, <1>2 DEF Connection!Told
<1>4. /\ task' \in [Tasks -> TaskType] /\ \A u \in Tasks : u # t => task'[u] = task[u]
      /\ task'[t].kind = task[t].kind /\ task'[t].at = "insert"
      /\ task'[t].stale = task[t].stale
  BY <1>1 DEF Connection!Wakes, Connection!Ask, TaskType, Connection!Ops
<1>5. task[t].kind # "read" /\ Connection!Unwritten(t) /\ t \notin cursors
  BY <1>1 DEF Connection!RowFits, Connection!CursorFits
<1>6. Connection!RowFits(t)'
  <2>1. Connection!Unwritten(t)'
    BY <1>1, <1>5 DEF Connection!Unwritten, Connection!tables
  <2>2. QED
    BY <1>3, <1>4, <1>5, <2>1 DEF Connection!RowFits
<1>7. Connection!CursorFits(t)'
  BY <1>1, <1>5 DEF Connection!CursorFits, Connection!tables
<1>8. Connection!LoneFits'
  <2>1. CASE lone # Connection!Nobody
    <3>1. lone = t /\ lone' = t
      BY <1>1, <2>1, LoneWorks DEF Connection!AtRest
    <3>2. \A u \in Tasks \ {t} : Connection!AtRest(u)'
      BY <1>4, <2>1, <3>1
         DEF Connection!ConnInv, Connection!LoneFits, Connection!AtRest
    <3>3. QED
      BY <1>4, <1>5, <3>1, <3>2 DEF Connection!LoneFits
  <2>2. CASE lone = Connection!Nobody
    BY <1>1, <2>2 DEF Connection!LoneFits
  <2>3. QED
    BY <2>1, <2>2
<1>9. task'[t].at # "new" /\ task'[t].at \in Connection!Ops /\ lone' \in Tasks \cup {Connection!Nobody}
  BY <1>1, <1>4 DEF Connection!ConnInv, Connection!TypeOK, Connection!Ops
<1>10. QED
  BY <1>1, <1>2, <1>3, <1>4, <1>6, <1>7, <1>8, <1>9, LoopKeeps

-----------------------------------------------------------------------------
\* The thread leaves a lone task alone.
LEMMA LoneServed ==
  ASSUME Connection!ConnInv, NEW t \in Tasks, ~Connection!AtRest(t), UNCHANGED lone,
         \A u \in Tasks : u # t => task'[u] = task[u],
         lone # Connection!Nobody /\ lone = t /\ task[t].kind = "read" =>
           /\ task'[t].at = "commit" /\ t \notin Connection!Queued' => ~tx'.open
           /\ task'[t].at = "select" /\ t \in Connection!Queued' => ~tx'.open
           /\ ~task'[t].stale,
         task'[t].kind = task[t].kind
  PROVE  Connection!LoneFits'
<1>1. CASE lone # Connection!Nobody
  <2>1. lone = t /\ lone' = t
    BY <1>1, LoneWorks
  <2>2. \A u \in Tasks \ {t} : Connection!AtRest(u)'
    BY <1>1, <2>1 DEF Connection!ConnInv, Connection!LoneFits, Connection!AtRest
  <2>3. QED
    BY <2>1, <2>2 DEF Connection!LoneFits
<1>2. CASE lone = Connection!Nobody
  BY <1>2 DEF Connection!LoneFits
<1>3. QED
  BY <1>1, <1>2

\* What the thread's steps on a task that stays as it is have in common
LEMMA ServedFacts ==
  ASSUME Connection!ConnInv, NEW t \in Tasks, NEW op, NEW ok \in BOOLEAN,
         Connection!Serve(t, op, ok)
  PROVE  /\ task \in [Tasks -> TaskType] /\ Connection!RowFits(t)
         /\ Connection!CursorFits(t)
         /\ task[t].at = op /\ ~Connection!AtRest(t) /\ t \in Connection!Queued
         /\ t \notin Connection!Queued'
         /\ \A r \in Connection!Told' : r.t = t => r.ok = ok
         /\ UNCHANGED lone /\ UNCHANGED Connection!others
         /\ file \subseteq Tasks /\ cursors \subseteq Tasks /\ undone \subseteq Tasks
         /\ tx \in [open : BOOLEAN, rows : SUBSET Tasks, snap : {Connection!None} \cup 0 .. MaxOutside]
         /\ outside \in 0 .. MaxOutside
<1>1. Connection!Told' = Connection!Told \cup {[t |-> t, ok |-> ok]}
  BY ServeStep
<1>2. \A r \in Connection!Told : r.t # t
  BY ServeStep
<1>3. task[t].at = op /\ ~Connection!AtRest(t) /\ UNCHANGED <<Connection!others, lone>>
  BY ServeStep
<1>4. t \in Connection!Queued /\ Connection!Queued' = Connection!Queued \ {t}
  BY ServeStep
<1>5. /\ task \in [Tasks -> TaskType] /\ Connection!RowFits(t) /\ Connection!CursorFits(t)
      /\ file \subseteq Tasks /\ cursors \subseteq Tasks /\ undone \subseteq Tasks
      /\ tx \in [open : BOOLEAN, rows : SUBSET Tasks, snap : {Connection!None} \cup 0 .. MaxOutside]
      /\ outside \in 0 .. MaxOutside
  BY DEF Connection!ConnInv, Connection!TypeOK, TaskType
<1>6. \A r \in Connection!Told' : r.t = t => r.ok = ok
  BY <1>1, <1>2
<1>7. QED
  BY <1>3, <1>4, <1>5, <1>6

\* An INSERT that succeeds has written its row,
LEMMA InsertKeeps == ASSUME Connection!ConnInv, NEW t \in Tasks,
                            Connection!Insert(t) PROVE Connection!ConnInv'
<1>1. /\ Connection!Serve(t, "insert", TRUE) /\ UNCHANGED <<file, cursors, undone, task>>
      /\ tx' = [open |-> TRUE, rows |-> tx.rows \cup {t}, snap |-> outside]
  BY DEF Connection!Insert
<1>2. /\ task \in [Tasks -> TaskType] /\ Connection!RowFits(t) /\ Connection!CursorFits(t)
      /\ task[t].at = "insert" /\ ~Connection!AtRest(t) /\ t \notin Connection!Queued'
      /\ UNCHANGED lone
  BY <1>1, ServedFacts
<1>3. /\ file \subseteq Tasks /\ cursors \subseteq Tasks /\ undone \subseteq Tasks
      /\ tx.rows \subseteq Tasks /\ outside \in 0 .. MaxOutside
  BY <1>1, ServedFacts
<1>4. \A r \in Connection!Told' : r.t = t => r.ok = TRUE
  BY <1>1, ServedFacts
<1>5. task[t].kind # "read" /\ t \notin cursors
  BY <1>2 DEF Connection!RowFits, Connection!CursorFits
<1>6. /\ tx' \in [open : BOOLEAN, rows : SUBSET Tasks, snap : {Connection!None} \cup 0 .. MaxOutside]
      /\ tx'.open /\ tx'.rows = tx.rows \cup {t}
  BY <1>1, <1>3
<1>7. Connection!RowFits(t)'
  BY <1>1, <1>2, <1>4, <1>5, <1>6 DEF Connection!RowFits, Connection!Written
<1>8. Connection!CursorFits(t)'
  BY <1>1, <1>5 DEF Connection!CursorFits
<1>9. Connection!LoneFits'
  BY <1>1, <1>2, <1>5, LoneServed
<1>10. QED
  BY <1>1, <1>2, <1>3, <1>6, <1>7, <1>8, <1>9, ThreadKeeps

\* and one that finds the file locked has not.
LEMMA BusyKeeps == ASSUME Connection!ConnInv, NEW t \in Tasks,
                          Connection!Busy(t) PROVE Connection!ConnInv'
<1>1. /\ Connection!Serve(t, "insert", FALSE) /\ UNCHANGED <<file, cursors, undone, task>>
      /\ tx' = [tx EXCEPT !.open = TRUE]
  BY DEF Connection!Busy
<1>2. /\ task \in [Tasks -> TaskType] /\ Connection!RowFits(t) /\ Connection!CursorFits(t)
      /\ task[t].at = "insert" /\ ~Connection!AtRest(t) /\ t \in Connection!Queued
      /\ t \notin Connection!Queued'
      /\ UNCHANGED lone
  BY <1>1, ServedFacts
<1>3. /\ file \subseteq Tasks /\ cursors \subseteq Tasks /\ undone \subseteq Tasks
      /\ tx \in [open : BOOLEAN, rows : SUBSET Tasks, snap : {Connection!None} \cup 0 .. MaxOutside]
  BY <1>1, ServedFacts
<1>4. \A r \in Connection!Told' : r.t = t => r.ok = FALSE
  BY <1>1, ServedFacts
<1>5. task[t].kind # "read" /\ t \notin cursors /\ Connection!Unwritten(t)
  BY <1>2 DEF Connection!RowFits, Connection!CursorFits
<1>6. /\ tx' \in [open : BOOLEAN, rows : SUBSET Tasks, snap : {Connection!None} \cup 0 .. MaxOutside]
      /\ tx'.open /\ tx'.rows = tx.rows
  BY <1>1, <1>3
<1>7. Connection!RowFits(t)'
  <2>1. Connection!Unwritten(t)'
    BY <1>1, <1>5, <1>6 DEF Connection!Unwritten
  <2>2. QED
    BY <1>1, <1>2, <1>4, <1>5, <2>1 DEF Connection!RowFits
<1>8. Connection!CursorFits(t)'
  BY <1>1, <1>5 DEF Connection!CursorFits
<1>9. Connection!LoneFits'
  BY <1>1, <1>2, <1>5, LoneServed
<1>10. QED
  BY <1>1, <1>2, <1>3, <1>6, <1>7, <1>8, <1>9, ThreadKeeps

\* What is left when a commit or a rollback ends the transaction.
LEMMA EndedFits ==
  ASSUME NEW S, cursors \subseteq Tasks,
         tx \in [open : BOOLEAN, rows : SUBSET Tasks, snap : {Connection!None} \cup 0 .. MaxOutside]
  PROVE  /\ Connection!Ended(S) \in [open : BOOLEAN, rows : SUBSET Tasks, snap : {Connection!None} \cup 0 .. MaxOutside]
         /\ ~Connection!Ended(S).open /\ Connection!Ended(S).rows = {} /\ (S = {} => Connection!Ended(S).snap = Connection!None)
         /\ tx.rows \subseteq Tasks
BY DEF Connection!Ended

\* A commit takes every row of the connection to the file,
LEMMA CommitKeeps == ASSUME Connection!ConnInv, NEW t \in Tasks,
                            Connection!Commit(t) PROVE Connection!ConnInv'
<1>1. /\ Connection!Serve(t, "commit", TRUE) /\ UNCHANGED <<cursors, undone, task>>
      /\ file' = file \cup tx.rows /\ tx' = Connection!Ended(cursors)
  BY DEF Connection!Commit, Connection!Kept
<1>2. /\ task \in [Tasks -> TaskType] /\ Connection!RowFits(t) /\ Connection!CursorFits(t)
      /\ task[t].at = "commit" /\ ~Connection!AtRest(t) /\ t \in Connection!Queued
      /\ t \notin Connection!Queued'
      /\ UNCHANGED lone
  BY <1>1, ServedFacts
<1>3. /\ file \subseteq Tasks /\ cursors \subseteq Tasks /\ undone \subseteq Tasks
      /\ tx \in [open : BOOLEAN, rows : SUBSET Tasks, snap : {Connection!None} \cup 0 .. MaxOutside]
  BY <1>1, ServedFacts
<1>4. /\ tx' \in [open : BOOLEAN, rows : SUBSET Tasks, snap : {Connection!None} \cup 0 .. MaxOutside]
      /\ ~tx'.open /\ tx'.rows = {} /\ (cursors = {} => tx'.snap = Connection!None)
      /\ tx.rows \subseteq Tasks
  BY <1>1, <1>3, EndedFits
<1>5. t \notin cursors
  BY <1>2 DEF Connection!CursorFits
<1>6. Connection!RowFits(t)'
  <2>1. CASE task[t].kind = "read"
    <3>1. Connection!Unwritten(t)
      BY <1>2, <2>1 DEF Connection!RowFits
    <3>2. Connection!Unwritten(t)'
      BY <1>1, <1>4, <3>1 DEF Connection!Unwritten
    <3>3. QED
      BY <1>1, <1>2, <2>1, <3>2 DEF Connection!RowFits
  <2>2. CASE task[t].kind # "read"
    <3>1. Connection!Written(t)
      BY <1>2, <2>2 DEF Connection!RowFits
    <3>2. Connection!Written(t)' /\ t \in (file \cup undone)'
      BY <1>1, <1>4, <3>1 DEF Connection!Written
    <3>3. QED
      BY <1>1, <1>2, <2>2, <3>2 DEF Connection!RowFits
  <2>3. QED
    BY <2>1, <2>2
<1>7. Connection!CursorFits(t)'
  BY <1>1, <1>5 DEF Connection!CursorFits
<1>8. Connection!LoneFits'
  <2>1. lone # Connection!Nobody /\ lone = t /\ task[t].kind = "read" => ~task[t].stale
    BY DEF Connection!ConnInv, Connection!LoneFits
  <2>2. QED
    BY <1>1, <1>2, <1>4, <2>1, LoneServed
<1>9. /\ file' \subseteq Tasks /\ file \cup undone \subseteq file' \cup undone'
      /\ \A u \in Tasks : u # t =>
           /\ u \in file' \cup tx'.rows => u \in file \cup tx.rows
           /\ u \in tx.rows => u \in file' \cup tx'.rows \cup undone'
           /\ u \in cursors' => u \in cursors
  BY <1>1, <1>3, <1>4
<1>10. QED
  BY <1>1, <1>2, <1>3, <1>4, <1>6, <1>7, <1>8, <1>9, ThreadKeeps

\* and a rollback takes them to the undone.
LEMMA RollbackKeeps == ASSUME Connection!ConnInv, NEW t \in Tasks,
                              Connection!Rollback(t) PROVE Connection!ConnInv'
<1>1. PICK op \in {"rollback", "undo"} : Connection!Serve(t, op, TRUE)
  BY DEF Connection!Rollback
<1>2. /\ UNCHANGED <<file, cursors, task>>
      /\ undone' = undone \cup tx.rows /\ tx' = Connection!Ended(cursors)
  BY DEF Connection!Rollback
<1>3. /\ task \in [Tasks -> TaskType] /\ Connection!RowFits(t) /\ Connection!CursorFits(t)
      /\ task[t].at = op /\ ~Connection!AtRest(t) /\ t \in Connection!Queued
      /\ t \notin Connection!Queued'
      /\ UNCHANGED lone
  BY <1>1, ServedFacts
<1>4. /\ file \subseteq Tasks /\ cursors \subseteq Tasks /\ undone \subseteq Tasks
      /\ tx \in [open : BOOLEAN, rows : SUBSET Tasks, snap : {Connection!None} \cup 0 .. MaxOutside]
  BY <1>1, ServedFacts
<1>5. /\ tx' \in [open : BOOLEAN, rows : SUBSET Tasks, snap : {Connection!None} \cup 0 .. MaxOutside]
      /\ ~tx'.open /\ tx'.rows = {} /\ (cursors = {} => tx'.snap = Connection!None)
      /\ tx.rows \subseteq Tasks
  BY <1>2, <1>4, EndedFits
<1>6. task[t].kind # "read" /\ Connection!Unwritten(t) /\ t \notin cursors
  BY <1>3 DEF Connection!RowFits, Connection!CursorFits
<1>7. Connection!RowFits(t)'
  <2>1. Connection!Unwritten(t)'
    BY <1>2, <1>5, <1>6 DEF Connection!Unwritten
  <2>2. QED
    BY <1>2, <1>3, <1>6, <2>1 DEF Connection!RowFits
<1>8. Connection!CursorFits(t)'
  BY <1>2, <1>6 DEF Connection!CursorFits
<1>9. Connection!LoneFits'
  BY <1>2, <1>3, <1>6, LoneServed
<1>10. /\ undone' \subseteq Tasks /\ file \cup undone \subseteq file' \cup undone'
       /\ \A u \in Tasks : u # t =>
            /\ u \in file' \cup tx'.rows => u \in file \cup tx.rows
            /\ u \in tx.rows => u \in file' \cup tx'.rows \cup undone'
            /\ u \in cursors' => u \in cursors
  BY <1>2, <1>4, <1>5
<1>11. QED
  BY <1>1, <1>2, <1>3, <1>4, <1>5, <1>7, <1>8, <1>9, <1>10, ThreadKeeps

\* A read that is alone begins with the file as it is.
LEMMA SelectKeeps == ASSUME Connection!ConnInv, NEW t \in Tasks,
                            Connection!Select(t) PROVE Connection!ConnInv'
<1>1. /\ Connection!Serve(t, "select", TRUE) /\ UNCHANGED <<file, undone>>
      /\ cursors' = cursors \cup {t}
      /\ tx' = [tx EXCEPT !.snap = IF @ = Connection!None THEN outside ELSE @]
      /\ task' = [task EXCEPT ![t].stale = tx'.snap # outside]
  BY DEF Connection!Select
<1>2. /\ task \in [Tasks -> TaskType] /\ Connection!RowFits(t)
      /\ task[t].at = "select" /\ ~Connection!AtRest(t) /\ t \in Connection!Queued
      /\ t \notin Connection!Queued'
      /\ UNCHANGED lone
  BY <1>1, ServedFacts
<1>3. /\ file \subseteq Tasks /\ cursors \subseteq Tasks /\ undone \subseteq Tasks
      /\ tx \in [open : BOOLEAN, rows : SUBSET Tasks, snap : {Connection!None} \cup 0 .. MaxOutside]
      /\ outside \in 0 .. MaxOutside
  BY <1>1, ServedFacts
<1>4. /\ tx' \in [open : BOOLEAN, rows : SUBSET Tasks, snap : {Connection!None} \cup 0 .. MaxOutside]
      /\ tx'.open = tx.open /\ tx'.rows = tx.rows
      /\ tx'.snap = IF tx.snap = Connection!None THEN outside ELSE tx.snap
  BY <1>1, <1>3
<1>5. /\ task' \in [Tasks -> TaskType] /\ \A u \in Tasks : u # t => task'[u] = task[u]
      /\ task'[t].kind = task[t].kind /\ task'[t].at = "select"
      /\ task'[t].stale = (tx'.snap # outside)
  BY <1>1, <1>2 DEF TaskType
<1>6. task[t].kind = "read" /\ Connection!Unwritten(t)
  BY <1>2 DEF Connection!RowFits
<1>7. Connection!RowFits(t)'
  <2>1. Connection!Unwritten(t)'
    BY <1>1, <1>4, <1>6 DEF Connection!Unwritten
  <2>2. QED
    BY <1>5, <1>6, <2>1 DEF Connection!RowFits
<1>8. Connection!CursorFits(t)'
  BY <1>2, <1>5 DEF Connection!CursorFits
<1>9. Connection!LoneFits'
  <2>1. ASSUME lone # Connection!Nobody, lone = t PROVE ~task'[t].stale
    <3>1. ~tx.open /\ \A u \in Tasks : u # t => Connection!AtRest(u)
      BY <1>2, <1>6, <2>1 DEF Connection!ConnInv, Connection!LoneFits
    <3>2. cursors = {}
      <4> SUFFICES ASSUME NEW u \in cursors PROVE FALSE
        OBVIOUS
      <4>1. u \in Tasks /\ Connection!CursorFits(u)
        BY <1>3 DEF Connection!ConnInv
      <4>2. u # t
        BY <1>2, <4>1 DEF Connection!CursorFits
      <4>3. QED
        BY <3>1, <4>1, <4>2 DEF Connection!CursorFits, Connection!AtRest
    <3>3. tx.snap = Connection!None
      BY <3>1, <3>2 DEF Connection!ConnInv
    <3>4. QED
      BY <1>4, <1>5, <3>3
  <2>2. QED
    BY <1>2, <1>5, <2>1, LoneServed
<1>10. ~tx'.open => tx'.rows = {} /\ (cursors' = {} => tx'.snap = Connection!None)
  BY <1>1, <1>4 DEF Connection!ConnInv
<1>11. QED
  BY <1>1, <1>2, <1>3, <1>4, <1>5, <1>7, <1>8, <1>9, <1>10, ThreadKeeps

\* The snapshot that goes with the last reader is nobody else's.
LEMMA CursorKeeps == ASSUME Connection!ConnInv, NEW t \in Tasks,
                            Connection!Close(t) PROVE Connection!ConnInv'
<1>1. /\ Connection!Serve(t, "close", TRUE) /\ UNCHANGED <<file, undone, task>>
      /\ cursors' = cursors \ {t}
      /\ tx' = IF tx.open THEN tx ELSE Connection!Ended(cursors')
  BY DEF Connection!Close
<1>2. /\ task \in [Tasks -> TaskType] /\ Connection!RowFits(t)
      /\ task[t].at = "close" /\ ~Connection!AtRest(t) /\ t \in Connection!Queued
      /\ t \notin Connection!Queued'
      /\ UNCHANGED lone
  BY <1>1, ServedFacts
<1>3. /\ file \subseteq Tasks /\ cursors \subseteq Tasks /\ undone \subseteq Tasks
      /\ tx \in [open : BOOLEAN, rows : SUBSET Tasks, snap : {Connection!None} \cup 0 .. MaxOutside]
  BY <1>1, ServedFacts
<1>4. /\ tx' \in [open : BOOLEAN, rows : SUBSET Tasks, snap : {Connection!None} \cup 0 .. MaxOutside]
      /\ tx'.rows = tx.rows
      /\ ~tx'.open => tx'.rows = {} /\ (cursors' = {} => tx'.snap = Connection!None)
  <2>1. ~tx.open => tx.rows = {}
    BY DEF Connection!ConnInv
  <2>2. CASE tx.open
    BY <1>1, <1>3, <2>2
  <2>3. CASE ~tx.open
    <3>1. tx' = Connection!Ended(cursors')
      BY <1>1, <2>3
    <3>2. QED
      BY <1>3, <2>1, <2>3, <3>1 DEF Connection!Ended
  <2>4. QED
    BY <2>2, <2>3
<1>5. task[t].kind = "read" /\ Connection!Unwritten(t)
  BY <1>2 DEF Connection!RowFits
<1>6. Connection!RowFits(t)'
  <2>1. Connection!Unwritten(t)'
    BY <1>1, <1>4, <1>5 DEF Connection!Unwritten
  <2>2. QED
    BY <1>1, <1>2, <1>5, <2>1 DEF Connection!RowFits
<1>7. Connection!CursorFits(t)'
  BY <1>1 DEF Connection!CursorFits
<1>8. Connection!LoneFits'
  <2>1. lone # Connection!Nobody /\ lone = t /\ task[t].kind = "read" => ~task[t].stale
    BY DEF Connection!ConnInv, Connection!LoneFits
  <2>2. QED
    BY <1>1, <1>2, <2>1, LoneServed
<1>9. QED
  BY <1>1, <1>2, <1>3, <1>4, <1>6, <1>7, <1>8, ThreadKeeps

\* Another connection has nothing to do with the tasks.
LEMMA OutsideKeeps ==
  ASSUME Connection!ConnectionAssumptions, Connection!ConnInv,
         Connection!Lock \/ Connection!Unlock PROVE Connection!ConnInv'
<1>1. /\ UNCHANGED <<Connection!tables, task, queue, results, lone>>
      /\ locked' \in BOOLEAN /\ outside' \in 0 .. MaxOutside
      /\ locked' => outside' < MaxOutside
  <2>1. /\ outside \in 0 .. MaxOutside /\ MaxOutside \in Nat
        /\ locked => outside < MaxOutside
    BY DEF Connection!ConnInv, Connection!TypeOK, Connection!ConnectionAssumptions
  <2>2. CASE Connection!Lock
    BY <2>1, <2>2 DEF Connection!Lock
  <2>3. CASE Connection!Unlock
    <3>1. /\ locked /\ locked' = FALSE /\ outside' = outside + 1
          /\ UNCHANGED <<Connection!tables, task, queue, results, lone>>
      BY <2>3 DEF Connection!Unlock
    <3>2. outside' \in 0 .. MaxOutside
      BY <2>1, <3>1
    <3>3. locked' \in BOOLEAN /\ ~locked'
      BY <3>1
    <3>4. QED
      BY <3>1, <3>2, <3>3
  <2>4. QED
    BY <2>2, <2>3
<1>2. Connection!Queued' = Connection!Queued /\ Connection!Told' = Connection!Told
  BY <1>1 DEF Connection!Queued, Connection!Told
<1>3. Connection!TypeOK' /\ Connection!OneAtATime'
  BY <1>1, <1>2
     DEF Connection!ConnInv, Connection!TypeOK, Connection!OneAtATime,
         Connection!tables
<1>4. ASSUME NEW u \in Tasks PROVE Connection!RowFits(u)' /\ Connection!CursorFits(u)'
  BY <1>1, <1>2, OthersFit
     DEF Connection!Unwritten, Connection!Written, Connection!tables
<1>5. Connection!LoneFits'
  BY <1>1, <1>2
     DEF Connection!ConnInv, Connection!LoneFits, Connection!AtRest,
         Connection!tables
<1>6. /\ \A u \in Tasks : task'[u].at = "new" => ~task'[u].stale
      /\ ~tx'.open => tx'.rows = {} /\ (cursors' = {} => tx'.snap = Connection!None)
  BY <1>1 DEF Connection!ConnInv, Connection!tables
<1>7. QED
  BY <1>1, <1>3, <1>4, <1>5, <1>6 DEF Connection!ConnInv

\* At the start nothing is asked for and nothing is written.
LEMMA InitConnInv == ASSUME Connection!ConnectionAssumptions,
                            Connection!Init PROVE Connection!ConnInv
<1>1. Connection!Queued = {} /\ Connection!Told = {} /\ queue \in Seq(Tasks) /\ results \in Seq([t : Tasks, ok : BOOLEAN])
  BY DEF Connection!Init, Connection!Queued, Connection!Told
<1>2. task \in [Tasks -> TaskType] /\ \A t \in Tasks :
        task[t] = [kind |-> "read", at |-> "new", tries |-> 0, stale |-> FALSE]
  BY DEF Connection!Init, TaskType, Connection!Kinds,
     Connection!ConnectionAssumptions
<1>3. Connection!TypeOK
  <2>1. tx \in [open : BOOLEAN, rows : SUBSET Tasks, snap : {Connection!None} \cup 0 .. MaxOutside]
    BY DEF Connection!Init
  <2>2. outside \in 0 .. MaxOutside /\ locked \in BOOLEAN /\ lone \in Tasks \cup {Connection!Nobody}
    <3>1. outside = 0 /\ 0 \in 0 .. MaxOutside
      BY DEF Connection!Init, Connection!ConnectionAssumptions
    <3>2. locked = FALSE /\ lone = Connection!Nobody
      BY DEF Connection!Init
    <3>3. QED
      BY <3>1, <3>2
  <2>3. file \subseteq Tasks /\ cursors \subseteq Tasks /\ undone \subseteq Tasks
    BY DEF Connection!Init
  <2>4. QED
    BY <1>1, <1>2, <2>1, <2>2, <2>3 DEF Connection!TypeOK, TaskType
<1>4. Connection!OneAtATime
  BY <1>1 DEF Connection!Init, Connection!OneAtATime
<1>5. \A t \in Tasks : Connection!RowFits(t) /\ Connection!CursorFits(t)
  BY <1>1, <1>2
     DEF Connection!Init, Connection!RowFits, Connection!CursorFits,
         Connection!Unwritten
<1>6. QED
  BY <1>2, <1>3, <1>4, <1>5
     DEF Connection!Init, Connection!ConnInv, Connection!LoneFits

\* Each step keeps the invariant.
LEMMA StepConnInv ==
  ASSUME Connection!ConnectionAssumptions, Connection!ConnInv,
         [Connection!Next]_(Connection!vars) PROVE Connection!ConnInv'
<1>1. CASE UNCHANGED Connection!vars
  <2>1. Connection!Queued' = Connection!Queued /\ Connection!Told' = Connection!Told
    BY <1>1 DEF Connection!Queued, Connection!Told, Connection!vars
  <2>2. QED
    BY <1>1, <2>1
       DEF Connection!vars, Connection!tables, Connection!others,
           Connection!ConnInv, Connection!TypeOK, Connection!OneAtATime,
           Connection!RowFits, Connection!CursorFits, Connection!LoneFits,
           Connection!Unwritten, Connection!Written, Connection!AtRest
<1>2. ASSUME NEW t \in Tasks, Connection!Loop(t) PROVE Connection!ConnInv'
  BY <1>2, BeginKeeps, InsertedKeeps, GivesUpKeeps, TriesAgainKeeps, EndsKeep,
     WakesKeeps, SelectedKeeps
     DEF Connection!Loop
<1>3. ASSUME NEW t \in Tasks, Connection!Thread(t) PROVE Connection!ConnInv'
  BY <1>3, InsertKeeps, BusyKeeps, CommitKeeps, RollbackKeeps, SelectKeeps,
     CursorKeeps
     DEF Connection!Thread
<1>4. QED
  BY <1>1, <1>2, <1>3, OutsideKeeps DEF Connection!Next

\* What the invariant gives of the two promises.
LEMMA ConnInvTells == ASSUME Connection!ConnInv PROVE Connection!TypeOK /\ Connection!WritesAreAnswered /\ Connection!LoneReadIsFresh
<1>1. Connection!WritesAreAnswered
  <2> SUFFICES ASSUME NEW t \in Tasks, task[t].kind # "read"
               PROVE  /\ task[t].at = "done" => t \in file \cup undone
                      /\ task[t].at = "failed" => t \notin file
    BY DEF Connection!WritesAreAnswered
  <2>1. Connection!RowFits(t)
    BY DEF Connection!ConnInv
  <2>2. QED
    BY <2>1 DEF Connection!RowFits, Connection!Unwritten
<1>2. Connection!LoneReadIsFresh
  BY DEF Connection!ConnInv, Connection!LoneFits, Connection!LoneReadIsFresh
<1>3. QED
  BY <1>1, <1>2 DEF Connection!ConnInv

\* A write that returned is stored, one that raised is not, and a read that has
\* the connection for itself sees the file as it is: for any number of calls
\* at once and of tries (execute_write, _write_batch, fetchone, fetchall).
THEOREM ConnectionHoldsAll ==
  ASSUME Connection!ConnectionAssumptions
  PROVE  Connection!Spec => /\ []Connection!TypeOK
                            /\ []Connection!WritesAreAnswered
                            /\ []Connection!LoneReadIsFresh
<1>1. QED
  BY InitConnInv, StepConnInv, ConnInvTells, PTL DEF Connection!Spec

-----------------------------------------------------------------------------
(* The open throttle.                                                      *)

\* What a coroutine has read is a row; where it is tells whether it has read.
LEMMA Shapes ==
  ASSUME Throttle!ThrottleTyped
  PROVE  /\ row.key \in 1 .. ThrottleClock /\ row.until \in 0 .. ThrottleClock + Mode
         /\ limit.key \in 0 .. ThrottleClock /\ limit.at \in 0 .. ThrottleClock
         /\ limit.inForce \in 0 .. ThrottleClock /\ limit.recorded \in BOOLEAN
         /\ saving.until \in 0 .. ThrottleClock + Mode
         /\ gate = Throttle!Nothing <=> gate.at = "none"
         /\ sweep = Throttle!Nothing <=> sweep.at = "none"
         /\ request # Throttle!Nothing => request.key \in 1 .. ThrottleClock
         /\ gate # Throttle!Nothing => /\ gate.at \in {"decide", "wipe"}
                                       /\ gate.row \in Throttle!RowType
                                       /\ gate.limit \in Throttle!LimitType
                                       /\ gate.row.key \in 1 .. ThrottleClock
                                       /\ gate.row.until \in 0 .. ThrottleClock + Mode
         /\ sweep # Throttle!Nothing => /\ sweep.at \in {"decide", "wipe"} /\ sweep.row \in Throttle!RowType
                                        /\ sweep.row.key \in 1 .. ThrottleClock
                                        /\ sweep.row.until \in 0 .. ThrottleClock + Mode
<1>1. row.key \in 1 .. ThrottleClock /\ row.until \in 0 .. ThrottleClock + Mode
  BY DEF Throttle!ThrottleTyped, Throttle!RowType
<1>2. /\ limit.key \in 0 .. ThrottleClock /\ limit.at \in 0 .. ThrottleClock
      /\ limit.inForce \in 0 .. ThrottleClock /\ limit.recorded \in BOOLEAN
  BY DEF Throttle!ThrottleTyped, Throttle!LimitType
<1>3. saving.until \in 0 .. ThrottleClock + Mode
  BY DEF Throttle!ThrottleTyped
<1>4. request # Throttle!Nothing => request.key \in 1 .. ThrottleClock
  BY DEF Throttle!ThrottleTyped
<1>5. gate = Throttle!Nothing => gate.at = "none"
  BY DEF Throttle!Nothing
<1>6. gate # Throttle!Nothing => /\ gate.at \in {"decide", "wipe"}
                                 /\ gate.row \in Throttle!RowType
                                 /\ gate.limit \in Throttle!LimitType
  BY DEF Throttle!ThrottleTyped
<1>7. sweep = Throttle!Nothing => sweep.at = "none"
  BY DEF Throttle!Nothing
<1>8. sweep # Throttle!Nothing => sweep.at \in {"decide", "wipe"} /\ sweep.row \in Throttle!RowType
  BY DEF Throttle!ThrottleTyped
<1>9. \A r \in Throttle!RowType : r.key \in 1 .. ThrottleClock /\ r.until \in 0 .. ThrottleClock + Mode
  BY DEF Throttle!RowType
<1>10. QED
  BY <1>1, <1>2, <1>3, <1>4, <1>5, <1>6, <1>7, <1>8, <1>9

\* A signal reads the row,
LEMMA KeepsGateRead ==
  ASSUME Throttle!ThrottleAssumptions, Throttle!ThrottleInv, Throttle!GateRead
  PROVE  Throttle!ThrottleInv'
<1> USE DEF Throttle!ThrottleInv, Throttle!ThrottleAssumptions
<1>1. Throttle!ThrottleTyped'
  BY DEF Throttle!ThrottleTyped, Throttle!RowType, Throttle!LimitType,
     Throttle!GateRead, Throttle!memory, Throttle!NotSaving
<1>2. Throttle!InThePast'
  BY Shapes
     DEF Throttle!InThePast, Throttle!ThrottleTyped, Throttle!GateRead,
         Throttle!memory, Throttle!NotSaving
<1>3. Throttle!SpentBefore'
  BY DEF Throttle!SpentBefore, Throttle!Spent, Throttle!ReadAfter,
     Throttle!GateRead, Throttle!memory, Throttle!NotSaving
<1>4. Throttle!DeadlinesFit'
  BY DEF Throttle!DeadlinesFit, Throttle!OfThisKey, Throttle!KeyIsNewer,
     Throttle!GateRead, Throttle!memory, Throttle!NotSaving
<1>5. Throttle!NoOldDeadline'
  BY DEF Throttle!NoOldDeadline, Throttle!Spent, Throttle!SaveFits,
     Throttle!KeyIsNewer, Throttle!GateRead, Throttle!memory, Throttle!NotSaving
<1>6. Throttle!LimitStands'
  BY DEF Throttle!LimitStands, Throttle!Lasts, Throttle!Holds, Throttle!GateRead,
     Throttle!memory, Throttle!NotSaving
<1>7. QED
  BY <1>1, <1>2, <1>3, <1>4, <1>5, <1>6

\* ... goes on under the latch,
LEMMA KeepsGatePasses ==
  ASSUME Throttle!ThrottleAssumptions, Throttle!ThrottleInv, Throttle!GatePasses
  PROVE  Throttle!ThrottleInv'
<1> USE DEF Throttle!ThrottleInv, Throttle!ThrottleAssumptions
<1>a. gate # Throttle!Nothing /\ gate.at = "decide" /\ gate' = Throttle!Nothing /\ gate'.at = "none" /\ sweep.at # "decide"
  BY DEF Throttle!GatePasses, Throttle!Go, Throttle!Answers, Throttle!Nothing
<1>b. \/ request' = request
      \/ /\ request' = [at |-> "sent", key |-> gate.row.key, throttled |-> clock < latch']
         /\ request' # Throttle!Nothing /\ request'.key = gate.row.key
  BY DEF Throttle!GatePasses, Throttle!Go, Throttle!Nothing
<1>c. latch' = latch \/ latch' = gate.row.until
  BY DEF Throttle!GatePasses, Throttle!Restored
<1>d. seen' = gate.row.key /\ ~Throttle!ReleasedBy(gate.row)
  BY DEF Throttle!GatePasses
<1>e. UNCHANGED <<clock, row, persisted, hold, answer, saving, sweep, limit>>
  BY DEF Throttle!GatePasses
<1>g. gate.row.key \in 1 .. ThrottleClock /\ gate.row.until \in 0 .. ThrottleClock + Mode
  BY <1>a, Shapes DEF Throttle!ThrottleInv
<1>1. Throttle!ThrottleTyped'
  <2>1. request' \in {Throttle!Nothing} \cup [at : {"sent"}, key : 1 .. ThrottleClock, throttled : BOOLEAN]
    <3>1. (clock < latch') \in BOOLEAN
      OBVIOUS
    <3>2. [at |-> "sent", key |-> gate.row.key, throttled |-> clock < latch']
            \in [at : {"sent"}, key : 1 .. ThrottleClock, throttled : BOOLEAN]
      BY <1>g, <3>1, Zenon
    <3>3. QED
      BY <1>b, <3>2 DEF Throttle!ThrottleTyped
  <2>2. latch' \in 0 .. ThrottleClock + Mode /\ seen' \in 0 .. ThrottleClock
    BY <1>c, <1>d, <1>g DEF Throttle!ThrottleTyped
  <2>3. QED
    BY <2>1, <2>2, <1>a, <1>e DEF Throttle!ThrottleTyped
<1>2. Throttle!InThePast'
  BY <1>a, <1>b, <1>c, <1>d, <1>e, <1>g DEF Throttle!InThePast
<1>3. Throttle!SpentBefore'
  <2>1. ASSUME NEW k \in 0 .. ThrottleClock, Throttle!Spent(k)'
        PROVE  k <= row.key /\ k <= gate.row.key
    BY <2>1, <1>a, <1>b, <1>e, <1>g, Shapes
       DEF Throttle!SpentBefore, Throttle!InThePast, Throttle!Spent,
           Throttle!ReadAfter
  <2>2. QED
    BY <2>1, <1>a, <1>d, <1>e DEF Throttle!SpentBefore, Throttle!ReadAfter
<1>4. Throttle!DeadlinesFit'
  <2>1. latch' > 0 /\ seen' = row.key => limit.inForce = row.key
    <3>1. CASE latch' = latch
      <4>1. latch > 0 => seen = gate.row.key
        BY <1>d, <1>g, Shapes
           DEF Throttle!InThePast, Throttle!ThrottleTyped, Throttle!ReleasedBy,
               Throttle!StampMoved
      <4>2. QED
        BY <3>1, <4>1, <1>d DEF Throttle!DeadlinesFit
    <3>2. CASE latch' = gate.row.until
      BY <3>2, <1>a, <1>d
         DEF Throttle!DeadlinesFit, Throttle!OfThisKey, Throttle!ReleasedBy
    <3>3. QED
      BY <3>1, <3>2, <1>c
  <2>2. QED
    BY <2>1, <1>a, <1>e
       DEF Throttle!DeadlinesFit, Throttle!OfThisKey, Throttle!KeyIsNewer
<1>5. Throttle!NoOldDeadline'
  BY Shapes
     DEF Throttle!NoOldDeadline, Throttle!Spent, Throttle!SaveFits,
         Throttle!KeyIsNewer, Throttle!ThrottleTyped, Throttle!GatePasses,
         Throttle!Go, Throttle!Restored, Throttle!Armed, Throttle!Answers,
         Throttle!ReleasedBy, Throttle!StampMoved, Throttle!ClearedInDb
<1>6. Throttle!LimitStands'
  BY <1>a, <1>b, <1>c, <1>d, <1>e, <1>g
     DEF Throttle!LimitStands, Throttle!Lasts, Throttle!Holds
<1>7. QED
  BY <1>1, <1>2, <1>3, <1>4, <1>5, <1>6

\* ... or releases it,
LEMMA KeepsGateReleases ==
  ASSUME Throttle!ThrottleAssumptions, Throttle!ThrottleInv, Throttle!GateReleases
  PROVE  Throttle!ThrottleInv'
<1> USE DEF Throttle!ThrottleInv, Throttle!ThrottleAssumptions
<1>a. gate # Throttle!Nothing /\ gate.at = "decide" /\ sweep.at # "decide"
  BY DEF Throttle!GateReleases, Throttle!Answers, Throttle!Nothing
<1>g. gate.row.key \in 1 .. ThrottleClock /\ gate.row.until \in 0 .. ThrottleClock + Mode
  BY <1>a, Shapes DEF Throttle!ThrottleInv
<1>b. \/ request' = request
      \/ /\ request' = [at |-> "sent", key |-> gate.row.key, throttled |-> clock < latch']
         /\ request' # Throttle!Nothing /\ request'.key = gate.row.key
  BY DEF Throttle!GateReleases, Throttle!Go, Throttle!Nothing
<1>c. \/ gate' = Throttle!Nothing /\ gate'.at = "none"
      \/ /\ gate' = [gate EXCEPT !.at = "wipe"] /\ gate' # Throttle!Nothing
         /\ gate'.at = "wipe" /\ gate'.row = gate.row /\ gate'.limit = gate.limit
  <2>1. gate \in [at : {"decide", "wipe"}, row : Throttle!RowType, limit : Throttle!LimitType]
    BY <1>a DEF Throttle!ThrottleTyped
  <2>2. QED
    BY <2>1 DEF Throttle!GateReleases, Throttle!Go, Throttle!Nothing
<1>d. latch' = 0 /\ persisted' = 0 /\ hold' = FALSE /\ seen' = gate.row.key
  BY DEF Throttle!GateReleases, Throttle!Released
<1>e. UNCHANGED <<clock, row, answer, saving, sweep, limit>>
  BY DEF Throttle!GateReleases
<1>1. Throttle!ThrottleTyped'
  <2>1. request' \in {Throttle!Nothing} \cup [at : {"sent"}, key : 1 .. ThrottleClock, throttled : BOOLEAN]
    <3>1. (clock < latch') \in BOOLEAN
      OBVIOUS
    <3>2. [at |-> "sent", key |-> gate.row.key, throttled |-> clock < latch']
            \in [at : {"sent"}, key : 1 .. ThrottleClock, throttled : BOOLEAN]
      BY <1>g, <3>1, Zenon
    <3>3. QED
      BY <1>b, <3>2 DEF Throttle!ThrottleTyped
  <2>2. latch' \in 0 .. ThrottleClock + Mode /\ seen' \in 0 .. ThrottleClock /\ persisted' \in 0 .. ThrottleClock + Mode
    BY <1>d, <1>g
  <2>3. gate' \in {Throttle!Nothing} \cup [at : {"decide", "wipe"}, row : Throttle!RowType, limit : Throttle!LimitType]
    BY <1>a, <1>c DEF Throttle!ThrottleTyped
  <2>4. hold' \in BOOLEAN
    BY <1>d
  <2>5. QED
    BY <2>1, <2>2, <2>3, <2>4, <1>e DEF Throttle!ThrottleTyped
<1>2. Throttle!InThePast'
  BY <1>a, <1>g, <1>b, <1>c, <1>d, <1>e DEF Throttle!InThePast
<1>3. Throttle!SpentBefore'
  <2>1. ASSUME NEW k \in 0 .. ThrottleClock, Throttle!Spent(k)'
        PROVE  k <= row.key /\ k <= gate.row.key
    BY <2>1, <1>a, <1>b, <1>e, <1>g, Shapes
       DEF Throttle!SpentBefore, Throttle!InThePast, Throttle!Spent,
           Throttle!ReadAfter
  <2>2. gate.row.key <= row.key /\ gate.row.key <= gate.row.key /\ gate.row.key # 0
    BY <1>a, <1>g DEF Throttle!InThePast
  <2>3. QED
    BY <2>1, <2>2, <1>a, <1>c, <1>d, <1>e
       DEF Throttle!SpentBefore, Throttle!ReadAfter
<1>4. Throttle!DeadlinesFit'
  BY <1>c, <1>d, <1>e
     DEF Throttle!DeadlinesFit, Throttle!OfThisKey, Throttle!KeyIsNewer
<1>5. Throttle!NoOldDeadline'
  BY Shapes
     DEF Throttle!NoOldDeadline, Throttle!Spent, Throttle!SaveFits,
         Throttle!KeyIsNewer, Throttle!ThrottleTyped, Throttle!GateReleases,
         Throttle!Go, Throttle!Released, Throttle!Answers, Throttle!ReleasedBy,
         Throttle!StampMoved, Throttle!ClearedInDb
<1>6. Throttle!LimitStands'
  BY Shapes
     DEF Throttle!LimitStands, Throttle!Lasts, Throttle!Holds,
         Throttle!ThrottleTyped, Throttle!GateReleases, Throttle!Go,
         Throttle!Released, Throttle!Answers, Throttle!ReleasedBy,
         Throttle!StampMoved, Throttle!ClearedInDb, Throttle!KeyIsNewer
<1>7. QED
  BY <1>1, <1>2, <1>3, <1>4, <1>5, <1>6

\* ... and takes the deadline out of the row.
LEMMA KeepsGateWipe ==
  ASSUME Throttle!ThrottleAssumptions, Throttle!ThrottleInv, Throttle!GateWipe
  PROVE  Throttle!ThrottleInv'
<1> USE DEF Throttle!ThrottleInv, Throttle!ThrottleAssumptions
<1>a. gate # Throttle!Nothing /\ gate.at = "wipe" /\ gate' = Throttle!Nothing /\ gate'.at = "none" /\ sweep.at # "decide"
  BY DEF Throttle!GateWipe, Throttle!Go, Throttle!WipeReturns, Throttle!Answers,
     Throttle!Nothing
<1>g. gate.row.key \in 1 .. ThrottleClock
  BY <1>a, Shapes
<1>b. \/ request' = request
      \/ /\ request' = [at |-> "sent", key |-> gate.row.key, throttled |-> clock < latch]
         /\ request' # Throttle!Nothing /\ request'.key = gate.row.key
  BY DEF Throttle!GateWipe, Throttle!Go, Throttle!Nothing
<1>c. row' = [key |-> row.key, until |-> 0] /\ row'.key = row.key /\ row'.until = 0
  BY DEF Throttle!GateWipe, Throttle!ThrottleTyped, Throttle!RowType
<1>d. row.key \in 1 .. ThrottleClock
  BY Shapes
<1>e. UNCHANGED <<clock, latch, persisted, seen, hold, answer, saving, sweep, limit>>
  BY DEF Throttle!GateWipe, Throttle!memory
<1>1. Throttle!ThrottleTyped'
  <2>1. request' \in {Throttle!Nothing} \cup [at : {"sent"}, key : 1 .. ThrottleClock, throttled : BOOLEAN]
    <3>1. (clock < latch) \in BOOLEAN
      OBVIOUS
    <3>2. [at |-> "sent", key |-> gate.row.key, throttled |-> clock < latch]
            \in [at : {"sent"}, key : 1 .. ThrottleClock, throttled : BOOLEAN]
      BY <1>g, <3>1, Zenon
    <3>3. QED
      BY <1>b, <3>2 DEF Throttle!ThrottleTyped
  <2>2. row' \in Throttle!RowType
    BY <1>c, <1>d DEF Throttle!ThrottleTyped, Throttle!RowType
  <2>4. QED
    BY <2>1, <2>2, <1>a, <1>e DEF Throttle!ThrottleTyped
<1>2. Throttle!InThePast'
  <2>1. seen > 0
    BY <1>a DEF Throttle!SpentBefore, Throttle!ThrottleTyped
  <2>2. QED
    BY <2>1, <1>a, <1>c, <1>e DEF Throttle!InThePast
<1>3. Throttle!SpentBefore'
  <2>1. ASSUME NEW k \in 0 .. ThrottleClock, Throttle!Spent(k)'
        PROVE  Throttle!ReadAfter(k)
    BY <2>1, <1>a, <1>b, <1>e DEF Throttle!SpentBefore, Throttle!Spent
  <2>2. QED
    BY <2>1, <1>a, <1>c, <1>e DEF Throttle!SpentBefore, Throttle!ReadAfter
<1>4. Throttle!DeadlinesFit'
  BY <1>a, <1>c, <1>e
     DEF Throttle!DeadlinesFit, Throttle!OfThisKey, Throttle!KeyIsNewer
<1>5. Throttle!NoOldDeadline'
  BY <1>a, <1>g, <1>b, <1>c, <1>d, <1>e
     DEF Throttle!NoOldDeadline, Throttle!Spent, Throttle!SaveFits,
         Throttle!KeyIsNewer
<1>6. Throttle!LimitStands'
  BY <1>a, <1>g, <1>b, <1>c, <1>d, <1>e
     DEF Throttle!LimitStands, Throttle!Lasts, Throttle!Holds
<1>7. QED
  BY <1>1, <1>2, <1>3, <1>4, <1>5, <1>6

\* An order is answered,
LEMMA KeepsAnswered ==
  ASSUME Throttle!ThrottleAssumptions, Throttle!ThrottleInv, Throttle!Answered
  PROVE  Throttle!ThrottleInv'
<1> USE DEF Throttle!ThrottleInv, Throttle!ThrottleAssumptions
<1>1. Throttle!ThrottleTyped'
  BY DEF Throttle!ThrottleTyped, Throttle!RowType, Throttle!LimitType,
     Throttle!Answered
<1>2. Throttle!InThePast'
  BY DEF Throttle!InThePast, Throttle!Answered
<1>3. Throttle!SpentBefore'
  BY DEF Throttle!SpentBefore, Throttle!Spent, Throttle!ReadAfter, Throttle!Answered
<1>4. Throttle!DeadlinesFit'
  BY DEF Throttle!DeadlinesFit, Throttle!OfThisKey, Throttle!KeyIsNewer,
     Throttle!Answered
<1>5. Throttle!NoOldDeadline'
  BY DEF Throttle!NoOldDeadline, Throttle!Spent, Throttle!SaveFits,
     Throttle!KeyIsNewer, Throttle!Answered
<1>6. Throttle!LimitStands'
  BY DEF Throttle!LimitStands, Throttle!Lasts, Throttle!Holds, Throttle!Answered
<1>7. QED
  BY <1>1, <1>2, <1>3, <1>4, <1>5, <1>6

\* ... or refused by a limit,
LEMMA KeepsRefused ==
  ASSUME Throttle!ThrottleAssumptions, Throttle!ThrottleInv, Throttle!Refused
  PROVE  Throttle!ThrottleInv'
<1> USE DEF Throttle!ThrottleInv, Throttle!ThrottleAssumptions
<1>1. Throttle!ThrottleTyped'
  <2>1. hold' \in BOOLEAN
    BY Zenon DEF Throttle!ThrottleTyped, Throttle!Refused
  <2>2. answer' \in 0 .. ThrottleClock
    BY Shapes DEF Throttle!Refused
  <2>3. QED
    BY <2>1, <2>2 DEF Throttle!ThrottleTyped, Throttle!Refused
<1>2. Throttle!InThePast'
  BY DEF Throttle!InThePast, Throttle!Refused
<1>3. Throttle!SpentBefore'
  BY DEF Throttle!SpentBefore, Throttle!Spent, Throttle!ReadAfter, Throttle!Refused
<1>4. Throttle!DeadlinesFit'
  BY DEF Throttle!DeadlinesFit, Throttle!OfThisKey, Throttle!KeyIsNewer,
     Throttle!Refused
<1>5. Throttle!NoOldDeadline'
  BY DEF Throttle!NoOldDeadline, Throttle!Spent, Throttle!SaveFits,
     Throttle!KeyIsNewer, Throttle!Refused
<1>6. Throttle!LimitStands'
  BY DEF Throttle!LimitStands, Throttle!Lasts, Throttle!Holds, Throttle!Refused
<1>7. QED
  BY <1>1, <1>2, <1>3, <1>4, <1>5, <1>6

\* ... which is acted upon
LEMMA KeepsLimited ==
  ASSUME Throttle!ThrottleAssumptions, Throttle!ThrottleInv, Throttle!Limited
  PROVE  Throttle!ThrottleInv'
<1> USE DEF Throttle!ThrottleInv, Throttle!ThrottleAssumptions
<1>a. answer > 0 /\ answer \in 0 .. ThrottleClock /\ clock \in 1 .. ThrottleClock /\ saving.until = 0
      /\ row.key \in 1 .. ThrottleClock /\ row.until \in 0 .. ThrottleClock + Mode
      /\ Mode \in Nat /\ Lag \in Nat
      /\ Lag < Mode
  BY Shapes DEF Throttle!Limited, Throttle!NotSaving, Throttle!ThrottleTyped
<1>b. /\ limit'.key = answer /\ limit'.at = clock /\ limit'.inForce = row.key
      /\ limit'.recorded => saving'.until = 0 /\ Throttle!OnRecord(clock + Mode)
  BY DEF Throttle!Limited, Throttle!NoSave
<1>c. \/ saving'.until = 0
      \/ /\ saving'.until = clock + Mode /\ limit'.recorded = FALSE
         /\ sweep.at = "wipe" => "sweep" \in saving'.behind
  BY <1>a DEF Throttle!Limited, Throttle!NoSave
<1>d. answer' = 0 /\ latch' = clock + Mode
  BY DEF Throttle!Limited
<1>e. UNCHANGED <<clock, row, persisted, seen, gate, request, sweep>>
  BY DEF Throttle!Limited
<1>g. Throttle!ReadAfter(answer) /\ Throttle!Spent(answer)
  BY <1>a DEF Throttle!SpentBefore, Throttle!Spent
<1>h. seen > 0 /\ answer <= row.key /\ row.key <= clock
  BY <1>a, <1>g DEF Throttle!ReadAfter, Throttle!InThePast
<1>1. Throttle!ThrottleTyped'
  BY DEF Throttle!ThrottleTyped, Throttle!RowType, Throttle!LimitType,
     Throttle!Limited, Throttle!NoSave, Throttle!OnRecord, Throttle!NotSaving
<1>2. Throttle!InThePast'
  BY <1>a, <1>b, <1>e, <1>h DEF Throttle!InThePast
<1>3. Throttle!SpentBefore'
  BY Shapes
     DEF Throttle!SpentBefore, Throttle!Spent, Throttle!ReadAfter,
         Throttle!ThrottleTyped, Throttle!Limited, Throttle!NoSave,
         Throttle!OnRecord, Throttle!NotSaving
<1>4. Throttle!DeadlinesFit'
  BY <1>b, <1>c, <1>e
     DEF Throttle!DeadlinesFit, Throttle!OfThisKey, Throttle!KeyIsNewer
<1>5. Throttle!NoOldDeadline'
  <2>1. Throttle!Spent(row.key)' => Throttle!Spent(row.key)
    BY <1>a, <1>b, <1>d, <1>e DEF Throttle!Spent
  <2>2. Throttle!SaveFits'
    BY <1>a, <1>c, <1>e, <1>h DEF Throttle!SaveFits
  <2>3. QED
    BY <2>1, <2>2, <1>c, <1>e DEF Throttle!NoOldDeadline, Throttle!KeyIsNewer
<1>6. Throttle!LimitStands'
  <2>1. limit'.recorded =>
          gate = Throttle!Nothing /\ sweep.at # "wipe" /\ row.until + Lag >= clock + Mode
    BY <1>b DEF Throttle!OnRecord
  <2>2. limit'.recorded /\ answer = row.key => row.key <= row.until - Mode /\ seen = row.key
    <3>1. answer = row.key => ~Throttle!KeyIsNewer(row)
      BY <1>g DEF Throttle!NoOldDeadline
    <3>2. answer = row.key => seen = row.key
      BY <1>a, <1>g, <1>h
         DEF Throttle!ReadAfter, Throttle!InThePast, Throttle!ThrottleTyped
    <3>3. QED
      BY <2>1, <3>1, <3>2, <1>a DEF Throttle!KeyIsNewer
  <2>3. QED
    BY <2>1, <2>2, <1>a, <1>b, <1>e
       DEF Throttle!LimitStands, Throttle!Lasts, Throttle!Holds
<1>7. QED
  BY <1>1, <1>2, <1>3, <1>4, <1>5, <1>6

\* ... and saved.
LEMMA KeepsSaved ==
  ASSUME Throttle!ThrottleAssumptions, Throttle!ThrottleInv, Throttle!Saved
  PROVE  Throttle!ThrottleInv'
<1> USE DEF Throttle!ThrottleInv, Throttle!ThrottleAssumptions
<1>a. row' = [key |-> row.key, until |-> saving.until] /\ row'.key = row.key /\ row'.until = saving.until
  BY DEF Throttle!Saved, Throttle!ThrottleTyped, Throttle!RowType
<1>b. /\ limit' = [key |-> limit.key, at |-> limit.at, inForce |-> limit.inForce, recorded |-> gate = Throttle!Nothing]
      /\ limit'.key = limit.key /\ limit'.at = limit.at /\ limit'.inForce = limit.inForce
      /\ limit'.recorded = (gate = Throttle!Nothing)
  BY DEF Throttle!Saved, Throttle!ThrottleTyped, Throttle!LimitType
<1>c. saving.until > 0 /\ saving.until \in 0 .. ThrottleClock + Mode /\ saving' = Throttle!NoSave /\ saving'.until = 0
  BY Shapes
     DEF Throttle!Saved, Throttle!NotSaving, Throttle!NoSave, Throttle!ThrottleTyped
<1>1. Throttle!ThrottleTyped'
  <2>1. row' \in Throttle!RowType /\ limit' \in Throttle!LimitType
    BY <1>a, <1>b, <1>c, Shapes
       DEF Throttle!ThrottleTyped, Throttle!RowType, Throttle!LimitType
  <2>2. Throttle!NoSave \in [until : 0 .. ThrottleClock + Mode, behind : SUBSET {"gate", "sweep"}]
    BY DEF Throttle!NoSave
  <2>3. persisted' \in 0 .. ThrottleClock + Mode
    BY <1>c DEF Throttle!Saved
  <2>4. QED
    BY <2>1, <2>2, <2>3, <1>c DEF Throttle!Saved, Throttle!ThrottleTyped
<1>2. Throttle!InThePast'
  BY DEF Throttle!InThePast, Throttle!ThrottleTyped, Throttle!Saved,
     Throttle!NoSave, Throttle!NotSaving, Throttle!Answers
<1>3. Throttle!SpentBefore'
  BY DEF Throttle!SpentBefore, Throttle!Spent, Throttle!ReadAfter,
     Throttle!ThrottleTyped, Throttle!Saved, Throttle!NoSave, Throttle!NotSaving,
     Throttle!Answers
<1>4. Throttle!DeadlinesFit'
  BY Shapes
     DEF Throttle!DeadlinesFit, Throttle!OfThisKey, Throttle!KeyIsNewer,
         Throttle!ThrottleTyped, Throttle!Saved, Throttle!NoSave,
         Throttle!NotSaving, Throttle!Answers
<1>5. Throttle!NoOldDeadline'
  BY Shapes
     DEF Throttle!NoOldDeadline, Throttle!Spent, Throttle!SaveFits,
         Throttle!KeyIsNewer, Throttle!ThrottleTyped, Throttle!Saved,
         Throttle!NoSave, Throttle!NotSaving, Throttle!Answers
<1>6. Throttle!LimitStands'
  <2>1. ASSUME gate = Throttle!Nothing, Throttle!Lasts'
        PROVE  /\ Throttle!Holds(row)' /\ seen' \in {0, row'.key} /\ sweep'.at # "wipe"
    <3>1. limit.key = row.key /\ Throttle!Spent(row.key) /\ row.key \in 1 .. ThrottleClock
      BY <2>1, <1>a, <1>b, Shapes DEF Throttle!Lasts, Throttle!Spent
    <3>2. Throttle!ReadAfter(row.key) /\ Throttle!SaveFits
      BY <3>1 DEF Throttle!SpentBefore, Throttle!NoOldDeadline
    <3>3. saving.until = limit.at + Mode /\ row.key <= saving.until - Mode
      BY <3>2, <1>c DEF Throttle!DeadlinesFit, Throttle!SaveFits
    <3>4. Throttle!Holds(row)'
      BY <3>3, <1>a, <1>b, <1>c, Shapes DEF Throttle!Holds
    <3>5. seen' \in {0, row'.key}
      BY <3>1, <3>2, <1>a
         DEF Throttle!Saved, Throttle!ReadAfter, Throttle!InThePast,
             Throttle!ThrottleTyped
    <3>6. sweep'.at # "wipe"
      BY <3>1, <1>c DEF Throttle!NoOldDeadline, Throttle!Saved
    <3>7. QED
      BY <3>4, <3>5, <3>6
  <2>2. gate' = gate
    BY DEF Throttle!Saved
  <2>3. Throttle!Lasts' => gate = Throttle!Nothing
    BY <1>b DEF Throttle!Lasts
  <2>4. QED
    BY <2>1, <2>2, <2>3, <1>b DEF Throttle!LimitStands
<1>7. QED
  BY <1>1, <1>2, <1>3, <1>4, <1>5, <1>6

\* The wait after an order is over.
LEMMA KeepsHoldEnds ==
  ASSUME Throttle!ThrottleAssumptions, Throttle!ThrottleInv, Throttle!HoldEnds
  PROVE  Throttle!ThrottleInv'
<1> USE DEF Throttle!ThrottleInv, Throttle!ThrottleAssumptions
<1>1. Throttle!ThrottleTyped'
  BY DEF Throttle!ThrottleTyped, Throttle!RowType, Throttle!LimitType,
     Throttle!HoldEnds
<1>2. Throttle!InThePast'
  BY DEF Throttle!InThePast, Throttle!HoldEnds
<1>3. Throttle!SpentBefore'
  BY DEF Throttle!SpentBefore, Throttle!Spent, Throttle!ReadAfter, Throttle!HoldEnds
<1>4. Throttle!DeadlinesFit'
  BY DEF Throttle!DeadlinesFit, Throttle!OfThisKey, Throttle!KeyIsNewer,
     Throttle!HoldEnds
<1>5. Throttle!NoOldDeadline'
  BY DEF Throttle!NoOldDeadline, Throttle!Spent, Throttle!SaveFits,
     Throttle!KeyIsNewer, Throttle!HoldEnds
<1>6. Throttle!LimitStands'
  BY DEF Throttle!LimitStands, Throttle!Lasts, Throttle!Holds, Throttle!HoldEnds
<1>7. QED
  BY <1>1, <1>2, <1>3, <1>4, <1>5, <1>6

\* The sweep reads the row,
LEMMA KeepsSweepRead ==
  ASSUME Throttle!ThrottleAssumptions, Throttle!ThrottleInv, Throttle!SweepRead
  PROVE  Throttle!ThrottleInv'
<1> USE DEF Throttle!ThrottleInv, Throttle!ThrottleAssumptions
<1>1. Throttle!ThrottleTyped'
  BY DEF Throttle!ThrottleTyped, Throttle!RowType, Throttle!LimitType,
     Throttle!SweepRead, Throttle!memory, Throttle!NotSaving
<1>2. Throttle!InThePast'
  BY Shapes
     DEF Throttle!InThePast, Throttle!ThrottleTyped, Throttle!SweepRead,
         Throttle!memory, Throttle!NotSaving
<1>3. Throttle!SpentBefore'
  BY DEF Throttle!SpentBefore, Throttle!Spent, Throttle!ReadAfter,
     Throttle!SweepRead, Throttle!memory, Throttle!NotSaving
<1>4. Throttle!DeadlinesFit'
  BY DEF Throttle!DeadlinesFit, Throttle!OfThisKey, Throttle!KeyIsNewer,
     Throttle!SweepRead, Throttle!memory, Throttle!NotSaving
<1>5. Throttle!NoOldDeadline'
  BY DEF Throttle!NoOldDeadline, Throttle!Spent, Throttle!SaveFits,
     Throttle!KeyIsNewer, Throttle!SweepRead, Throttle!memory, Throttle!NotSaving
<1>6. Throttle!LimitStands'
  BY DEF Throttle!LimitStands, Throttle!Lasts, Throttle!Holds, Throttle!SweepRead,
     Throttle!memory, Throttle!NotSaving
<1>7. QED
  BY <1>1, <1>2, <1>3, <1>4, <1>5, <1>6

\* ... decides
LEMMA KeepsSweepDecide ==
  ASSUME Throttle!ThrottleAssumptions, Throttle!ThrottleInv, Throttle!SweepDecide
  PROVE  Throttle!ThrottleInv'
<1> USE DEF Throttle!ThrottleInv, Throttle!ThrottleAssumptions
<1>a. sweep # Throttle!Nothing /\ sweep.at = "decide" /\ sweep.row.key \in 1 .. ThrottleClock
      /\ sweep.row.until \in 0 .. ThrottleClock + Mode /\ row.key \in 1 .. ThrottleClock
  BY Shapes DEF Throttle!SweepDecide, Throttle!Nothing
<1>b. \/ sweep' = Throttle!Nothing /\ sweep'.at = "none"
      \/ /\ sweep' = [sweep EXCEPT !.at = "wipe"] /\ sweep' # Throttle!Nothing
         /\ sweep'.at = "wipe" /\ sweep'.row = sweep.row
         /\ Throttle!StampMoved(sweep.row) \/ Throttle!KeyIsNewer(sweep.row)
  <2>1. sweep \in [at : {"decide", "wipe"}, row : Throttle!RowType]
    BY <1>a DEF Throttle!ThrottleTyped
  <2>2. QED
    BY <1>a, <2>1 DEF Throttle!SweepDecide, Throttle!Nothing
<1>c. \/ latch' = 0 /\ persisted' = 0 /\ hold' = FALSE
      \/ UNCHANGED <<latch, persisted, hold>> /\ ~Throttle!StampMoved(sweep.row)
  BY DEF Throttle!SweepDecide, Throttle!Released
<1>d. seen' = sweep.row.key /\ sweep.row.key <= row.key
  BY <1>a DEF Throttle!SweepDecide, Throttle!Released, Throttle!InThePast
<1>e. UNCHANGED <<clock, sends, row, gate, request, answer, saving, limit>>
  BY DEF Throttle!SweepDecide
<1>g. limit.key = row.key => ~Throttle!StampMoved(sweep.row) /\ ~Throttle!KeyIsNewer(sweep.row) /\ sweep.row.key = row.key
  <2>1. SUFFICES ASSUME limit.key = row.key
        PROVE  ~Throttle!StampMoved(sweep.row) /\ ~Throttle!KeyIsNewer(sweep.row) /\ sweep.row.key = row.key
    OBVIOUS
  <2>2. Throttle!Spent(row.key)
    BY <2>1 DEF Throttle!Spent
  <2>3. Throttle!ReadAfter(row.key) /\ ~Throttle!KeyIsNewer(sweep.row)
    BY <2>2, <1>a DEF Throttle!SpentBefore, Throttle!NoOldDeadline
  <2>4. sweep.row.key = row.key
    BY <2>3, <1>a, <1>d DEF Throttle!ReadAfter
  <2>5. seen = 0 \/ seen = row.key
    BY <2>3, <1>a DEF Throttle!ReadAfter, Throttle!InThePast, Throttle!ThrottleTyped
  <2>6. QED
    BY <2>3, <2>4, <2>5 DEF Throttle!StampMoved
<1>1. Throttle!ThrottleTyped'
  <2>1. sweep' \in {Throttle!Nothing} \cup [at : {"decide", "wipe"}, row : Throttle!RowType]
    BY <1>a, <1>b DEF Throttle!ThrottleTyped
  <2>2. /\ latch' \in 0 .. ThrottleClock + Mode /\ persisted' \in 0 .. ThrottleClock + Mode
        /\ hold' \in BOOLEAN
    <3>1. latch' \in 0 .. ThrottleClock + Mode /\ persisted' \in 0 .. ThrottleClock + Mode
      BY <1>c DEF Throttle!ThrottleTyped
    <3>2. hold' \in BOOLEAN
      BY <1>c, Zenon DEF Throttle!ThrottleTyped
    <3>3. QED
      BY <3>1, <3>2
  <2>3. QED
    BY <2>1, <2>2, <1>a, <1>d, <1>e DEF Throttle!ThrottleTyped
<1>2. Throttle!InThePast'
  BY <1>a, <1>b, <1>c, <1>d, <1>e, <1>g DEF Throttle!InThePast
<1>3. Throttle!SpentBefore'
  <2>1. ASSUME NEW k, Throttle!ReadAfter(k)
        PROVE  Throttle!ReadAfter(k)'
    BY <2>1, <1>a, <1>b, <1>d, <1>e DEF Throttle!ReadAfter
  <2>2. \A k : Throttle!Spent(k)' <=> Throttle!Spent(k)
    BY <1>e DEF Throttle!Spent
  <2>3. seen' # 0
    BY <1>a, <1>d
  <2>4. QED
    BY <2>1, <2>2, <2>3, <1>e DEF Throttle!SpentBefore
<1>4. Throttle!DeadlinesFit'
  <2>1. latch' > 0 => latch' = latch /\ seen' = seen
    BY <1>a, <1>c, <1>d DEF Throttle!StampMoved, Throttle!InThePast
  <2>2. QED
    BY <2>1, <1>e DEF Throttle!DeadlinesFit, Throttle!OfThisKey, Throttle!KeyIsNewer
<1>5. Throttle!NoOldDeadline'
  <2>1. sweep'.at # "decide" /\ (limit.key = row.key => sweep'.at # "wipe")
    BY <1>b, <1>g
  <2>2. QED
    BY <2>1, <1>e
       DEF Throttle!NoOldDeadline, Throttle!KeyIsNewer, Throttle!SaveFits,
           Throttle!Spent
<1>6. Throttle!LimitStands'
  <2>1. limit.key = row.key => sweep'.at # "wipe" /\ seen' = row.key
    BY <1>b, <1>d, <1>g
  <2>2. QED
    BY <2>1, <1>e DEF Throttle!LimitStands, Throttle!Lasts, Throttle!Holds
<1>7. QED
  BY <1>1, <1>2, <1>3, <1>4, <1>5, <1>6

\* ... and takes the deadline out of the row.
LEMMA KeepsSweepWipe ==
  ASSUME Throttle!ThrottleAssumptions, Throttle!ThrottleInv, Throttle!SweepWipe
  PROVE  Throttle!ThrottleInv'
<1> USE DEF Throttle!ThrottleInv, Throttle!ThrottleAssumptions
<1>a. sweep' = Throttle!Nothing /\ sweep'.at = "none"
  BY DEF Throttle!SweepWipe, Throttle!Nothing
<1>b. row' = [key |-> row.key, until |-> 0] /\ row'.key = row.key /\ row'.until = 0
  BY DEF Throttle!SweepWipe, Throttle!ThrottleTyped, Throttle!RowType
<1>c. UNCHANGED <<clock, latch, persisted, seen, hold, gate, request, answer, saving, limit>>
  BY DEF Throttle!SweepWipe, Throttle!memory
<1>1. Throttle!ThrottleTyped'
  BY <1>a, <1>b, <1>c
     DEF Throttle!ThrottleTyped, Throttle!RowType, Throttle!LimitType
<1>2. Throttle!InThePast'
  BY <1>a, <1>b, <1>c DEF Throttle!InThePast
<1>3. Throttle!SpentBefore'
  <2>1. ASSUME NEW k, Throttle!ReadAfter(k)
        PROVE  Throttle!ReadAfter(k)'
    BY <2>1, <1>a, <1>b, <1>c DEF Throttle!ReadAfter
  <2>2. \A k : Throttle!Spent(k)' <=> Throttle!Spent(k)
    BY <1>c DEF Throttle!Spent
  <2>3. QED
    BY <2>1, <2>2, <1>c DEF Throttle!SpentBefore
<1>4. Throttle!DeadlinesFit'
  BY <1>a, <1>b, <1>c
     DEF Throttle!DeadlinesFit, Throttle!OfThisKey, Throttle!KeyIsNewer
<1>5. Throttle!NoOldDeadline'
  <2>1. Throttle!Spent(row.key)' <=> Throttle!Spent(row.key)
    BY <1>b, <1>c DEF Throttle!Spent
  <2>2. Throttle!SaveFits' <=> Throttle!SaveFits
    BY <1>b, <1>c DEF Throttle!SaveFits
  <2>3. QED
    BY <2>1, <2>2, <1>a, <1>b, <1>c DEF Throttle!NoOldDeadline, Throttle!KeyIsNewer
<1>6. Throttle!LimitStands'
  BY DEF Throttle!LimitStands, Throttle!Lasts, Throttle!Holds,
     Throttle!ThrottleTyped, Throttle!SweepWipe, Throttle!memory,
     Throttle!WipeReturns, Throttle!Answers, Throttle!NotSaving
<1>7. QED
  BY <1>1, <1>2, <1>3, <1>4, <1>5, <1>6

\* Time passes.
LEMMA KeepsTick ==
  ASSUME Throttle!ThrottleAssumptions, Throttle!ThrottleInv, Throttle!Tick
  PROVE  Throttle!ThrottleInv'
<1> USE DEF Throttle!ThrottleInv, Throttle!ThrottleAssumptions
<1>1. Throttle!ThrottleTyped'
  BY DEF Throttle!ThrottleTyped, Throttle!RowType, Throttle!LimitType,
     Throttle!Tick, Throttle!memory
<1>2. Throttle!InThePast'
  BY Shapes
     DEF Throttle!InThePast, Throttle!ThrottleTyped, Throttle!Tick, Throttle!memory
<1>3. Throttle!SpentBefore'
  BY DEF Throttle!SpentBefore, Throttle!Spent, Throttle!ReadAfter, Throttle!Tick,
     Throttle!memory
<1>4. Throttle!DeadlinesFit'
  BY DEF Throttle!DeadlinesFit, Throttle!OfThisKey, Throttle!KeyIsNewer,
     Throttle!Tick, Throttle!memory
<1>5. Throttle!NoOldDeadline'
  BY DEF Throttle!NoOldDeadline, Throttle!Spent, Throttle!SaveFits,
     Throttle!KeyIsNewer, Throttle!Tick, Throttle!memory
<1>6. Throttle!LimitStands'
  BY Shapes
     DEF Throttle!LimitStands, Throttle!Lasts, Throttle!Holds,
         Throttle!ThrottleTyped, Throttle!Tick, Throttle!memory
<1>7. QED
  BY <1>1, <1>2, <1>3, <1>4, <1>5, <1>6

\* A new key of the slot.
LEMMA KeepsNewKey ==
  ASSUME Throttle!ThrottleAssumptions, Throttle!ThrottleInv, Throttle!NewKey
  PROVE  Throttle!ThrottleInv'
<1> USE DEF Throttle!ThrottleInv, Throttle!ThrottleAssumptions
<1>a. row' = [key |-> clock, until |-> 0] /\ row'.key = clock /\ row'.until = 0
  BY DEF Throttle!NewKey
<1>b. /\ limit' = [key |-> limit.key, at |-> limit.at, inForce |-> limit.inForce, recorded |-> FALSE]
      /\ limit'.key = limit.key /\ limit'.at = limit.at /\ limit'.inForce = limit.inForce
      /\ limit'.recorded = FALSE
  BY DEF Throttle!NewKey, Throttle!ThrottleTyped, Throttle!LimitType
<1>c. UNCHANGED <<clock, latch, persisted, seen, hold, gate, request, answer, saving, sweep>>
  BY DEF Throttle!NewKey, Throttle!memory
<1>d. /\ clock > row.key /\ clock > limit.at /\ limit.at >= limit.key /\ seen <= row.key
      /\ gate # Throttle!Nothing => gate.row.key <= row.key
  BY DEF Throttle!NewKey, Throttle!InThePast
<1>e. /\ clock \in 1 .. ThrottleClock /\ seen \in 0 .. ThrottleClock /\ row.key \in 1 .. ThrottleClock
      /\ limit.at \in 0 .. ThrottleClock /\ limit.key \in 0 .. ThrottleClock
      /\ gate # Throttle!Nothing => gate.row.key \in 1 .. ThrottleClock
  BY Shapes DEF Throttle!ThrottleTyped
<1>g. ~Throttle!Spent(clock)' /\ (gate # Throttle!Nothing => gate.row.key # clock) /\ limit.key # clock /\ seen # clock
  <2>1. clock # limit.key
    BY <1>d, <1>e
  <2>2. clock # answer /\ (request # Throttle!Nothing => clock # request.key)
    <3>1. clock \in 0 .. ThrottleClock
      BY <1>e
    <3>2. Throttle!Spent(clock) => clock <= row.key
      BY <3>1 DEF Throttle!SpentBefore, Throttle!ReadAfter
    <3>3. QED
      BY <3>2, <1>d, <1>e DEF Throttle!Spent
  <2>3. QED
    BY <2>1, <2>2, <1>b, <1>c, <1>d, <1>e DEF Throttle!Spent
<1>1. Throttle!ThrottleTyped'
  <2>1. row' \in Throttle!RowType /\ limit' \in Throttle!LimitType
    BY <1>a, <1>b, <1>e, Shapes
       DEF Throttle!ThrottleTyped, Throttle!RowType, Throttle!LimitType
  <2>2. QED
    BY <2>1, <1>c DEF Throttle!ThrottleTyped
<1>2. Throttle!InThePast'
  BY Shapes
     DEF Throttle!InThePast, Throttle!ThrottleTyped, Throttle!NewKey,
         Throttle!memory
<1>3. Throttle!SpentBefore'
  BY Shapes
     DEF Throttle!SpentBefore, Throttle!Spent, Throttle!ReadAfter,
         Throttle!ThrottleTyped, Throttle!NewKey, Throttle!memory
<1>4. Throttle!DeadlinesFit'
  <2>1. gate.at = "decide" => gate # Throttle!Nothing
    BY DEF Throttle!Nothing
  <2>2. QED
    BY <2>1, <1>a, <1>b, <1>c, <1>d, <1>g
       DEF Throttle!DeadlinesFit, Throttle!OfThisKey, Throttle!KeyIsNewer
<1>5. Throttle!NoOldDeadline'
  <2>1. ~Throttle!Spent(row.key)'
    BY <1>a, <1>c, <1>g
  <2>2. QED
    BY <2>1, <1>a, <1>b, <1>c, <1>g DEF Throttle!NoOldDeadline
<1>6. Throttle!LimitStands'
  BY <1>a, <1>b, <1>c, <1>d, <1>e, <1>g
     DEF Throttle!LimitStands, Throttle!Lasts, Throttle!Holds
<1>7. QED
  BY <1>1, <1>2, <1>3, <1>4, <1>5, <1>6

\* The process starts anew.
LEMMA KeepsRestart ==
  ASSUME Throttle!ThrottleAssumptions, Throttle!ThrottleInv, Throttle!Restart
  PROVE  Throttle!ThrottleInv'
<1> USE DEF Throttle!ThrottleInv, Throttle!ThrottleAssumptions
<1>a. /\ latch' = 0 /\ persisted' = 0 /\ seen' = 0 /\ hold' = FALSE /\ answer' = 0
      /\ gate' = Throttle!Nothing /\ gate'.at = "none" /\ sweep' = Throttle!Nothing
      /\ sweep'.at = "none"
      /\ request' = Throttle!Nothing /\ saving' = Throttle!NoSave /\ saving'.until = 0
  BY DEF Throttle!Restart, Throttle!Nothing, Throttle!NoSave
<1>b. UNCHANGED <<clock, row, limit>>
  BY DEF Throttle!Restart
<1>c. row.key \in 1 .. ThrottleClock
  BY Shapes
<1>1. Throttle!ThrottleTyped'
  <2>1. Throttle!NoSave \in [until : 0 .. ThrottleClock + Mode, behind : SUBSET {"gate", "sweep"}]
    BY DEF Throttle!NoSave
  <2>2. latch' \in 0 .. ThrottleClock + Mode /\ persisted' \in 0 .. ThrottleClock + Mode
        /\ seen' \in 0 .. ThrottleClock /\ answer' \in 0 .. ThrottleClock
    BY <1>a
  <2>3. hold' \in BOOLEAN
    BY <1>a
  <2>4. QED
    BY <2>1, <2>2, <2>3, <1>a, <1>b DEF Throttle!ThrottleTyped
<1>2. Throttle!InThePast'
  BY <1>a, <1>b, <1>c DEF Throttle!InThePast
<1>3. Throttle!SpentBefore'
  <2>1. ASSUME NEW k \in 0 .. ThrottleClock, Throttle!Spent(k)'
        PROVE  k <= row.key
    BY <2>1, <1>a, <1>b, <1>c
       DEF Throttle!SpentBefore, Throttle!Spent, Throttle!ReadAfter
  <2>2. QED
    BY <2>1, <1>a, <1>b DEF Throttle!SpentBefore, Throttle!ReadAfter
<1>4. Throttle!DeadlinesFit'
  BY <1>a, <1>b DEF Throttle!DeadlinesFit, Throttle!OfThisKey, Throttle!KeyIsNewer
<1>5. Throttle!NoOldDeadline'
  <2>1. Throttle!Spent(row.key)' => Throttle!Spent(row.key)
    BY <1>a, <1>b, <1>c DEF Throttle!Spent
  <2>2. QED
    BY <2>1, <1>a, <1>b
       DEF Throttle!NoOldDeadline, Throttle!KeyIsNewer, Throttle!SaveFits
<1>6. Throttle!LimitStands'
  BY <1>a, <1>b DEF Throttle!LimitStands, Throttle!Lasts, Throttle!Holds
<1>7. QED
  BY <1>1, <1>2, <1>3, <1>4, <1>5, <1>6

\* At the first start the slot has no deadline anywhere.
LEMMA InitThrottle ==
  ASSUME Throttle!ThrottleAssumptions, Throttle!Init
  PROVE  Throttle!ThrottleInv
<1> USE DEF Throttle!ThrottleAssumptions, Throttle!Init
<1>1. Throttle!ThrottleTyped
  <2>1. row \in Throttle!RowType /\ limit \in Throttle!LimitType
    BY DEF Throttle!RowType, Throttle!LimitType, Throttle!NoLimit
  <2>2. saving \in [until : 0 .. ThrottleClock + Mode, behind : SUBSET {"gate", "sweep"}]
    BY DEF Throttle!NoSave
  <2>3. /\ clock \in 1 .. ThrottleClock /\ latch \in 0 .. ThrottleClock + Mode
        /\ persisted \in 0 .. ThrottleClock + Mode /\ seen \in 0 .. ThrottleClock
        /\ answer \in 0 .. ThrottleClock
    OBVIOUS
  <2>4. hold \in BOOLEAN
    OBVIOUS
  <2>5. QED
    BY <2>1, <2>2, <2>3, <2>4 DEF Throttle!ThrottleTyped
<1>2. Throttle!InThePast
  BY DEF Throttle!InThePast, Throttle!NoLimit
<1>3. Throttle!SpentBefore
  BY DEF Throttle!SpentBefore, Throttle!Spent, Throttle!ReadAfter, Throttle!NoLimit,
     Throttle!Nothing
<1>4. Throttle!DeadlinesFit
  BY DEF Throttle!DeadlinesFit, Throttle!OfThisKey, Throttle!NoLimit,
     Throttle!NoSave, Throttle!Nothing
<1>5. Throttle!NoOldDeadline
  BY DEF Throttle!NoOldDeadline, Throttle!Spent, Throttle!KeyIsNewer,
     Throttle!SaveFits, Throttle!NoLimit, Throttle!NoSave, Throttle!Nothing
<1>6. Throttle!LimitStands
  BY DEF Throttle!LimitStands, Throttle!Lasts, Throttle!NoLimit
<1>7. QED
  BY <1>1, <1>2, <1>3, <1>4, <1>5, <1>6 DEF Throttle!ThrottleInv

\* While nothing happens everything stays.
LEMMA StillThrottle ==
  ASSUME Throttle!ThrottleInv, UNCHANGED Throttle!vars
  PROVE  Throttle!ThrottleInv'
<1> USE DEF Throttle!ThrottleInv, Throttle!vars
<1>1. Throttle!ThrottleTyped'
  BY DEF Throttle!ThrottleTyped
<1>2. Throttle!InThePast'
  BY DEF Throttle!InThePast
<1>3. Throttle!SpentBefore'
  BY DEF Throttle!SpentBefore, Throttle!Spent, Throttle!ReadAfter
<1>4. Throttle!DeadlinesFit'
  BY DEF Throttle!DeadlinesFit, Throttle!OfThisKey, Throttle!KeyIsNewer
<1>5. Throttle!NoOldDeadline'
  BY DEF Throttle!NoOldDeadline, Throttle!Spent, Throttle!KeyIsNewer,
     Throttle!SaveFits
<1>6. Throttle!LimitStands'
  BY DEF Throttle!LimitStands, Throttle!Lasts, Throttle!Holds
<1>7. QED
  BY <1>1, <1>2, <1>3, <1>4, <1>5, <1>6

\* Every step keeps the invariant,
LEMMA StepThrottleInv ==
  ASSUME Throttle!ThrottleAssumptions, Throttle!ThrottleInv, [Throttle!Next]_(Throttle!vars)
  PROVE  Throttle!ThrottleInv'
<1>1. ASSUME Throttle!Next
      PROVE  Throttle!ThrottleInv'
  BY <1>1, KeepsGateRead, KeepsGatePasses, KeepsGateReleases, KeepsGateWipe,
     KeepsAnswered, KeepsRefused, KeepsLimited, KeepsSaved, KeepsHoldEnds,
     KeepsSweepRead, KeepsSweepDecide, KeepsSweepWipe, KeepsTick, KeepsNewKey,
     KeepsRestart
     DEF Throttle!Next
<1>2. QED
  BY <1>1, StillThrottle

\* What the gate decided by, while a recorded limit lasts.
LEMMA GateHolds ==
  ASSUME Throttle!ThrottleAssumptions, Throttle!ThrottleInv, gate # Throttle!Nothing,
         gate.limit = limit, limit.recorded,
         limit.key = gate.row.key, clock < limit.at + Mode - Lag
  PROVE  /\ gate.at = "decide" /\ gate.row.until > clock
         /\ ~Throttle!StampMoved(gate.row) /\ ~Throttle!KeyIsNewer(gate.row)
<1>1. gate.row.key = row.key
  BY DEF Throttle!ThrottleInv, Throttle!LimitStands
<1>2. Throttle!Lasts
  BY <1>1 DEF Throttle!Lasts
<1>3. gate.at = "decide" /\ Throttle!Holds(gate.row) /\ seen \in {0, row.key}
  BY <1>2 DEF Throttle!ThrottleInv, Throttle!LimitStands
<1>4. /\ gate.row.until \in Nat /\ limit.at \in Nat /\ clock \in Nat /\ Mode \in Nat
      /\ Lag \in Nat
      /\ gate.row.key \in Nat
  BY Shapes
     DEF Throttle!ThrottleInv, Throttle!ThrottleTyped, Throttle!ThrottleAssumptions
<1>5. gate.row.until > clock /\ ~Throttle!KeyIsNewer(gate.row)
  BY <1>3, <1>4 DEF Throttle!Holds, Throttle!KeyIsNewer
<1>6. QED
  BY <1>1, <1>3, <1>5 DEF Throttle!StampMoved

\* An order that goes out follows the limit of the account in force.
LEMMA StepFollowsLimit ==
  ASSUME Throttle!ThrottleAssumptions, Throttle!ThrottleInv, [Throttle!Next]_(Throttle!vars)
  PROVE  Throttle!FollowsLimit
<1> SUFFICES ASSUME Throttle!Sent PROVE Throttle!StartsFree /\ Throttle!StaysThrottled
  BY DEF Throttle!FollowsLimit
<1>1. Throttle!GatePasses \/ Throttle!GateReleases \/ Throttle!GateWipe
  <2>1. request' # request /\ request' # Throttle!Nothing
    BY DEF Throttle!Sent
  <2>2. QED
    BY <2>1
       DEF Throttle!Next, Throttle!vars, Throttle!GateRead, Throttle!Answered,
           Throttle!Refused, Throttle!Limited, Throttle!Saved, Throttle!HoldEnds,
           Throttle!SweepRead, Throttle!SweepDecide, Throttle!SweepWipe,
           Throttle!Tick, Throttle!NewKey, Throttle!Restart
<1>2. gate # Throttle!Nothing
  BY <1>1
     DEF Throttle!GatePasses, Throttle!GateReleases, Throttle!GateWipe,
         Throttle!Nothing
<1>3. /\ gate.row.key \in 1 .. ThrottleClock /\ row.key \in 1 .. ThrottleClock
      /\ clock \in 1 .. ThrottleClock
      /\ seen \in 0 .. ThrottleClock
  BY <1>2, Shapes DEF Throttle!ThrottleInv, Throttle!ThrottleTyped
<1>4. CASE Throttle!GatePasses
  <2>1. (request'.throttled <=> clock < latch') /\ seen' = gate.row.key /\ UNCHANGED <<row, limit>>
    <3>1. request' = [at |-> "sent", key |-> gate.row.key, throttled |-> clock < latch']
      BY <1>4 DEF Throttle!GatePasses, Throttle!Go, Throttle!Sent
    <3>2. request'.throttled = (clock < latch')
      BY <3>1
    <3>3. seen' = gate.row.key /\ UNCHANGED <<row, limit>>
      BY <1>4 DEF Throttle!GatePasses, Throttle!Go, Throttle!Sent
    <3>4. QED
      BY <3>2, <3>3, Zenon
  <2>2. Throttle!StartsFree
    <3>1. Throttle!DeadlinesFit'
      BY <1>4, KeepsGatePasses DEF Throttle!ThrottleInv
    <3>2. latch' \in 0 .. ThrottleClock + Mode
      BY <1>4, KeepsGatePasses DEF Throttle!ThrottleInv, Throttle!ThrottleTyped
    <3>3. QED
      BY <2>1, <3>1, <3>2, <1>3 DEF Throttle!DeadlinesFit, Throttle!StartsFree
  <2>3. Throttle!StaysThrottled
    <3>1. latch' = Throttle!Restored(gate.row)
      BY <1>4 DEF Throttle!GatePasses
    <3>2. gate.row.until > clock => clock < latch'
      BY <3>1 DEF Throttle!Restored, Throttle!Armed
    <3>3. QED
      BY <2>1, <3>2, <1>2, GateHolds DEF Throttle!StaysThrottled
  <2>4. QED
    BY <2>2, <2>3
<1>5. CASE Throttle!GateReleases
  <2>1. gate.row.until = 0 \/ ~(gate.row.until > 0)
    BY <1>5 DEF Throttle!GateReleases, Throttle!Sent
  <2>2. (request'.throttled <=> clock < latch') /\ latch' = 0 /\ Throttle!ReleasedBy(gate.row)
    <3>1. request' = [at |-> "sent", key |-> gate.row.key, throttled |-> clock < latch']
      BY <1>5
         DEF Throttle!GateReleases, Throttle!Released, Throttle!Go, Throttle!Sent
    <3>2. request'.throttled = (clock < latch')
      BY <3>1
    <3>3. latch' = 0 /\ Throttle!ReleasedBy(gate.row)
      BY <1>5
         DEF Throttle!GateReleases, Throttle!Released, Throttle!Go, Throttle!Sent
    <3>4. QED
      BY <3>2, <3>3, Zenon
  <2>3. Throttle!StartsFree
    BY <2>2, <1>3 DEF Throttle!StartsFree
  <2>4. gate.row.until > clock => ~Throttle!ClearedInDb(gate.row)
    <3>1. gate.row.until \in 0 .. ThrottleClock + Mode
      BY <1>2, Shapes DEF Throttle!ThrottleInv
    <3>2. QED
      BY <3>1, <1>3 DEF Throttle!ClearedInDb
  <2>5. Throttle!StaysThrottled
    BY <2>2, <2>4, <1>2, GateHolds DEF Throttle!StaysThrottled, Throttle!ReleasedBy
  <2>6. QED
    BY <2>3, <2>5
<1>6. CASE Throttle!GateWipe
  <2>1. gate.at = "wipe" /\ (request'.throttled <=> clock < latch)
    <3>1. request' = [at |-> "sent", key |-> gate.row.key, throttled |-> clock < latch]
      BY <1>6 DEF Throttle!GateWipe, Throttle!Go, Throttle!Sent
    <3>2. request'.throttled = (clock < latch)
      BY <3>1
    <3>3. gate.at = "wipe"
      BY <1>6 DEF Throttle!GateWipe, Throttle!Go, Throttle!Sent
    <3>4. QED
      BY <3>2, <3>3, Zenon
  <2>2. Throttle!StartsFree
    <3>1. Throttle!ReadAfter(gate.row.key) /\ seen # 0
      BY <2>1 DEF Throttle!ThrottleInv, Throttle!SpentBefore
    <3>2. gate.row.key = row.key => seen = row.key
      BY <3>1, <1>3 DEF Throttle!ReadAfter, Throttle!ThrottleInv, Throttle!InThePast
    <3>3. latch \in 0 .. ThrottleClock + Mode
      BY DEF Throttle!ThrottleInv, Throttle!ThrottleTyped
    <3>4. QED
      BY <2>1, <3>2, <3>3, <1>3
         DEF Throttle!StartsFree, Throttle!ThrottleInv, Throttle!DeadlinesFit
  <2>3. Throttle!StaysThrottled
    BY <2>1, <1>2, GateHolds DEF Throttle!StaysThrottled
  <2>4. QED
    BY <2>2, <2>3
<1>7. QED
  BY <1>1, <1>4, <1>5, <1>6

\* ... which contains the types.
LEMMA ThrottleInvGives ==
  ASSUME Throttle!ThrottleInv
  PROVE  Throttle!TypeOK
<1>1. row \in [key : 1 .. ThrottleClock, until : 0 .. ThrottleClock + Mode]
  BY DEF Throttle!ThrottleInv, Throttle!ThrottleTyped, Throttle!RowType
<1>2. {latch, persisted, saving.until} \subseteq 0 .. ThrottleClock + Mode
  BY Shapes DEF Throttle!ThrottleInv, Throttle!ThrottleTyped
<1>3. {seen, answer} \subseteq 0 .. ThrottleClock
  BY DEF Throttle!ThrottleInv, Throttle!ThrottleTyped
<1>4. hold \in BOOLEAN
  BY DEF Throttle!ThrottleInv, Throttle!ThrottleTyped
<1>5. gate.at \in {"none", "decide", "wipe"} /\ sweep.at \in {"none", "decide", "wipe"}
  BY Shapes DEF Throttle!ThrottleInv
<1>6. limit.key <= ThrottleClock
  BY Shapes DEF Throttle!ThrottleInv
<1>7. QED
  BY <1>1, <1>2, <1>3, <1>4, <1>5, <1>6 DEF Throttle!TypeOK

\* The throttle follows the limit of the account in force, whatever the sweep,
\* other signals, new keys and restarts do, for any term and lag of it
\* (_open_position, _release_throttle_for_new_keys).
THEOREM ThrottleFollowsAll ==
  ASSUME Throttle!ThrottleAssumptions
  PROVE  Throttle!Spec => []Throttle!TypeOK /\ [][Throttle!FollowsLimit]_(Throttle!vars)
<1>1. Throttle!ThrottleInv /\ [Throttle!Next]_(Throttle!vars) =>
        Throttle!ThrottleInv' /\ [Throttle!FollowsLimit]_(Throttle!vars)
  BY StepThrottleInv, StepFollowsLimit
<1>2. QED
  BY <1>1, ThrottleInvGives, InitThrottle, PTL DEF Throttle!Spec

-----------------------------------------------------------------------------
(* Processes.                                                              *)

-----------------------------------------------------------------------------
(* The two orders.                                                         *)

\* main starts the detector after reconciliation.
LEMMA BootOrder ==
  /\ Len(Process!Boot) = 11
  /\ \A i \in 1 .. 11 : /\ Process!Boot[i] \in Process!Parts \cup {"reconcile"}
                        /\ Process!Boot[i] = "reconcile" <=> i = 9
                        /\ Process!Boot[i] = "detector" <=> i = 10
BY DEF Process!Boot, Process!Stores, Process!Services, Process!Market, Process!Parts

\* main stops the engine right after the detector.
LEMMA StopSequence ==
  /\ Len(Process!StopOrder) = 9
  /\ \A i \in 1 .. 9 : /\ Process!StopOrder[i] = "detector" <=> i = 3
                       /\ Process!StopOrder[i] = "engine" <=> i = 4
BY DEF Process!StopOrder

-----------------------------------------------------------------------------
(* Every step keeps the invariant.                                        *)

\* Every step keeps the invariant.
LEMMA StepHInv ==
  ASSUME Process!RuntimeAssumptions, Process!HInv, [Process!Next]_(Process!vars)
  PROVE  Process!HInv'
<1> USE DEF Process!HInv
<1>0. {} # None
  <2>1. {} \in SUBSET Ids
    OBVIOUS
  <2>2. QED
    BY <2>1, Process!RuntimeAssumptions DEF Process!RuntimeAssumptions
<1>1. ASSUME NEW x \in Process!Parts \cup {"telegram", "feeds", "tasks", "clients"},
             Process!StartPart(x)
      PROVE  Process!HInv'
  <2>1. Process!PlaceType'
    BY <1>1, BootOrder
       DEF Process!PlaceType, Process!TradesType, Process!StartPart, Process!Next1,
           Process!trades, Process!history
  <2>2. Process!TodoFits'
    BY <1>1, BootOrder
       DEF Process!PlaceType, Process!TodoFits, Process!StartPart, Process!Next1,
           Process!trades, Process!history
  <2>3. Process!TradesType'
    BY <1>1, BootOrder
       DEF Process!TradesType, Process!UnderWay, Process!StartPart, Process!Next1,
           Process!trades, Process!history
  <2>4. Process!QuietBefore'
    BY <1>1, BootOrder
       DEF Process!QuietBefore, Process!PlaceType, Process!TradesType,
           Process!TodoFits, Process!UnderWay, Process!StartPart, Process!Next1,
           Process!trades, Process!history
  <2>5. Process!Accounted' /\ Process!StopLeavesNothing'
    BY <1>1, BootOrder
       DEF Process!Accounted, Process!StopLeavesNothing, Process!QuietBefore,
           Process!LateFits, Process!EngineFits, Process!PlaceType,
           Process!TradesType, Process!UnderWay, Process!Ordered, Process!StartPart,
           Process!Next1, Process!trades, Process!history
  <2>6. Process!LateFits' /\ Process!EngineFits'
    BY <1>1, <1>0, BootOrder
       DEF Process!LateFits, Process!EngineFits, Process!TodoFits,
           Process!PlaceType, Process!TradesType, Process!UnderWay,
           Process!StartPart, Process!Next1, Process!trades, Process!history
  <2>7. QED
    BY <2>1, <2>2, <2>3, <2>4, <2>5, <2>6
<1>2. ASSUME NEW x \in Process!Parts \cup {"telegram", "feeds", "tasks", "clients"},
             Process!StopPart(x)
      PROVE  Process!HInv'
  <2>1. Process!PlaceType'
    BY <1>2, BootOrder, StopSequence
       DEF Process!PlaceType, Process!TradesType, Process!StopPart,
           Process!Stopping, Process!trades, Process!history
  <2>2. Process!TodoFits'
    BY <1>2, BootOrder, StopSequence
       DEF Process!PlaceType, Process!TodoFits, Process!StopPart, Process!Stopping,
           Process!trades, Process!history
  <2>3. Process!TradesType'
    BY <1>2, StopSequence
       DEF Process!TradesType, Process!UnderWay, Process!StopPart, Process!Stopping,
           Process!trades, Process!history
  <2>4. Process!QuietBefore'
    BY <1>2, StopSequence
       DEF Process!QuietBefore, Process!PlaceType, Process!TradesType,
           Process!TodoFits, Process!UnderWay, Process!StopPart, Process!Stopping,
           Process!trades, Process!history
  <2>5. Process!Accounted' /\ Process!StopLeavesNothing'
    BY <1>2, StopSequence
       DEF Process!Accounted, Process!StopLeavesNothing, Process!QuietBefore,
           Process!LateFits, Process!EngineFits, Process!PlaceType,
           Process!TradesType, Process!UnderWay, Process!Ordered, Process!StopPart,
           Process!Stopping, Process!trades, Process!history
  <2>6. Process!LateFits' /\ Process!EngineFits'
    BY <1>2, <1>0, StopSequence
       DEF Process!LateFits, Process!EngineFits, Process!TodoFits,
           Process!PlaceType, Process!TradesType, Process!UnderWay,
           Process!StopPart, Process!Stopping, Process!trades, Process!history
  <2>7. QED
    BY <2>1, <2>2, <2>3, <2>4, <2>5, <2>6
<1>3. CASE Process!ReadAtBoot
  <2>1. Process!PlaceType'
    BY <1>3, BootOrder
       DEF Process!PlaceType, Process!TradesType, Process!ReadAtBoot, Process!Next1,
           Process!place, Process!trades, Process!history
  <2>2. Process!TodoFits'
    BY <1>3, BootOrder
       DEF Process!PlaceType, Process!TodoFits, Process!ReadAtBoot, Process!Next1,
           Process!place, Process!trades, Process!history
  <2>3. Process!TradesType'
    BY <1>3, BootOrder
       DEF Process!TradesType, Process!UnderWay, Process!ReadAtBoot, Process!Next1,
           Process!place, Process!trades, Process!history
  <2>4. Process!QuietBefore'
    BY <1>3, BootOrder
       DEF Process!QuietBefore, Process!PlaceType, Process!TradesType,
           Process!TodoFits, Process!UnderWay, Process!ReadAtBoot, Process!Next1,
           Process!place, Process!trades, Process!history
  <2>5. Process!Accounted' /\ Process!StopLeavesNothing'
    BY <1>3, BootOrder
       DEF Process!Accounted, Process!StopLeavesNothing, Process!QuietBefore,
           Process!LateFits, Process!EngineFits, Process!PlaceType,
           Process!TradesType, Process!UnderWay, Process!Ordered,
           Process!ReadAtBoot, Process!Next1, Process!place, Process!trades,
           Process!history
  <2>6. Process!LateFits' /\ Process!EngineFits'
    BY <1>3, <1>0, BootOrder
       DEF Process!LateFits, Process!EngineFits, Process!TodoFits,
           Process!PlaceType, Process!TradesType, Process!UnderWay,
           Process!ReadAtBoot, Process!Next1, Process!place, Process!trades,
           Process!history
  <2>7. QED
    BY <2>1, <2>2, <2>3, <2>4, <2>5, <2>6
<1>4. CASE Process!ReconciledAtBoot
  <2>1. Process!PlaceType'
    BY <1>4, BootOrder
       DEF Process!PlaceType, Process!TradesType, Process!ReconciledAtBoot,
           Process!Next1, Process!trades, Process!history
  <2>2. Process!TodoFits'
    BY <1>4, BootOrder
       DEF Process!PlaceType, Process!TodoFits, Process!ReconciledAtBoot,
           Process!Next1, Process!trades, Process!history
  <2>3. Process!TradesType'
    BY <1>4, BootOrder
       DEF Process!TradesType, Process!UnderWay, Process!ReconciledAtBoot,
           Process!Next1, Process!trades, Process!history
  <2>4. Process!QuietBefore'
    BY <1>4, BootOrder
       DEF Process!QuietBefore, Process!PlaceType, Process!TradesType,
           Process!TodoFits, Process!UnderWay, Process!ReconciledAtBoot,
           Process!Next1, Process!trades, Process!history
  <2>5. Process!Accounted' /\ Process!StopLeavesNothing'
    BY <1>4, BootOrder
       DEF Process!Accounted, Process!StopLeavesNothing, Process!QuietBefore,
           Process!LateFits, Process!EngineFits, Process!PlaceType,
           Process!TradesType, Process!UnderWay, Process!Ordered,
           Process!ReconciledAtBoot, Process!Next1, Process!trades, Process!history
  <2>6. Process!LateFits' /\ Process!EngineFits'
    BY <1>4, <1>0, BootOrder
       DEF Process!LateFits, Process!EngineFits, Process!TodoFits,
           Process!PlaceType, Process!TradesType, Process!UnderWay,
           Process!ReconciledAtBoot, Process!Next1, Process!trades, Process!history
  <2>7. QED
    BY <2>1, <2>2, <2>3, <2>4, <2>5, <2>6
<1>5. CASE Process!Run
  <2>1. Process!PlaceType'
    BY <1>5, BootOrder
       DEF Process!PlaceType, Process!TradesType, Process!Run, Process!trades,
           Process!history
  <2>2. Process!TodoFits'
    BY <1>5, BootOrder
       DEF Process!PlaceType, Process!TodoFits, Process!Run, Process!trades,
           Process!history
  <2>3. Process!TradesType'
    BY <1>5
       DEF Process!TradesType, Process!UnderWay, Process!Run, Process!trades,
           Process!history
  <2>4. Process!QuietBefore'
    BY <1>5
       DEF Process!QuietBefore, Process!PlaceType, Process!TradesType,
           Process!TodoFits, Process!UnderWay, Process!Run, Process!trades,
           Process!history
  <2>5. Process!Accounted' /\ Process!StopLeavesNothing'
    BY <1>5
       DEF Process!Accounted, Process!StopLeavesNothing, Process!QuietBefore,
           Process!LateFits, Process!EngineFits, Process!PlaceType,
           Process!TradesType, Process!UnderWay, Process!Ordered, Process!Run,
           Process!trades, Process!history
  <2>6. Process!LateFits' /\ Process!EngineFits'
    BY <1>5, <1>0
       DEF Process!LateFits, Process!EngineFits, Process!TodoFits,
           Process!PlaceType, Process!TradesType, Process!UnderWay, Process!Run,
           Process!trades, Process!history
  <2>7. QED
    BY <2>1, <2>2, <2>3, <2>4, <2>5, <2>6
<1>6. CASE Process!Asked
  <2>1. Process!PlaceType'
    BY <1>6, BootOrder
       DEF Process!PlaceType, Process!TradesType, Process!Asked, Process!trades,
           Process!history
  <2>2. Process!TodoFits'
    BY <1>6, BootOrder
       DEF Process!PlaceType, Process!TodoFits, Process!Asked, Process!trades,
           Process!history
  <2>3. Process!TradesType'
    BY <1>6
       DEF Process!TradesType, Process!UnderWay, Process!Asked, Process!trades,
           Process!history
  <2>4. Process!QuietBefore'
    BY <1>6
       DEF Process!QuietBefore, Process!PlaceType, Process!TradesType,
           Process!TodoFits, Process!UnderWay, Process!Asked, Process!trades,
           Process!history
  <2>5. Process!Accounted' /\ Process!StopLeavesNothing'
    BY <1>6
       DEF Process!Accounted, Process!StopLeavesNothing, Process!QuietBefore,
           Process!LateFits, Process!EngineFits, Process!PlaceType,
           Process!TradesType, Process!UnderWay, Process!Ordered, Process!Asked,
           Process!trades, Process!history
  <2>6. Process!LateFits' /\ Process!EngineFits'
    BY <1>6, <1>0
       DEF Process!LateFits, Process!EngineFits, Process!TodoFits,
           Process!PlaceType, Process!TradesType, Process!UnderWay, Process!Asked,
           Process!trades, Process!history
  <2>7. QED
    BY <2>1, <2>2, <2>3, <2>4, <2>5, <2>6
<1>7. CASE Process!EngineStops
  <2>1. Process!PlaceType'
    BY <1>7, BootOrder, StopSequence
       DEF Process!PlaceType, Process!TradesType, Process!EngineStops,
           Process!Stopping, Process!trades, Process!history
  <2>2. Process!TodoFits'
    BY <1>7, BootOrder, StopSequence
       DEF Process!PlaceType, Process!TodoFits, Process!EngineStops,
           Process!Stopping, Process!trades, Process!history
  <2>3. Process!TradesType'
    BY <1>7, StopSequence
       DEF Process!TradesType, Process!UnderWay, Process!EngineStops,
           Process!Stopping, Process!trades, Process!history
  <2>4. Process!QuietBefore'
    BY <1>7, StopSequence
       DEF Process!QuietBefore, Process!PlaceType, Process!TradesType,
           Process!TodoFits, Process!UnderWay, Process!EngineStops,
           Process!Stopping, Process!trades, Process!history
  <2>5. Process!Accounted' /\ Process!StopLeavesNothing'
    BY <1>7, StopSequence
       DEF Process!Accounted, Process!StopLeavesNothing, Process!QuietBefore,
           Process!LateFits, Process!EngineFits, Process!PlaceType,
           Process!TradesType, Process!UnderWay, Process!Ordered,
           Process!EngineStops, Process!Stopping, Process!trades, Process!history
  <2>6. Process!LateFits' /\ Process!EngineFits'
    BY <1>7, <1>0, StopSequence
       DEF Process!LateFits, Process!EngineFits, Process!TodoFits,
           Process!PlaceType, Process!TradesType, Process!UnderWay,
           Process!EngineStops, Process!Stopping, Process!trades, Process!history
  <2>7. QED
    BY <2>1, <2>2, <2>3, <2>4, <2>5, <2>6
<1>8. CASE Process!WatchersCancelled
  <2>1. Process!PlaceType'
    BY <1>8, BootOrder, StopSequence
       DEF Process!PlaceType, Process!TradesType, Process!WatchersCancelled,
           Process!Stopping, Process!trades, Process!history
  <2>2. Process!TodoFits'
    BY <1>8, BootOrder, StopSequence
       DEF Process!PlaceType, Process!TodoFits, Process!WatchersCancelled,
           Process!Stopping, Process!trades, Process!history
  <2>3. Process!TradesType'
    BY <1>8, StopSequence
       DEF Process!TradesType, Process!UnderWay, Process!WatchersCancelled,
           Process!Stopping, Process!trades, Process!history
  <2>4. Process!QuietBefore'
    BY <1>8, StopSequence
       DEF Process!QuietBefore, Process!PlaceType, Process!TradesType,
           Process!TodoFits, Process!UnderWay, Process!WatchersCancelled,
           Process!Stopping, Process!trades, Process!history
  <2>5. Process!Accounted' /\ Process!StopLeavesNothing'
    BY <1>8, StopSequence
       DEF Process!Accounted, Process!StopLeavesNothing, Process!QuietBefore,
           Process!LateFits, Process!EngineFits, Process!PlaceType,
           Process!TradesType, Process!UnderWay, Process!Ordered,
           Process!WatchersCancelled, Process!Stopping, Process!trades,
           Process!history
  <2>6. Process!LateFits' /\ Process!EngineFits'
    BY <1>8, <1>0, StopSequence
       DEF Process!LateFits, Process!EngineFits, Process!TodoFits,
           Process!PlaceType, Process!TradesType, Process!UnderWay,
           Process!WatchersCancelled, Process!Stopping, Process!trades,
           Process!history
  <2>7. QED
    BY <2>1, <2>2, <2>3, <2>4, <2>5, <2>6
<1>9. CASE Process!Goodbye
  <2>1. Process!PlaceType'
    BY <1>9, BootOrder, StopSequence
       DEF Process!PlaceType, Process!TradesType, Process!Goodbye, Process!AllGone,
           Process!trades, Process!history
  <2>2. Process!TodoFits'
    BY <1>9, BootOrder, StopSequence
       DEF Process!PlaceType, Process!TodoFits, Process!Goodbye, Process!AllGone,
           Process!trades, Process!history
  <2>3. Process!TradesType'
    BY <1>9, StopSequence
       DEF Process!TradesType, Process!UnderWay, Process!Goodbye, Process!AllGone,
           Process!trades, Process!history
  <2>4. Process!QuietBefore'
    BY <1>9, StopSequence
       DEF Process!QuietBefore, Process!PlaceType, Process!TradesType,
           Process!TodoFits, Process!UnderWay, Process!Goodbye, Process!AllGone,
           Process!trades, Process!history
  <2>5. Process!Accounted' /\ Process!StopLeavesNothing'
    BY <1>9, StopSequence
       DEF Process!Accounted, Process!StopLeavesNothing, Process!QuietBefore,
           Process!LateFits, Process!EngineFits, Process!PlaceType,
           Process!TradesType, Process!UnderWay, Process!Ordered, Process!Goodbye,
           Process!AllGone, Process!trades, Process!history
  <2>6. Process!LateFits' /\ Process!EngineFits'
    BY <1>9, <1>0, StopSequence
       DEF Process!LateFits, Process!EngineFits, Process!TodoFits,
           Process!PlaceType, Process!TradesType, Process!UnderWay, Process!Goodbye,
           Process!AllGone, Process!trades, Process!history
  <2>7. QED
    BY <2>1, <2>2, <2>3, <2>4, <2>5, <2>6
<1>10. CASE Process!Dies
  <2>1. Process!PlaceType'
    BY <1>10, BootOrder
       DEF Process!PlaceType, Process!TradesType, Process!Dies, Process!AllGone,
           Process!trades, Process!history
  <2>2. Process!TodoFits'
    BY <1>10, BootOrder
       DEF Process!PlaceType, Process!TodoFits, Process!Dies, Process!AllGone,
           Process!trades, Process!history
  <2>3. Process!TradesType'
    BY <1>10
       DEF Process!TradesType, Process!UnderWay, Process!Dies, Process!AllGone,
           Process!trades, Process!history
  <2>4. Process!QuietBefore'
    BY <1>10
       DEF Process!QuietBefore, Process!PlaceType, Process!TradesType,
           Process!TodoFits, Process!UnderWay, Process!Dies, Process!AllGone,
           Process!trades, Process!history
  <2>5. Process!Accounted' /\ Process!StopLeavesNothing'
    BY <1>10
       DEF Process!Accounted, Process!StopLeavesNothing, Process!QuietBefore,
           Process!LateFits, Process!EngineFits, Process!PlaceType,
           Process!TradesType, Process!UnderWay, Process!Ordered, Process!Dies,
           Process!AllGone, Process!trades, Process!history
  <2>6. Process!LateFits' /\ Process!EngineFits'
    BY <1>10, <1>0
       DEF Process!LateFits, Process!EngineFits, Process!TodoFits,
           Process!PlaceType, Process!TradesType, Process!UnderWay, Process!Dies,
           Process!AllGone, Process!trades, Process!history
  <2>7. QED
    BY <2>1, <2>2, <2>3, <2>4, <2>5, <2>6
<1>11. CASE Process!Restart
  <2>1. Process!PlaceType'
    BY <1>11, BootOrder
       DEF Process!PlaceType, Process!TradesType, Process!Restart, Process!trades,
           Process!history
  <2>2. Process!TodoFits'
    BY <1>11, BootOrder
       DEF Process!PlaceType, Process!TodoFits, Process!Restart, Process!trades,
           Process!history
  <2>3. Process!TradesType'
    BY <1>11
       DEF Process!TradesType, Process!UnderWay, Process!Restart, Process!trades,
           Process!history
  <2>4. Process!QuietBefore'
    BY <1>11
       DEF Process!QuietBefore, Process!PlaceType, Process!TradesType,
           Process!TodoFits, Process!UnderWay, Process!Restart, Process!trades,
           Process!history
  <2>5. Process!Accounted' /\ Process!StopLeavesNothing'
    BY <1>11
       DEF Process!Accounted, Process!StopLeavesNothing, Process!QuietBefore,
           Process!LateFits, Process!EngineFits, Process!PlaceType,
           Process!TradesType, Process!UnderWay, Process!Ordered, Process!Restart,
           Process!trades, Process!history
  <2>6. Process!LateFits' /\ Process!EngineFits'
    BY <1>11, <1>0
       DEF Process!LateFits, Process!EngineFits, Process!TodoFits,
           Process!PlaceType, Process!TradesType, Process!UnderWay, Process!Restart,
           Process!trades, Process!history
  <2>7. QED
    BY <2>1, <2>2, <2>3, <2>4, <2>5, <2>6
<1>12. ASSUME NEW k \in Ids, Process!CloseAtBoot(k) PROVE Process!HInv'
  <2>1. Process!PlaceType'
    BY <1>12, BootOrder
       DEF Process!PlaceType, Process!TradesType, Process!CloseAtBoot,
           Process!Next1, Process!place, Process!trades, Process!history
  <2>2. Process!TodoFits'
    BY <1>12, BootOrder
       DEF Process!PlaceType, Process!TodoFits, Process!CloseAtBoot, Process!Next1,
           Process!place, Process!trades, Process!history
  <2>3. Process!TradesType'
    BY <1>12, BootOrder
       DEF Process!TradesType, Process!UnderWay, Process!CloseAtBoot, Process!Next1,
           Process!place, Process!trades, Process!history
  <2>4. Process!QuietBefore'
    BY <1>12, BootOrder
       DEF Process!QuietBefore, Process!PlaceType, Process!TradesType,
           Process!TodoFits, Process!UnderWay, Process!CloseAtBoot, Process!Next1,
           Process!place, Process!trades, Process!history
  <2>5. Process!Accounted' /\ Process!StopLeavesNothing'
    BY <1>12, BootOrder
       DEF Process!Accounted, Process!StopLeavesNothing, Process!QuietBefore,
           Process!LateFits, Process!EngineFits, Process!PlaceType,
           Process!TradesType, Process!UnderWay, Process!Ordered,
           Process!CloseAtBoot, Process!Next1, Process!place, Process!trades,
           Process!history
  <2>6. Process!LateFits' /\ Process!EngineFits'
    BY <1>12, <1>0, BootOrder
       DEF Process!LateFits, Process!EngineFits, Process!TodoFits,
           Process!PlaceType, Process!TradesType, Process!UnderWay,
           Process!CloseAtBoot, Process!Next1, Process!place, Process!trades,
           Process!history
  <2>7. QED
    BY <2>1, <2>2, <2>3, <2>4, <2>5, <2>6
<1>13. ASSUME NEW k \in Ids, Process!Emit(k) PROVE Process!HInv'
  <2>1. Process!PlaceType'
    BY <1>13, BootOrder
       DEF Process!PlaceType, Process!TradesType, Process!Emit, Process!place,
           Process!trades, Process!history
  <2>2. Process!TodoFits'
    BY <1>13, BootOrder
       DEF Process!PlaceType, Process!TodoFits, Process!Emit, Process!place,
           Process!trades, Process!history
  <2>3. Process!TradesType'
    BY <1>13
       DEF Process!TradesType, Process!UnderWay, Process!Emit, Process!place,
           Process!trades, Process!history
  <2>4. Process!QuietBefore'
    BY <1>13
       DEF Process!QuietBefore, Process!PlaceType, Process!TradesType,
           Process!TodoFits, Process!UnderWay, Process!Emit, Process!place,
           Process!trades, Process!history
  <2>5. Process!Accounted' /\ Process!StopLeavesNothing'
    BY <1>13
       DEF Process!Accounted, Process!StopLeavesNothing, Process!QuietBefore,
           Process!LateFits, Process!EngineFits, Process!PlaceType,
           Process!TradesType, Process!UnderWay, Process!Ordered, Process!Emit,
           Process!place, Process!trades, Process!history
  <2>6. Process!LateFits' /\ Process!EngineFits'
    BY <1>13, <1>0
       DEF Process!LateFits, Process!EngineFits, Process!TodoFits,
           Process!PlaceType, Process!TradesType, Process!UnderWay, Process!Emit,
           Process!place, Process!trades, Process!history
  <2>7. QED
    BY <2>1, <2>2, <2>3, <2>4, <2>5, <2>6
<1>14. ASSUME NEW k \in Ids, Process!Ends(k) PROVE Process!HInv'
  <2>1. Process!PlaceType'
    BY <1>14, BootOrder
       DEF Process!PlaceType, Process!TradesType, Process!Ends, Process!place,
           Process!trades, Process!history
  <2>2. Process!TodoFits'
    BY <1>14, BootOrder
       DEF Process!PlaceType, Process!TodoFits, Process!Ends, Process!place,
           Process!trades, Process!history
  <2>3. Process!TradesType'
    BY <1>14
       DEF Process!TradesType, Process!UnderWay, Process!Ends, Process!place,
           Process!trades, Process!history
  <2>4. Process!QuietBefore'
    BY <1>14
       DEF Process!QuietBefore, Process!PlaceType, Process!TradesType,
           Process!TodoFits, Process!UnderWay, Process!Ends, Process!place,
           Process!trades, Process!history
  <2>5. Process!Accounted' /\ Process!StopLeavesNothing'
    BY <1>14
       DEF Process!Accounted, Process!StopLeavesNothing, Process!QuietBefore,
           Process!LateFits, Process!EngineFits, Process!PlaceType,
           Process!TradesType, Process!UnderWay, Process!Ordered, Process!Ends,
           Process!place, Process!trades, Process!history
  <2>6. Process!LateFits' /\ Process!EngineFits'
    BY <1>14, <1>0
       DEF Process!LateFits, Process!EngineFits, Process!TodoFits,
           Process!PlaceType, Process!TradesType, Process!UnderWay, Process!Ends,
           Process!place, Process!trades, Process!history
  <2>7. QED
    BY <2>1, <2>2, <2>3, <2>4, <2>5, <2>6
<1>15. ASSUME NEW k \in Ids, Process!Fills(k) PROVE Process!HInv'
  <2>1. Process!PlaceType'
    BY <1>15, BootOrder
       DEF Process!PlaceType, Process!TradesType, Process!Fills, Process!place,
           Process!trades, Process!history
  <2>2. Process!TodoFits'
    BY <1>15, BootOrder
       DEF Process!PlaceType, Process!TodoFits, Process!Fills, Process!place,
           Process!trades, Process!history
  <2>3. Process!TradesType'
    BY <1>15
       DEF Process!TradesType, Process!UnderWay, Process!Fills, Process!place,
           Process!trades, Process!history
  <2>4. Process!QuietBefore'
    BY <1>15
       DEF Process!QuietBefore, Process!PlaceType, Process!TradesType,
           Process!TodoFits, Process!UnderWay, Process!Fills, Process!place,
           Process!trades, Process!history
  <2>5. Process!Accounted' /\ Process!StopLeavesNothing'
    BY <1>15
       DEF Process!Accounted, Process!StopLeavesNothing, Process!QuietBefore,
           Process!LateFits, Process!EngineFits, Process!PlaceType,
           Process!TradesType, Process!UnderWay, Process!Ordered, Process!Fills,
           Process!place, Process!trades, Process!history
  <2>6. Process!LateFits' /\ Process!EngineFits'
    BY <1>15, <1>0
       DEF Process!LateFits, Process!EngineFits, Process!TodoFits,
           Process!PlaceType, Process!TradesType, Process!UnderWay, Process!Fills,
           Process!place, Process!trades, Process!history
  <2>7. QED
    BY <2>1, <2>2, <2>3, <2>4, <2>5, <2>6
<1>16. ASSUME NEW k \in Ids, Process!Track(k) PROVE Process!HInv'
  <2>1. Process!PlaceType'
    BY <1>16, BootOrder
       DEF Process!PlaceType, Process!TradesType, Process!Track, Process!place,
           Process!trades, Process!history
  <2>2. Process!TodoFits'
    BY <1>16, BootOrder
       DEF Process!PlaceType, Process!TodoFits, Process!Track, Process!place,
           Process!trades, Process!history
  <2>3. Process!TradesType'
    BY <1>16
       DEF Process!TradesType, Process!UnderWay, Process!Track, Process!place,
           Process!trades, Process!history
  <2>4. Process!QuietBefore'
    BY <1>16
       DEF Process!QuietBefore, Process!PlaceType, Process!TradesType,
           Process!TodoFits, Process!UnderWay, Process!Track, Process!place,
           Process!trades, Process!history
  <2>5. Process!Accounted' /\ Process!StopLeavesNothing'
    BY <1>16
       DEF Process!Accounted, Process!StopLeavesNothing, Process!QuietBefore,
           Process!LateFits, Process!EngineFits, Process!PlaceType,
           Process!TradesType, Process!UnderWay, Process!Ordered, Process!Track,
           Process!place, Process!trades, Process!history
  <2>6. Process!LateFits' /\ Process!EngineFits'
    BY <1>16, <1>0
       DEF Process!LateFits, Process!EngineFits, Process!TodoFits,
           Process!PlaceType, Process!TradesType, Process!UnderWay, Process!Track,
           Process!place, Process!trades, Process!history
  <2>7. QED
    BY <2>1, <2>2, <2>3, <2>4, <2>5, <2>6
<1>17. ASSUME NEW k \in Ids, Process!WatcherCloses(k) PROVE Process!HInv'
  <2>1. Process!PlaceType'
    BY <1>17, BootOrder
       DEF Process!PlaceType, Process!TradesType, Process!WatcherCloses,
           Process!place, Process!trades, Process!history
  <2>2. Process!TodoFits'
    BY <1>17, BootOrder
       DEF Process!PlaceType, Process!TodoFits, Process!WatcherCloses,
           Process!place, Process!trades, Process!history
  <2>3. Process!TradesType'
    BY <1>17
       DEF Process!TradesType, Process!UnderWay, Process!WatcherCloses,
           Process!place, Process!trades, Process!history
  <2>4. Process!QuietBefore'
    BY <1>17
       DEF Process!QuietBefore, Process!PlaceType, Process!TradesType,
           Process!TodoFits, Process!UnderWay, Process!WatcherCloses, Process!place,
           Process!trades, Process!history
  <2>5. Process!Accounted' /\ Process!StopLeavesNothing'
    BY <1>17
       DEF Process!Accounted, Process!StopLeavesNothing, Process!QuietBefore,
           Process!LateFits, Process!EngineFits, Process!PlaceType,
           Process!TradesType, Process!UnderWay, Process!Ordered,
           Process!WatcherCloses, Process!place, Process!trades, Process!history
  <2>6. Process!LateFits' /\ Process!EngineFits'
    BY <1>17, <1>0
       DEF Process!LateFits, Process!EngineFits, Process!TodoFits,
           Process!PlaceType, Process!TradesType, Process!UnderWay,
           Process!WatcherCloses, Process!place, Process!trades, Process!history
  <2>7. QED
    BY <2>1, <2>2, <2>3, <2>4, <2>5, <2>6
<1>18. ASSUME NEW k \in Ids, Process!WatcherDone(k) PROVE Process!HInv'
  <2>1. Process!PlaceType'
    BY <1>18, BootOrder
       DEF Process!PlaceType, Process!TradesType, Process!WatcherDone,
           Process!place, Process!Closed, Process!trades, Process!history
  <2>2. Process!TodoFits'
    BY <1>18, BootOrder
       DEF Process!PlaceType, Process!TodoFits, Process!WatcherDone, Process!place,
           Process!Closed, Process!trades, Process!history
  <2>3. Process!TradesType'
    BY <1>18
       DEF Process!TradesType, Process!UnderWay, Process!WatcherDone, Process!place,
           Process!Closed, Process!trades, Process!history
  <2>4. Process!QuietBefore'
    BY <1>18
       DEF Process!QuietBefore, Process!PlaceType, Process!TradesType,
           Process!TodoFits, Process!UnderWay, Process!WatcherDone, Process!place,
           Process!Closed, Process!trades, Process!history
  <2>5. Process!Accounted' /\ Process!StopLeavesNothing'
    BY <1>18
       DEF Process!Accounted, Process!StopLeavesNothing, Process!QuietBefore,
           Process!LateFits, Process!EngineFits, Process!PlaceType,
           Process!TradesType, Process!UnderWay, Process!Ordered,
           Process!WatcherDone, Process!place, Process!Closed, Process!trades,
           Process!history
  <2>6. Process!LateFits' /\ Process!EngineFits'
    BY <1>18, <1>0
       DEF Process!LateFits, Process!EngineFits, Process!TodoFits,
           Process!PlaceType, Process!TradesType, Process!UnderWay,
           Process!WatcherDone, Process!place, Process!Closed, Process!trades,
           Process!history
  <2>7. QED
    BY <2>1, <2>2, <2>3, <2>4, <2>5, <2>6
<1>19. ASSUME NEW k \in Ids, Process!Sweep(k) PROVE Process!HInv'
  <2>1. Process!PlaceType'
    BY <1>19, BootOrder
       DEF Process!PlaceType, Process!TradesType, Process!Sweep, Process!place,
           Process!trades, Process!history
  <2>2. Process!TodoFits'
    BY <1>19, BootOrder
       DEF Process!PlaceType, Process!TodoFits, Process!Sweep, Process!place,
           Process!trades, Process!history
  <2>3. Process!TradesType'
    BY <1>19
       DEF Process!TradesType, Process!UnderWay, Process!Sweep, Process!place,
           Process!trades, Process!history
  <2>4. Process!QuietBefore'
    BY <1>19
       DEF Process!QuietBefore, Process!PlaceType, Process!TradesType,
           Process!TodoFits, Process!UnderWay, Process!Sweep, Process!place,
           Process!trades, Process!history
  <2>5. Process!Accounted' /\ Process!StopLeavesNothing'
    BY <1>19
       DEF Process!Accounted, Process!StopLeavesNothing, Process!QuietBefore,
           Process!LateFits, Process!EngineFits, Process!PlaceType,
           Process!TradesType, Process!UnderWay, Process!Ordered, Process!Sweep,
           Process!place, Process!trades, Process!history
  <2>6. Process!LateFits' /\ Process!EngineFits'
    BY <1>19, <1>0
       DEF Process!LateFits, Process!EngineFits, Process!TodoFits,
           Process!PlaceType, Process!TradesType, Process!UnderWay, Process!Sweep,
           Process!place, Process!trades, Process!history
  <2>7. QED
    BY <2>1, <2>2, <2>3, <2>4, <2>5, <2>6
<1>20. ASSUME NEW k \in Ids, Process!EngineCloses(k) PROVE Process!HInv'
  <2>1. Process!PlaceType'
    BY <1>20, BootOrder, StopSequence
       DEF Process!PlaceType, Process!TradesType, Process!EngineCloses,
           Process!Stopping, Process!place, Process!Closed, Process!trades,
           Process!history
  <2>2. Process!TodoFits'
    BY <1>20, BootOrder, StopSequence
       DEF Process!PlaceType, Process!TodoFits, Process!EngineCloses,
           Process!Stopping, Process!place, Process!Closed, Process!trades,
           Process!history
  <2>3. Process!TradesType'
    BY <1>20, StopSequence
       DEF Process!TradesType, Process!UnderWay, Process!EngineCloses,
           Process!Stopping, Process!place, Process!Closed, Process!trades,
           Process!history
  <2>4. Process!QuietBefore'
    BY <1>20, StopSequence
       DEF Process!QuietBefore, Process!PlaceType, Process!TradesType,
           Process!TodoFits, Process!UnderWay, Process!EngineCloses,
           Process!Stopping, Process!place, Process!Closed, Process!trades,
           Process!history
  <2>5. Process!Accounted' /\ Process!StopLeavesNothing'
    BY <1>20, StopSequence
       DEF Process!Accounted, Process!StopLeavesNothing, Process!QuietBefore,
           Process!LateFits, Process!EngineFits, Process!PlaceType,
           Process!TradesType, Process!UnderWay, Process!Ordered,
           Process!EngineCloses, Process!Stopping, Process!place, Process!Closed,
           Process!trades, Process!history
  <2>6. Process!LateFits' /\ Process!EngineFits'
    BY <1>20, <1>0, StopSequence
       DEF Process!LateFits, Process!EngineFits, Process!TodoFits,
           Process!PlaceType, Process!TradesType, Process!UnderWay,
           Process!EngineCloses, Process!Stopping, Process!place, Process!Closed,
           Process!trades, Process!history
  <2>7. QED
    BY <2>1, <2>2, <2>3, <2>4, <2>5, <2>6
<1>21. CASE UNCHANGED Process!vars
  BY <1>21
     DEF Process!vars, Process!place, Process!trades, Process!history,
         Process!PlaceType, Process!TradesType, Process!QuietBefore,
         Process!TodoFits, Process!Accounted, Process!LateFits, Process!EngineFits,
         Process!StopLeavesNothing, Process!UnderWay, Process!Ordered
<1>22. QED
  BY <1>1, <1>2, <1>3, <1>4, <1>5, <1>6, <1>7, <1>8, <1>9, <1>10, <1>11, <1>12,
     <1>13, <1>14, <1>15, <1>16, <1>17, <1>18, <1>19, <1>20, <1>21
     DEF Process!Next

\* The invariant holds when the first process starts.
LEMMA InitHInv == ASSUME Process!RuntimeAssumptions PROVE Process!Init => Process!HInv
BY BootOrder
   DEF Process!Init, Process!HInv, Process!PlaceType, Process!TradesType,
       Process!QuietBefore, Process!TodoFits, Process!Accounted, Process!LateFits,
       Process!EngineFits, Process!StopLeavesNothing, Process!UnderWay,
       Process!Ordered

\* What the invariant says of a state.
LEMMA HInvGives == Process!HInv => Process!TypeOK /\ Process!ProcessHandsOver
<1>1. Process!HInv => Process!TypeOK
  BY DEF Process!HInv, Process!PlaceType, Process!TradesType, Process!TypeOK
<1>2. Process!HInv => Process!BootMeetsNoTrading
  BY DEF Process!HInv, Process!QuietBefore, Process!TodoFits,
     Process!BootMeetsNoTrading
<1>3. QED
  BY <1>1, <1>2 DEF Process!HInv, Process!ProcessHandsOver

\* Reconciliation at boot finds no entry and no tracked position of its own
\* process, and a process that stopped in order left on the exchange only what
\* came late or could not be closed, for any set of entries and any number of
\* processes (main.py, shadow_engine.py).
THEOREM ProcessHandsOverAll ==
  ASSUME Process!RuntimeAssumptions
  PROVE  Process!Spec => []Process!TypeOK /\ []Process!ProcessHandsOver
BY InitHInv, StepHInv, HInvGives, PTL DEF Process!Spec

=============================================================================
