-------------------------- MODULE FeeGuard_proofs ---------------------------
(***************************************************************************)
(* Proofs about FeeGuard for any slots, pairs, commands, orders and        *)
(* restarts.                                                               *)
(***************************************************************************)
EXTENDS FeeGuard, TLAPS

-----------------------------------------------------------------------------
(* The programs of the coroutines.                                         *)

Slotted(what, s) == [do |-> what, slot |-> s]
Paired(what, s, p) == [do |-> what, slot |-> s, pair |-> p]
Demotes(p) == [do |-> "demote", pair |-> p]
Promotes(p, x) == [do |-> "promote", pair |-> p, to |-> x]
Loads == [do |-> "load"]
Rebuilds == [do |-> "rebuild"]
Installs(m) == [do |-> "install", map |-> m]

Pairs0 == Pairs \cup {NoPair}
Serves(s, p) == live[s] /\ pairOf[s] = p

\* The slot may be switched off: its pair is served by another one, or is not
\* live.
Leavable(s) ==
  pairOf[s] = NoPair \/ OtherLive(s, pairOf[s]) \/ state[pairOf[s]] = "shadow"

\* What a halt still has to do on slots S: the step h, then r.
HaltFits(S, h, r) ==
  \E s \in S, p \in Pairs :
    \/ /\ h = Slotted("disable", s) /\ r = <<Paired("orphan", s, p)>>
       /\ raced \/ pairOf[s] = p
    \/ h \in {Paired("orphan", s, p), Demotes(p)} /\ r = <<>>

\* What a command still has to do, and what its author relies on.
StepsFit(s, p, h, r) ==
  \/ /\ h = Slotted("enable", s)
     /\ \/ r = <<>> \/ r = <<Slotted("promoteOf", s), Rebuilds>>
        \/ r = <<Promotes(p, "live"), Rebuilds>> /\ (raced \/ pairOf[s] = p)
  \/ h = Slotted("promoteOf", s) /\ r = <<Rebuilds>> /\ (raced \/ live[s])
  \/ /\ h = Promotes(p, "live") /\ r = <<Rebuilds>>
     /\ raced \/ Serves(s, p)
  \/ /\ h = Promotes(p, "shadow")
     /\ \/ r = <<Slotted("disable", s), Rebuilds>> /\ (raced \/ pairOf[s] = p)
        \/ \E q \in Pairs : r = <<Paired("assign", s, q), Paired("pickOn", s, q)>>
  \/ /\ h = Loads
     /\ \/ r = <<Rebuilds>>
        \/ r = <<Slotted("disable", s), Rebuilds>> /\ (raced \/ Leavable(s))
        \/ r = <<Paired("assign", s, p), Paired("pickOn", s, p)>>
  \/ h = Rebuilds /\ r = <<>>
  \/ \E m \in [Slots -> Pairs0] : h = Installs(m) /\ r = <<>>
  \/ /\ h = Slotted("disable", s)
     /\ \/ r = <<Rebuilds>> /\ (raced \/ Leavable(s))
        \/ r = <<>> /\ (raced \/ pairOf[s] = NoPair)
  \/ h = Paired("assign", s, p) /\ r = <<Paired("pickOn", s, p)>>
  \/ h = Paired("assign", s, NoPair) /\ r = <<Slotted("disable", s)>>
  \/ /\ h \in {Paired("orphan", s, p), Demotes(p)}
     /\ \/ \E q \in Pairs : r = <<Paired("pickOn", s, q)>> /\ (raced \/ pairOf[s] = q)
        \/ r = <<Slotted("disable", s)>> /\ (raced \/ pairOf[s] = NoPair)
        \/ r = <<Slotted("clear", s)>>
  \/ h = Paired("pickOn", s, p) /\ r = <<>> /\ (raced \/ pairOf[s] = p)
  \/ h \in {Slotted("newKey", s), Slotted("wipe", s)} /\ r = <<Slotted("clear", s)>>
  \/ h = Slotted("clear", s) /\ r = <<>>
CommandFits(h, r) == \E s \in Slots, p \in Pairs : StepsFit(s, p, h, r)

Fits(a) ==
  \/ Idle(a)
  \/ a \in Slots /\ HaltFits({a}, Head(todo[a]), Tail(todo[a]))
  \/ a = "watch" /\ HaltFits(Slots, Head(todo[a]), Tail(todo[a]))
  \/ a = "op" /\ CommandFits(Head(todo[a]), Tail(todo[a]))
  \/ /\ a = "loop"
     /\ \E m \in [Slots -> Pairs0] : Head(todo[a]) = Installs(m) /\ Tail(todo[a]) = <<>>
Programs == \A a \in Actors : Fits(a)

-----------------------------------------------------------------------------
(* The invariant.                                                          *)

\* A slot a paid fill was seen on is halted, and switched off or about to be;
\* or it is off and no route leads to it, none about to be installed either.
Barred(s) ==
  \/ halted[s] /\ (live[s] => Doing(s, "disable"))
  \/ /\ ~live[s] /\ routes[s] = NoPair
     /\ \A a \in Actors : Doing(a, "install") => Arg(a).map[s] = NoPair
PaidAreBarred == \A s \in Slots : caught[s] => Barred(s)

\* What a reset may turn into a probe is a halt of the tariff.
HaltsKnowTheirCause ==
  \A s \in Slots : halted[s] /\ preventive[s] => cause[s] = "tariff"

\* A live pair without a slot is the next thing some coroutine looks after.
Owes(a, p) ==
  /\ ~Idle(a)
  /\ Head(todo[a]) = Demotes(p) \/ \E s \in Slots : Head(todo[a]) = Paired("orphan", s, p)
PairsAreServedOrOwed ==
  raced \/ \A p \in Pairs : state[p] = "live" =>
             (\E s \in Slots : Serves(s, p)) \/ (\E a \in Actors : Owes(a, p))

Types ==
  /\ TypeOK /\ DOMAIN todo = Actors /\ caught \in [Slots -> BOOLEAN]
  /\ raced \in BOOLEAN /\ DOMAIN cause = Slots

FInv ==
  /\ Types
  /\ Programs /\ PaidAreBarred
  /\ ProbeFollowsTariffHalt /\ HaltsKnowTheirCause
  /\ PairsAreServedOrOwed

-----------------------------------------------------------------------------
(* Programs.                                                               *)

\* The first step and the rest of short programs.
LEMMA Tuples ==
  /\ \A x : Head(<<x>>) = x /\ Tail(<<x>>) = <<>> /\ <<x>> # <<>>
  /\ \A x, y : Head(<<x, y>>) = x /\ Tail(<<x, y>>) = <<y>> /\ <<x, y>> # <<>>
  /\ \A x, y, z : /\ Head(<<x, y, z>>) = x /\ Tail(<<x, y, z>>) = <<y, z>>
                  /\ <<x, y, z>> # <<>>
OBVIOUS

\* Programs put together.
LEMMA Joins ==
  /\ <<>> \o <<>> = <<>>
  /\ \A x : <<>> \o <<x>> = <<x>> /\ <<x>> \o <<>> = <<x>>
  /\ \A x, y : /\ <<>> \o <<x, y>> = <<x, y>> /\ <<x, y>> \o <<>> = <<x, y>>
               /\ <<x>> \o <<y>> = <<x, y>>
  /\ \A x, y, z : <<x>> \o <<y, z>> = <<x, y, z>>
<1>1. <<>> \o <<>> = <<>>
  OBVIOUS
<1>2. \A x : <<>> \o <<x>> = <<x>> /\ <<x>> \o <<>> = <<x>>
  OBVIOUS
<1>3. \A x, y : <<>> \o <<x, y>> = <<x, y>> /\ <<x, y>> \o <<>> = <<x, y>>
  OBVIOUS
<1>4. ASSUME NEW x, NEW y PROVE <<x>> \o <<y>> = <<x, y>>
  <2> DEFINE S == {x, y}
             c == <<x>> \o <<y>>
  <2>1. <<x>> \in Seq(S) /\ <<y>> \in Seq(S) /\ <<x, y>> \in Seq(S)
    OBVIOUS
  <2>2. c \in Seq(S) /\ Len(c) = 2
    BY <2>1
  <2>3. c[1] = x /\ c[2] = y
    BY <2>1
  <2> HIDE DEF c
  <2>4. c = <<x, y>>
    BY <2>2, <2>3, <2>1
  <2>5. QED
    BY <2>4 DEF c
<1>5. ASSUME NEW x, NEW y, NEW z PROVE <<x>> \o <<y, z>> = <<x, y, z>>
  <2> DEFINE S == {x, y, z}
             c == <<x>> \o <<y, z>>
  <2>1. <<x>> \in Seq(S) /\ <<y, z>> \in Seq(S) /\ <<x, y, z>> \in Seq(S)
    OBVIOUS
  <2>2. c \in Seq(S) /\ Len(c) = 3
    BY <2>1
  <2>3. c[1] = x /\ c[2] = y /\ c[3] = z
    BY <2>1
  <2> HIDE DEF c
  <2>4. c = <<x, y, z>>
    BY <2>2, <2>3, <2>1
  <2>5. QED
    BY <2>4 DEF c
<1>6. QED
  BY <1>1, <1>2, <1>3, <1>4, <1>5

\* The same for a rest of two steps.
LEMMA JoinTwo ==
  ASSUME NEW x, NEW y, NEW z, NEW r, r = <<y, z>>
  PROVE  <<>> \o r = <<y, z>> /\ <<x>> \o r = <<x, y, z>>
BY Joins

\* Nothing follows a program of three steps.
LEMMA JoinNone ==
  ASSUME NEW x, NEW y, NEW z
  PROVE  <<x, y, z>> \o <<>> = <<x, y, z>>
OBVIOUS

\* No slot has the name of another coroutine.
LEMMA Names ==
  ASSUME FeeGuardAssumptions
  PROVE  /\ \A s \in Slots : s # "op" /\ s # "loop" /\ s # "watch"
         /\ NoPair \notin Pairs /\ Slots \subseteq Actors
BY DEF FeeGuardAssumptions, Actors

\* What a step does to the programs.
LEMMA ThenFacts ==
  ASSUME DOMAIN todo = Actors, NEW a \in Actors, NEW more, Then(a, more)
  PROVE  /\ DOMAIN todo' = Actors /\ todo'[a] = more \o Tail(todo[a])
         /\ \A b \in Actors \ {a} : todo'[b] = todo[b]
BY DEF Then

\* The programs of the others stay what they are, if nobody interferes.
LEMMA OthersFit ==
  ASSUME FInv, NEW a \in Actors, \A b \in Actors \ {a} : todo'[b] = todo[b],
         raced => raced' = TRUE, raced' \in BOOLEAN,
         \/ raced' = TRUE
         \/ UNCHANGED <<live, pairOf, state>>
         \/ \A b \in Actors \ {a} : Idle(b)
         \/ Idle("op") /\ UNCHANGED pairOf
  PROVE  \A b \in Actors \ {a} : Fits(b)'
<1> SUFFICES ASSUME NEW b \in Actors \ {a} PROVE Fits(b)'
  OBVIOUS
<1>1. Fits(b) /\ todo'[b] = todo[b]
  BY DEF FInv, Programs
<1>2. CASE Idle(b)
  BY <1>1, <1>2 DEF Fits, Idle
<1>3. CASE b \in Slots /\ HaltFits({b}, Head(todo[b]), Tail(todo[b]))
  <2>1. raced' = TRUE \/ UNCHANGED pairOf \/ Idle(b)
    OBVIOUS
  <2>2. QED
    BY <1>1, <1>2, <1>3, <2>1 DEF Fits, HaltFits, FInv, Types
<1>4. CASE b = "watch" /\ HaltFits(Slots, Head(todo[b]), Tail(todo[b]))
  <2>1. raced' = TRUE \/ UNCHANGED pairOf \/ Idle(b)
    OBVIOUS
  <2>2. QED
    BY <1>1, <1>2, <1>4, <2>1 DEF Fits, HaltFits, FInv, Types
<1>5. CASE b = "op" /\ CommandFits(Head(todo[b]), Tail(todo[b]))
  <2>1. CASE Idle(b)
    BY <1>2, <2>1
  <2>2. CASE raced' = TRUE
    <3>1. PICK s \in Slots, p \in Pairs : StepsFit(s, p, Head(todo[b]), Tail(todo[b]))
      BY <1>5 DEF CommandFits
    <3>2. StepsFit(s, p, Head(todo[b]), Tail(todo[b]))'
      BY <1>1, <2>2, <3>1 DEF StepsFit
    <3>3. QED
      BY <1>5, <3>2 DEF Fits, CommandFits
  <2>3. CASE UNCHANGED <<live, pairOf, state>>
    <3>1. PICK s \in Slots, p \in Pairs : StepsFit(s, p, Head(todo[b]), Tail(todo[b]))
      BY <1>5 DEF CommandFits
    <3>2. StepsFit(s, p, Head(todo[b]), Tail(todo[b]))'
      BY <1>1, <2>3, <3>1 DEF StepsFit, Serves, Leavable, OtherLive, FInv, Types
    <3>3. QED
      BY <1>5, <3>2 DEF Fits, CommandFits
  <2>4. QED
    BY <1>5, <2>1, <2>2, <2>3
<1>6. CASE /\ b = "loop"
           /\ \E m \in [Slots -> Pairs0] :
                 Head(todo[b]) = Installs(m) /\ Tail(todo[b]) = <<>>
  BY <1>1, <1>6 DEF Fits
<1>7. QED
  BY <1>1, <1>2, <1>3, <1>4, <1>5, <1>6 DEF Fits

\* A step of one coroutine keeps the programs if its own stays one.
LEMMA ProgramsStay ==
  ASSUME FInv, NEW a \in Actors, Fits(a)', \A b \in Actors \ {a} : todo'[b] = todo[b],
         raced => raced' = TRUE, raced' \in BOOLEAN,
         \/ raced' = TRUE
         \/ UNCHANGED <<live, pairOf, state>>
         \/ \A b \in Actors \ {a} : Idle(b)
         \/ Idle("op") /\ UNCHANGED pairOf
  PROVE  Programs'
<1>1. \A b \in Actors \ {a} : Fits(b)'
  BY OthersFit
<1>2. QED
  BY <1>1 DEF Programs, Actors

\* What a step has to respect for a slot that was charged to stay out.
LEMMA BarredStays ==
  ASSUME FInv,
         \A s \in Slots : caught'[s] => /\ caught[s] /\ (live'[s] => live[s])
                                        /\ halted[s] => halted'[s],
         \/ routes' = routes
         \/ \A s \in Slots : ~live[s] => routes'[s] = NoPair
         \/ \E a \in Actors : Doing(a, "install") /\ routes' = Arg(a).map,
         \A s \in Slots : Doing(s, "disable") => Doing(s, "disable")' \/ ~live'[s],
         \A a \in Actors : Doing(a, "install")' =>
           \/ Doing(a, "install") /\ Arg(a)' = Arg(a)
           \/ \A s \in Slots : ~live[s] => Arg(a)'.map[s] = NoPair
  PROVE  PaidAreBarred'
<1> SUFFICES ASSUME NEW s \in Slots, caught'[s] PROVE Barred(s)'
  BY DEF PaidAreBarred
<1>1. Barred(s)
  BY DEF FInv, PaidAreBarred
<1>2. CASE halted[s] /\ (live[s] => Doing(s, "disable"))
  BY <1>2 DEF Barred
<1>3. CASE /\ ~live[s] /\ routes[s] = NoPair
           /\ \A a \in Actors : Doing(a, "install") => Arg(a).map[s] = NoPair
  BY <1>3 DEF Barred
<1>4. QED
  BY <1>1, <1>2, <1>3 DEF Barred

\* What a step has to respect for a live pair to keep a slot.
LEMMA ServedStays ==
  ASSUME FInv, raced => raced' = TRUE, raced' \in BOOLEAN,
         \A p \in Pairs : ~raced' /\ state'[p] = "live" =>
           /\ state[p] = "live" \/ \E s \in Slots : Serves(s, p)'
           /\ \A s \in Slots : Serves(s, p) =>
                (\E o \in Slots : Serves(o, p)') \/ \E a \in Actors : Owes(a, p)'
           /\ \A a \in Actors : Owes(a, p) =>
                (\E o \in Slots : Serves(o, p)') \/ \E b \in Actors : Owes(b, p)'
  PROVE  PairsAreServedOrOwed'
BY DEF FInv, PairsAreServedOrOwed

\* Who is at which step.
LEMMA AtStep ==
  ASSUME FeeGuardAssumptions, FInv, NEW a \in Actors, ~Idle(a)
  PROVE  \/ /\ a \in Slots \cup {"watch"}
            /\ \E s \in Slots, p \in Pairs :
                 /\ a \in Slots => a = s
                 /\ \/ /\ Arg(a) = Slotted("disable", s)
                       /\ Tail(todo[a]) = <<Paired("orphan", s, p)>>
                       /\ raced \/ pairOf[s] = p
                    \/ /\ Arg(a) \in {Paired("orphan", s, p), Demotes(p)}
                       /\ Tail(todo[a]) = <<>>
         \/ /\ a = "op"
            /\ \E s \in Slots, p \in Pairs : StepsFit(s, p, Arg(a), Tail(todo[a]))
         \/ /\ a = "loop"
            /\ \E m \in [Slots -> Pairs0] : Arg(a) = Installs(m) /\ Tail(todo[a]) = <<>>
<1>1. Fits(a)
  BY DEF FInv, Programs
<1>2. CASE a \in Slots /\ HaltFits({a}, Head(todo[a]), Tail(todo[a]))
  BY <1>2 DEF HaltFits, Arg
<1>3. CASE a = "watch" /\ HaltFits(Slots, Head(todo[a]), Tail(todo[a]))
  BY <1>3, Names DEF HaltFits, Arg
<1>4. CASE a = "op" /\ CommandFits(Head(todo[a]), Tail(todo[a]))
  BY <1>4 DEF CommandFits, Arg
<1>5. QED
  BY <1>1, <1>2, <1>3, <1>4 DEF Fits, Arg

\* The fields of a step.
LEMMA Kinds ==
  /\ \A w, s : Slotted(w, s).do = w /\ Slotted(w, s).slot = s
  /\ \A w, s, p : /\ Paired(w, s, p).do = w /\ Paired(w, s, p).slot = s
                  /\ Paired(w, s, p).pair = p
  /\ \A p : Demotes(p).do = "demote" /\ Demotes(p).pair = p
  /\ \A p, x : /\ Promotes(p, x).do = "promote" /\ Promotes(p, x).pair = p
               /\ Promotes(p, x).to = x
  /\ Loads.do = "load" /\ Rebuilds.do = "rebuild"
  /\ \A m : Installs(m).do = "install" /\ Installs(m).map = m
BY DEF Slotted, Paired, Demotes, Promotes, Loads, Rebuilds, Installs

\* The same for a step of one coroutine.
LEMMA BarredStep ==
  ASSUME FeeGuardAssumptions, FInv, NEW a \in Actors,
         \A b \in Actors \ {a} : todo'[b] = todo[b],
         \A s \in Slots : caught'[s] => /\ caught[s] /\ (live'[s] => live[s])
                                        /\ halted[s] => halted'[s],
         routes' = routes,
         Doing(a, "install")' => \A s \in Slots : ~live[s] => Arg(a)'.map[s] = NoPair,
         a \in Slots /\ Doing(a, "disable") => ~live'[a]
  PROVE  PaidAreBarred'
<1>1. \A b \in Actors \ {a} : /\ Doing(b, "install")' <=> Doing(b, "install")
                              /\ Doing(b, "disable")' <=> Doing(b, "disable")
                              /\ Arg(b)' = Arg(b)
  BY DEF Doing, Idle, Arg
<1>2. \A s \in Slots : Doing(s, "disable") => Doing(s, "disable")' \/ ~live'[s]
  BY <1>1, Names
<1>3. QED
  BY <1>1, <1>2, BarredStays

\* What becomes of the command when its program is known.
LEMMA CommandBecomes ==
  ASSUME NEW s \in Slots, NEW p \in Pairs, NEW h, NEW r,
         Head(todo'["op"]) = h, Tail(todo'["op"]) = r, StepsFit(s, p, h, r)',
         todo'["op"] # <<>>
  PROVE  Fits("op")' /\ Arg("op")' = h /\ ~Idle("op")'
BY DEF Fits, CommandFits, Arg, Idle

\* The same for one step left.
LEMMA CommandOfOne ==
  ASSUME NEW s \in Slots, NEW p \in Pairs, NEW h,
         todo'["op"] = <<h>>, StepsFit(s, p, h, <<>>)'
  PROVE  Fits("op")' /\ Arg("op")' = h /\ ~Idle("op")'
<1>1. Head(todo'["op"]) = h /\ Tail(todo'["op"]) = <<>> /\ todo'["op"] # <<>>
  BY Tuples
<1>2. QED
  BY <1>1, CommandBecomes

\* The same for two steps left.
LEMMA CommandOfTwo ==
  ASSUME NEW s \in Slots, NEW p \in Pairs, NEW h, NEW x,
         todo'["op"] = <<h, x>>, StepsFit(s, p, h, <<x>>)'
  PROVE  Fits("op")' /\ Arg("op")' = h /\ ~Idle("op")'
<1>1. Head(todo'["op"]) = h /\ Tail(todo'["op"]) = <<x>> /\ todo'["op"] # <<>>
  BY Tuples
<1>2. QED
  BY <1>1, CommandBecomes

\* The same for three steps left.
LEMMA CommandOfThree ==
  ASSUME NEW s \in Slots, NEW p \in Pairs, NEW h, NEW x, NEW y,
         todo'["op"] = <<h, x, y>>, StepsFit(s, p, h, <<x, y>>)'
  PROVE  Fits("op")' /\ Arg("op")' = h /\ ~Idle("op")'
<1>1. Head(todo'["op"]) = h /\ Tail(todo'["op"]) = <<x, y>> /\ todo'["op"] # <<>>
  BY Tuples
<1>2. QED
  BY <1>1, CommandBecomes

\* What a step of one coroutine, or the start of one, has to respect.
LEMMA Keeps ==
  ASSUME FeeGuardAssumptions, FInv, NEW a \in Actors, DOMAIN todo' = Actors,
         \A b \in Actors \ {a} : todo'[b] = todo[b],
         TypeOK', caught' \in [Slots -> BOOLEAN], DOMAIN cause' = Slots,
         raced' \in BOOLEAN, raced => raced',
         \/ raced'
         \/ UNCHANGED <<live, pairOf, state>>
         \/ \A b \in Actors \ {a} : Idle(b)
         \/ Idle("op") /\ UNCHANGED pairOf,
         Fits(a)', routes' = routes,
         \A s \in Slots : caught'[s] => /\ caught[s] /\ (live'[s] => live[s])
                                        /\ halted[s] => halted'[s],
         Doing(a, "install")' => \A s \in Slots : ~live[s] => Arg(a)'.map[s] = NoPair,
         a \in Slots /\ Doing(a, "disable") => ~live'[a],
         ProbeFollowsTariffHalt', HaltsKnowTheirCause',
         \A p \in Pairs : ~raced' /\ state'[p] = "live" =>
           /\ state[p] = "live" \/ \E s \in Slots : Serves(s, p)'
           /\ \A s \in Slots : Serves(s, p) =>
                (\E o \in Slots : Serves(o, p)') \/ Owes(a, p)'
           /\ Owes(a, p) => (\E o \in Slots : Serves(o, p)') \/ Owes(a, p)'
  PROVE  FInv'
<1>1. Programs'
  BY ProgramsStay
<1>2. PaidAreBarred'
  BY BarredStep
<1>3. \A b \in Actors \ {a}, p \in Pairs : Owes(b, p) => Owes(b, p)'
  BY DEF Owes, Idle
<1>4. PairsAreServedOrOwed'
  BY <1>3, ServedStays
<1>5. QED
  BY <1>1, <1>2, <1>4 DEF FInv, Types

\* What a step of a coroutine has to respect.
LEMMA StepKeeps ==
  ASSUME FeeGuardAssumptions, FInv, NEW a \in Actors, NEW more, Then(a, more),
         TypeOK', caught' \in [Slots -> BOOLEAN], DOMAIN cause' = Slots,
         raced' \in BOOLEAN, raced => raced',
         \/ raced'
         \/ UNCHANGED <<live, pairOf, state>>
         \/ \A b \in Actors \ {a} : Idle(b)
         \/ Idle("op") /\ UNCHANGED pairOf,
         Fits(a)', routes' = routes,
         \A s \in Slots : caught'[s] => /\ caught[s] /\ (live'[s] => live[s])
                                        /\ halted[s] => halted'[s],
         Doing(a, "install")' => \A s \in Slots : ~live[s] => Arg(a)'.map[s] = NoPair,
         a \in Slots /\ Doing(a, "disable") => ~live'[a],
         ProbeFollowsTariffHalt', HaltsKnowTheirCause',
         \A p \in Pairs : ~raced' /\ state'[p] = "live" =>
           /\ state[p] = "live" \/ \E s \in Slots : Serves(s, p)'
           /\ \A s \in Slots : Serves(s, p) =>
                (\E o \in Slots : Serves(o, p)') \/ Owes(a, p)'
           /\ Owes(a, p) => (\E o \in Slots : Serves(o, p)') \/ Owes(a, p)'
  PROVE  FInv'
<1>1. DOMAIN todo' = Actors /\ \A b \in Actors \ {a} : todo'[b] = todo[b]
  BY ThenFacts DEF FInv, Types
<1>2. QED
  BY <1>1, Keeps

\* The operator's steps.
LEMMA CommandAt ==
  ASSUME FeeGuardAssumptions, FInv, NEW a \in Actors, ~Idle(a),
         Arg(a).do \notin {"disable", "orphan", "demote", "install"}
  PROVE  /\ a = "op" /\ a \notin Slots
         /\ \E s \in Slots, p \in Pairs : StepsFit(s, p, Arg(a), Tail(todo[a]))
BY AtStep, Kinds, Names

\* The steps of a halt, or of a command.
LEMMA HaltAt ==
  ASSUME FeeGuardAssumptions, FInv, NEW a \in Actors, ~Idle(a),
         Arg(a).do \in {"disable", "orphan", "demote"}
  PROVE  \/ /\ a = "op" /\ a \notin Slots
            /\ \E s \in Slots, p \in Pairs : StepsFit(s, p, Arg(a), Tail(todo[a]))
         \/ /\ a \in Slots \cup {"watch"}
            /\ \E s \in Slots, p \in Pairs :
                 /\ a \in Slots => a = s
                 /\ \/ /\ Arg(a) = Slotted("disable", s)
                       /\ Tail(todo[a]) = <<Paired("orphan", s, p)>>
                       /\ raced \/ pairOf[s] = p
                    \/ /\ Arg(a) \in {Paired("orphan", s, p), Demotes(p)}
                       /\ Tail(todo[a]) = <<>>
BY AtStep, Kinds, Names

\* What becomes of a halt.
LEMMA HaltBecomes ==
  ASSUME NEW a \in Slots \cup {"watch"}, NEW s \in Slots, NEW p \in Pairs, NEW h,
         a \in Slots => a = s, h \in {Paired("orphan", s, p), Demotes(p)},
         todo'[a] = <<h>>
  PROVE  Fits(a)' /\ Arg(a)' = h /\ ~Idle(a)' /\ ~Doing(a, "install")'
<1>1. Head(todo'[a]) = h /\ Tail(todo'[a]) = <<>> /\ todo'[a] # <<>>
  BY Tuples
<1>2. HaltFits({s}, h, <<>>)' /\ HaltFits(Slots, h, <<>>)'
  BY DEF HaltFits
<1>3. Fits(a)'
  BY <1>1, <1>2 DEF Fits, HaltFits
<1>4. QED
  BY <1>1, <1>3, Kinds DEF Arg, Idle, Doing

\* A coroutine that has nothing left to do.
LEMMA Finished ==
  ASSUME NEW a \in Actors, todo'[a] = <<>>
  PROVE  Fits(a)' /\ Idle(a)' /\ \A w : ~Doing(a, w)'
BY DEF Fits, Idle, Doing

-----------------------------------------------------------------------------
(* The steps of the coroutines.                                            *)

\* A slot is switched on.
LEMMA EnableKeeps ==
  ASSUME FeeGuardAssumptions, FInv, NEW a \in Actors, Enable(a) PROVE FInv'
<1>1. Doing(a, "enable") /\ Then(a, <<>>) /\ Races(a)
  BY DEF Enable
<1>2. a = "op" /\ a \notin Slots
  BY <1>1, CommandAt DEF Doing, Arg
<1>3. PICK s \in Slots, p \in Pairs :
        /\ Arg(a) = Slotted("enable", s)
        /\ \/ Tail(todo[a]) = <<>> \/ Tail(todo[a]) = <<Slotted("promoteOf", s), Rebuilds>>
           \/ /\ Tail(todo[a]) = <<Promotes(p, "live"), Rebuilds>>
              /\ raced \/ pairOf[s] = p
  <2>1. PICK s \in Slots, p \in Pairs : StepsFit(s, p, Arg(a), Tail(todo[a]))
    BY <1>1, CommandAt DEF Doing, Arg
  <2>2. QED
    BY <1>1, <2>1, Kinds DEF StepsFit, Doing, Arg
<1>4. /\ live' = [live EXCEPT ![s] = TRUE] /\ caught' = [caught EXCEPT ![s] = FALSE]
      /\ UNCHANGED <<key, pairOf, pairs, pool, guard, strikes, order, cause>>
  <2>1. Arg(a).slot = s
    BY <1>3, Kinds
  <2>2. QED
    BY <2>1 DEF Enable
<1>5. /\ raced' \in BOOLEAN /\ (raced => raced')
      /\ raced' \/ \A b \in Actors \ {a} : Idle(b)
  BY <1>1, <1>2 DEF Races, FInv, Types
<1>6. todo'[a] = Tail(todo[a])
  BY <1>1, <1>3, ThenFacts, Joins DEF FInv, Types
<1>7. TypeOK' /\ caught' \in [Slots -> BOOLEAN] /\ DOMAIN cause' = Slots
  BY <1>4 DEF FInv, Types, TypeOK, pairs, pool, guard
<1>8. Fits("op")' /\ ~Doing("op", "install")'
  <2>1. CASE Tail(todo[a]) = <<>>
    BY <1>2, <1>6, <2>1, Finished
  <2>2. CASE Tail(todo[a]) = <<Slotted("promoteOf", s), Rebuilds>>
    <3>1. live'[s]
      BY <1>4 DEF FInv, Types, TypeOK
    <3>2. StepsFit(s, p, Slotted("promoteOf", s), <<Rebuilds>>)'
      BY <3>1 DEF StepsFit
    <3>3. todo'["op"] = <<Slotted("promoteOf", s), Rebuilds>>
      BY <1>2, <1>6, <2>2
    <3>4. QED
      BY <3>2, <3>3, CommandOfTwo, Kinds DEF Doing, Arg
  <2>3. CASE /\ Tail(todo[a]) = <<Promotes(p, "live"), Rebuilds>>
             /\ raced \/ pairOf[s] = p
    <3>1. raced' \/ Serves(s, p)'
      BY <1>4, <1>5, <2>3 DEF Serves, FInv, Types, TypeOK
    <3>2. StepsFit(s, p, Promotes(p, "live"), <<Rebuilds>>)'
      BY <3>1 DEF StepsFit
    <3>3. todo'["op"] = <<Promotes(p, "live"), Rebuilds>>
      BY <1>2, <1>6, <2>3
    <3>4. QED
      BY <3>2, <3>3, CommandOfTwo, Kinds DEF Doing, Arg
  <2>4. QED
    BY <1>3, <2>1, <2>2, <2>3
<1>9. \A t \in Slots :
        caught'[t] => caught[t] /\ (live'[t] => live[t]) /\ (halted[t] => halted'[t])
  BY <1>4 DEF guard, FInv, Types, TypeOK
<1>10. ProbeFollowsTariffHalt' /\ HaltsKnowTheirCause'
  BY <1>4 DEF FInv, ProbeFollowsTariffHalt, HaltsKnowTheirCause, guard
<1>11. \A t \in Slots, q \in Pairs : Serves(t, q) => Serves(t, q)'
  BY <1>4 DEF Serves, FInv, Types, TypeOK
<1>12. \A q \in Pairs : ~Owes(a, q)
  BY <1>3, Kinds DEF Owes, Arg
<1>13. QED
  BY <1>1, <1>2, <1>4, <1>5, <1>7, <1>8, <1>9, <1>10, <1>11, <1>12, StepKeeps
     DEF pool, pairs

\* A slot is switched off, by a command that has seen to its pair or by a halt
\* that looks after it next.
LEMMA DisableKeeps ==
  ASSUME FeeGuardAssumptions, FInv, NEW a \in Actors, Disable(a) PROVE FInv'
<1>1. Doing(a, "disable") /\ Then(a, <<>>) /\ Races(a)
  BY DEF Disable
<1> DEFINE Off(s) ==
      /\ live' = [live EXCEPT ![s] = FALSE]
      /\ UNCHANGED <<key, pairOf, pairs, pool, guard, strikes, order, caught, cause>>
<1>2. ASSUME NEW s \in Slots, Off(s)
      PROVE  /\ TypeOK' /\ caught' \in [Slots -> BOOLEAN] /\ DOMAIN cause' = Slots
             /\ \A t \in Slots : caught'[t] => /\ caught[t] /\ (live'[t] => live[t])
                                               /\ halted[t] => halted'[t]
             /\ ProbeFollowsTariffHalt' /\ HaltsKnowTheirCause'
             /\ ~live'[s] /\ routes' = routes /\ state' = state /\ pairOf' = pairOf
             /\ \A t \in Slots, q \in Pairs : t # s /\ Serves(t, q) => Serves(t, q)'
  BY <1>2 DEF FInv, Types, TypeOK, pairs, pool, guard, ProbeFollowsTariffHalt,
     HaltsKnowTheirCause, Serves
<1>3. todo'[a] = <<>> \o Tail(todo[a])
  BY <1>1, ThenFacts DEF FInv, Types
<1>4. \A q \in Pairs : ~Owes(a, q)
  BY <1>1, Kinds DEF Owes, Doing
<1>5. CASE a = "op" /\ a \notin Slots
  <2>1. PICK s \in Slots, p \in Pairs : StepsFit(s, p, Arg(a), Tail(todo[a]))
    BY <1>1, <1>5, HaltAt, Names DEF Doing, Arg
  <2>2. /\ Arg(a) = Slotted("disable", s)
        /\ \/ Tail(todo[a]) = <<Rebuilds>> /\ (raced \/ Leavable(s))
           \/ Tail(todo[a]) = <<>> /\ (raced \/ pairOf[s] = NoPair)
    BY <1>1, <2>1, Kinds DEF StepsFit, Doing, Arg
  <2>3. Off(s)
    <3>1. Arg(a).slot = s
      BY <2>2, Kinds
    <3>2. QED
      BY <3>1 DEF Disable
  <2> HIDE DEF Off
  <2>4. /\ raced' \in BOOLEAN /\ (raced => raced')
        /\ raced' \/ \A b \in Actors \ {a} : Idle(b)
    BY <1>1, <1>5 DEF Races, FInv, Types
  <2>5. Fits("op")' /\ ~Doing("op", "install")'
    <3>1. CASE Tail(todo[a]) = <<>>
      BY <1>3, <1>5, <3>1, Joins, Finished
    <3>2. CASE Tail(todo[a]) = <<Rebuilds>>
      <4>1. StepsFit(s, p, Rebuilds, <<>>)'
        BY DEF StepsFit
      <4>2. todo'["op"] = <<Rebuilds>>
        BY <1>3, <1>5, <3>2, Joins
      <4>3. QED
        BY <4>1, <4>2, CommandOfOne, Kinds DEF Doing, Arg
    <3>3. QED
      BY <2>2, <3>1, <3>2
  <2>6. ASSUME NEW q \in Pairs, ~raced', state[q] = "live", Serves(s, q)
        PROVE  \E o \in Slots : Serves(o, q)'
    <3>1. pairOf[s] = q /\ q # NoPair
      BY <2>6, Names DEF Serves
    <3>2. OtherLive(s, q)
      BY <2>2, <2>4, <2>6, <3>1 DEF Leavable
    <3>3. PICK o \in Slots \ {s} : Serves(o, q)
      BY <3>2 DEF OtherLive, Serves
    <3>4. QED
      BY <1>2, <2>3, <3>3
  <2>7. QED
    BY <1>1, <1>2, <1>4, <1>5, <2>3, <2>4, <2>5, <2>6, StepKeeps
<1>6. CASE a \in Slots \cup {"watch"} /\ a # "op"
  <2>1. PICK s \in Slots, p \in Pairs :
          /\ a \in Slots => a = s
          /\ Arg(a) = Slotted("disable", s)
          /\ Tail(todo[a]) = <<Paired("orphan", s, p)>>
          /\ raced \/ pairOf[s] = p
    BY <1>1, <1>6, HaltAt, Kinds DEF Doing, Arg
  <2>2. Off(s)
    <3>1. Arg(a).slot = s
      BY <2>1, Kinds
    <3>2. QED
      BY <3>1 DEF Disable
  <2> HIDE DEF Off
  <2>3. raced' \in BOOLEAN /\ (raced => raced') /\ (raced' \/ Idle("op"))
    BY <1>1, <1>6 DEF Races, FInv, Types
  <2>4. todo'[a] = <<Paired("orphan", s, p)>>
    BY <1>3, <2>1, Joins
  <2>5. Fits(a)' /\ Arg(a)' = Paired("orphan", s, p) /\ ~Idle(a)' /\ ~Doing(a, "install")'
    BY <1>6, <2>1, <2>4, HaltBecomes
  <2>6. Owes(a, p)'
    BY <2>5 DEF Owes, Arg
  <2>7. \A q \in Pairs : ~raced' /\ Serves(s, q) => q = p
    BY <2>1, <2>3 DEF Serves
  <2>8. QED
    BY <1>1, <1>2, <1>4, <2>1, <2>2, <2>3, <2>5, <2>6, <2>7, StepKeeps
<1>7. QED
  BY <1>1, <1>5, <1>6, HaltAt, Names DEF Doing, Arg

\* Who else serves the pair?
LEMMA OrphanKeeps ==
  ASSUME FeeGuardAssumptions, FInv, NEW a \in Actors, Orphan(a) PROVE FInv'
<1> DEFINE more(p) == IF AnotherSlot(Arg(a).slot, p) THEN <<>> ELSE <<Demotes(p)>>
<1>1. /\ Doing(a, "orphan") /\ Then(a, more(Arg(a).pair)) /\ Races(a)
      /\ UNCHANGED <<rows, pairs, pool, guard, strikes, order, caught, cause>>
  BY DEF Orphan, Demotes
<1>2. /\ TypeOK' /\ caught' \in [Slots -> BOOLEAN] /\ DOMAIN cause' = Slots
      /\ \A t \in Slots : caught'[t] => /\ caught[t] /\ (live'[t] => live[t])
                                        /\ halted[t] => halted'[t]
      /\ ProbeFollowsTariffHalt' /\ HaltsKnowTheirCause'
      /\ UNCHANGED <<routes, live, pairOf, state>>
      /\ \A t \in Slots, q \in Pairs : Serves(t, q) => Serves(t, q)'
  BY <1>1 DEF FInv, Types, TypeOK, rows, pairs, pool, guard, ProbeFollowsTariffHalt,
     HaltsKnowTheirCause, Serves
<1>3. raced' \in BOOLEAN /\ (raced => raced')
  BY <1>1 DEF Races, FInv, Types
<1>4. ASSUME NEW s \in Slots, NEW p \in Pairs, Arg(a) = Paired("orphan", s, p),
             Fits(a)', ~Doing(a, "install")',
             \/ \E o \in Slots : live[o] /\ pairOf[o] = p
             \/ ~Idle(a)' /\ Arg(a)' = Demotes(p)
      PROVE  FInv'
  <2>1. \A q \in Pairs : Owes(a, q) => q = p
    <3> SUFFICES ASSUME NEW q \in Pairs, Owes(a, q) PROVE q = p
      OBVIOUS
    <3>1. Arg(a) = Demotes(q) \/ \E t \in Slots : Arg(a) = Paired("orphan", t, q)
      BY DEF Owes, Arg
    <3>2. QED
      BY <1>4, <3>1, Kinds
  <2>2. (\E o \in Slots : Serves(o, p)') \/ Owes(a, p)'
    BY <1>2, <1>4 DEF Serves, Owes, Arg
  <2>3. QED
    BY <1>1, <1>2, <1>3, <1>4, <2>1, <2>2, StepKeeps DEF Doing, Arg
<1>5. ASSUME NEW s \in Slots, NEW p \in Pairs, Arg(a) = Paired("orphan", s, p)
      PROVE  \/ AnotherSlot(s, p) /\ todo'[a] = <<>> \o Tail(todo[a])
             \/ ~AnotherSlot(s, p) /\ todo'[a] = <<Demotes(p)>> \o Tail(todo[a])
  <2>1. Arg(a).slot = s /\ Arg(a).pair = p
    BY <1>5, Kinds
  <2>2. QED
    BY <1>1, <2>1, ThenFacts DEF FInv, Types
<1>6. CASE a = "op" /\ a \notin Slots
  <2>1. PICK s \in Slots, p \in Pairs : StepsFit(s, p, Arg(a), Tail(todo[a]))
    BY <1>1, <1>6, HaltAt, Names DEF Doing, Arg
  <2>2. /\ Arg(a) = Paired("orphan", s, p)
        /\ \/ \E q \in Pairs : /\ Tail(todo[a]) = <<Paired("pickOn", s, q)>>
                               /\ raced \/ pairOf[s] = q
           \/ Tail(todo[a]) = <<Slotted("disable", s)>> /\ (raced \/ pairOf[s] = NoPair)
           \/ Tail(todo[a]) = <<Slotted("clear", s)>>
    BY <1>1, <2>1, Kinds DEF StepsFit, Doing, Arg
  <2>3. PICK x : /\ Tail(todo[a]) = <<x>> /\ x.do # "install"
                 /\ StepsFit(s, p, Demotes(p), <<x>>)'
                 /\ \E q \in Pairs : StepsFit(s, q, x, <<>>)'
    BY <1>2, <1>3, <2>2, Kinds DEF StepsFit
  <2>4. CASE AnotherSlot(s, p)
    <3>1. todo'["op"] = <<x>>
      BY <1>5, <1>6, <2>2, <2>3, <2>4, Joins
    <3>2. Fits("op")' /\ ~Doing("op", "install")'
      BY <2>3, <3>1, CommandOfOne DEF Doing, Arg
    <3>3. Fits(a)' /\ ~Doing(a, "install")'
      BY <1>6, <3>2
    <3>4. QED
      BY <1>4, <2>2, <2>4, <3>3 DEF AnotherSlot
  <2>5. CASE ~AnotherSlot(s, p)
    <3>1. todo'["op"] = <<Demotes(p), x>>
      BY <1>5, <1>6, <2>2, <2>3, <2>5, Joins
    <3>2. /\ Fits("op")' /\ ~Doing("op", "install")' /\ ~Idle("op")'
          /\ Arg("op")' = Demotes(p)
      BY <2>3, <3>1, CommandOfTwo, Kinds DEF Doing, Arg
    <3>3. QED
      BY <1>4, <1>6, <2>2, <3>2
  <2>6. QED
    BY <2>4, <2>5
<1>7. CASE a \in Slots \cup {"watch"} /\ a # "op"
  <2>1. PICK s \in Slots, p \in Pairs :
          /\ a \in Slots => a = s
          /\ Arg(a) = Paired("orphan", s, p) /\ Tail(todo[a]) = <<>>
    BY <1>1, <1>7, HaltAt, Kinds DEF Doing, Arg
  <2>2. CASE AnotherSlot(s, p)
    <3>1. todo'[a] = <<>>
      BY <1>5, <2>1, <2>2, Joins
    <3>2. Fits(a)' /\ ~Doing(a, "install")'
      BY <3>1, Finished
    <3>3. QED
      BY <1>4, <2>1, <2>2, <3>2 DEF AnotherSlot
  <2>3. CASE ~AnotherSlot(s, p)
    <3>1. todo'[a] = <<Demotes(p)>>
      BY <1>5, <2>1, <2>3, Joins
    <3>2. QED
      BY <1>4, <1>7, <2>1, <3>1, HaltBecomes
  <2>4. QED
    BY <2>2, <2>3
<1>8. QED
  BY <1>1, <1>6, <1>7, HaltAt, Names DEF Doing, Arg

\* The pair goes back to shadow.
LEMMA DemoteKeeps ==
  ASSUME FeeGuardAssumptions, FInv, NEW a \in Actors, Demote(a) PROVE FInv'
<1>1. Doing(a, "demote") /\ Then(a, <<>>) /\ Races(a)
  BY DEF Demote
<1>2. raced' \in BOOLEAN /\ (raced => raced')
  BY <1>1 DEF Races, FInv, Types
<1>3. todo'[a] = <<>> \o Tail(todo[a])
  BY <1>1, ThenFacts DEF FInv, Types
<1>4. ASSUME NEW p \in Pairs, Arg(a) = Demotes(p), Fits(a)', ~Doing(a, "install")',
             \/ raced'
             \/ \A b \in Actors \ {a} : Idle(b)
             \/ Idle("op") /\ UNCHANGED pairOf
      PROVE  FInv'
  <2>1. Arg(a).pair = p
    BY <1>4, Kinds
  <2>2. /\ state' = [state EXCEPT ![p] = "shadow"]
        /\ UNCHANGED <<rows, cache, pool, guard, strikes, order, caught, cause>>
    BY <2>1 DEF Demote
  <2>3. /\ TypeOK' /\ caught' \in [Slots -> BOOLEAN] /\ DOMAIN cause' = Slots
        /\ \A t \in Slots : caught'[t] => /\ caught[t] /\ (live'[t] => live[t])
                                          /\ halted[t] => halted'[t]
        /\ ProbeFollowsTariffHalt' /\ HaltsKnowTheirCause' /\ routes' = routes
        /\ \A q \in Pairs : state'[q] = "live" => state[q] = "live" /\ q # p
        /\ \A t \in Slots, q \in Pairs : Serves(t, q) => Serves(t, q)'
    BY <2>2 DEF FInv, Types, TypeOK, rows, pool, guard, ProbeFollowsTariffHalt,
       HaltsKnowTheirCause, Serves
  <2>4. \A q \in Pairs : Owes(a, q) => q = p
    <3> SUFFICES ASSUME NEW q \in Pairs, Owes(a, q) PROVE q = p
      OBVIOUS
    <3>1. Arg(a) = Demotes(q) \/ \E t \in Slots : Arg(a) = Paired("orphan", t, q)
      BY DEF Owes, Arg
    <3>2. QED
      BY <1>4, <3>1, Kinds
  <2>5. QED
    BY <1>1, <1>2, <1>4, <2>3, <2>4, StepKeeps DEF Doing, Arg
<1>5. UNCHANGED pairOf
  BY DEF Demote, rows
<1>6. CASE a = "op" /\ a \notin Slots
  <2>1. PICK s \in Slots, p \in Pairs : StepsFit(s, p, Arg(a), Tail(todo[a]))
    BY <1>1, <1>6, HaltAt, Names DEF Doing, Arg
  <2>2. /\ Arg(a) = Demotes(p)
        /\ \/ \E q \in Pairs : /\ Tail(todo[a]) = <<Paired("pickOn", s, q)>>
                               /\ raced \/ pairOf[s] = q
           \/ Tail(todo[a]) = <<Slotted("disable", s)>> /\ (raced \/ pairOf[s] = NoPair)
           \/ Tail(todo[a]) = <<Slotted("clear", s)>>
    BY <1>1, <2>1, Kinds DEF StepsFit, Doing, Arg
  <2>3. PICK x : /\ Tail(todo[a]) = <<x>> /\ x.do # "install"
                 /\ \E q \in Pairs : StepsFit(s, q, x, <<>>)'
    BY <1>2, <1>5, <2>2, Kinds DEF StepsFit
  <2>4. todo'["op"] = <<x>>
    BY <1>3, <1>6, <2>3, Joins
  <2>5. Fits("op")' /\ ~Doing("op", "install")'
    BY <2>3, <2>4, CommandOfOne DEF Doing, Arg
  <2>6. Fits(a)' /\ ~Doing(a, "install")'
    BY <1>6, <2>5
  <2>7. raced' \/ \A b \in Actors \ {a} : Idle(b)
    BY <1>1, <1>6 DEF Races, FInv, Types
  <2>8. QED
    BY <1>4, <2>2, <2>6, <2>7
<1>7. CASE a \in Slots \cup {"watch"} /\ a # "op"
  <2>1. PICK p \in Pairs : Arg(a) = Demotes(p) /\ Tail(todo[a]) = <<>>
    BY <1>1, <1>7, HaltAt, Kinds DEF Doing, Arg
  <2>2. todo'[a] = <<>>
    BY <1>3, <2>1, Joins
  <2>3. Fits(a)' /\ ~Doing(a, "install")'
    BY <2>2, Finished
  <2>4. raced' \/ Idle("op")
    BY <1>1, <1>7 DEF Races, FInv, Types
  <2>5. QED
    BY <1>4, <1>5, <2>1, <2>3, <2>4
<1>8. QED
  BY <1>1, <1>6, <1>7, HaltAt, Names DEF Doing, Arg

\* The operator's transition of a pair, to live where the slot serves it, to
\* shadow before the slot leaves it.
LEMMA PromoteKeeps ==
  ASSUME FeeGuardAssumptions, FInv, NEW a \in Actors, Promote(a) PROVE FInv'
<1>1. /\ Doing(a, "promote")
      /\ UNCHANGED <<rows, cache, pool, guard, strikes, order, caught, cause>>
  BY DEF Promote
<1>2. a = "op" /\ a \notin Slots
  BY <1>1, CommandAt DEF Doing, Arg
<1>3. PICK s \in Slots, p \in Pairs : StepsFit(s, p, Arg(a), Tail(todo[a]))
  BY <1>1, CommandAt DEF Doing, Arg
<1>4. PICK x \in {"live", "shadow"} :
        /\ Arg(a) = Promotes(p, x)
        /\ \/ x = "live" /\ Tail(todo[a]) = <<Rebuilds>> /\ (raced \/ Serves(s, p))
           \/ /\ x = "shadow" /\ Tail(todo[a]) = <<Slotted("disable", s), Rebuilds>>
              /\ raced \/ pairOf[s] = p
           \/ /\ x = "shadow" /\ \E q \in Pairs :
                   Tail(todo[a]) = <<Paired("assign", s, q), Paired("pickOn", s, q)>>
  BY <1>1, <1>3, Kinds DEF StepsFit, Doing, Arg
<1> DEFINE more == IF cache[p] = x THEN <<>> ELSE <<Loads>>
<1>5. /\ state' = IF cache[p] = x THEN state ELSE [state EXCEPT ![p] = x]
      /\ Then(a, more)
      /\ IF cache[p] = x /\ state[p] # cache[p] THEN raced' = TRUE ELSE Races(a)
  <2>1. Arg(a).pair = p /\ Arg(a).to = x
    BY <1>4, Kinds
  <2>2. QED
    BY <2>1 DEF Promote, Loads
<1>6. /\ raced' \in BOOLEAN /\ (raced => raced')
      /\ raced' \/ \A b \in Actors \ {a} : Idle(b)
  BY <1>2, <1>5 DEF Races, FInv, Types
<1>7. /\ TypeOK' /\ caught' \in [Slots -> BOOLEAN] /\ DOMAIN cause' = Slots
      /\ \A t \in Slots : caught'[t] => /\ caught[t] /\ (live'[t] => live[t])
                                        /\ halted[t] => halted'[t]
      /\ ProbeFollowsTariffHalt' /\ HaltsKnowTheirCause' /\ routes' = routes
      /\ raced' \/ state'[p] = x
      /\ \A q \in Pairs : q # p => state'[q] = state[q]
      /\ \A t \in Slots, q \in Pairs : Serves(t, q) => Serves(t, q)'
  BY <1>1, <1>5 DEF FInv, Types, TypeOK, rows, pool, guard, ProbeFollowsTariffHalt,
     HaltsKnowTheirCause, Serves
<1>8. \/ todo'["op"] = <<>> \o Tail(todo[a])
      \/ todo'["op"] = <<Loads>> \o Tail(todo[a])
  BY <1>2, <1>5, ThenFacts DEF FInv, Types
<1>9. Fits("op")' /\ ~Doing("op", "install")'
  <2>1. CASE x = "live" /\ Tail(todo[a]) = <<Rebuilds>>
    <3>1. StepsFit(s, p, Rebuilds, <<>>)' /\ StepsFit(s, p, Loads, <<Rebuilds>>)'
      BY DEF StepsFit
    <3>2. todo'["op"] = <<Rebuilds>> \/ todo'["op"] = <<Loads, Rebuilds>>
      BY <1>8, <2>1, Joins
    <3>3. QED
      BY <3>1, <3>2, CommandOfOne, CommandOfTwo, Kinds DEF Doing, Arg
  <2>2. CASE /\ x = "shadow" /\ Tail(todo[a]) = <<Slotted("disable", s), Rebuilds>>
             /\ raced \/ pairOf[s] = p
    <3>1. raced' \/ Leavable(s)'
      <4>1. pairOf' = pairOf
        BY <1>1 DEF rows
      <4>2. QED
        BY <1>6, <1>7, <2>2, <4>1 DEF Leavable
    <3>2. /\ StepsFit(s, p, Slotted("disable", s), <<Rebuilds>>)'
          /\ StepsFit(s, p, Loads, <<Slotted("disable", s), Rebuilds>>)'
      BY <3>1 DEF StepsFit
    <3>3. \/ todo'["op"] = <<Slotted("disable", s), Rebuilds>>
          \/ todo'["op"] = <<Loads, Slotted("disable", s), Rebuilds>>
      BY <1>8, <2>2, JoinTwo
    <3>4. QED
      BY <3>2, <3>3, CommandOfTwo, CommandOfThree, Kinds DEF Doing, Arg
  <2>3. ASSUME NEW q \in Pairs,
               Tail(todo[a]) = <<Paired("assign", s, q), Paired("pickOn", s, q)>>
        PROVE  Fits("op")' /\ ~Doing("op", "install")'
    <3>1. /\ StepsFit(s, q, Paired("assign", s, q), <<Paired("pickOn", s, q)>>)'
          /\ StepsFit(s, q, Loads, <<Paired("assign", s, q), Paired("pickOn", s, q)>>)'
      BY DEF StepsFit
    <3>2. \/ todo'["op"] = <<Paired("assign", s, q), Paired("pickOn", s, q)>>
          \/ todo'["op"] = <<Loads, Paired("assign", s, q), Paired("pickOn", s, q)>>
      BY <1>8, <2>3, JoinTwo
    <3>3. QED
      BY <3>1, <3>2, CommandOfTwo, CommandOfThree, Kinds DEF Doing, Arg
  <2>4. QED
    BY <1>4, <2>1, <2>2, <2>3
<1>10. \A q \in Pairs : ~Owes(a, q)
  BY <1>1, Kinds DEF Owes, Doing
<1>11. ASSUME NEW q \in Pairs, ~raced', state'[q] = "live"
       PROVE  state[q] = "live" \/ \E o \in Slots : Serves(o, q)'
  <2>1. CASE q # p
    BY <1>7, <1>11, <2>1
  <2>2. CASE q = p
    <3>1. x = "live" /\ Serves(s, p)
      BY <1>4, <1>6, <1>7, <1>11, <2>2
    <3>2. QED
      BY <1>7, <2>2, <3>1
  <2>3. QED
    BY <2>1, <2>2
<1>12. Fits(a)' /\ ~Doing(a, "install")'
  BY <1>2, <1>9
<1> HIDE DEF more
<1>13. QED
  BY <1>2, <1>5, <1>6, <1>7, <1>10, <1>11, <1>12, StepKeeps

\* What a step of the operator's command has to respect when it leaves slots,
\* pairs and routes alone.
LEMMA CommandKeeps ==
  ASSUME FeeGuardAssumptions, FInv, NEW more, Then("op", more), ~Idle("op"),
         Arg("op").do \notin {"orphan", "demote"},
         UNCHANGED <<live, pairOf, state, routes, guard, cause, raced>>,
         TypeOK', caught' \in [Slots -> BOOLEAN], \A s \in Slots : caught'[s] => caught[s],
         Fits("op")', ~Doing("op", "install")'
  PROVE  FInv'
<1>1. "op" \in Actors /\ "op" \notin Slots
  BY Names DEF Actors
<1>2. ProbeFollowsTariffHalt' /\ HaltsKnowTheirCause' /\ DOMAIN cause' = Slots
  BY DEF FInv, Types, ProbeFollowsTariffHalt, HaltsKnowTheirCause, guard
<1>3. \A t \in Slots :
        caught'[t] => caught[t] /\ (live'[t] => live[t]) /\ (halted[t] => halted'[t])
  BY DEF guard
<1>4. \A t \in Slots, q \in Pairs : Serves(t, q) => Serves(t, q)'
  BY DEF Serves
<1>5. \A q \in Pairs : ~Owes("op", q)
  BY Kinds DEF Owes, Arg
<1>6. raced' \in BOOLEAN /\ (raced => raced')
  BY DEF FInv, Types
<1>7. QED
  BY <1>1, <1>2, <1>3, <1>4, <1>5, <1>6, StepKeeps

\* The copy of the pair states is read again within a transition.
LEMMA LoadKeeps ==
  ASSUME FeeGuardAssumptions, FInv, NEW a \in Actors, Load(a) PROVE FInv'
<1>1. /\ Doing(a, "load") /\ Then(a, <<>>) /\ cache' = state
      /\ UNCHANGED <<rows, state, pool, guard, strikes, order, caught, cause, raced>>
  BY DEF Load
<1>2. a = "op"
  BY <1>1, CommandAt DEF Doing, Arg
<1>3. PICK s \in Slots, p \in Pairs : StepsFit(s, p, Arg(a), Tail(todo[a]))
  BY <1>1, CommandAt DEF Doing, Arg
<1>4. \/ Tail(todo[a]) = <<Rebuilds>>
      \/ /\ Tail(todo[a]) = <<Slotted("disable", s), Rebuilds>>
         /\ raced \/ Leavable(s)
      \/ Tail(todo[a]) = <<Paired("assign", s, p), Paired("pickOn", s, p)>>
  BY <1>1, <1>3, Kinds DEF StepsFit, Doing, Arg
<1>5. todo'["op"] = <<>> \o Tail(todo[a])
  BY <1>1, <1>2, ThenFacts DEF FInv, Types
<1>6. Fits("op")' /\ ~Doing("op", "install")'
  <2>1. CASE Tail(todo[a]) = <<Rebuilds>>
    <3>1. StepsFit(s, p, Rebuilds, <<>>)'
      BY DEF StepsFit
    <3>2. todo'["op"] = <<Rebuilds>>
      BY <1>5, <2>1, Joins
    <3>3. QED
      BY <3>1, <3>2, CommandOfOne, Kinds DEF Doing, Arg
  <2>2. CASE /\ Tail(todo[a]) = <<Slotted("disable", s), Rebuilds>>
             /\ raced \/ Leavable(s)
    <3>1. raced' \/ Leavable(s)'
      BY <1>1, <2>2 DEF Leavable, OtherLive, rows
    <3>2. StepsFit(s, p, Slotted("disable", s), <<Rebuilds>>)'
      BY <3>1 DEF StepsFit
    <3>3. todo'["op"] = <<Slotted("disable", s), Rebuilds>>
      BY <1>5, <2>2, JoinTwo
    <3>4. QED
      BY <3>2, <3>3, CommandOfTwo, Kinds DEF Doing, Arg
  <2>3. CASE Tail(todo[a]) = <<Paired("assign", s, p), Paired("pickOn", s, p)>>
    <3>1. StepsFit(s, p, Paired("assign", s, p), <<Paired("pickOn", s, p)>>)'
      BY DEF StepsFit
    <3>2. todo'["op"] = <<Paired("assign", s, p), Paired("pickOn", s, p)>>
      BY <1>5, <2>3, JoinTwo
    <3>3. QED
      BY <3>1, <3>2, CommandOfTwo, Kinds DEF Doing, Arg
  <2>4. QED
    BY <1>4, <2>1, <2>2, <2>3
<1>7. TypeOK' /\ caught' \in [Slots -> BOOLEAN] /\ \A t \in Slots : caught'[t] => caught[t]
  BY <1>1 DEF FInv, Types, TypeOK, rows, pool, guard
<1>8. Then("op", <<>>) /\ ~Idle("op") /\ Arg("op").do = "load"
  BY <1>1, <1>2 DEF Doing, Arg
<1>9. UNCHANGED <<live, pairOf, state, routes, guard, cause, raced>>
  BY <1>1 DEF rows, pool
<1>10. QED
  BY <1>6, <1>7, <1>8, <1>9, CommandKeeps

\* The second half of a pick.
LEMMA PickOnKeeps ==
  ASSUME FeeGuardAssumptions, FInv, NEW a \in Actors, PickOn(a) PROVE FInv'
<1>1. /\ Doing(a, "pickOn")
      /\ UNCHANGED <<rows, pairs, pool, guard, strikes, order, caught, cause, raced>>
  BY DEF PickOn
<1>2. a = "op"
  BY <1>1, CommandAt DEF Doing, Arg
<1>3. PICK s \in Slots, p \in Pairs :
        /\ Arg(a) = Paired("pickOn", s, p) /\ Tail(todo[a]) = <<>>
        /\ raced \/ pairOf[s] = p
  <2>1. PICK s \in Slots, p \in Pairs : StepsFit(s, p, Arg(a), Tail(todo[a]))
    BY <1>1, CommandAt DEF Doing, Arg
  <2>2. QED
    BY <1>1, <2>1, Kinds DEF StepsFit, Doing, Arg
<1> DEFINE on == IF live[s] THEN <<>> ELSE <<Slotted("enable", s)>>
           rest == <<Promotes(p, "live"), Rebuilds>>
           more == IF ~key[s] THEN <<>> ELSE on \o rest
<1>4. Then(a, more)
  <2>1. Arg(a).slot = s /\ Arg(a).pair = p
    BY <1>3, Kinds
  <2>2. QED
    BY <2>1 DEF PickOn, Slotted, Promotes, Rebuilds
<1>5. todo'["op"] = more \o <<>>
  BY <1>2, <1>3, <1>4, ThenFacts DEF FInv, Types
<1>6. Fits("op")' /\ ~Doing("op", "install")'
  <2>1. CASE ~key[s]
    <3>1. todo'["op"] = <<>>
      BY <1>5, <2>1, Joins
    <3>2. QED
      BY <1>2, <3>1, Finished
  <2>2. CASE key[s] /\ live[s]
    <3>1. more = rest
      BY <2>2, JoinTwo
    <3>2. todo'["op"] = rest
      BY <1>5, <3>1, Joins
    <3>3. raced' \/ Serves(s, p)'
      BY <1>1, <1>3, <2>2 DEF Serves, rows
    <3>4. StepsFit(s, p, Promotes(p, "live"), <<Rebuilds>>)'
      BY <3>3 DEF StepsFit
    <3>5. QED
      BY <3>2, <3>4, CommandOfTwo, Kinds DEF Doing, Arg
  <2>3. CASE key[s] /\ ~live[s]
    <3>1. more = <<Slotted("enable", s), Promotes(p, "live"), Rebuilds>>
      BY <2>3, JoinTwo
    <3>2. todo'["op"] = <<Slotted("enable", s), Promotes(p, "live"), Rebuilds>>
      BY <1>5, <3>1, JoinNone
    <3>3. raced' \/ (pairOf[s] = p)'
      BY <1>1, <1>3 DEF rows
    <3>4. StepsFit(s, p, Slotted("enable", s), rest)'
      BY <3>3 DEF StepsFit
    <3>5. QED
      BY <3>2, <3>4, CommandOfThree, Kinds DEF Doing, Arg
  <2>4. QED
    BY <2>1, <2>2, <2>3 DEF FInv, Types, TypeOK
<1> HIDE DEF more
<1>7. TypeOK' /\ caught' \in [Slots -> BOOLEAN] /\ \A t \in Slots : caught'[t] => caught[t]
  BY <1>1 DEF FInv, Types, TypeOK, rows, pairs, pool, guard
<1>8. Then("op", more) /\ ~Idle("op") /\ Arg("op").do = "pickOn"
  BY <1>1, <1>2, <1>4 DEF Doing, Arg
<1>9. UNCHANGED <<live, pairOf, state, routes, guard, cause, raced>>
  BY <1>1 DEF rows, pairs, pool
<1>10. QED
  BY <1>6, <1>7, <1>8, <1>9, CommandKeeps

\* The pair the slot is on now is what live-on promotes.
LEMMA PromoteOfKeeps ==
  ASSUME FeeGuardAssumptions, FInv, NEW a \in Actors, PromoteOf(a) PROVE FInv'
<1>1. /\ Doing(a, "promoteOf")
      /\ UNCHANGED <<rows, pairs, pool, guard, strikes, order, caught, cause, raced>>
  BY DEF PromoteOf
<1>2. a = "op"
  BY <1>1, CommandAt DEF Doing, Arg
<1>3. PICK s \in Slots, p \in Pairs :
        /\ Arg(a) = Slotted("promoteOf", s) /\ Tail(todo[a]) = <<Rebuilds>>
        /\ raced \/ live[s]
  <2>1. PICK s \in Slots, p \in Pairs : StepsFit(s, p, Arg(a), Tail(todo[a]))
    BY <1>1, CommandAt DEF Doing, Arg
  <2>2. QED
    BY <1>1, <2>1, Kinds DEF StepsFit, Doing, Arg
<1> DEFINE q == pairOf[s]
           more == IF q = NoPair THEN <<>> ELSE <<Promotes(q, "live")>>
<1>4. Then(a, more)
  <2>1. Arg(a).slot = s
    BY <1>3, Kinds
  <2>2. QED
    BY <2>1 DEF PromoteOf, Promotes
<1>5. todo'["op"] = more \o <<Rebuilds>>
  BY <1>2, <1>3, <1>4, ThenFacts DEF FInv, Types
<1>6. Fits("op")' /\ ~Doing("op", "install")'
  <2>1. CASE q = NoPair
    <3>1. todo'["op"] = <<Rebuilds>>
      BY <1>5, <2>1, Joins
    <3>2. StepsFit(s, p, Rebuilds, <<>>)'
      BY DEF StepsFit
    <3>3. QED
      BY <3>1, <3>2, CommandOfOne, Kinds DEF Doing, Arg
  <2>2. CASE q # NoPair
    <3>1. PICK r \in Pairs : r = pairOf[s]
      BY <2>2 DEF FInv, Types, TypeOK
    <3>2. todo'["op"] = <<Promotes(r, "live"), Rebuilds>>
      BY <1>5, <2>2, <3>1, Joins
    <3>3. raced' \/ Serves(s, r)'
      BY <1>1, <1>3, <3>1 DEF Serves, rows
    <3>4. StepsFit(s, r, Promotes(r, "live"), <<Rebuilds>>)'
      BY <3>3 DEF StepsFit
    <3>5. QED
      BY <3>2, <3>4, CommandOfTwo, Kinds DEF Doing, Arg
  <2>3. QED
    BY <2>1, <2>2
<1> HIDE DEF more
<1>7. TypeOK' /\ caught' \in [Slots -> BOOLEAN] /\ \A t \in Slots : caught'[t] => caught[t]
  BY <1>1 DEF FInv, Types, TypeOK, rows, pairs, pool, guard
<1>8. Then("op", more) /\ ~Idle("op") /\ Arg("op").do = "promoteOf"
  BY <1>1, <1>2, <1>4 DEF Doing, Arg
<1>9. UNCHANGED <<live, pairOf, state, routes, guard, cause, raced>>
  BY <1>1 DEF rows, pairs, pool
<1>10. QED
  BY <1>6, <1>7, <1>8, <1>9, CommandKeeps

\* Another account in the slot.
LEMMA NewKeyKeeps ==
  ASSUME FeeGuardAssumptions, FInv, NEW a \in Actors, NewKey(a) PROVE FInv'
<1>1. /\ Doing(a, "newKey") /\ Then(a, <<>>) /\ Races(a)
      /\ UNCHANGED <<live, pairOf, pairs, pool, guard, strikes, order, cause>>
  BY DEF NewKey
<1>2. a = "op" /\ a \notin Slots
  BY <1>1, CommandAt DEF Doing, Arg
<1>3. PICK s \in Slots, p \in Pairs :
        Arg(a) = Slotted("newKey", s) /\ Tail(todo[a]) = <<Slotted("clear", s)>>
  <2>1. PICK s \in Slots, p \in Pairs : StepsFit(s, p, Arg(a), Tail(todo[a]))
    BY <1>1, CommandAt DEF Doing, Arg
  <2>2. QED
    BY <1>1, <2>1, Kinds DEF StepsFit, Doing, Arg
<1>4. key' = [key EXCEPT ![s] = TRUE] /\ caught' = [caught EXCEPT ![s] = FALSE]
  <2>1. Arg(a).slot = s
    BY <1>3, Kinds
  <2>2. QED
    BY <2>1 DEF NewKey
<1>5. Fits("op")' /\ ~Doing("op", "install")'
  <2>1. todo'["op"] = <<>> \o Tail(todo[a])
    BY <1>1, <1>2, ThenFacts DEF FInv, Types
  <2>2. todo'["op"] = <<Slotted("clear", s)>>
    BY <1>3, <2>1, Joins
  <2>3. StepsFit(s, p, Slotted("clear", s), <<>>)'
    BY DEF StepsFit
  <2>4. QED
    BY <2>2, <2>3, CommandOfOne, Kinds DEF Doing, Arg
<1>6. /\ TypeOK' /\ caught' \in [Slots -> BOOLEAN] /\ DOMAIN cause' = Slots
      /\ \A t \in Slots : caught'[t] => /\ caught[t] /\ (live'[t] => live[t])
                                        /\ halted[t] => halted'[t]
      /\ ProbeFollowsTariffHalt' /\ HaltsKnowTheirCause' /\ routes' = routes
      /\ state' = state
      /\ \A t \in Slots, q \in Pairs : Serves(t, q) => Serves(t, q)'
  BY <1>1, <1>4 DEF FInv, Types, TypeOK, pairs, pool, guard, ProbeFollowsTariffHalt,
     HaltsKnowTheirCause, Serves
<1>7. raced' \in BOOLEAN /\ (raced => raced') /\ UNCHANGED <<live, pairOf, state>>
  BY <1>1, <1>2, <1>6 DEF Races, FInv, Types
<1>8. \A q \in Pairs : ~Owes(a, q)
  BY <1>1, Kinds DEF Owes, Doing
<1>9. QED
  BY <1>1, <1>2, <1>5, <1>6, <1>7, <1>8, StepKeeps

\* The restrictions of the slot are lifted.
LEMMA ClearKeeps ==
  ASSUME FeeGuardAssumptions, FInv, NEW a \in Actors, Clear(a) PROVE FInv'
<1>1. /\ Doing(a, "clear") /\ Then(a, <<>>)
      /\ UNCHANGED <<rows, pairs, pool, strikes, order, cause, raced>>
  BY DEF Clear
<1>2. a = "op" /\ a \notin Slots
  BY <1>1, CommandAt DEF Doing, Arg
<1>3. PICK s \in Slots : Arg(a) = Slotted("clear", s) /\ Tail(todo[a]) = <<>>
  <2>1. PICK s \in Slots, p \in Pairs : StepsFit(s, p, Arg(a), Tail(todo[a]))
    BY <1>1, CommandAt DEF Doing, Arg
  <2>2. QED
    BY <1>1, <2>1, Kinds DEF StepsFit, Doing, Arg
<1>4. /\ halted' = [halted EXCEPT ![s] = FALSE]
      /\ preventive' = [preventive EXCEPT ![s] = FALSE]
      /\ probe' = [probe EXCEPT ![s] = FALSE]
      /\ caught' = [caught EXCEPT ![s] = FALSE]
  <2>1. Arg(a).slot = s
    BY <1>3, Kinds
  <2>2. QED
    BY <2>1 DEF Clear
<1>5. Fits(a)' /\ ~Doing(a, "install")'
  <2>1. todo'[a] = <<>>
    BY <1>1, <1>3, ThenFacts, Joins DEF FInv, Types
  <2>2. QED
    BY <2>1, Finished
<1>6. /\ TypeOK' /\ caught' \in [Slots -> BOOLEAN] /\ DOMAIN cause' = Slots
      /\ \A t \in Slots : caught'[t] => /\ caught[t] /\ (live'[t] => live[t])
                                        /\ halted[t] => halted'[t]
      /\ ProbeFollowsTariffHalt' /\ HaltsKnowTheirCause' /\ routes' = routes
      /\ state' = state
      /\ \A t \in Slots, q \in Pairs : Serves(t, q) => Serves(t, q)'
  BY <1>1, <1>4 DEF FInv, Types, TypeOK, rows, pairs, pool, ProbeFollowsTariffHalt,
     HaltsKnowTheirCause, Serves
<1>7. raced' \in BOOLEAN /\ (raced => raced') /\ UNCHANGED <<live, pairOf, state>>
  BY <1>1, <1>6 DEF rows, FInv, Types
<1>8. \A q \in Pairs : ~Owes(a, q)
  BY <1>1, Kinds DEF Owes, Doing
<1>9. QED
  BY <1>1, <1>2, <1>5, <1>6, <1>7, <1>8, StepKeeps

\* The key is deleted: the slot is off, and its pair is looked after next.
LEMMA WipeKeeps ==
  ASSUME FeeGuardAssumptions, FInv, NEW a \in Actors, Wipe(a) PROVE FInv'
<1>1. /\ Doing(a, "wipe") /\ Races(a)
      /\ UNCHANGED <<pairOf, pairs, pool, guard, strikes, order, caught, cause>>
  BY DEF Wipe
<1>2. a = "op" /\ a \notin Slots
  BY <1>1, CommandAt DEF Doing, Arg
<1>3. PICK s \in Slots, p \in Pairs :
        Arg(a) = Slotted("wipe", s) /\ Tail(todo[a]) = <<Slotted("clear", s)>>
  <2>1. PICK s \in Slots, p \in Pairs : StepsFit(s, p, Arg(a), Tail(todo[a]))
    BY <1>1, CommandAt DEF Doing, Arg
  <2>2. QED
    BY <1>1, <2>1, Kinds DEF StepsFit, Doing, Arg
<1> DEFINE q == pairOf[s]
           more == IF q = NoPair THEN <<>> ELSE <<Paired("orphan", s, q)>>
<1>4. /\ key' = [key EXCEPT ![s] = FALSE] /\ live' = [live EXCEPT ![s] = FALSE]
      /\ Then(a, more)
  <2>1. Arg(a).slot = s
    BY <1>3, Kinds
  <2>2. QED
    BY <2>1 DEF Wipe, Paired
<1>5. todo'["op"] = more \o <<Slotted("clear", s)>>
  BY <1>2, <1>3, <1>4, ThenFacts DEF FInv, Types
<1>6. /\ Fits("op")' /\ ~Doing("op", "install")'
      /\ \A r \in Pairs : r = pairOf[s] => Owes("op", r)'
  <2>1. CASE q = NoPair
    <3>1. todo'["op"] = <<Slotted("clear", s)>>
      BY <1>5, <2>1, Joins
    <3>2. StepsFit(s, p, Slotted("clear", s), <<>>)'
      BY DEF StepsFit
    <3>3. QED
      BY <2>1, <3>1, <3>2, CommandOfOne, Kinds, Names DEF Doing, Arg
  <2>2. CASE q # NoPair
    <3>1. PICK r \in Pairs : r = pairOf[s]
      BY <2>2 DEF FInv, Types, TypeOK
    <3>2. todo'["op"] = <<Paired("orphan", s, r), Slotted("clear", s)>>
      BY <1>5, <2>2, <3>1, Joins
    <3>3. StepsFit(s, r, Paired("orphan", s, r), <<Slotted("clear", s)>>)'
      BY DEF StepsFit
    <3>4. /\ Fits("op")' /\ ~Doing("op", "install")' /\ ~Idle("op")'
          /\ Arg("op")' = Paired("orphan", s, r)
      BY <3>2, <3>3, CommandOfTwo, Kinds DEF Doing, Arg
    <3>5. Owes("op", r)'
      BY <3>4 DEF Owes, Arg
    <3>6. QED
      BY <3>1, <3>4, <3>5
  <2>3. QED
    BY <2>1, <2>2
<1> HIDE DEF more, q
<1>7. /\ TypeOK' /\ caught' \in [Slots -> BOOLEAN] /\ DOMAIN cause' = Slots
      /\ \A t \in Slots : caught'[t] => /\ caught[t] /\ (live'[t] => live[t])
                                        /\ halted[t] => halted'[t]
      /\ ProbeFollowsTariffHalt' /\ HaltsKnowTheirCause' /\ routes' = routes
      /\ state' = state
      /\ \A t \in Slots, r \in Pairs : t # s /\ Serves(t, r) => Serves(t, r)'
      /\ \A r \in Pairs : Serves(s, r) => r = pairOf[s]
  BY <1>1, <1>4 DEF FInv, Types, TypeOK, pairs, pool, guard, ProbeFollowsTariffHalt,
     HaltsKnowTheirCause, Serves
<1>8. /\ raced' \in BOOLEAN /\ (raced => raced')
      /\ raced' \/ \A b \in Actors \ {a} : Idle(b)
  BY <1>1, <1>2 DEF Races, FInv, Types
<1>9. \A r \in Pairs : ~Owes(a, r)
  BY <1>1, Kinds DEF Owes, Doing
<1>10. \A r \in Pairs : r = pairOf[s] => Owes(a, r)'
  BY <1>2, <1>6
<1>11. QED
  BY <1>2, <1>4, <1>6, <1>7, <1>8, <1>9, <1>10, StepKeeps

\* The slot changes its pair; the one it leaves is looked after next.
LEMMA AssignKeeps ==
  ASSUME FeeGuardAssumptions, FInv, NEW a \in Actors, Assign(a) PROVE FInv'
<1>1. /\ Doing(a, "assign") /\ Races(a)
      /\ UNCHANGED <<key, live, pairs, pool, guard, strikes, order, caught, cause>>
  BY DEF Assign
<1>2. a = "op" /\ a \notin Slots
  BY <1>1, CommandAt DEF Doing, Arg
<1>3. PICK s \in Slots, p \in Pairs, w \in Pairs0 :
        /\ Arg(a) = Paired("assign", s, w)
        /\ \/ w = p /\ Tail(todo[a]) = <<Paired("pickOn", s, p)>>
           \/ w = NoPair /\ Tail(todo[a]) = <<Slotted("disable", s)>>
  <2>1. PICK s \in Slots, p \in Pairs : StepsFit(s, p, Arg(a), Tail(todo[a]))
    BY <1>1, CommandAt DEF Doing, Arg
  <2>2. \/ /\ Arg(a) = Paired("assign", s, p)
           /\ Tail(todo[a]) = <<Paired("pickOn", s, p)>>
        \/ /\ Arg(a) = Paired("assign", s, NoPair)
           /\ Tail(todo[a]) = <<Slotted("disable", s)>>
    BY <1>1, <2>1, Kinds DEF StepsFit, Doing, Arg
  <2>3. p \in Pairs0 /\ NoPair \in Pairs0
    BY DEF Pairs0
  <2>4. QED
    BY <2>2, <2>3
<1>4. PICK x : /\ Tail(todo[a]) = <<x>>
               /\ \/ w = p /\ x = Paired("pickOn", s, p)
                  \/ w = NoPair /\ x = Slotted("disable", s)
  BY <1>3
<1> DEFINE old == pairOf[s]
           more == IF old \in {NoPair, w} THEN <<>> ELSE <<Paired("orphan", s, old)>>
<1>5. pairOf' = [pairOf EXCEPT ![s] = w] /\ Then(a, more)
  <2>1. Arg(a).slot = s /\ Arg(a).pair = w
    BY <1>3, Kinds
  <2>2. QED
    BY <2>1 DEF Assign, Paired
<1>6. todo'["op"] = more \o <<x>>
  <2> HIDE DEF more
  <2>1. todo'[a] = more \o Tail(todo[a])
    BY <1>5, ThenFacts DEF FInv, Types
  <2>2. QED
    BY <1>2, <1>4, <2>1
<1>7. pairOf'[s] = w
  BY <1>5 DEF FInv, Types, TypeOK
<1>8. /\ Fits("op")' /\ ~Doing("op", "install")'
      /\ \A r \in Pairs : r = pairOf[s] => r = w \/ Owes("op", r)'
  <2>1. StepsFit(s, p, x, <<>>)' /\ x.do # "install"
    BY <1>4, <1>7, Kinds DEF StepsFit
  <2>2. CASE old \in {NoPair, w}
    <3>1. todo'["op"] = <<x>>
      BY <1>6, <2>2, Joins
    <3>2. QED
      BY <2>1, <2>2, <3>1, CommandOfOne, Names DEF Doing, Arg
  <2>3. CASE old \notin {NoPair, w}
    <3>1. PICK r \in Pairs : r = pairOf[s]
      BY <2>3 DEF FInv, Types, TypeOK
    <3>2. todo'["op"] = <<Paired("orphan", s, r), x>>
      BY <1>6, <2>3, <3>1, Joins
    <3>3. StepsFit(s, r, Paired("orphan", s, r), <<x>>)'
      BY <1>4, <1>7 DEF StepsFit
    <3>4. /\ Fits("op")' /\ ~Doing("op", "install")' /\ ~Idle("op")'
          /\ Arg("op")' = Paired("orphan", s, r)
      BY <3>2, <3>3, CommandOfTwo, Kinds DEF Doing, Arg
    <3>5. Owes("op", r)'
      BY <3>4 DEF Owes, Arg
    <3>6. QED
      BY <3>1, <3>4, <3>5
  <2>4. QED
    BY <2>2, <2>3
<1> HIDE DEF more, old
<1>9. /\ TypeOK' /\ caught' \in [Slots -> BOOLEAN] /\ DOMAIN cause' = Slots
      /\ \A t \in Slots : caught'[t] => /\ caught[t] /\ (live'[t] => live[t])
                                        /\ halted[t] => halted'[t]
      /\ ProbeFollowsTariffHalt' /\ HaltsKnowTheirCause' /\ routes' = routes
      /\ state' = state
      /\ \A t \in Slots, r \in Pairs : (t # s \/ r = w) /\ Serves(t, r) => Serves(t, r)'
      /\ \A r \in Pairs : Serves(s, r) => r = pairOf[s]
  BY <1>1, <1>5 DEF FInv, Types, TypeOK, pairs, pool, guard, ProbeFollowsTariffHalt,
     HaltsKnowTheirCause, Serves, Pairs0
<1>10. /\ raced' \in BOOLEAN /\ (raced => raced')
       /\ raced' \/ \A b \in Actors \ {a} : Idle(b)
  BY <1>1, <1>2 DEF Races, FInv, Types
<1>11. \A r \in Pairs : ~Owes(a, r)
  BY <1>1, Kinds DEF Owes, Doing
<1>12. \A r \in Pairs : r = pairOf[s] => r = w \/ Owes(a, r)'
  BY <1>2, <1>8
<1>13. QED
  BY <1>2, <1>5, <1>8, <1>9, <1>10, <1>11, <1>12, StepKeeps

-----------------------------------------------------------------------------
(* The routes.                                                             *)

\* The routes are read, by a command or by the loop.
LEMMA RebuiltKeeps ==
  ASSUME FeeGuardAssumptions, FInv, NEW a \in {"op", "loop"}, Rebuilt(a, <<>>),
         a = "op" => Slots # {}, ~Doing(a, "install"), \A p \in Pairs : ~Owes(a, p),
         UNCHANGED <<rows, pairs, guard, strikes, order, caught, cause, raced>>
  PROVE  FInv'
<1>1. a \in Actors /\ a \notin Slots
  BY Names DEF Actors
<1>2. /\ DOMAIN todo' = Actors /\ \A b \in Actors \ {a} : todo'[b] = todo[b]
      /\ \/ todo'[a] = <<>> /\ routes' = RouteMap
         \/ todo'[a] = <<Installs(RouteMap)>> \o <<>> /\ routes' = routes
  BY <1>1 DEF Rebuilt, FInv, Types, Installs
<1>3. RouteMap \in [Slots -> Pairs0] /\ \A s \in Slots : ~live[s] => RouteMap[s] = NoPair
  BY DEF RouteMap, Active, FInv, Types, TypeOK, Pairs0
<1>4. /\ Fits(a)'
      /\ Doing(a, "install")' => Arg(a)' = Installs(RouteMap)
  <2>1. CASE todo'[a] = <<>>
    BY <1>1, <2>1, Finished
  <2>2. CASE todo'[a] = <<Installs(RouteMap)>> \o <<>>
    <3>1. PICK m \in [Slots -> Pairs0] : m = RouteMap
      BY <1>3
    <3>2. todo'[a] = <<Installs(m)>>
      BY <2>2, <3>1, Joins
    <3>3. Head(todo'[a]) = Installs(m) /\ Tail(todo'[a]) = <<>> /\ todo'[a] # <<>>
      BY <3>2, Tuples
    <3>4. CASE a = "op"
      <4>1. PICK s \in Slots : TRUE
        BY <3>4
      <4>2. PICK p \in Pairs : TRUE
        BY DEF FeeGuardAssumptions
      <4>3. StepsFit(s, p, Installs(m), <<>>)'
        BY DEF StepsFit
      <4>4. CommandFits(Installs(m), <<>>)'
        BY <4>3 DEF CommandFits
      <4>5. Fits(a)'
        BY <3>3, <3>4, <4>4 DEF Fits
      <4>6. QED
        BY <3>1, <3>3, <4>5 DEF Arg
    <3>5. CASE a = "loop"
      BY <3>1, <3>3, <3>5 DEF Fits, Arg
    <3>6. QED
      BY <3>4, <3>5
  <2>3. QED
    BY <1>2, <2>1, <2>2
<1>5. UNCHANGED <<live, pairOf, state>> /\ raced' \in BOOLEAN /\ (raced => raced')
  BY DEF rows, pairs, FInv, Types
<1>6. Programs'
  BY <1>1, <1>2, <1>4, <1>5, ProgramsStay
<1>7. PaidAreBarred'
  <2>1. \A s \in Slots : caught'[s] => /\ caught[s] /\ (live'[s] => live[s])
                                       /\ halted[s] => halted'[s]
    BY DEF rows, guard
  <2>2. \A b \in Actors \ {a} : /\ Doing(b, "install")' <=> Doing(b, "install")
                                /\ Doing(b, "disable")' <=> Doing(b, "disable")
                                /\ Arg(b)' = Arg(b)
    BY <1>2 DEF Doing, Idle, Arg
  <2>3. \A s \in Slots : Doing(s, "disable") => Doing(s, "disable")'
    BY <1>1, <2>2, Names
  <2>4. Doing(a, "install")' => \A s \in Slots : ~live[s] => Arg(a)'.map[s] = NoPair
    BY <1>3, <1>4, Kinds
  <2>5. routes' = routes \/ \A s \in Slots : ~live[s] => routes'[s] = NoPair
    BY <1>2, <1>3
  <2>6. \A b \in Actors : Doing(b, "install")' =>
          \/ Doing(b, "install") /\ Arg(b)' = Arg(b)
          \/ \A s \in Slots : ~live[s] => Arg(b)'.map[s] = NoPair
    BY <2>2, <2>4
  <2>7. QED
    BY <2>1, <2>3, <2>5, <2>6, BarredStays
<1>8. PairsAreServedOrOwed'
  <2>1. \A b \in Actors, p \in Pairs : Owes(b, p) => Owes(b, p)'
    BY <1>2 DEF Owes, Idle
  <2>2. \A s \in Slots, p \in Pairs : Serves(s, p) => Serves(s, p)'
    BY <1>5 DEF Serves
  <2>3. QED
    BY <1>5, <2>1, <2>2, ServedStays
<1>9. TypeOK' /\ ProbeFollowsTariffHalt' /\ HaltsKnowTheirCause'
  <2>1. built' \subseteq Slots /\ routes' \in [Slots -> Pairs \cup {NoPair}]
    BY <1>2, <1>3 DEF Rebuilt, Actives, FInv, Types, TypeOK, Pairs0
  <2>2. QED
    BY <2>1 DEF FInv, Types, TypeOK, rows, pairs, guard, ProbeFollowsTariffHalt,
       HaltsKnowTheirCause
<1>10. Types'
  BY <1>2, <1>5, <1>9 DEF FInv, Types
<1>11. QED
  BY <1>6, <1>7, <1>8, <1>9, <1>10 DEF FInv

\* A command reads the routes.
LEMMA RebuildKeeps ==
  ASSUME FeeGuardAssumptions, FInv, NEW a \in Actors, Rebuild(a) PROVE FInv'
<1>1. Doing(a, "rebuild") /\ Rebuilt(a, Tail(todo[a]))
  BY DEF Rebuild
<1>2. a = "op"
  BY <1>1, CommandAt DEF Doing, Arg
<1>3. Slots # {} /\ Tail(todo[a]) = <<>>
  <2>1. PICK s \in Slots, p \in Pairs : StepsFit(s, p, Arg(a), Tail(todo[a]))
    BY <1>1, CommandAt DEF Doing, Arg
  <2>2. QED
    BY <1>1, <2>1, Kinds DEF StepsFit, Doing, Arg
<1>4. Rebuilt(a, <<>>)
  BY <1>1, <1>3 DEF Rebuilt
<1>5. ~Doing(a, "install") /\ \A p \in Pairs : ~Owes(a, p)
  BY <1>1, Kinds DEF Owes, Doing
<1>6. UNCHANGED <<rows, pairs, guard, strikes, order, caught, cause, raced>>
  BY DEF Rebuild
<1>7. QED
  BY <1>2, <1>3, <1>4, <1>5, <1>6, RebuiltKeeps

\* The loop reads the routes.
LEMMA RebuildTickKeeps ==
  ASSUME FeeGuardAssumptions, FInv, RebuildTick PROVE FInv'
<1>1. ~Doing("loop", "install") /\ \A p \in Pairs : ~Owes("loop", p)
  BY DEF RebuildTick, Owes, Doing
<1>2. UNCHANGED <<rows, pairs, guard, strikes, order, caught, cause, raced>>
  BY DEF RebuildTick
<1>3. Rebuilt("loop", <<>>)
  BY DEF RebuildTick
<1>4. QED
  BY <1>1, <1>2, <1>3, RebuiltKeeps

\* The routes that were read are installed.
LEMMA InstallKeeps ==
  ASSUME FeeGuardAssumptions, FInv, NEW a \in Actors, Install(a) PROVE FInv'
<1>1. /\ Doing(a, "install") /\ Then(a, <<>>) /\ routes' = Arg(a).map
      /\ UNCHANGED <<rows, pairs, built, guard, strikes, order, caught, cause, raced>>
  BY DEF Install
<1>2. /\ a \notin Slots
      /\ \E m \in [Slots -> Pairs0] : Arg(a) = Installs(m) /\ Tail(todo[a]) = <<>>
  <2>1. ~Idle(a) /\ Arg(a).do = "install"
    BY <1>1 DEF Doing, Arg
  <2>2. CASE a \in Slots \cup {"watch"} /\ \E s \in Slots, p \in Pairs :
               Arg(a) \in {Slotted("disable", s), Paired("orphan", s, p), Demotes(p)}
    BY <2>1, <2>2, Kinds
  <2>3. CASE a = "op" /\ \E s \in Slots, p \in Pairs : StepsFit(s, p, Arg(a), Tail(todo[a]))
    <3>1. PICK s \in Slots, p \in Pairs : StepsFit(s, p, Arg(a), Tail(todo[a]))
      BY <2>3
    <3>2. QED
      BY <2>1, <2>3, <3>1, Kinds, Names DEF StepsFit
  <2>4. CASE /\ a = "loop"
             /\ \E m \in [Slots -> Pairs0] : Arg(a) = Installs(m) /\ Tail(todo[a]) = <<>>
    BY <2>4, Names
  <2>5. QED
    BY <2>1, <2>2, <2>3, <2>4, AtStep
<1>3. PICK m \in [Slots -> Pairs0] : Arg(a) = Installs(m) /\ Tail(todo[a]) = <<>>
  BY <1>2
<1>4. routes' \in [Slots -> Pairs \cup {NoPair}]
  BY <1>1, <1>3, Kinds DEF Pairs0
<1>5. DOMAIN todo' = Actors /\ \A b \in Actors \ {a} : todo'[b] = todo[b]
  BY <1>1, ThenFacts DEF FInv, Types
<1>6. Fits(a)' /\ Idle(a)' /\ \A w : ~Doing(a, w)'
  <2>1. todo'[a] = <<>> \o Tail(todo[a])
    BY <1>1, ThenFacts DEF FInv, Types
  <2>2. todo'[a] = <<>>
    BY <1>3, <2>1, Joins
  <2>3. QED
    BY <2>2, Finished
<1>7. UNCHANGED <<live, pairOf, state>> /\ raced' \in BOOLEAN /\ (raced => raced')
  BY <1>1 DEF rows, pairs, FInv, Types
<1>8. Programs'
  BY <1>5, <1>6, <1>7, ProgramsStay
<1>9. PaidAreBarred'
  <2>1. \A s \in Slots : caught'[s] => /\ caught[s] /\ (live'[s] => live[s])
                                       /\ halted[s] => halted'[s]
    BY <1>1 DEF rows, guard
  <2>2. \A b \in Actors \ {a} : /\ Doing(b, "install")' <=> Doing(b, "install")
                                /\ Doing(b, "disable")' <=> Doing(b, "disable")
                                /\ Arg(b)' = Arg(b)
    BY <1>5 DEF Doing, Idle, Arg
  <2>3. \A s \in Slots : Doing(s, "disable") => Doing(s, "disable")'
    BY <1>2, <2>2, Names
  <2>4. \A b \in Actors : Doing(b, "install")' => Doing(b, "install") /\ Arg(b)' = Arg(b)
    BY <1>6, <2>2
  <2>5. QED
    BY <1>1, <2>1, <2>3, <2>4, BarredStays
<1>10. PairsAreServedOrOwed'
  <2>1. \A b \in Actors \ {a}, p \in Pairs : Owes(b, p) => Owes(b, p)'
    BY <1>5 DEF Owes, Idle
  <2>2. \A s \in Slots, p \in Pairs : Serves(s, p) => Serves(s, p)'
    BY <1>7 DEF Serves
  <2>3. \A p \in Pairs : ~Owes(a, p)
    BY <1>1, Kinds DEF Owes, Doing
  <2>4. QED
    BY <1>7, <2>1, <2>2, <2>3, ServedStays
<1>11. TypeOK' /\ ProbeFollowsTariffHalt' /\ HaltsKnowTheirCause'
  BY <1>1, <1>4 DEF FInv, Types, TypeOK, rows, pairs, guard, ProbeFollowsTariffHalt,
     HaltsKnowTheirCause
<1>12. Types'
  BY <1>1, <1>5, <1>7, <1>11 DEF FInv, Types
<1>13. QED
  BY <1>8, <1>9, <1>10, <1>11, <1>12 DEF FInv

-----------------------------------------------------------------------------
(* Orders, the fee guard and the watchdog.                                 *)

\* What a step has to respect that leaves the coroutines alone.
LEMMA QuietKeeps ==
  ASSUME FeeGuardAssumptions, FInv, TypeOK',
         UNCHANGED <<todo, live, pairOf, state, routes, caught, halted, preventive,
                     cause, raced>>,
         \A s \in Slots : probe'[s] => probe[s]
  PROVE  FInv'
<1>1. Programs'
  <2>1. "op" \in Actors /\ "loop" \in Actors
    BY DEF Actors
  <2>2. /\ \A b \in Actors \ {"op"} : Fits(b)'
        /\ \A b \in Actors \ {"loop"} : Fits(b)'
    BY <2>1, OthersFit DEF FInv, Types
  <2>3. QED
    BY <2>2 DEF Programs
<1>2. PaidAreBarred'
  BY DEF FInv, PaidAreBarred, Barred, Doing, Idle, Arg
<1>3. PairsAreServedOrOwed'
  BY DEF FInv, PairsAreServedOrOwed, Serves, Owes, Idle
<1>4. ProbeFollowsTariffHalt' /\ HaltsKnowTheirCause'
  BY DEF FInv, ProbeFollowsTariffHalt, HaltsKnowTheirCause
<1>5. QED
  BY <1>1, <1>2, <1>3, <1>4 DEF FInv, Types

\* The copy of the pair states is read again by the loop.
LEMMA ReloadKeeps ==
  ASSUME FeeGuardAssumptions, FInv, Reload PROVE FInv'
<1>1. TypeOK'
  BY DEF Reload, FInv, Types, TypeOK, rows, pool, guard
<1>2. QED
  BY <1>1, QuietKeeps DEF Reload, rows, pool, guard

\* An order, no fill, a fill without a fee, a reading of no fee, the end of a
\* probe.
LEMMA OrdersKeep ==
  ASSUME FeeGuardAssumptions, FInv, NEW s \in Slots,
         SendOrder(s) \/ Missed(s) \/ FilledFree(s) \/ ReadZero(s) \/ ProbeEnds(s)
  PROVE  FInv'
<1>1. CASE SendOrder(s)
  <2>1. TypeOK'
    BY <1>1 DEF SendOrder, FInv, Types, TypeOK, rows, pairs, pool, guard
  <2>2. QED
    BY <1>1, <2>1, QuietKeeps DEF SendOrder, rows, pairs, pool, guard
<1>2. CASE Missed(s)
  <2>1. TypeOK'
    BY <1>2 DEF Missed, FInv, Types, TypeOK, rows, pairs, pool, guard
  <2>2. QED
    BY <1>2, <2>1, QuietKeeps DEF Missed, rows, pairs, pool, guard
<1>3. CASE FilledFree(s)
  <2>1. TypeOK' /\ \A t \in Slots : probe'[t] => probe[t]
    BY <1>3 DEF FilledFree, FInv, Types, TypeOK, rows, pairs, pool
  <2>2. QED
    BY <1>3, <2>1, QuietKeeps DEF FilledFree, rows, pairs, pool
<1>4. CASE ReadZero(s)
  <2>1. TypeOK'
    BY <1>4 DEF ReadZero, FInv, Types, TypeOK, rows, pairs, pool, guard,
       FeeGuardAssumptions
  <2>2. QED
    BY <1>4, <2>1, QuietKeeps DEF ReadZero, rows, pairs, pool, guard
<1>5. CASE ProbeEnds(s)
  <2>1. TypeOK' /\ \A t \in Slots : probe'[t] => probe[t]
    BY <1>5 DEF ProbeEnds, FInv, Types, TypeOK, rows, pairs, pool
  <2>2. QED
    BY <1>5, <2>1, QuietKeeps DEF ProbeEnds, rows, pairs, pool
<1>6. QED
  BY <1>1, <1>2, <1>3, <1>4, <1>5

\* What a halt has to respect: a slot is halted by itself after a paid fill, or
\* by the watchdog.
LEMMA TripKeeps ==
  ASSUME FeeGuardAssumptions, FInv, NEW s \in Slots, NEW a \in {s, "watch"},
         NEW p \in Pairs, NEW tariff \in BOOLEAN,
         Idle(a), ~halted[s], Trip(a, s, p, tariff),
         UNCHANGED <<live, pairOf, state, routes>>,
         TypeOK', caught' \in [Slots -> BOOLEAN],
         \A t \in Slots : caught'[t] => caught[t] \/ (t = s /\ a = s)
  PROVE  FInv'
<1>1. a \in Actors /\ (a \in Slots => a = s)
  BY Names DEF Actors
<1>2. /\ halted' = [halted EXCEPT ![s] = TRUE]
      /\ preventive' = [preventive EXCEPT ![s] = tariff]
      /\ probe' = [probe EXCEPT ![s] = FALSE]
      /\ cause' = [cause EXCEPT ![s] = IF tariff THEN "tariff" ELSE "fill"]
      /\ todo' = [todo EXCEPT ![a] = <<Slotted("disable", s), Paired("orphan", s, p)>>]
      /\ raced' = (raced \/ p # pairOf[s] \/ ~Idle("op"))
  BY DEF Trip, Stops, ProbeAtTrip, Slotted, Paired
<1>3. /\ DOMAIN todo' = Actors /\ \A b \in Actors \ {a} : todo'[b] = todo[b]
      /\ todo'[a] = <<Slotted("disable", s), Paired("orphan", s, p)>>
  BY <1>1, <1>2 DEF FInv, Types
<1>4. /\ Head(todo'[a]) = Slotted("disable", s)
      /\ Tail(todo'[a]) = <<Paired("orphan", s, p)>> /\ todo'[a] # <<>>
  BY <1>3, Tuples
<1>5. raced' \in BOOLEAN /\ (raced => raced') /\ (raced' \/ pairOf[s] = p)
  BY <1>2 DEF FInv, Types
<1>6. Fits(a)'
  <2>1. /\ HaltFits({s}, Slotted("disable", s), <<Paired("orphan", s, p)>>)'
        /\ HaltFits(Slots, Slotted("disable", s), <<Paired("orphan", s, p)>>)'
    BY <1>5 DEF HaltFits
  <2>2. QED
    BY <1>4, <2>1 DEF Fits
<1>7. Programs'
  BY <1>1, <1>3, <1>5, <1>6, ProgramsStay
<1>8. /\ Doing(a, "disable")' /\ ~Doing(a, "install")'
      /\ \A b \in Actors \ {a} : /\ Doing(b, "install")' <=> Doing(b, "install")
                                 /\ Doing(b, "disable")' <=> Doing(b, "disable")
                                 /\ Arg(b)' = Arg(b)
  BY <1>3, <1>4, Kinds DEF Doing, Idle, Arg
<1>9. PaidAreBarred'
  <2> SUFFICES ASSUME NEW t \in Slots, caught'[t] PROVE Barred(t)'
    BY DEF PaidAreBarred
  <2>1. CASE t = s /\ a = s
    <3>1. halted'[s]
      BY <1>2 DEF FInv, Types, TypeOK
    <3>2. QED
      BY <1>8, <2>1, <3>1 DEF Barred
  <2>2. CASE caught[t]
    <3>1. Barred(t)
      BY <2>2 DEF FInv, PaidAreBarred
    <3>2. CASE halted[t] /\ (live[t] => Doing(t, "disable"))
      <4>1. halted'[t] /\ t # s
        BY <1>2, <3>2 DEF FInv, Types, TypeOK
      <4>2. t # a /\ t \in Actors
        BY <4>1, Names
      <4>3. QED
        BY <1>8, <3>2, <4>1, <4>2 DEF Barred
    <3>3. CASE /\ ~live[t] /\ routes[t] = NoPair
               /\ \A b \in Actors : Doing(b, "install") => Arg(b).map[t] = NoPair
      <4>1. \A b \in Actors : Doing(b, "install")' => Arg(b)'.map[t] = NoPair
        BY <1>8, <3>3
      <4>2. QED
        BY <3>3, <4>1 DEF Barred
    <3>4. QED
      BY <3>1, <3>2, <3>3 DEF Barred
  <2>3. QED
    BY <2>1, <2>2
<1>10. PairsAreServedOrOwed'
  <2>1. \A b \in Actors \ {a}, q \in Pairs : Owes(b, q) => Owes(b, q)'
    BY <1>3 DEF Owes, Idle
  <2>2. \A t \in Slots, q \in Pairs : Serves(t, q) => Serves(t, q)'
    BY DEF Serves
  <2>3. \A q \in Pairs : ~Owes(a, q)
    BY DEF Owes
  <2>4. QED
    BY <1>5, <2>1, <2>2, <2>3, ServedStays
<1>11. ProbeFollowsTariffHalt' /\ HaltsKnowTheirCause' /\ DOMAIN cause' = Slots
  BY <1>2 DEF FInv, Types, TypeOK, ProbeFollowsTariffHalt, HaltsKnowTheirCause
<1>12. Types'
  BY <1>3, <1>5, <1>11 DEF Types
<1>13. QED
  BY <1>7, <1>9, <1>10, <1>11, <1>12 DEF FInv

\* A fill that was charged halts its slot.
LEMMA FilledPaidKeeps ==
  ASSUME FeeGuardAssumptions, FInv, NEW s \in Slots, FilledPaid(s) PROVE FInv'
<1>1. /\ Idle(s) /\ order[s] \in Pairs /\ Trip(s, s, order[s], FALSE)
      /\ caught' = [caught EXCEPT ![s] = @ \/ ~halted[s]]
      /\ order' = [order EXCEPT ![s] = NoPair]
      /\ UNCHANGED <<rows, pairs, pool, strikes>>
  BY DEF FilledPaid, FInv, Types, TypeOK
<1>2. TypeOK'
  <2>1. /\ halted' \in [Slots -> BOOLEAN] /\ preventive' \in [Slots -> BOOLEAN]
        /\ probe' \in [Slots -> BOOLEAN]
    BY <1>1 DEF Trip, ProbeAtTrip, guard, FInv, Types, TypeOK
  <2>2. QED
    BY <1>1, <2>1 DEF FInv, Types, TypeOK, rows, pairs, pool
<1>3. CASE halted[s]
  <2>1. caught' = caught
    BY <1>1, <1>3 DEF FInv, Types
  <2>2. UNCHANGED <<guard, todo, cause, raced>>
    BY <1>1, <1>3 DEF Trip
  <2>3. QED
    BY <1>1, <1>2, <2>1, <2>2, QuietKeeps DEF rows, pairs, pool, guard
<1>4. CASE ~halted[s]
  <2>1. /\ caught' \in [Slots -> BOOLEAN]
        /\ \A t \in Slots : caught'[t] => caught[t] \/ (t = s /\ s = s)
    BY <1>1 DEF FInv, Types
  <2>2. UNCHANGED <<live, pairOf, state, routes>>
    BY <1>1 DEF rows, pairs, pool
  <2>3. PICK p \in Pairs : p = order[s]
    BY <1>1
  <2>4. Trip(s, s, p, FALSE)
    BY <1>1, <2>3
  <2>5. QED
    BY <1>1, <1>2, <1>4, <2>1, <2>2, <2>4, TripKeeps
<1>5. QED
  BY <1>3, <1>4

\* A reading of a fee, or none: the last in a row halts the slot.
LEMMA ReadNonzeroKeeps ==
  ASSUME FeeGuardAssumptions, FInv, NEW s \in Slots, ReadNonzero(s) PROVE FInv'
<1>1. /\ Idle("watch") /\ pairOf[s] \in Pairs
      /\ strikes' = [strikes EXCEPT ![s] = Capped(@ + 1)]
      /\ \/ Trip("watch", s, pairOf[s], TRUE)
         \/ UNCHANGED <<guard, todo, cause, raced>>
      /\ UNCHANGED <<rows, pairs, pool, order, caught>>
  BY DEF ReadNonzero, Watched, Active, FInv, Types, TypeOK
<1>2. strikes' \in [Slots -> 0 .. CONFIRMATIONS]
  BY <1>1 DEF Capped, FeeGuardAssumptions, FInv, Types, TypeOK
<1>3. TypeOK'
  <2>1. /\ halted' \in [Slots -> BOOLEAN] /\ preventive' \in [Slots -> BOOLEAN]
        /\ probe' \in [Slots -> BOOLEAN]
    BY <1>1 DEF Trip, ProbeAtTrip, guard, FInv, Types, TypeOK
  <2>2. QED
    BY <1>1, <1>2, <2>1 DEF FInv, Types, TypeOK, rows, pairs, pool
<1>4. CASE UNCHANGED <<guard, todo, cause, raced>>
  BY <1>1, <1>3, <1>4, QuietKeeps DEF rows, pairs, pool, guard
<1>5. CASE halted[s] /\ Trip("watch", s, pairOf[s], TRUE)
  BY <1>4, <1>5 DEF Trip
<1>6. CASE ~halted[s] /\ Trip("watch", s, pairOf[s], TRUE)
  <2>1. /\ caught' \in [Slots -> BOOLEAN]
        /\ \A t \in Slots : caught'[t] => caught[t] \/ (t = s /\ "watch" = s)
    BY <1>1 DEF FInv, Types
  <2>2. UNCHANGED <<live, pairOf, state, routes>>
    BY <1>1 DEF rows, pairs, pool
  <2>3. PICK p \in Pairs : p = pairOf[s]
    BY <1>1
  <2>4. Trip("watch", s, p, TRUE)
    BY <1>6, <2>3
  <2>5. QED
    BY <1>1, <1>3, <1>6, <2>1, <2>2, <2>4, TripKeeps
<1>7. QED
  BY <1>1, <1>4, <1>5, <1>6

-----------------------------------------------------------------------------
(* The commands.                                                           *)

\* What the start of a command has to respect.
LEMMA CommandStarts ==
  ASSUME FeeGuardAssumptions, FInv, NEW program, Command(program),
         UNCHANGED <<rows, pairs, pool, strikes, order, cause, raced>>,
         Fits("op")', ~Doing("op", "install")',
         halted' \in [Slots -> BOOLEAN], preventive' \in [Slots -> BOOLEAN],
         probe' \in [Slots -> BOOLEAN], caught' \in [Slots -> BOOLEAN],
         \A s \in Slots : caught'[s] => caught[s] /\ (halted[s] => halted'[s]),
         ProbeFollowsTariffHalt', HaltsKnowTheirCause'
  PROVE  FInv'
<1>1. "op" \in Actors /\ "op" \notin Slots
  BY Names DEF Actors
<1>2. /\ DOMAIN todo' = Actors /\ \A b \in Actors \ {"op"} : todo'[b] = todo[b]
      /\ Idle("op")
  BY DEF Command, FInv, Types
<1>3. TypeOK' /\ DOMAIN cause' = Slots /\ raced' \in BOOLEAN /\ (raced => raced')
  BY DEF FInv, Types, TypeOK, rows, pairs, pool
<1>4. UNCHANGED <<live, pairOf, state, routes>>
  BY DEF rows, pairs, pool
<1>5. \A t \in Slots, q \in Pairs : Serves(t, q) => Serves(t, q)'
  BY <1>4 DEF Serves
<1>6. \A q \in Pairs : ~Owes("op", q)
  BY <1>2 DEF Owes
<1>7. QED
  BY <1>1, <1>2, <1>3, <1>4, <1>5, <1>6, Keeps

\* A command that leaves the guards alone.
LEMMA PlainCommandStarts ==
  ASSUME FeeGuardAssumptions, FInv, NEW program, Command(program),
         UNCHANGED <<rows, pairs, pool, guard, strikes, order, caught, cause, raced>>,
         Fits("op")', ~Doing("op", "install")'
  PROVE  FInv'
<1>1. ProbeFollowsTariffHalt' /\ HaltsKnowTheirCause'
  BY DEF FInv, ProbeFollowsTariffHalt, HaltsKnowTheirCause, guard
<1>2. /\ halted' \in [Slots -> BOOLEAN] /\ preventive' \in [Slots -> BOOLEAN]
      /\ probe' \in [Slots -> BOOLEAN] /\ caught' \in [Slots -> BOOLEAN]
      /\ \A s \in Slots : caught'[s] => caught[s] /\ (halted[s] => halted'[s])
  BY DEF guard, FInv, Types, TypeOK
<1>3. QED
  BY <1>1, <1>2, CommandStarts

\* The program of a command that has started.
LEMMA Starts ==
  ASSUME FInv, NEW program, Command(program) PROVE todo'["op"] = program
BY DEF Command, FInv, Types, Actors

\* The operator switches a slot on.
LEMMA LiveOnKeeps ==
  ASSUME FeeGuardAssumptions, FInv, NEW s \in Slots, LiveOn(s) PROVE FInv'
<1> DEFINE program == <<Slotted("enable", s), Slotted("promoteOf", s), Rebuilds>>
<1>1. Command(program)
  BY DEF LiveOn, Slotted, Rebuilds
<1>2. todo'["op"] = program
  BY <1>1, Starts
<1>3. PICK p \in Pairs : TRUE
  BY DEF FeeGuardAssumptions
<1>4. StepsFit(s, p, Slotted("enable", s), <<Slotted("promoteOf", s), Rebuilds>>)'
  BY DEF StepsFit
<1>5. Fits("op")' /\ ~Doing("op", "install")'
  BY <1>2, <1>4, CommandOfThree, Kinds DEF Doing, Arg
<1>6. UNCHANGED <<rows, pairs, pool, guard, strikes, order, caught, cause, raced>>
  BY DEF LiveOn
<1> HIDE DEF program
<1>7. QED
  BY <1>1, <1>5, <1>6, PlainCommandStarts

\* The operator switches a slot off: its pair first goes back to shadow, unless
\* another slot is live on it.
LEMMA LiveOffKeeps ==
  ASSUME FeeGuardAssumptions, FInv, NEW s \in Slots, LiveOff(s) PROVE FInv'
<1> DEFINE off == <<Slotted("disable", s), Rebuilds>>
           program == Leave(s) \o off
<1>1. Command(program)
  BY DEF LiveOff, Slotted, Rebuilds
<1>2. todo'["op"] = program
  BY <1>1, Starts
<1>3. UNCHANGED <<rows, pairs, pool, guard, strikes, order, caught, cause, raced>>
  BY DEF LiveOff
<1>4. UNCHANGED <<live, pairOf, state>>
  BY <1>3 DEF rows, pairs
<1>5. Fits("op")' /\ ~Doing("op", "install")'
  <2>1. CASE pairOf[s] = NoPair \/ OtherLive(s, pairOf[s])
    <3>1. todo'["op"] = off
      BY <1>2, <2>1, JoinTwo DEF Leave
    <3>2. PICK p \in Pairs : TRUE
      BY DEF FeeGuardAssumptions
    <3>3. Leavable(s)'
      BY <1>4, <2>1 DEF Leavable, OtherLive
    <3>4. StepsFit(s, p, Slotted("disable", s), <<Rebuilds>>)'
      BY <3>3 DEF StepsFit
    <3>5. QED
      BY <3>1, <3>4, CommandOfTwo, Kinds DEF Doing, Arg
  <2>2. CASE ~(pairOf[s] = NoPair \/ OtherLive(s, pairOf[s]))
    <3>1. PICK p \in Pairs : p = pairOf[s]
      BY <2>2 DEF FInv, Types, TypeOK
    <3>2. Leave(s) = <<Promotes(p, "shadow")>>
      BY <2>2, <3>1 DEF Leave, Promotes
    <3>3. todo'["op"] = <<Promotes(p, "shadow"), Slotted("disable", s), Rebuilds>>
      BY <1>2, <3>2, JoinTwo
    <3>4. StepsFit(s, p, Promotes(p, "shadow"), off)'
      BY <1>4, <3>1 DEF StepsFit
    <3>5. QED
      BY <3>3, <3>4, CommandOfThree, Kinds DEF Doing, Arg
  <2>3. QED
    BY <2>1, <2>2
<1> HIDE DEF program
<1>6. QED
  BY <1>1, <1>3, <1>5, PlainCommandStarts

\* The operator gives a slot a pair: the one it leaves goes back to shadow first.
LEMMA PickKeeps ==
  ASSUME FeeGuardAssumptions, FInv, NEW s \in Slots, NEW q \in Pairs, Pick(s, q)
  PROVE  FInv'
<1> DEFINE on == <<Paired("assign", s, q), Paired("pickOn", s, q)>>
           first == IF pairOf[s] = q THEN <<>> ELSE Leave(s)
           program == first \o on
<1>1. Command(program)
  BY DEF Pick, Paired
<1>2. todo'["op"] = program
  BY <1>1, Starts
<1>3. UNCHANGED <<rows, pairs, pool, guard, strikes, order, caught, cause, raced>>
  BY DEF Pick
<1>4. Fits("op")' /\ ~Doing("op", "install")'
  <2>1. CASE first = <<>>
    <3>1. todo'["op"] = on
      BY <1>2, <2>1, JoinTwo
    <3>2. StepsFit(s, q, Paired("assign", s, q), <<Paired("pickOn", s, q)>>)'
      BY DEF StepsFit
    <3>3. QED
      BY <3>1, <3>2, CommandOfTwo, Kinds DEF Doing, Arg
  <2>2. CASE first # <<>>
    <3>1. PICK p \in Pairs : p = pairOf[s]
      BY <2>2 DEF Leave, FInv, Types, TypeOK
    <3>2. first = <<Promotes(p, "shadow")>>
      BY <2>2, <3>1 DEF Leave, Promotes
    <3>3. todo'["op"]
            = <<Promotes(p, "shadow"), Paired("assign", s, q), Paired("pickOn", s, q)>>
      <4>1. <<Promotes(p, "shadow")>> \o on
              = <<Promotes(p, "shadow"), Paired("assign", s, q), Paired("pickOn", s, q)>>
        BY JoinTwo
      <4> HIDE DEF first, on
      <4>2. QED
        BY <1>2, <3>2, <4>1
    <3>4. StepsFit(s, p, Promotes(p, "shadow"), on)'
      BY DEF StepsFit
    <3>5. QED
      BY <3>3, <3>4, CommandOfThree, Kinds DEF Doing, Arg
  <2>3. QED
    BY <2>1, <2>2
<1> HIDE DEF program
<1>5. QED
  BY <1>1, <1>3, <1>4, PlainCommandStarts

\* The commands that start with one step on the slot and end with another.
LEMMA ShortCommandsKeep ==
  ASSUME FeeGuardAssumptions, FInv, NEW s \in Slots, Unassign(s) \/ Rekey(s) \/ Delete(s)
  PROVE  FInv'
<1>1. PICK h, x :
        /\ Command(<<h, x>>) /\ h.do # "install"
        /\ \/ h = Paired("assign", s, NoPair) /\ x = Slotted("disable", s)
           \/ h = Slotted("newKey", s) /\ x = Slotted("clear", s)
           \/ h = Slotted("wipe", s) /\ x = Slotted("clear", s)
  <2>1. CASE Unassign(s)
    <3>1. Command(<<Paired("assign", s, NoPair), Slotted("disable", s)>>)
      BY <2>1 DEF Unassign, Paired, Slotted
    <3>2. Paired("assign", s, NoPair).do # "install"
      BY Kinds
    <3>3. QED
      BY <3>1, <3>2
  <2>2. CASE Rekey(s)
    <3>1. Command(<<Slotted("newKey", s), Slotted("clear", s)>>)
      BY <2>2 DEF Rekey, Slotted
    <3>2. Slotted("newKey", s).do # "install"
      BY Kinds
    <3>3. QED
      BY <3>1, <3>2
  <2>3. CASE Delete(s)
    <3>1. Command(<<Slotted("wipe", s), Slotted("clear", s)>>)
      BY <2>3 DEF Delete, Slotted
    <3>2. Slotted("wipe", s).do # "install"
      BY Kinds
    <3>3. QED
      BY <3>1, <3>2
  <2>4. QED
    BY <2>1, <2>2, <2>3
<1>2. todo'["op"] = <<h, x>>
  BY <1>1, Starts
<1>3. PICK p \in Pairs : TRUE
  BY DEF FeeGuardAssumptions
<1>4. StepsFit(s, p, h, <<x>>)'
  BY <1>1 DEF StepsFit
<1>5. Fits("op")' /\ ~Doing("op", "install")'
  BY <1>1, <1>2, <1>4, CommandOfTwo DEF Doing, Arg
<1>6. UNCHANGED <<rows, pairs, pool, guard, strikes, order, caught, cause, raced>>
  BY DEF Unassign, Rekey, Delete
<1>7. QED
  BY <1>1, <1>5, <1>6, PlainCommandStarts

\* A reset lifts the halt, and turns one of the tariff into a probe.
LEMMA FeeResetKeeps ==
  ASSUME FeeGuardAssumptions, FInv, NEW s \in Slots, FeeReset(s) PROVE FInv'
<1> DEFINE program == <<Slotted("enable", s)>>
<1>1. /\ Command(program)
      /\ halted' = [halted EXCEPT ![s] = FALSE]
      /\ probe' = [probe EXCEPT ![s] = @ \/ (halted[s] /\ preventive[s])]
      /\ preventive' = [preventive EXCEPT ![s] = @ /\ ~halted[s]]
      /\ caught' = [caught EXCEPT ![s] = FALSE]
      /\ UNCHANGED <<rows, pairs, pool, strikes, order, cause, raced>>
  BY DEF FeeReset, Slotted
<1>2. todo'["op"] = program
  BY <1>1, Starts
<1>3. PICK p \in Pairs : TRUE
  BY DEF FeeGuardAssumptions
<1>4. StepsFit(s, p, Slotted("enable", s), <<>>)'
  BY DEF StepsFit
<1>5. Fits("op")' /\ ~Doing("op", "install")'
  BY <1>2, <1>4, CommandOfOne, Kinds DEF Doing, Arg
<1>6. /\ halted' \in [Slots -> BOOLEAN] /\ preventive' \in [Slots -> BOOLEAN]
      /\ probe' \in [Slots -> BOOLEAN] /\ caught' \in [Slots -> BOOLEAN]
      /\ \A t \in Slots : caught'[t] => caught[t] /\ (halted[t] => halted'[t])
  BY <1>1 DEF FInv, Types, TypeOK
<1>7. ProbeFollowsTariffHalt' /\ HaltsKnowTheirCause'
  BY <1>1 DEF FInv, Types, TypeOK, ProbeFollowsTariffHalt, HaltsKnowTheirCause
<1> HIDE DEF program
<1>8. QED
  BY <1>1, <1>5, <1>6, <1>7, CommandStarts

\* The panel switches a slot and its pair in one transaction.
LEMMA PanelToggleKeeps ==
  ASSUME FeeGuardAssumptions, FInv, NEW s \in Slots, NEW on \in BOOLEAN,
         PanelToggle(s, on)
  PROVE  FInv'
<1>1. /\ live' = [live EXCEPT ![s] = on]
      /\ state' = IF pairOf[s] = NoPair \/ (~on /\ OtherLive(s, pairOf[s])) THEN state
                  ELSE [state EXCEPT ![pairOf[s]] = IF on THEN "live" ELSE "shadow"]
      /\ caught' = IF on THEN [caught EXCEPT ![s] = FALSE] ELSE caught
      /\ raced' = (raced \/ \E a \in Actors : ~Idle(a))
      /\ UNCHANGED <<key, pairOf, cache, pool, guard, strikes, order, todo, cause>>
  BY DEF PanelToggle
<1>2. /\ raced' \in BOOLEAN /\ (raced => raced')
      /\ raced' \/ \A b \in Actors : Idle(b)
  BY <1>1 DEF FInv, Types
<1>3. Programs'
  <2>1. "op" \in Actors /\ "loop" \in Actors
    BY DEF Actors
  <2>2. /\ \A b \in Actors \ {"op"} : Fits(b)'
        /\ \A b \in Actors \ {"loop"} : Fits(b)'
    BY <1>1, <1>2, <2>1, OthersFit
  <2>3. QED
    BY <2>2 DEF Programs
<1>4. PaidAreBarred'
  <2>1. \A t \in Slots : caught'[t] => /\ caught[t] /\ (live'[t] => live[t])
                                       /\ halted[t] => halted'[t]
    BY <1>1 DEF guard, FInv, Types, TypeOK
  <2>2. /\ \A t \in Slots : Doing(t, "disable") => Doing(t, "disable")'
        /\ \A b \in Actors : Doing(b, "install")' => Doing(b, "install") /\ Arg(b)' = Arg(b)
    BY <1>1 DEF Doing, Idle, Arg
  <2>3. routes' = routes
    BY <1>1 DEF pool
  <2>4. QED
    BY <2>1, <2>2, <2>3, BarredStays
<1>5. PairsAreServedOrOwed'
  <2> SUFFICES ASSUME NEW p \in Pairs, ~raced', state'[p] = "live"
               PROVE  /\ state[p] = "live" \/ \E t \in Slots : Serves(t, p)'
                      /\ \A t \in Slots : Serves(t, p) => \E o \in Slots : Serves(o, p)'
                      /\ \A a \in Actors : ~Owes(a, p)
    BY <1>2, ServedStays
  <2>1. \A a \in Actors : ~Owes(a, p)
    BY <1>2 DEF Owes
  <2>2. state[p] = "live" \/ \E t \in Slots : Serves(t, p)'
    <3>1. CASE state'[p] = state[p]
      BY <3>1
    <3>2. CASE on /\ p = pairOf[s]
      BY <1>1, <3>2 DEF Serves, FInv, Types, TypeOK
    <3>3. QED
      BY <1>1, <3>1, <3>2 DEF FInv, Types, TypeOK
  <2>3. ASSUME NEW t \in Slots, Serves(t, p) PROVE \E o \in Slots : Serves(o, p)'
    <3>1. CASE t # s \/ on
      BY <1>1, <2>3, <3>1 DEF Serves, FInv, Types, TypeOK
    <3>2. CASE t = s /\ ~on
      <4>1. pairOf[s] = p /\ p # NoPair
        BY <2>3, <3>2, Names DEF Serves
      <4>2. OtherLive(s, p)
        BY <1>1, <3>2, <4>1 DEF FInv, Types, TypeOK
      <4>3. PICK o \in Slots \ {s} : pairOf[o] = p /\ live[o]
        BY <4>2 DEF OtherLive
      <4>4. Serves(o, p)'
        BY <1>1, <4>3 DEF Serves, FInv, Types, TypeOK
      <4>5. QED
        BY <4>4
    <3>3. QED
      BY <3>1, <3>2
  <2>4. QED
    BY <2>1, <2>2, <2>3
<1>6. TypeOK' /\ caught' \in [Slots -> BOOLEAN] /\ DOMAIN cause' = Slots
  BY <1>1 DEF FInv, Types, TypeOK, pool, guard
<1>7. ProbeFollowsTariffHalt' /\ HaltsKnowTheirCause'
  BY <1>1 DEF FInv, ProbeFollowsTariffHalt, HaltsKnowTheirCause, guard
<1>8. QED
  BY <1>1, <1>2, <1>3, <1>4, <1>5, <1>6, <1>7 DEF FInv, Types

-----------------------------------------------------------------------------
(* Start, restart and the whole step.                                      *)

\* The rows decide what a restart begins with.
LEMMA RestartKeeps ==
  ASSUME FeeGuardAssumptions, FInv, Restart PROVE FInv'
<1>1. /\ cache' = state /\ built' = Actives /\ routes' = RouteMap
      /\ halted' = Memory(FALSE) /\ preventive' = Memory(FALSE) /\ probe' = Memory(FALSE)
      /\ strikes' = Memory(0) /\ cause' = Memory("none") /\ order' = Memory(NoPair)
      /\ todo' = [a \in Actors |-> <<>>]
      /\ caught' = [s \in Slots |-> caught[s] /\ Idle(s)]
      /\ raced' = (raced \/ \E a \in Actors : ~Idle(a))
      /\ UNCHANGED <<key, live, pairOf, state>>
  BY DEF Restart, rows
<1>2. TypeOK' /\ DOMAIN todo' = Actors /\ DOMAIN cause' = Slots
  BY <1>1
     DEF FInv, Types, TypeOK, Memory, Actives, RouteMap, Active, FeeGuardAssumptions
<1>3. \A a \in Actors : Idle(a)'
  BY <1>1 DEF Idle
<1>4. Programs'
  BY <1>3 DEF Programs, Fits
<1>5. caught' \in [Slots -> BOOLEAN] /\ raced' \in BOOLEAN /\ (raced => raced')
  BY <1>1 DEF FInv, Types, Idle
<1>6. PaidAreBarred'
  <2> SUFFICES ASSUME NEW s \in Slots, caught'[s] PROVE Barred(s)'
    BY DEF PaidAreBarred
  <2>1. caught[s] /\ Idle(s)
    BY <1>1
  <2>2. ~live[s]
    BY <2>1 DEF FInv, PaidAreBarred, Barred, Doing
  <2>3. ~live'[s] /\ routes'[s] = NoPair
    BY <1>1, <2>2 DEF RouteMap, Active
  <2>4. QED
    BY <1>3, <2>3 DEF Barred, Doing
<1>7. PairsAreServedOrOwed'
  <2>1. \A t \in Slots, q \in Pairs : Serves(t, q) => Serves(t, q)'
    BY <1>1 DEF Serves
  <2>2. ~raced' => \A a \in Actors : Idle(a)
    BY <1>1
  <2>3. \A a \in Actors, q \in Pairs : ~raced' => ~Owes(a, q)
    BY <2>2 DEF Owes
  <2>4. state' = state
    BY <1>1
  <2>5. QED
    BY <1>5, <2>1, <2>3, <2>4, ServedStays
<1>8. ProbeFollowsTariffHalt' /\ HaltsKnowTheirCause'
  BY <1>1 DEF ProbeFollowsTariffHalt, HaltsKnowTheirCause, Memory
<1>9. QED
  BY <1>2, <1>4, <1>5, <1>6, <1>7, <1>8 DEF FInv, Types

\* The rows decide what the bot begins with.
LEMMA InitFInv ==
  ASSUME FeeGuardAssumptions, Init PROVE FInv
<1>1. Types
  <2>1. /\ key \in [Slots -> BOOLEAN] /\ live \in [Slots -> BOOLEAN]
        /\ pairOf \in [Slots -> Pairs \cup {NoPair}]
    BY DEF Init, Memory, FeeGuardAssumptions
  <2>2. state \in [Pairs -> {"live", "shadow"}] /\ cache \in [Pairs -> {"live", "shadow"}]
    BY DEF Init
  <2>3. built \subseteq Slots /\ routes \in [Slots -> Pairs \cup {NoPair}]
    BY <2>1 DEF Init, Actives, RouteMap, Active
  <2>4. /\ halted \in [Slots -> BOOLEAN] /\ preventive \in [Slots -> BOOLEAN]
        /\ probe \in [Slots -> BOOLEAN] /\ caught \in [Slots -> BOOLEAN]
        /\ strikes \in [Slots -> 0 .. CONFIRMATIONS]
        /\ order \in [Slots -> Pairs \cup {NoPair}]
    BY DEF Init, Memory, FeeGuardAssumptions
  <2>5. DOMAIN todo = Actors /\ DOMAIN cause = Slots /\ raced \in BOOLEAN
    BY DEF Init, Memory
  <2>6. QED
    BY <2>1, <2>2, <2>3, <2>4, <2>5 DEF Types, TypeOK
<1>2. \A a \in Actors : Idle(a)
  BY DEF Init, Idle
<1>3. Programs
  BY <1>2 DEF Programs, Fits
<1>4. PaidAreBarred /\ ProbeFollowsTariffHalt /\ HaltsKnowTheirCause
  BY DEF Init, Memory, PaidAreBarred, ProbeFollowsTariffHalt, HaltsKnowTheirCause
<1>5. PairsAreServedOrOwed
  BY DEF Init, PairsAreServedOrOwed, Serves
<1>6. QED
  BY <1>1, <1>3, <1>4, <1>5 DEF FInv

\* Every step keeps the invariant.
LEMMA StepFInv ==
  ASSUME FeeGuardAssumptions, FInv, [Next]_vars PROVE FInv'
<1>1. CASE UNCHANGED vars
  <2>1. TypeOK'
    BY <1>1 DEF FInv, Types, TypeOK, vars, rows, pairs, pool, guard, counts
  <2>2. QED
    BY <1>1, <2>1, QuietKeeps DEF vars, rows, pairs, pool, guard, counts
<1>2. ASSUME NEW a \in Actors, StepOf(a) PROVE FInv'
  BY <1>2, EnableKeeps, DisableKeeps, AssignKeeps, OrphanKeeps, DemoteKeeps,
     PromoteKeeps,
     LoadKeeps, RebuildKeeps, InstallKeeps, PickOnKeeps, PromoteOfKeeps, NewKeyKeeps,
     WipeKeeps, ClearKeeps DEF StepOf
<1>3. ASSUME NEW s \in Slots, CommandOf(s) PROVE FInv'
  BY <1>3, LiveOnKeeps, LiveOffKeeps, PickKeeps, ShortCommandsKeep, FeeResetKeeps,
     PanelToggleKeeps DEF CommandOf
<1>4. ASSUME NEW s \in Slots, OfSlot(s) PROVE FInv'
  BY <1>4, OrdersKeep, FilledPaidKeeps, ReadNonzeroKeeps DEF OfSlot
<1>5. QED
  BY <1>1, <1>2, <1>3, <1>4, ReloadKeeps, RebuildTickKeeps, RestartKeeps DEF Next

\* No step sends an order of a slot that a paid fill has halted.
LEMMA StepStaysOut ==
  ASSUME FeeGuardAssumptions, FInv, [Next]_vars PROVE StaysOut
<1> SUFFICES ASSUME NEW s \in Slots, caught[s] PROVE order'[s] \in {order[s], NoPair}
  BY DEF StaysOut
<1>1. halted[s] \/ routes[s] = NoPair
  BY DEF FInv, PaidAreBarred, Barred
<1>2. ~SendOrder(s)
  BY <1>1 DEF SendOrder
<1>3. CASE UNCHANGED vars
  BY <1>3 DEF vars
<1>4. ASSUME NEW a \in Actors, StepOf(a) PROVE order' = order
  BY <1>4 DEF StepOf, Enable, Disable, Assign, Orphan, Demote, Promote, Load, Rebuild,
     Install, PickOn, PromoteOf, NewKey, Wipe, Clear
<1>5. ASSUME NEW t \in Slots, CommandOf(t) PROVE order' = order
  BY <1>5 DEF CommandOf, LiveOn, LiveOff, Unassign, Rekey, Delete, FeeReset, Pick,
     PanelToggle
<1>6. ASSUME NEW t \in Slots, OfSlot(t) PROVE order'[s] \in {order[s], NoPair}
  BY <1>2, <1>6 DEF OfSlot, SendOrder, Missed, FilledFree, FilledPaid, ReadZero,
     ReadNonzero, ProbeEnds, FInv, Types, TypeOK
<1>7. CASE Reload \/ RebuildTick \/ Restart
  BY <1>7 DEF Reload, RebuildTick, Restart, Memory
<1>8. QED
  BY <1>3, <1>4, <1>5, <1>6, <1>7 DEF Next

\* What the invariant says of the properties.
LEMMA FInvGives ==
  ASSUME FInv PROVE TypeOK /\ ProbeFollowsTariffHalt /\ PairKeepsASlot
<1>1. TypeOK /\ ProbeFollowsTariffHalt
  BY DEF FInv, Types
<1>2. PairKeepsASlot
  BY DEF FInv, PairsAreServedOrOwed, PairKeepsASlot, Serves, Owes
<1>3. QED
  BY <1>1, <1>2

-----------------------------------------------------------------------------
\* In every reachable state each coroutine is at a step of one of the programs
\* of the code, and the slots, pairs and halts are what its rest relies on.
THEOREM GuardInvariant == ASSUME FeeGuardAssumptions PROVE Spec => []FInv
<1>1. Init => FInv
  BY InitFInv
<1>2. FInv /\ [Next]_vars => FInv'
  BY StepFInv
<1>3. QED
  BY <1>1, <1>2, PTL DEF Spec

\* The types of the rows, the routes and the guards.
THEOREM GuardTypeCorrect == ASSUME FeeGuardAssumptions PROVE Spec => []TypeOK
<1>1. FInv => TypeOK
  BY FInvGives
<1>2. QED
  BY <1>1, GuardInvariant, PTL

\* A slot a paid fill was seen on sends no order before an operator sets it
\* free, whatever the routes, the copy of the states and restarts do
\* (_trip_fee_guard).
THEOREM PaidStaysOut == ASSUME FeeGuardAssumptions PROVE Spec => PaidSlotStaysOut
<1>1. FInv /\ [Next]_vars => [StaysOut]_vars
  BY StepStaysOut
<1>2. QED
  BY <1>1, GuardInvariant, PTL DEF Spec, PaidSlotStaysOut

\* A probe runs only where the tariff alone had halted the slot
\* (reset_fee_guard).
THEOREM ProbeIsOfTheTariff ==
  ASSUME FeeGuardAssumptions PROVE Spec => []ProbeFollowsTariffHalt
<1>1. FInv => ProbeFollowsTariffHalt
  BY FInvGives
<1>2. QED
  BY <1>1, GuardInvariant, PTL

\* With nobody at work a live pair has a slot that trades it, however many
\* slots, pairs and commands there are (demote_pair_to_shadow and its callers).
THEOREM LivePairIsServed == ASSUME FeeGuardAssumptions PROVE Spec => []PairKeepsASlot
<1>1. FInv => PairKeepsASlot
  BY FInvGives
<1>2. QED
  BY <1>1, GuardInvariant, PTL
=============================================================================
