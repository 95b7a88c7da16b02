------------------------------ MODULE FeeGuard ------------------------------
(***************************************************************************)
(* Which slot may trade which pair, and who takes that right away: the     *)
(* rows of webkey_slots (webkey/credentials.py), the state of each pair    *)
(* (pair_states and the copy PairStateManager keeps of it), the routes of  *)
(* LiveExecutorPool, the fee guard of each LiveExecutor, the fee watchdog, *)
(* and the operator's commands of cmd_slot.py, cmd_webkey.py and the panel. *)
(*                                                                         *)
(* A coroutine is the list of the steps it still has to take, todo[a]; a   *)
(* step is what happens between two awaits.  The database keeps key, live, *)
(* pairOf and state over a restart, everything else is memory.             *)
(***************************************************************************)
EXTENDS Integers, Sequences, FiniteSets

CONSTANTS
  Slots, Pairs, NoPair,
  FirstPair,       \* the pair every slot starts on
  CONFIRMATIONS,   \* fee_watchdog.CONFIRMATIONS
  MaxCommands,     \* bound: commands of the operator, by Telegram and panel
  MaxOrders,       \* bound: entry orders
  MaxRestarts      \* bound: restarts of the bot

FeeGuardAssumptions ==
  /\ NoPair \notin Pairs /\ FirstPair \in Pairs /\ IsFiniteSet(Slots)
  /\ {"op", "loop", "watch"} \cap Slots = {}
  /\ CONFIRMATIONS \in Nat \ {0}
  /\ {MaxCommands, MaxOrders, MaxRestarts} \subseteq Nat

VARIABLES
  key, live, pairOf,  \* webkey_blob present, live_enabled, assigned_pair
  state, cache,       \* pair_states.state, and _states of the manager
  built, routes,      \* _executors, and _pair_to_slots read by slot
  halted, preventive, probe,  \* of the executors
  strikes,            \* of the watchdog
  order,              \* the pair of a slot's order on its way, or NoPair
  todo,
  commands, orders, restarts, \* history: counts
  caught,             \* history: a paid fill halted the slot, not set free since
  cause,              \* history: why the slot was last halted
  raced               \* history: two coroutines touched the slots at once

vars == <<key, live, pairOf, state, cache, built, routes, halted, preventive,
          probe, strikes, order, todo, commands, orders, restarts,
          caught, cause, raced>>

rows == <<key, live, pairOf>>
pairs == <<state, cache>>
pool == <<built, routes>>
guard == <<halted, preventive, probe>>
counts == <<commands, orders, restarts>>

Actors == Slots \cup {"op", "loop", "watch"}

\* is_live_active
Active(s) == live[s] /\ pairOf[s] # NoPair /\ key[s]

\* _pair_has_another_slot; the commands and the panel do not ask for a key
OtherLive(s, p) == \E o \in Slots \ {s} : pairOf[o] = p /\ live[o]
AnotherSlot(s, p) == \E o \in Slots \ {s} : pairOf[o] = p /\ live[o] /\ key[o]

Idle(a) == todo[a] = <<>>
Doing(a, what) == ~Idle(a) /\ Head(todo[a]).do = what
Arg(a) == Head(todo[a])
Then(a, more) == todo' = [todo EXCEPT ![a] = more \o Tail(@)]

\* the operator's command and another coroutine are both under way
Races(a) == raced' = (raced \/ (IF a = "op" THEN \E b \in Actors \ {"op"} : ~Idle(b)
                                            ELSE ~Idle("op")))

-----------------------------------------------------------------------------
(* The steps.                                                              *)

\* set_live_enabled(s, True)
Enable(a) ==
  /\ Doing(a, "enable")
  /\ live' = [live EXCEPT ![Arg(a).slot] = TRUE]
  /\ caught' = [caught EXCEPT ![Arg(a).slot] = FALSE]
  /\ Then(a, <<>>) /\ Races(a)
  /\ UNCHANGED <<key, pairOf, pairs, pool, guard, strikes, order, counts, cause>>

\* set_live_enabled(s, False)
Disable(a) ==
  /\ Doing(a, "disable")
  /\ live' = [live EXCEPT ![Arg(a).slot] = FALSE]
  /\ Then(a, <<>>) /\ Races(a)
  /\ UNCHANGED <<key, pairOf, pairs, pool, guard, strikes, order, counts, caught, cause>>

\* assign_pair: the row, then the pair the slot leaves
Assign(a) ==
  /\ Doing(a, "assign")
  /\ LET s == Arg(a).slot
         old == pairOf[s]
     IN  /\ pairOf' = [pairOf EXCEPT ![s] = Arg(a).pair]
         /\ Then(a, IF old \in {NoPair, Arg(a).pair} THEN <<>>
                    ELSE <<[do |-> "orphan", slot |-> s, pair |-> old]>>)
  /\ Races(a)
  /\ UNCHANGED <<key, live, pairs, pool, guard, strikes, order, counts, caught, cause>>

\* the last live slot of a pair has gone: is there another one?
Orphan(a) ==
  /\ Doing(a, "orphan")
  /\ Then(a, IF AnotherSlot(Arg(a).slot, Arg(a).pair) THEN <<>>
             ELSE <<[do |-> "demote", pair |-> Arg(a).pair]>>)
  /\ Races(a)
  /\ UNCHANGED <<rows, pairs, pool, guard, strikes, order, counts, caught, cause>>

\* demote_pair_to_shadow writes the table behind the manager's back
Demote(a) ==
  /\ Doing(a, "demote")
  /\ state' = [state EXCEPT ![Arg(a).pair] = "shadow"]
  /\ Then(a, <<>>) /\ Races(a)
  /\ UNCHANGED <<rows, cache, pool, guard, strikes, order, counts, caught, cause>>

\* manual_promote: nothing at all when the copy already says so
Promote(a) ==
  /\ Doing(a, "promote")
  /\ LET p == Arg(a).pair
         same == cache[p] = Arg(a).to
     IN  /\ state' = IF same THEN state ELSE [state EXCEPT ![p] = Arg(a).to]
         /\ Then(a, IF same THEN <<>> ELSE <<[do |-> "load"]>>)
         /\ IF same /\ state[p] # cache[p] THEN raced' = TRUE ELSE Races(a)
  /\ UNCHANGED <<rows, cache, pool, guard, strikes, order, counts, caught, cause>>

\* _load_states_from_db, at the end of a transition and every minute
Load(a) ==
  /\ Doing(a, "load")
  /\ cache' = state
  /\ Then(a, <<>>)
  /\ UNCHANGED <<rows, state, pool, guard, strikes, order, counts, caught, cause, raced>>

Reload ==
  /\ cache # state
  /\ cache' = state
  /\ UNCHANGED <<rows, state, pool, guard, strikes, order, todo, counts,
                 caught, cause, raced>>

\* rebuild_from_store: an executor new to the pool is hydrated before the
\* routes are installed, and the routes are those read before that
Actives == {s \in Slots : Active(s)}
RouteMap == [s \in Slots |-> IF Active(s) THEN pairOf[s] ELSE NoPair]

Rebuilt(a, rest) ==
  /\ built' = built \cup Actives
  /\ IF Actives \subseteq built
     THEN routes' = RouteMap /\ todo' = [todo EXCEPT ![a] = rest]
     ELSE /\ todo' = [todo EXCEPT ![a] = <<[do |-> "install", map |-> RouteMap]>> \o rest]
          /\ UNCHANGED routes

Rebuild(a) ==
  /\ Doing(a, "rebuild")
  /\ Rebuilt(a, Tail(todo[a]))
  /\ UNCHANGED <<rows, pairs, guard, strikes, order, counts, caught, cause, raced>>

Install(a) ==
  /\ Doing(a, "install")
  /\ routes' = Arg(a).map
  /\ Then(a, <<>>)
  /\ UNCHANGED <<rows, pairs, built, guard, strikes, order, counts, caught, cause, raced>>

\* live_pool_rebuild_loop
Stale == Actives \ built # {} \/ routes # RouteMap

RebuildTick ==
  /\ Idle("loop") /\ Stale
  /\ Rebuilt("loop", <<>>)
  /\ UNCHANGED <<rows, pairs, guard, strikes, order, counts, caught, cause, raced>>

\* the second half of pick: a slot with a key goes live at once
PickOn(a) ==
  /\ Doing(a, "pickOn")
  /\ LET s == Arg(a).slot
     IN  Then(a, IF ~key[s] THEN <<>>
                 ELSE (IF live[s] THEN <<>> ELSE <<[do |-> "enable", slot |-> s]>>)
                      \o <<[do |-> "promote", pair |-> Arg(a).pair, to |-> "live"],
                           [do |-> "rebuild"]>>)
  /\ UNCHANGED <<rows, pairs, pool, guard, strikes, order, counts, caught, cause, raced>>

PromoteOf(a) ==
  /\ Doing(a, "promoteOf")
  /\ LET p == pairOf[Arg(a).slot]
     IN  Then(a, IF p = NoPair THEN <<>> ELSE <<[do |-> "promote", pair |-> p, to |-> "live"]>>)
  /\ UNCHANGED <<rows, pairs, pool, guard, strikes, order, counts, caught, cause, raced>>

\* set_webkey: another account
NewKey(a) ==
  /\ Doing(a, "newKey")
  /\ key' = [key EXCEPT ![Arg(a).slot] = TRUE]
  /\ caught' = [caught EXCEPT ![Arg(a).slot] = FALSE]
  /\ Then(a, <<>>) /\ Races(a)
  /\ UNCHANGED <<live, pairOf, pairs, pool, guard, strikes, order, counts, cause>>

\* delete
Wipe(a) ==
  /\ Doing(a, "wipe")
  /\ LET s == Arg(a).slot
         p == pairOf[s]
     IN  /\ key' = [key EXCEPT ![s] = FALSE]
         /\ live' = [live EXCEPT ![s] = FALSE]
         /\ Then(a, IF p = NoPair THEN <<>> ELSE <<[do |-> "orphan", slot |-> s, pair |-> p]>>)
  /\ Races(a)
  /\ UNCHANGED <<pairOf, pairs, pool, guard, strikes, order, counts, caught, cause>>

\* clear_slot_restrictions
Clear(a) ==
  /\ Doing(a, "clear")
  /\ LET s == Arg(a).slot
     IN  /\ halted' = [halted EXCEPT ![s] = FALSE]
         /\ preventive' = [preventive EXCEPT ![s] = FALSE]
         /\ probe' = [probe EXCEPT ![s] = FALSE]
         /\ caught' = [caught EXCEPT ![s] = FALSE]
  /\ Then(a, <<>>)
  /\ UNCHANGED <<rows, pairs, pool, strikes, order, counts, cause, raced>>

-----------------------------------------------------------------------------
(* The commands.                                                           *)

Command(program) ==
  /\ Idle("op") /\ commands < MaxCommands
  /\ commands' = commands + 1
  /\ todo' = [todo EXCEPT !["op"] = program]

\* the pair a slot leaves goes back to shadow unless another slot is live on it
Leave(s) ==
  IF pairOf[s] = NoPair \/ OtherLive(s, pairOf[s]) THEN <<>>
  ELSE <<[do |-> "promote", pair |-> pairOf[s], to |-> "shadow"]>>

LiveOn(s) ==
  /\ pairOf[s] # NoPair
  /\ Command(<<[do |-> "enable", slot |-> s], [do |-> "promoteOf", slot |-> s], [do |-> "rebuild"]>>)
  /\ UNCHANGED <<rows, pairs, pool, guard, strikes, order, orders, restarts, caught, cause, raced>>

LiveOff(s) ==
  /\ Command(Leave(s) \o <<[do |-> "disable", slot |-> s], [do |-> "rebuild"]>>)
  /\ UNCHANGED <<rows, pairs, pool, guard, strikes, order, orders, restarts, caught, cause, raced>>

Pick(s, p) ==
  /\ Command((IF pairOf[s] = p THEN <<>> ELSE Leave(s))
             \o <<[do |-> "assign", slot |-> s, pair |-> p], [do |-> "pickOn", slot |-> s, pair |-> p]>>)
  /\ UNCHANGED <<rows, pairs, pool, guard, strikes, order, orders, restarts, caught, cause, raced>>

Unassign(s) ==
  /\ Command(<<[do |-> "assign", slot |-> s, pair |-> NoPair], [do |-> "disable", slot |-> s]>>)
  /\ UNCHANGED <<rows, pairs, pool, guard, strikes, order, orders, restarts, caught, cause, raced>>

Rekey(s) ==
  /\ Command(<<[do |-> "newKey", slot |-> s], [do |-> "clear", slot |-> s]>>)
  /\ UNCHANGED <<rows, pairs, pool, guard, strikes, order, orders, restarts, caught, cause, raced>>

Delete(s) ==
  /\ key[s]
  /\ Command(<<[do |-> "wipe", slot |-> s], [do |-> "clear", slot |-> s]>>)
  /\ UNCHANGED <<rows, pairs, pool, guard, strikes, order, orders, restarts, caught, cause, raced>>

\* fee_reset: reset_fee_guard, then the flag; the pair stays where it is
FeeReset(s) ==
  /\ Command(<<[do |-> "enable", slot |-> s]>>)
  /\ halted' = [halted EXCEPT ![s] = FALSE]
  /\ probe' = [probe EXCEPT ![s] = @ \/ (halted[s] /\ preventive[s])]
  /\ preventive' = [preventive EXCEPT ![s] = @ /\ ~halted[s]]
  /\ caught' = [caught EXCEPT ![s] = FALSE]
  /\ UNCHANGED <<rows, pairs, pool, strikes, order, orders, restarts, cause, raced>>

\* set_account of the panel, one transaction of another process
PanelToggle(s, on) ==
  /\ commands < MaxCommands /\ commands' = commands + 1
  /\ on => key[s] /\ pairOf[s] # NoPair
  /\ live' = [live EXCEPT ![s] = on]
  /\ state' = IF pairOf[s] = NoPair \/ (~on /\ OtherLive(s, pairOf[s])) THEN state
              ELSE [state EXCEPT ![pairOf[s]] = IF on THEN "live" ELSE "shadow"]
  /\ caught' = IF on THEN [caught EXCEPT ![s] = FALSE] ELSE caught
  /\ raced' = (raced \/ \E a \in Actors : ~Idle(a))
  /\ UNCHANGED <<key, pairOf, cache, pool, guard, strikes, order, todo, orders, restarts, cause>>

-----------------------------------------------------------------------------
(* The fee guard and the watchdog.                                         *)

\* _trip_fee_guard: the halt first, then the database, the flag before the
\* question who else serves the pair.  The variants leave the flag alone, ask
\* first, or leave a probe running.
Stops_unsaved(s, p) == <<[do |-> "orphan", slot |-> s, pair |-> p]>>
Stops_checksFirst(s, p) == <<[do |-> "orphan", slot |-> s, pair |-> p], [do |-> "disable", slot |-> s]>>
Stops(s, p) == <<[do |-> "disable", slot |-> s], [do |-> "orphan", slot |-> s, pair |-> p]>>
ProbeAtTrip_kept(s) == probe
ProbeAtTrip(s) == [probe EXCEPT ![s] = FALSE]

Trip(a, s, p, tariff) ==
  IF halted[s] THEN UNCHANGED <<guard, todo, cause, raced>>
  ELSE /\ halted' = [halted EXCEPT ![s] = TRUE]
       /\ preventive' = [preventive EXCEPT ![s] = tariff]
       /\ probe' = ProbeAtTrip(s)
       /\ cause' = [cause EXCEPT ![s] = IF tariff THEN "tariff" ELSE "fill"]
       /\ todo' = [todo EXCEPT ![a] = Stops(s, p)]
       /\ raced' = (raced \/ p # pairOf[s] \/ ~Idle("op"))

\* place_ioc_open of a routed slot
SendOrder(s) ==
  /\ order[s] = NoPair /\ Idle(s) /\ orders < MaxOrders
  /\ routes[s] # NoPair /\ cache[routes[s]] = "live"
  /\ key[s] /\ ~halted[s]
  /\ order' = [order EXCEPT ![s] = routes[s]] /\ orders' = orders + 1
  /\ UNCHANGED <<rows, pairs, pool, guard, strikes, todo, commands, restarts,
                 caught, cause, raced>>

\* no fill
Missed(s) ==
  /\ order[s] # NoPair /\ Idle(s)
  /\ order' = [order EXCEPT ![s] = NoPair]
  /\ UNCHANGED <<rows, pairs, pool, guard, strikes, todo, counts, caught, cause, raced>>

\* a fill, or the fill of the close of the position it opened
FilledFree(s) ==
  /\ order[s] # NoPair /\ Idle(s)
  /\ order' = [order EXCEPT ![s] = NoPair]
  /\ probe' = [probe EXCEPT ![s] = FALSE]
  /\ UNCHANGED <<rows, pairs, pool, halted, preventive, strikes, todo, counts,
                 caught, cause, raced>>

FilledPaid(s) ==
  /\ order[s] # NoPair /\ Idle(s)
  /\ order' = [order EXCEPT ![s] = NoPair]
  /\ Trip(s, s, order[s], FALSE)
  /\ caught' = [caught EXCEPT ![s] = @ \/ ~halted[s]]
  /\ UNCHANGED <<rows, pairs, pool, strikes, counts>>

\* check_slot, for a slot that is live in the database; the executor is
\* known once it is routed
Watched(s) == Idle("watch") /\ Active(s) /\ ~(routes[s] # NoPair /\ probe[s])

ReadZero(s) ==
  /\ Watched(s)
  /\ strikes' = [strikes EXCEPT ![s] = 0]
  /\ UNCHANGED <<rows, pairs, pool, guard, order, todo, counts, caught, cause, raced>>

\* the account is charged, or blocked, or the exchange errs
Capped(n) == IF n > CONFIRMATIONS THEN CONFIRMATIONS ELSE n
ReadNonzero(s) ==
  /\ Watched(s)
  /\ strikes' = [strikes EXCEPT ![s] = Capped(@ + 1)]
  /\ IF strikes'[s] >= CONFIRMATIONS /\ routes[s] # NoPair
     THEN Trip("watch", s, pairOf[s], TRUE)
     ELSE UNCHANGED <<guard, todo, cause, raced>>
  /\ UNCHANGED <<rows, pairs, pool, order, counts, caught>>

\* FEE_PROBE_WINDOW_SEC
ProbeEnds(s) ==
  /\ probe[s]
  /\ probe' = [probe EXCEPT ![s] = FALSE]
  /\ UNCHANGED <<rows, pairs, pool, halted, preventive, strikes, order, todo,
                 counts, caught, cause, raced>>

-----------------------------------------------------------------------------
Memory(value) == [s \in Slots |-> value]

\* The bot ends and starts: the rows decide.  A halt whose flag was not yet
\* saved is gone.
Restart ==
  /\ restarts < MaxRestarts /\ restarts' = restarts + 1
  /\ cache' = state /\ built' = Actives /\ routes' = RouteMap
  /\ halted' = Memory(FALSE) /\ preventive' = Memory(FALSE) /\ probe' = Memory(FALSE)
  /\ strikes' = Memory(0) /\ cause' = Memory("none")
  /\ order' = Memory(NoPair)
  /\ todo' = [a \in Actors |-> <<>>]
  /\ caught' = [s \in Slots |-> caught[s] /\ Idle(s)]
  /\ raced' = (raced \/ \E a \in Actors : ~Idle(a))
  /\ UNCHANGED <<rows, state, commands, orders>>

Init ==
  /\ key = Memory(TRUE)
  /\ pairOf = Memory(FirstPair) /\ live \in [Slots -> BOOLEAN]
  /\ state = [p \in Pairs |-> IF \E s \in Slots : live[s] /\ pairOf[s] = p
                              THEN "live" ELSE "shadow"]
  /\ cache = state /\ built = Actives /\ routes = RouteMap
  /\ halted = Memory(FALSE) /\ preventive = Memory(FALSE) /\ probe = Memory(FALSE)
  /\ strikes = Memory(0) /\ cause = Memory("none")
  /\ order = Memory(NoPair) /\ todo = [a \in Actors |-> <<>>]
  /\ caught = Memory(FALSE)
  /\ commands = 0 /\ orders = 0 /\ restarts = 0 /\ raced = FALSE

StepOf(a) ==
  \/ Enable(a) \/ Disable(a) \/ Assign(a) \/ Orphan(a) \/ Demote(a) \/ Promote(a)
  \/ Load(a) \/ Rebuild(a) \/ Install(a) \/ PickOn(a) \/ PromoteOf(a)
  \/ NewKey(a) \/ Wipe(a) \/ Clear(a)

CommandOf(s) ==
  \/ LiveOn(s) \/ LiveOff(s) \/ Unassign(s) \/ Rekey(s) \/ Delete(s) \/ FeeReset(s)
  \/ \E p \in Pairs : Pick(s, p)
  \/ \E on \in BOOLEAN : PanelToggle(s, on)

OfSlot(s) ==
  \/ SendOrder(s) \/ Missed(s) \/ FilledFree(s) \/ FilledPaid(s)
  \/ ReadZero(s) \/ ReadNonzero(s) \/ ProbeEnds(s)

Next ==
  \/ \E a \in Actors : StepOf(a)
  \/ \E s \in Slots : CommandOf(s) \/ OfSlot(s)
  \/ Reload \/ RebuildTick \/ Restart

Spec == Init /\ [][Next]_vars

-----------------------------------------------------------------------------
TypeOK ==
  /\ key \in [Slots -> BOOLEAN] /\ live \in [Slots -> BOOLEAN]
  /\ pairOf \in [Slots -> Pairs \cup {NoPair}]
  /\ state \in [Pairs -> {"live", "shadow"}] /\ cache \in [Pairs -> {"live", "shadow"}]
  /\ built \subseteq Slots /\ routes \in [Slots -> Pairs \cup {NoPair}]
  /\ halted \in [Slots -> BOOLEAN] /\ preventive \in [Slots -> BOOLEAN]
  /\ probe \in [Slots -> BOOLEAN]
  /\ strikes \in [Slots -> 0 .. CONFIRMATIONS]
  /\ order \in [Slots -> Pairs \cup {NoPair}]

\* A slot a paid fill was seen on sends no order before an operator sets it
\* free, stale routes, a stale copy of the pair states and a restart
\* included (_trip_fee_guard).
StaysOut == \A s \in Slots : caught[s] => order'[s] \in {order[s], NoPair}
PaidSlotStaysOut == [][StaysOut]_vars

\* The watchdog is silent only where the tariff alone halted the slot and an
\* operator lifted that halt: never on a halted slot, never after a paid fill
\* (reset_fee_guard).
ProbeFollowsTariffHalt ==
  \A s \in Slots : probe[s] => ~halted[s] /\ cause[s] = "tariff"

\* Once nobody is at work, a live pair has a slot that trades it: every way a
\* slot loses its pair ends with the question who else serves it.  Not when
\* two coroutines changed the slots at once, or the operator's demotion met a
\* stale copy of the state.
PairKeepsASlot ==
  (~raced /\ \A a \in Actors : Idle(a)) =>
    \A p \in Pairs : state[p] = "live" => \E s \in Slots : live[s] /\ pairOf[s] = p

=============================================================================
