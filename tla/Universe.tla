------------------------------ MODULE Universe ------------------------------
(***************************************************************************)
(* What a start of the bot does with the pairs of its configuration        *)
(* (universe.py, apply_universe in main.py, PairStateManager.initialize):  *)
(* it marks them in pairs_universe, brings the whitelist of the slots in   *)
(* line, prunes the rows of other pairs, subscribes, and gives new pairs a *)
(* row.  Every statement is committed by itself, the bot may die between   *)
(* two of them and start with another configuration, and the web panel,    *)
(* another process, assigns pairs and turns slots live all the while.      *)
(***************************************************************************)
EXTENDS FiniteSets

CONSTANTS
  Pairs, Slots, NoPair,
  Configs,     \* whitelists less blacklists the bot may be started with
  Reference    \* reference_only_symbols

UniverseAssumptions ==
  /\ NoPair \notin Pairs
  /\ Configs \subseteq SUBSET Pairs /\ Reference \subseteq Pairs

VARIABLES
  config,     \* of this start
  boot,       \* the next step of the start
  todo,       \* the pairs this step still has before it
  known, active,  \* pairs_universe: rows, and those with is_active
  listed,     \* live_pair_whitelist
  state,      \* pair_states; "none" is no row
  configs,    \* pair_configs
  assigned, slotLive,   \* webkey_slots
  subscribed, traded,   \* the streams' pairs and _states
  during,     \* history: pairs the panel dealt with since the pruning looked
  lost        \* history: pairs among them that were then pruned

vars == <<config, boot, todo, known, active, listed, state, configs, assigned, slotLive,
          subscribed, traded, during, lost>>

start == <<config, boot, todo>>
registry == <<known, active, configs>>
slots == <<assigned, slotLive>>
process == <<subscribed, traded>>
history == <<during, lost>>

Row(p) == state[p] # "none"
Rows == {p \in Pairs : Row(p)}
Assigned == {assigned[s] : s \in Slots} \ {NoPair}
Tradable == config \ Reference

\* each step works off the pairs it was begun with
Goto(step, S) == boot' = step /\ todo' = S /\ UNCHANGED config
Ahead(p) == boot' = boot /\ todo' = todo \ {p} /\ UNCHANGED config
At(step) == boot = step

-----------------------------------------------------------------------------
(* build.                                                                  *)

StartUp(c) ==
  /\ At("down") /\ config' = c
  /\ boot' = "mark" /\ todo' = c
  /\ active' = {}
  /\ UNCHANGED <<known, configs, listed, state, slots, process, history>>

\* _save_universe
Mark(p) ==
  /\ At("mark") /\ p \in todo
  /\ known' = known \cup {p} /\ active' = active \cup {p}
  /\ Ahead(p)
  /\ UNCHANGED <<configs, listed, state, slots, process, history>>

\* _sync_live_pair_whitelist: nothing for an empty target
SyncReads ==
  /\ At("mark") /\ todo = {}
  /\ IF Tradable = {} THEN Goto("prune", {}) ELSE Goto("list", Tradable \ listed)
  /\ UNCHANGED <<registry, listed, state, slots, process, history>>

List(p) ==
  /\ At("list") /\ p \in todo
  /\ listed' = listed \cup {p}
  /\ Ahead(p)
  /\ UNCHANGED <<registry, state, slots, process, history>>

Unlistable == (listed \ Tradable) \ Assigned

SyncLooks ==
  /\ At("list") /\ todo = {}
  /\ Goto("unlist", Unlistable)
  /\ UNCHANGED <<registry, listed, state, slots, process, history>>

Unlist ==
  /\ At("unlist") /\ listed' = listed \ todo
  /\ Goto("prune", {})
  /\ UNCHANGED <<registry, state, slots, process, history>>

\* _prune_non_whitelist: nothing for an empty whitelist.  The variant does not
\* spare live pairs.
Prunable_all == Rows \ config
Prunable == {p \in Rows \ config : state[p] # "live"}

PruneLooks ==
  /\ At("prune")
  /\ IF config = {} THEN Goto("subscribe", {}) /\ UNCHANGED during
     ELSE Goto("pruneStates", Prunable) /\ during' = {}
  /\ UNCHANGED <<registry, listed, state, slots, process, lost>>

PruneStates ==
  /\ At("pruneStates")
  /\ state' = [p \in Pairs |-> IF p \in todo THEN "none" ELSE state[p]]
  /\ lost' = lost \cup (todo \cap during)
  /\ Goto("pruneConfigs", {})
  /\ UNCHANGED <<registry, listed, slots, process, during>>

PruneConfigs ==
  /\ At("pruneConfigs")
  /\ configs' = {p \in configs : p \in config \/ state[p] = "live"}
  /\ Goto("pruneUniverse", {})
  /\ UNCHANGED <<known, active, listed, state, slots, process, history>>

PruneUniverse ==
  /\ At("pruneUniverse")
  /\ known' = known \cap config /\ active' = active \cap config
  /\ Goto("subscribe", {})
  /\ UNCHANGED <<configs, listed, state, slots, process, history>>

-----------------------------------------------------------------------------
(* apply_universe and initialize.                                          *)

Subscribe ==
  /\ At("subscribe") /\ subscribed' = config
  /\ Goto("load", {})
  /\ UNCHANGED <<registry, listed, state, slots, traded, history>>

LoadStates ==
  /\ At("load") /\ traded' = Rows
  /\ Goto("seed", config \ Rows)
  /\ UNCHANGED <<registry, listed, state, slots, subscribed, history>>

\* INSERT OR IGNORE, then the config the pair has not got
Seed(p) ==
  /\ At("seed") /\ p \in todo
  /\ state' = IF Row(p) THEN state ELSE [state EXCEPT ![p] = "shadow"]
  /\ configs' = configs \cup {p}
  /\ Ahead(p)
  /\ UNCHANGED <<known, active, listed, slots, process, history>>

Ready ==
  /\ At("seed") /\ todo = {}
  /\ traded' = Rows
  /\ Goto("up", {})
  /\ UNCHANGED <<registry, listed, state, slots, subscribed, history>>

Dies ==
  /\ ~At("down") /\ boot' = "down" /\ todo' = {}
  /\ subscribed' = {} /\ traded' = {}
  /\ UNCHANGED <<config, registry, listed, state, slots, history>>

-----------------------------------------------------------------------------
(* The panel (data.py).                                                    *)

Other(s, p) == \E x \in Slots \ {s} : assigned[x] = p /\ slotLive[x]
Shadowed(f, s, p) == IF Other(s, p) \/ f[p] = "none" THEN f ELSE [f EXCEPT ![p] = "shadow"]

\* assign_pair
Displaced(s, p) ==
  IF assigned[s] \in {NoPair, p} THEN state ELSE Shadowed(state, s, assigned[s])
Promoted(s, p, f) == IF slotLive[s] THEN [f EXCEPT ![p] = "live"] ELSE f

AssignPair(s, p) ==
  /\ listed = {} \/ p \in listed
  /\ slotLive[s] => Row(p)
  /\ assigned' = [assigned EXCEPT ![s] = p]
  /\ state' = Promoted(s, p, Displaced(s, p))
  /\ during' = during \cup {p} /\ lost' = IF slotLive[s] THEN lost \ {p} ELSE lost
  /\ UNCHANGED <<start, registry, listed, slotLive, process>>

Unassign(s) ==
  /\ assigned[s] # NoPair
  /\ assigned' = [assigned EXCEPT ![s] = NoPair] /\ slotLive' = [slotLive EXCEPT ![s] = FALSE]
  /\ state' = Shadowed(state, s, assigned[s])
  /\ UNCHANGED <<start, registry, listed, process, history>>

\* set_account
LiveOn(s) ==
  /\ assigned[s] # NoPair /\ Row(assigned[s]) /\ ~slotLive[s]
  /\ slotLive' = [slotLive EXCEPT ![s] = TRUE]
  /\ state' = [state EXCEPT ![assigned[s]] = "live"]
  /\ during' = during \cup {assigned[s]} /\ lost' = lost \ {assigned[s]}
  /\ UNCHANGED <<start, registry, listed, assigned, process>>

LiveOff(s) ==
  /\ slotLive[s] /\ slotLive' = [slotLive EXCEPT ![s] = FALSE]
  /\ state' = Shadowed(state, s, assigned[s])
  /\ UNCHANGED <<start, registry, listed, assigned, process, history>>

-----------------------------------------------------------------------------
Init ==
  /\ config = {} /\ boot = "down" /\ todo = {}
  /\ known = {} /\ active = {} /\ listed = {} /\ configs = {}
  /\ state = [p \in Pairs |-> "none"]
  /\ assigned = [s \in Slots |-> NoPair] /\ slotLive = [s \in Slots |-> FALSE]
  /\ subscribed = {} /\ traded = {} /\ during = {} /\ lost = {}

Next ==
  \/ \E c \in Configs : StartUp(c)
  \/ \E p \in Pairs : Mark(p) \/ List(p) \/ Seed(p)
  \/ SyncReads \/ SyncLooks \/ Unlist
  \/ PruneLooks \/ PruneStates \/ PruneConfigs \/ PruneUniverse
  \/ Subscribe \/ LoadStates \/ Ready \/ Dies
  \/ \E s \in Slots : Unassign(s) \/ LiveOn(s) \/ LiveOff(s) \/ \E p \in Pairs : AssignPair(s, p)

Spec == Init /\ [][Next]_vars

-----------------------------------------------------------------------------
TypeOK ==
  /\ boot \in {"down", "mark", "list", "unlist", "prune", "pruneStates", "pruneConfigs",
               "pruneUniverse", "subscribe", "load", "seed", "up"}
  /\ state \in [Pairs -> {"none", "shadow", "live"}]
  /\ config \subseteq Pairs /\ todo \subseteq Pairs
  /\ known \subseteq Pairs /\ active \subseteq Pairs /\ listed \subseteq Pairs
  /\ configs \subseteq Pairs /\ subscribed \subseteq Pairs /\ traded \subseteq Pairs
  /\ during \subseteq Pairs /\ lost \subseteq Pairs
  /\ assigned \in [Slots -> Pairs \cup {NoPair}] /\ slotLive \in [Slots -> BOOLEAN]

\* "The slot is ALREADY live: the pair it now points at must be live too": no
\* start, with whatever configuration and wherever the last one died, takes
\* its pair from a live slot, and no delete of another slot's pair does, but
\* for a pair the panel turned live between the look of the pruning and its
\* delete.
LiveSlotsTrade ==
  \A s \in Slots : slotLive[s] => state[assigned[s]] = "live" \/ assigned[s] \in lost

\* The inductive invariant: a live slot has a pair, and of the pairs the
\* pruning goes by a live one was turned live since it looked.
UniverseInv ==
  /\ TypeOK
  /\ \A s \in Slots : slotLive[s] => assigned[s] # NoPair
  /\ At("pruneStates") => \A p \in todo : state[p] = "live" => p \in during
  /\ LiveSlotsTrade

=============================================================================
