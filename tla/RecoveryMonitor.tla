--------------------------- MODULE RecoveryMonitor ---------------------------
(***************************************************************************)
(* The recovery monitor (main.py recovery_monitor_loop): for a live slot   *)
(* in recovery mode it reads, every 15 s, what the account has won or lost *)
(* in 359 days, and turns live off when the loss is deeper than the cap or *)
(* has been won back.  The page it reads is sometimes wrong, so a stop     *)
(* needs a second reading, and a reading far from the last one is passed   *)
(* over once.  Slots may share an account, which is stopped as a whole.    *)
(* The operator and the panel act between any two of the monitor's awaits. *)
(***************************************************************************)
EXTENDS Integers, FiniteSets, FiniteSetsExt

CONSTANTS
  Slots,           \* slot numbers, in the order list_all gives them
  Accounts, Pairs,
  PairOf,          \* assigned_pair of each slot
  FirstAccount,    \* the account the slots share at first
  Amounts,         \* what the page may show
  Cap, Buffer,     \* recovery_cap_usdt, recovery_buffer_usdt
  CONFIRM_TOL, MAX_CYCLE_DELTA,
  Unread,
  MaxMoves, MaxWrong, MaxButtons   \* bounds: the account's moves, wrong readings, commands

RecoveryAssumptions ==
  /\ IsFiniteSet(Slots) /\ Slots \subseteq Nat /\ PairOf \in [Slots -> Pairs]
  /\ FirstAccount \in Accounts
  /\ Amounts \subseteq Int /\ Unread \notin Amounts
  /\ {Cap, Buffer, CONFIRM_TOL, MAX_CYCLE_DELTA, MaxMoves, MaxWrong, MaxButtons} \subseteq Nat
  /\ Buffer < Cap

VARIABLES
  pnl,        \* of each account, as it really is
  account,    \* whose webkey the slot holds
  live,       \* live_enabled
  mode,       \* recovery_mode
  armed,      \* recovery_baseline_ts is set
  row, copy,  \* pairs that are live in pair_states, and as the bot knows
  last,       \* last_pnl
  ahead,      \* slots of this pass still to be visited, as listed
  stopped,    \* stopped_this_cycle
  job,        \* where the monitor is
  moves, wrongs, buttons,
  true,       \* history: the last right first reading of the slot, since the bot runs
  run,        \* history: wrong readings of the slot in a row
  since,      \* history: wrong readings of the slot since its last right first one
  crossed,    \* history: a reading of this visit was right and called for the stop
  touched     \* history: slots a command was given for since the visit began

vars == <<pnl, account, live, mode, armed, row, copy, last, ahead, stopped, job,
          moves, wrongs, buttons, true, run, since, crossed, touched>>

rows == <<account, live, mode, armed>>
pairs == <<row, copy>>
pass == <<ahead, stopped>>
bounds == <<moves, buttons>>
world == <<pnl, rows, pairs, bounds>>
history == <<true, run, since, crossed, touched>>

Waiting == [at |-> "wait", slot |-> 0, account |-> Unread, why |-> "none", first |-> Unread, targets |-> {}]
Nothing == job' = Waiting
Leave(s) == ahead' = ahead \ {s}
At(where) == job.at = where
S == job.slot

-----------------------------------------------------------------------------
(* The pass.                                                               *)

BeginPass ==
  /\ At("wait") /\ ahead = {}
  /\ ahead' = {s \in Slots : live[s]} /\ stopped' = {}
  /\ UNCHANGED <<world, last, job, wrongs, history>>

Visit ==
  /\ At("wait") /\ ahead # {}
  /\ LET s == Min(ahead)
     IN  IF s \in stopped \/ ~mode[s] THEN Leave(s) /\ UNCHANGED <<job, crossed, touched>>
         ELSE /\ job' = [Waiting EXCEPT !.at = "read", !.slot = s, !.account = account[s]]
              /\ crossed' = FALSE /\ touched' = {}
              /\ UNCHANGED ahead
  /\ UNCHANGED <<world, stopped, last, wrongs, true, run, since>>

\* no client, no answer, an answer out of time
NoReading ==
  /\ At("read") \/ At("confirm")
  /\ Nothing /\ Leave(S)
  /\ UNCHANGED <<world, stopped, last, wrongs, history>>

\* what the page shows
Shows(v) ==
  \/ v = pnl[job.account] /\ UNCHANGED wrongs
  \/ v # pnl[job.account] /\ wrongs < MaxWrong /\ wrongs' = wrongs + 1

Remember(v, why) ==
  LET right == v = pnl[job.account]
  IN  /\ run' = [run EXCEPT ![S] = IF right THEN 0 ELSE @ + 1]
      /\ crossed' = (crossed \/ (right /\ why # "none"))

Calls(v) == IF v <= -Cap THEN "cap" ELSE IF v >= -Buffer THEN "back" ELSE "none"

Implausible(s, v) ==
  last[s] # Unread /\ (v - last[s] > MAX_CYCLE_DELTA \/ last[s] - v > MAX_CYCLE_DELTA)

\* the reading is kept also when it is passed over
Read(v) ==
  /\ At("read") /\ Shows(v)
  /\ Remember(v, Calls(v))
  /\ IF v = pnl[job.account]
     THEN true' = [true EXCEPT ![S] = v] /\ since' = [since EXCEPT ![S] = 0]
     ELSE since' = [since EXCEPT ![S] = @ + 1] /\ UNCHANGED true
  /\ last' = [last EXCEPT ![S] = v]
  /\ IF Implausible(S, v) THEN Nothing /\ Leave(S)
     ELSE IF Calls(v) # "none"
          THEN job' = [job EXCEPT !.at = "confirm", !.why = Calls(v), !.first = v] /\ UNCHANGED ahead
     ELSE IF armed[S] THEN Nothing /\ Leave(S)
     ELSE job' = [job EXCEPT !.at = "arm"] /\ UNCHANGED ahead
  /\ UNCHANGED <<world, stopped, touched>>

Arm ==
  /\ At("arm") /\ armed' = [armed EXCEPT ![S] = TRUE]
  /\ Nothing /\ Leave(S)
  /\ UNCHANGED <<pnl, account, live, mode, pairs, stopped, last, bounds, wrongs, history>>

Agrees(v) ==
  v - job.first <= CONFIRM_TOL /\ job.first - v <= CONFIRM_TOL /\ Calls(v) = job.why

Confirm(v) ==
  /\ At("confirm") /\ Shows(v)
  /\ Remember(v, IF Calls(v) = job.why THEN job.why ELSE "none")
  /\ since' = IF v = pnl[job.account] THEN since ELSE [since EXCEPT ![S] = @ + 1]
  /\ IF Agrees(v) THEN job' = [job EXCEPT !.at = "list"] /\ UNCHANGED ahead
                  ELSE Nothing /\ Leave(S)
  /\ UNCHANGED <<world, stopped, last, true, touched>>

-----------------------------------------------------------------------------
(* _recovery_stop.                                                         *)

\* The variant stops the slot alone.
Siblings_none(s) == {}
Siblings(s) == {x \in Slots \ {s} : live[x] /\ account[x] = account[s]}

ListTargets ==
  /\ At("list")
  /\ job' = [job EXCEPT !.at = "off", !.targets = {S} \cup Siblings(S)]
  /\ UNCHANGED <<world, pass, last, wrongs, history>>

Target == IF S \in job.targets THEN S ELSE Min(job.targets)

SwitchOff ==
  /\ At("off") /\ live' = [live EXCEPT ![Target] = FALSE]
  /\ job' = [job EXCEPT !.at = "demote"]
  /\ UNCHANGED <<pnl, account, mode, armed, pairs, pass, last, bounds, wrongs, history>>

\* manual_promote does nothing for a pair the bot knows to be in shadow
Demote ==
  /\ At("demote")
  /\ IF PairOf[Target] \in copy
     THEN row' = row \ {PairOf[Target]} /\ copy' = row'
     ELSE UNCHANGED pairs
  /\ job' = [job EXCEPT !.at = "clear"]
  /\ UNCHANGED <<pnl, rows, pass, last, bounds, wrongs, history>>

Clear ==
  /\ At("clear") /\ armed' = [armed EXCEPT ![Target] = FALSE]
  /\ stopped' = stopped \cup {Target}
  /\ IF job.targets = {Target} THEN Nothing /\ Leave(S)
     ELSE job' = [job EXCEPT !.at = "off", !.targets = @ \ {Target}] /\ UNCHANGED ahead
  /\ UNCHANGED <<pnl, account, live, mode, pairs, last, bounds, wrongs, history>>

-----------------------------------------------------------------------------
(* The world.                                                              *)

\* a close, a trade that leaves the window
Moves(a, v) ==
  /\ moves < MaxMoves /\ moves' = moves + 1
  /\ v # pnl[a] /\ pnl' = [pnl EXCEPT ![a] = v]
  /\ UNCHANGED <<rows, pairs, pass, last, job, wrongs, buttons, history>>

Command(s) ==
  /\ buttons < MaxButtons /\ buttons' = buttons + 1
  /\ touched' = touched \cup {s}
  /\ UNCHANGED <<pnl, pass, last, job, moves, wrongs, true, run, since, crossed>>

\* live_on; the panel writes the row alone
LiveOn(s) ==
  /\ ~live[s] /\ Command(s)
  /\ live' = [live EXCEPT ![s] = TRUE]
  /\ row' = row \cup {PairOf[s]}
  /\ copy' \in {copy, row'}
  /\ UNCHANGED <<account, mode, armed>>

LiveOff(s) ==
  /\ live[s] /\ Command(s)
  /\ live' = [live EXCEPT ![s] = FALSE]
  /\ row' = IF \E x \in Slots \ {s} : live[x] /\ PairOf[x] = PairOf[s] THEN row ELSE row \ {PairOf[s]}
  /\ copy' \in {copy, row'}
  /\ UNCHANGED <<account, mode, armed>>

\* set_webkey: another account, out of recovery mode
Rekey(s, a) ==
  /\ a # account[s] /\ Command(s)
  /\ account' = [account EXCEPT ![s] = a]
  /\ mode' = [mode EXCEPT ![s] = FALSE] /\ armed' = [armed EXCEPT ![s] = FALSE]
  /\ UNCHANGED <<live, pairs>>

\* recovery_mode is set by hand in the database
ModeOn(s) ==
  /\ ~mode[s] /\ mode' = [mode EXCEPT ![s] = TRUE]
  /\ UNCHANGED <<pnl, account, live, armed, pairs, pass, last, job, bounds, wrongs, history>>

Load ==
  /\ copy # row /\ copy' = row
  /\ UNCHANGED <<pnl, rows, row, pass, last, job, bounds, wrongs, history>>

Restart ==
  /\ copy' = row /\ ahead' = {} /\ stopped' = {} /\ job' = Waiting
  /\ last' = [s \in Slots |-> Unread] /\ true' = [s \in Slots |-> Unread]
  /\ run' = [s \in Slots |-> 0] /\ since' = [s \in Slots |-> 0]
  /\ UNCHANGED <<pnl, rows, row, bounds, wrongs, crossed, touched>>

-----------------------------------------------------------------------------
Init ==
  /\ pnl \in [Accounts -> {v \in Amounts : Calls(v) = "none"}]
  /\ account = [s \in Slots |-> FirstAccount]
  /\ live = [s \in Slots |-> TRUE] /\ mode = [s \in Slots |-> TRUE]
  /\ armed = [s \in Slots |-> FALSE]
  /\ row = {PairOf[s] : s \in Slots} /\ copy = row
  /\ last = [s \in Slots |-> Unread] /\ ahead = {} /\ stopped = {} /\ job = Waiting
  /\ moves = 0 /\ wrongs = 0 /\ buttons = 0
  /\ true = [s \in Slots |-> Unread]
  /\ run = [s \in Slots |-> 0] /\ since = [s \in Slots |-> 0]
  /\ crossed = FALSE /\ touched = {}

Monitor ==
  \/ BeginPass \/ Visit \/ NoReading \/ Arm
  \/ \E v \in Amounts : Read(v) \/ Confirm(v)
  \/ ListTargets \/ SwitchOff \/ Demote \/ Clear

Next ==
  \/ Monitor
  \/ \E a \in Accounts, v \in Amounts : Moves(a, v)
  \/ \E s \in Slots : LiveOn(s) \/ LiveOff(s) \/ ModeOn(s) \/ \E a \in Accounts : Rekey(s, a)
  \/ Load \/ Restart

Spec == Init /\ [][Next]_vars

-----------------------------------------------------------------------------
TypeOK ==
  /\ pnl \in [Accounts -> Amounts] /\ account \in [Slots -> Accounts]
  /\ {live, mode, armed} \subseteq [Slots -> BOOLEAN]
  /\ row \subseteq Pairs /\ copy \subseteq Pairs
  /\ last \in [Slots -> Amounts \cup {Unread}]
  /\ ahead \subseteq Slots /\ stopped \subseteq Slots /\ job.targets \subseteq Slots
  /\ job.at \in {"wait", "read", "arm", "confirm", "list", "off", "demote", "clear"}

Far(v, w) == v - w > MAX_CYCLE_DELTA \/ w - v > MAX_CYCLE_DELTA

\* "A single bad page read must not stop a live slot" (_pnl_confirms), and a
\* wrong number further from the last right one than an account can move is
\* passed over first: when no right reading of the visit called for the stop,
\* two readings in a row were wrong; and when the number is that far from the last
\* right first reading, three were wrong since (a second reading that is right
\* may stand between them, for only the first one is remembered).
StopNeedsReadings ==
  job.at = "confirm" /\ job'.at = "list" /\ ~crossed' =>
     /\ run'[S] >= 2
     /\ true[S] # Unread /\ Far(job.first, true[S]) => since'[S] >= 3

\* "EVERY live slot that shares the SAME MEXC account must stop together": when
\* a stop is done no slot of the account is left live but those the operator had a
\* command for since the visit began (a new webkey for the visited slot takes
\* the stop to the wrong account).
StopsTogether ==
  Clear /\ job'.at = "wait" /\ S \notin touched =>
     \A s \in Slots : account[s] = job.account /\ live[s] => s \in touched
AccountStopsRightly == [][StopNeedsReadings /\ StopsTogether]_vars

=============================================================================
