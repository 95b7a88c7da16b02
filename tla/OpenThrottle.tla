---------------------------- MODULE OpenThrottle ----------------------------
(***************************************************************************)
(* The open throttle of one slot (shadow_engine.py): the exchange limits   *)
(* how often an account may open positions, and after such an answer the   *)
(* slot sends one request at a time for hours.  The latch is in memory     *)
(* (_open_rl_mode_until) and in the row of the slot (open_throttle_until), *)
(* from which a restart takes it back; a new key of the slot is another    *)
(* account and must not inherit it.  Signals of several pairs pass the     *)
(* gate of a slot while an order of it is on its way; the background sweep *)
(* releases the latch without waiting for a signal.                        *)
(***************************************************************************)
EXTENDS Integers

CONSTANTS
  Mode,        \* OPEN_THROTTLE_MODE_SEC
  Lag,         \* the 300 s a saved deadline may be behind
  MaxClock,    \* bound: time
  MaxSends     \* bound: orders sent

ThrottleAssumptions ==
  /\ {Mode, Lag, MaxClock, MaxSends} \subseteq Nat /\ 0 < Lag /\ Lag < Mode
  /\ 0 < MaxClock

VARIABLES
  clock, sends,
  row,        \* the slot's row: webkey_refreshed_at and open_throttle_until, 0 for none
  latch,      \* _open_rl_mode_until
  persisted,  \* _open_rl_persisted
  seen,       \* _open_rl_wk_seen, 0 for none
  hold,       \* _slot_cooldown_until is in the future
  gate,       \* the signal in the gate and the row it has read
  request,    \* the order on its way, which holds the lock of the slot
  answer,     \* the key of an order that was limited, until that is acted upon
  saving,     \* the deadline on its way into the row, and the wipes it waits for
  sweep,      \* the background release and the row it has read
  limit       \* history: the last limit of the account, when it was on record

vars == <<clock, sends, row, latch, persisted, seen, hold, gate, request, answer, saving, sweep,
          limit>>

memory == <<latch, persisted, seen, hold>>
Nothing == [at |-> "none"]
NoLimit == [key |-> 0, at |-> 0, inForce |-> 0, recorded |-> FALSE]

\* The database connection answers in order.  Nothing else returns from it
\* while the sweep, which reads once, has read and not yet decided; a deadline
\* being saved waits for the wipes sent before it and holds up what comes
\* after it.
Answers == sweep.at # "decide"
NotSaving == saving.until = 0
WipeReturns(who) == Answers /\ (NotSaving \/ who \in saving.behind)
NoSave == [until |-> 0, behind |-> {}]
Armed == clock < latch

\* a tick stands for the 300 s: no signal is in the gate that long, a save
\* may wait for the writer before it
Tick ==
  /\ gate = Nothing /\ sweep = Nothing
  /\ clock < MaxClock /\ clock' = clock + 1
  /\ UNCHANGED <<sends, row, memory, gate, request, answer, saving, sweep, limit>>

-----------------------------------------------------------------------------
(* The release.                                                            *)

\* the key was refreshed after the latch was armed
KeyIsNewer(r) == r.until > 0 /\ r.key > r.until - Mode
StampMoved(r) == seen \notin {0, r.key}

\* in the gate: somebody took the deadline out of the row, or it has passed
ClearedInDb(r) == persisted # 0 /\ r.until <= clock

Released(r) ==
  /\ latch' = 0 /\ persisted' = 0 /\ hold' = FALSE
  /\ seen' = r.key

-----------------------------------------------------------------------------
(* The gate of _open_position.                                             *)

GateRead ==
  /\ gate = Nothing /\ ~hold /\ NotSaving
  /\ gate' = [at |-> "decide", row |-> row, limit |-> limit]
  /\ UNCHANGED <<clock, sends, row, memory, request, answer, saving, sweep, limit>>

\* The latch of the row is taken over where memory has none.  The variant
\* trusts memory alone.
Restored_not(r) == latch
Restored(r) == IF r.until > clock /\ ~Armed THEN r.until ELSE latch

\* The order goes out in the same step, one at a time, or the signal is
\* skipped: no override, no admission, slot busy.
Go(until) ==
  /\ gate' = Nothing
  /\ \/ UNCHANGED <<request, sends>>
     \/ /\ request = Nothing /\ sends < MaxSends /\ sends' = sends + 1
        /\ request' = [at |-> "sent", key |-> gate.row.key, throttled |-> clock < until]

ReleasedBy(r) == StampMoved(r) \/ ClearedInDb(r) \/ KeyIsNewer(r)

GatePasses ==
  /\ Answers /\ gate.at = "decide" /\ ~ReleasedBy(gate.row)
  /\ latch' = Restored(gate.row) /\ seen' = gate.row.key
  /\ Go(latch')
  /\ UNCHANGED <<clock, row, persisted, hold, answer, saving, sweep, limit>>

GateReleases ==
  /\ Answers /\ gate.at = "decide" /\ ReleasedBy(gate.row)
  /\ Released(gate.row)
  /\ IF gate.row.until > 0
     THEN gate' = [gate EXCEPT !.at = "wipe"] /\ UNCHANGED <<request, sends>>
     ELSE Go(latch')
  /\ UNCHANGED <<clock, row, answer, saving, sweep, limit>>

GateWipe ==
  /\ gate.at = "wipe" /\ WipeReturns("gate")
  /\ row' = [row EXCEPT !.until = 0]
  /\ Go(latch)
  /\ UNCHANGED <<clock, memory, answer, saving, sweep, limit>>

-----------------------------------------------------------------------------
(* The answer.                                                             *)

\* filled, missed or refused: while throttled the next window is waited for
Answered ==
  /\ request # Nothing
  /\ request' = Nothing
  /\ hold' = (hold \/ Armed)
  /\ UNCHANGED <<clock, sends, row, latch, persisted, seen, gate, answer, saving, sweep,
                 limit>>

\* The answer names an opening limit of the account, 10014 or one that counts
\* as a request.  The lock is free while the miss is noted, before the limit is
\* acted upon.
Refused ==
  /\ request # Nothing /\ answer = 0
  /\ request' = Nothing /\ answer' = request.key
  /\ hold' \in {hold, hold \/ Armed}
  /\ UNCHANGED <<clock, sends, row, latch, persisted, seen, gate, saving, sweep, limit>>

\* what holds a deadline for the key, with no wipe of it on its way
OnRecord(deadline) ==
  /\ gate = Nothing /\ sweep.at # "wipe" /\ row.until + Lag >= deadline

\* the deadline is saved when it is clearly later than the one on record
Limited ==
  /\ answer # 0 /\ NotSaving
  /\ answer' = 0
  /\ latch' = clock + Mode /\ hold' = TRUE
  /\ saving' = IF clock + Mode - persisted <= Lag THEN NoSave
               ELSE [until |-> clock + Mode,
                     behind |-> {w \in {"gate"} : gate.at = "wipe"}
                                  \cup {w \in {"sweep"} : sweep.at = "wipe"}]
  /\ limit' = [key |-> answer, at |-> clock, inForce |-> row.key,
               recorded |-> saving' = NoSave /\ OnRecord(latch')]
  /\ UNCHANGED <<clock, sends, row, persisted, seen, gate, request, sweep>>

Saved ==
  /\ ~NotSaving /\ Answers
  /\ "gate" \in saving.behind => gate.at # "wipe"
  /\ "sweep" \in saving.behind => sweep.at # "wipe"
  /\ row' = [row EXCEPT !.until = saving.until]
  /\ persisted' = saving.until /\ saving' = NoSave
  /\ limit' = [limit EXCEPT !.recorded = (gate = Nothing)]
  /\ UNCHANGED <<clock, sends, latch, seen, hold, gate, request, answer, sweep>>

HoldEnds ==
  /\ hold /\ hold' = FALSE
  /\ UNCHANGED <<clock, sends, row, latch, persisted, seen, gate, request, answer, saving,
                 sweep, limit>>

-----------------------------------------------------------------------------
(* _release_throttle_for_new_keys.                                         *)

SweepRead ==
  /\ sweep = Nothing /\ NotSaving
  /\ sweep' = [at |-> "decide", row |-> row]
  /\ UNCHANGED <<clock, sends, row, memory, gate, request, answer, saving, limit>>

SweepDecide ==
  /\ sweep.at = "decide"
  /\ LET r == sweep.row
         release == StampMoved(r) \/ KeyIsNewer(r) \/ (r.until = 0 /\ Armed)
     IN  IF release
         THEN /\ Released(r)
              /\ sweep' = IF r.until > 0 THEN [sweep EXCEPT !.at = "wipe"] ELSE Nothing
         ELSE /\ seen' = r.key /\ sweep' = Nothing
              /\ UNCHANGED <<latch, persisted, hold>>
  /\ UNCHANGED <<clock, sends, row, gate, request, answer, saving, limit>>

SweepWipe ==
  /\ sweep.at = "wipe" /\ WipeReturns("sweep")
  /\ row' = [row EXCEPT !.until = 0] /\ sweep' = Nothing
  /\ UNCHANGED <<clock, sends, memory, gate, request, answer, saving, limit>>

-----------------------------------------------------------------------------
\* set_webkey, or the panel over a connection of its own; the stamp is a
\* second no earlier limit or key has
NewKey ==
  /\ clock > row.key /\ clock > limit.at
  /\ row' = [key |-> clock, until |-> 0]
  /\ limit' = [limit EXCEPT !.recorded = FALSE]
  /\ UNCHANGED <<clock, sends, memory, gate, request, answer, saving, sweep>>

Restart ==
  /\ latch' = 0 /\ persisted' = 0 /\ seen' = 0 /\ hold' = FALSE
  /\ gate' = Nothing /\ request' = Nothing /\ answer' = 0 /\ saving' = NoSave /\ sweep' = Nothing
  /\ UNCHANGED <<clock, sends, row, limit>>

Init ==
  /\ clock = 1 /\ sends = 0
  /\ row = [key |-> 1, until |-> 0]
  /\ latch = 0 /\ persisted = 0 /\ seen = 0 /\ hold = FALSE
  /\ gate = Nothing /\ request = Nothing /\ answer = 0 /\ saving = NoSave /\ sweep = Nothing
  /\ limit = NoLimit

Next ==
  \/ GateRead \/ GatePasses \/ GateReleases \/ GateWipe
  \/ Answered \/ Refused \/ Limited \/ Saved \/ HoldEnds
  \/ SweepRead \/ SweepDecide \/ SweepWipe
  \/ Tick \/ NewKey \/ Restart

Spec == Init /\ [][Next]_vars

-----------------------------------------------------------------------------
TypeOK ==
  /\ row \in [key : 1 .. MaxClock, until : 0 .. MaxClock + Mode]
  /\ {latch, persisted, saving.until} \subseteq 0 .. MaxClock + Mode
  /\ {seen, answer} \subseteq 0 .. MaxClock /\ hold \in BOOLEAN
  /\ gate.at \in {"none", "decide", "wipe"}
  /\ sweep.at \in {"none", "decide", "wipe"}
  /\ limit.key <= MaxClock

Sent == request = Nothing /\ request' # Nothing

\* The throttle follows the limit of the account in force.  A new key does not
\* inherit the latch of the account before it: an order goes out throttled
\* under the key in force only if the limit was answered while that key was in
\* force.  And until its term is over (but for the lag of the saved deadline)
\* a limit that is on record throttles every order of the account whose gate
\* read the row afterwards, whatever the sweep, other signals and restarts did.
\* It is on record once the row holds it with no wipe of the row on its way: a
\* wipe that returns later takes it out again, and the next gate then reads
\* the missing deadline as one that a deleted key took along (ClearedInDb).
StartsFree ==
  request'.throttled /\ gate.row.key = row.key => limit.inForce = row.key

StaysThrottled ==
  gate.limit = limit /\ limit.recorded /\ limit.key = gate.row.key
    /\ clock < limit.at + Mode - Lag =>
  request'.throttled

FollowsLimit == Sent => StartsFree /\ StaysThrottled
ThrottleFollowsLimit == [][FollowsLimit]_vars

-----------------------------------------------------------------------------
(* What every step keeps, for the proofs.                                  *)

RowType == [key : 1 .. MaxClock, until : 0 .. MaxClock + Mode]
LimitType ==
  [key : 0 .. MaxClock, at : 0 .. MaxClock, inForce : 0 .. MaxClock, recorded : BOOLEAN]

ThrottleTyped ==
  /\ clock \in 1 .. MaxClock
  /\ row \in RowType /\ limit \in LimitType
  /\ latch \in 0 .. MaxClock + Mode /\ persisted \in 0 .. MaxClock + Mode
  /\ seen \in 0 .. MaxClock /\ answer \in 0 .. MaxClock /\ hold \in BOOLEAN
  /\ gate \in {Nothing} \cup [at : {"decide", "wipe"}, row : RowType, limit : LimitType]
  /\ sweep \in {Nothing} \cup [at : {"decide", "wipe"}, row : RowType]
  /\ request \in {Nothing} \cup [at : {"sent"}, key : 1 .. MaxClock, throttled : BOOLEAN]
  /\ saving \in [until : 0 .. MaxClock + Mode, behind : SUBSET {"gate", "sweep"}]

\* Nothing has been read of a later time than now.
InThePast ==
  /\ row.key <= clock /\ seen <= row.key
  /\ gate # Nothing => gate.row.key <= row.key
  /\ sweep # Nothing => sweep.row.key <= row.key
  /\ limit.key <= limit.at /\ limit.at <= clock
  /\ latch > 0 \/ request # Nothing \/ answer # 0 => seen > 0

\* The accounts orders went to.  What is read afterwards is not older.
Spent(k) == k \in {limit.key, answer} \/ (request # Nothing /\ k = request.key)

ReadAfter(k) ==
  /\ k <= row.key
  /\ seen # 0 => k <= seen
  /\ sweep.at = "decide" => k <= sweep.row.key

SpentBefore ==
  /\ \A k \in 0 .. MaxClock : Spent(k) =>
       ReadAfter(k) /\ (gate # Nothing => k <= gate.row.key)
  /\ gate.at = "wipe" => ReadAfter(gate.row.key) /\ seen # 0

\* A deadline in memory or in a row is of the account before, or the limit was
\* answered under the key in force.
OfThisKey(r) ==
  r.until > 0 /\ ~KeyIsNewer(r) /\ r.key = row.key => limit.inForce = row.key

DeadlinesFit ==
  /\ limit.inForce # row.key => row.key > limit.at
  /\ saving.until > 0 => saving.until = limit.at + Mode /\ ~limit.recorded
  /\ OfThisKey(row) /\ (gate.at = "decide" => OfThisKey(gate.row))
  /\ latch > 0 /\ seen = row.key => limit.inForce = row.key

\* No deadline of the account before is in a row with the key of an order that
\* is answered, nor will be.
SaveFits == saving.until > 0 => row.key <= saving.until - Mode

NoOldDeadline ==
  /\ Spent(row.key) =>
       /\ ~KeyIsNewer(row) /\ SaveFits
       /\ sweep.at = "decide" => ~KeyIsNewer(sweep.row)
  /\ gate # Nothing /\ gate.row.key = row.key =>
       /\ SaveFits
       /\ gate.at = "decide" /\ KeyIsNewer(row) => KeyIsNewer(gate.row)
  /\ saving.until > 0 /\ limit.key = row.key /\ sweep.at = "wipe" => "sweep" \in saving.behind

\* While a recorded limit lasts the row holds its deadline, whoever has read
\* it holds it too, and nobody is about to take it out.
Lasts == limit.recorded /\ limit.key = row.key /\ clock < limit.at + Mode - Lag
Holds(r) == r.key = row.key /\ r.until + Lag >= limit.at + Mode /\ r.key <= r.until - Mode

LimitStands ==
  /\ limit.recorded /\ gate # Nothing => gate.row.key = row.key
  /\ Lasts =>
       /\ Holds(row) /\ (gate # Nothing => gate.at = "decide" /\ Holds(gate.row))
       /\ seen \in {0, row.key} /\ sweep.at # "wipe"

ThrottleInv ==
  /\ ThrottleTyped /\ InThePast /\ SpentBefore
  /\ DeadlinesFit /\ NoOldDeadline /\ LimitStands

=============================================================================
