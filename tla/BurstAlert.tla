------------------------------ MODULE BurstAlert ------------------------------
(***************************************************************************)
(* The detector of bursts (_burst_alert_loop, src/src/strategy/            *)
(* shadow_engine.py): each scan rates the last trades of every pair and    *)
(* account, and tells the operator of a burst once the conditions held     *)
(* without a break for BURST_PERSIST_SEC, again each BURST_REPEAT_SEC, and *)
(* when it ends.  Only the loop touches its two tables, so a scan is one   *)
(* step.                                                                   *)
(***************************************************************************)
EXTENDS Integers

CONSTANTS
  Keys,      \* a pair and an account
  Persist,   \* BURST_PERSIST_SEC, in scans
  Repeat,    \* BURST_REPEAT_SEC
  MaxClock   \* bound: length of a behaviour

BurstAssumptions == {Persist, Repeat, MaxClock} \subseteq Nat

VARIABLES
  now,        \* time of the last scan
  active,     \* when each key was last alerted
  run_since,  \* when its series began
  told,       \* the message the last scan sent for it
  series      \* history: when its unbroken series of burst scans began

vars == <<now, active, run_since, told, series>>

None == -1

\* What a scan may find for a key: no trade in the last hour, too few, trades
\* that are no burst, and trades that satisfy the conditions of one.
Findings == {"gone", "few", "quiet", "burst"}

-----------------------------------------------------------------------------
Since(table, k, t) == IF table[k] = None THEN t ELSE table[k]

\* is_burst, the series being looked up after setdefault
IsBurst(k, t) == t - Since(run_since, k, t) >= Persist

\* run_since after the scan: the branch of no burst ends the series, also
\* one that is only too short yet; too few trades leave it alone.
SeriesAfter(k, found, t) ==
  CASE found = "few" -> run_since[k]
    [] found = "burst" /\ IsBurst(k, t) -> Since(run_since, k, t)
    [] OTHER -> None

Alerts(k, t) == active[k] = None \/ t - active[k] >= Repeat

ActiveAfter(k, found, t) ==
  CASE found = "few" -> active[k]
    [] found = "burst" /\ IsBurst(k, t) -> IF Alerts(k, t) THEN t ELSE active[k]
    [] OTHER -> None

\* The end of a burst is told unless its pair has no trades left.
Message(k, found, t) ==
  CASE found = "burst" /\ IsBurst(k, t) /\ Alerts(k, t) -> "burst"
    [] active[k] # None /\ (found = "quiet" \/ (found = "burst" /\ ~IsBurst(k, t))) -> "end"
    [] OTHER -> "none"

\* When the next scan may be: after a pause, or two where one failed or was
\* slow.
ScanTimes == {t \in {now + 1, now + 2} : t <= MaxClock}

Scan(found) ==
  \E t \in ScanTimes :
    /\ now' = t
    /\ run_since' = [k \in Keys |-> SeriesAfter(k, found[k], t)]
    /\ active' = [k \in Keys |-> ActiveAfter(k, found[k], t)]
    /\ told' = [k \in Keys |-> Message(k, found[k], t)]
    /\ series' = [k \in Keys |-> IF found[k] = "burst" THEN Since(series, k, t) ELSE None]

\* No pair is live: the alerts are forgotten, the series are not.
NothingLive ==
  \E t \in ScanTimes :
    /\ now' = t
    /\ active' = [k \in Keys |-> None] /\ told' = [k \in Keys |-> "none"]
    /\ series' = [k \in Keys |-> None]
    /\ UNCHANGED run_since

Init ==
  /\ now = 0 /\ told = [k \in Keys |-> "none"]
  /\ active = [k \in Keys |-> None] /\ run_since = active /\ series = active

Next == NothingLive \/ \E found \in [Keys -> Findings] : Scan(found)

Spec == Init /\ [][Next]_vars

-----------------------------------------------------------------------------
Times == 0 .. MaxClock

TypeOK ==
  /\ now \in Times
  /\ active \in [Keys -> Times \cup {None}]
  /\ run_since \in [Keys -> Times \cup {None}]
  /\ series \in [Keys -> Times \cup {None}]
  /\ told \in [Keys -> {"none", "burst", "end"}]

\* A burst that holds for BURST_PERSIST_SEC in every scan is told: "the
\* detector of a burst sends an alert [...] and all of it must hold for
\* BURST_PERSIST_SEC without a break" (shadow_engine.py:853-860).
SeriesIsAlerted ==
  \A k \in Keys : series[k] # None /\ now - series[k] >= Persist => active[k] # None
=============================================================================
