--------------------------- MODULE SlotSafety_proofs ---------------------------
(***************************************************************************)
(* Proofs about SlotSafety for every value of its constants: the type      *)
(* invariant, that a breached session is always halted, that the pause is  *)
(* served in full, that the gate never admits into a halt, that every lift *)
(* leaves a trace, that no restart undoes a lift, and that a restart under *)
(* halts without a deadline rebuilds PnL and peak.  The last two need sums *)
(* over the day's rows: a running total is carried as a function that      *)
(* adds up (Book, Total), not computed.  Last, that the PnL is the sum of  *)
(* the day's rows, as SumFunctionOnSet computes it.                        *)
(***************************************************************************)
EXTENDS SlotSafety, TLAPS, FiniteSetTheorems, WellFoundedInduction

\* A controller whose session is breached is halted.
Guarded(c) == DrawdownBreached(c) => c.kill

-----------------------------------------------------------------------------
(* The operators of the controller return controllers and keep it guarded. *)

\* The next local midnight is a time.
LEMMA NextResetType == ASSUME NEW t \in Nat PROVE NextReset(t) \in Nat
<1> USE SlotSafetyAssumptions
<1>1. t % DayLength \in 0..(DayLength - 1)
  OBVIOUS
<1>2. QED
  BY <1>1 DEF NextReset, SessionStart

\* A new controller is one, and it is guarded.
LEMMA FreshCtlType ==
  ASSUME NEW t \in Nat
  PROVE FreshCtl(t) \in CtlType /\ Guarded(FreshCtl(t))
BY NextResetType, SlotSafetyAssumptions
   DEF FreshCtl, CtlType, Guarded, DrawdownBreached

\* The reset of the day keeps the halt and cannot create a breach.
LEMMA DailyResetType ==
  ASSUME NEW c \in CtlType, NEW t \in Nat
  PROVE /\ DailyReset(c, t) \in CtlType
        /\ Guarded(c) => Guarded(DailyReset(c, t))
        /\ DailyReset(c, t).kill = c.kill
        /\ DailyReset(c, t).until = c.until
        /\ DailyReset(c, t).autoReleased = c.autoReleased
<1> DEFINE z == 0
           d == [c EXCEPT !.pnl = z, !.peak = z, !.trades = z,
                          !.resetAt = NextReset(t)]
<1>1. z \in Int /\ z \in Nat /\ NextReset(t) \in Nat
  BY NextResetType
<1>2. DailyReset(c, t) = IF t >= c.resetAt THEN d ELSE c
  BY DEF DailyReset
<1>3. z = 0
  OBVIOUS
<1> HIDE DEF z
<1>4. d \in CtlType
  BY <1>1 DEF CtlType
<1>5. /\ d.pnl = z /\ d.peak = z
      /\ d.kill = c.kill /\ d.until = c.until
      /\ d.autoReleased = c.autoReleased
  BY DEF CtlType
<1>6. ~DrawdownBreached(d)
  BY <1>3, <1>5, SlotSafetyAssumptions DEF DrawdownBreached
<1> HIDE DEF d
<1>7. QED
  BY <1>2, <1>4, <1>5, <1>6 DEF Guarded

\* engage_kill halts and never brings the deadline forward.
LEMMA EngageKillType ==
  ASSUME NEW c \in CtlType, NEW t \in Nat
  PROVE /\ EngageKill(c, t) \in CtlType
        /\ EngageKill(c, t).kill
        /\ KillPause > 0 /\ (c.kill => c.until > 0)
             => /\ EngageKill(c, t).until >= t + KillPause
                /\ c.kill => EngageKill(c, t).until >= c.until
<1> DEFINE k == KillDeadline(t)
           d == [c EXCEPT !.kill = TRUE, !.until = k]
<1>1. k \in Nat /\ (KillPause > 0 => k = t + KillPause)
  BY SlotSafetyAssumptions DEF KillDeadline
<1>2. c.kill \in BOOLEAN /\ c.until \in Nat
  BY DEF CtlType
<1>3. EngageKill(c, t) = IF KeepExisting(c, t) THEN c ELSE d
  BY DEF EngageKill
<1>4. /\ KeepExisting(c, t) => c.kill /\ (c.until = 0 \/ (k # 0 /\ c.until >= k))
      /\ c.kill /\ k # 0 /\ c.until >= k => KeepExisting(c, t)
  BY DEF KeepExisting
<1> HIDE DEF k
<1>5. d \in CtlType
  BY <1>1 DEF CtlType
<1>6. d.kill /\ d.until = k
  BY DEF CtlType
<1> HIDE DEF d
<1>7. CASE KeepExisting(c, t)
  BY <1>1, <1>2, <1>3, <1>4, <1>7, SlotSafetyAssumptions
<1>8. CASE ~KeepExisting(c, t)
  BY <1>1, <1>2, <1>3, <1>4, <1>5, <1>6, <1>8, SlotSafetyAssumptions
<1>9. QED
  BY <1>7, <1>8

\* One more close in the sums.
LEMMA AddCloseType ==
  ASSUME NEW c \in CtlType, NEW p \in Int
  PROVE /\ AddClose(c, p) \in CtlType
        /\ AddClose(c, p).kill = c.kill
        /\ AddClose(c, p).until = c.until
<1> DEFINE q == c.pnl + p
           h == IF q > c.peak THEN q ELSE c.peak
           n == c.trades + 1
           d == [c EXCEPT !.pnl = q, !.trades = n, !.peak = h]
<1>1. q \in Int /\ h \in Int /\ n \in Nat
  BY DEF CtlType
<1>2. AddClose(c, p) = d
  BY DEF AddClose
<1> HIDE DEF q, h, n
<1>3. d \in CtlType /\ d.kill = c.kill /\ d.until = c.until
  BY <1>1 DEF CtlType
<1>4. QED
  BY <1>2, <1>3

\* record_close leaves a guarded controller whatever it started from, and a
\* breach leaves a full pause ahead.
LEMMA RecordCloseType ==
  ASSUME NEW c \in CtlType, NEW p \in Int, NEW t \in Nat
  PROVE /\ RecordClose(c, p, t) \in CtlType
        /\ Guarded(RecordClose(c, p, t))
        /\ c.kill => RecordClose(c, p, t).kill
        /\ KillPause > 0 /\ (c.kill => c.until > 0)
             => /\ RecordClose(c, p, t).kill => RecordClose(c, p, t).until > 0
                /\ c.kill => RecordClose(c, p, t).until >= c.until
                /\ DrawdownBreached(AddClose(c, p))
                     => /\ RecordClose(c, p, t).kill
                        /\ RecordClose(c, p, t).until >= t + KillPause
<1> DEFINE a == AddClose(c, p)
<1>1. a \in CtlType /\ a.kill = c.kill /\ a.until = c.until
  BY AddCloseType
<1>2. CASE DrawdownBreached(a)
  <2>1. RecordClose(c, p, t) = EngageKill(a, t)
    BY <1>2 DEF RecordClose
  <2>2. /\ EngageKill(a, t) \in CtlType
        /\ EngageKill(a, t).kill
        /\ KillPause > 0 /\ (a.kill => a.until > 0)
             => /\ EngageKill(a, t).until >= t + KillPause
                /\ a.kill => EngageKill(a, t).until >= a.until
    BY <1>1, EngageKillType
  <2>3. QED
    BY <1>1, <2>1, <2>2, SlotSafetyAssumptions DEF Guarded, CtlType
<1>3. CASE ~DrawdownBreached(a)
  <2>1. RecordClose(c, p, t) = a
    BY <1>3 DEF RecordClose
  <2>2. QED
    BY <1>1, <1>3, <2>1 DEF Guarded, CtlType
<1>4. QED
  BY <1>2, <1>3

\* An operator's release re-bases the peak.
LEMMA ReleaseKillType ==
  ASSUME NEW c \in CtlType
  PROVE /\ ReleaseKill(c) \in CtlType
        /\ Guarded(ReleaseKill(c))
        /\ ~ReleaseKill(c).kill
<1> DEFINE z == 0
           d == [c EXCEPT !.kill = FALSE, !.until = z, !.peak = c.pnl]
<1>1. ReleaseKill(c) = d
  BY DEF ReleaseKill
<1>2. z \in Nat
  OBVIOUS
<1> HIDE DEF z
<1>3. d \in CtlType
  BY <1>2 DEF CtlType
<1>4. d.pnl = d.peak /\ d.pnl \in Int /\ ~d.kill
  BY DEF CtlType
<1> HIDE DEF d
<1>5. QED
  BY <1>1, <1>3, <1>4, SlotSafetyAssumptions DEF Guarded, DrawdownBreached

\* So does an expiry, which also raises the flag.
LEMMA ExpireKillType ==
  ASSUME NEW c \in CtlType
  PROVE /\ ExpireKill(c) \in CtlType
        /\ Guarded(ExpireKill(c))
        /\ ~ExpireKill(c).kill
        /\ ExpireKill(c).autoReleased
<1> DEFINE d == [c EXCEPT !.kill = FALSE, !.autoReleased = TRUE, !.peak = c.pnl]
<1>1. ExpireKill(c) = d
  BY DEF ExpireKill
<1>3. d \in CtlType
  BY DEF CtlType
<1>4. d.pnl = d.peak /\ d.pnl \in Int /\ ~d.kill /\ d.autoReleased
  BY DEF CtlType
<1> HIDE DEF d
<1>5. QED
  BY <1>1, <1>3, <1>4, SlotSafetyAssumptions DEF Guarded, DrawdownBreached

\* The gate keeps a halt that is in force and clears no other way.
LEMMA AfterGateType ==
  ASSUME NEW c \in CtlType, NEW t \in Nat
  PROVE /\ AfterGate(c, t) \in CtlType
        /\ Guarded(c) => Guarded(AfterGate(c, t))
        /\ AfterGate(c, t).kill => c.kill /\ AfterGate(c, t).until = c.until
        /\ c.kill /\ AfterGate(c, t).kill => InForce(c, t)
        /\ c.kill /\ ~AfterGate(c, t).kill
             => /\ c.until # 0 /\ t >= c.until
                /\ AfterGate(c, t).autoReleased
        /\ InForce(c, t) => AfterGate(c, t).kill
<1> DEFINE d == DailyReset(c, t)
<1>1. /\ d \in CtlType /\ d.kill = c.kill /\ d.until = c.until
      /\ Guarded(c) => Guarded(d)
  BY DailyResetType
<1>2. InForce(d, t) <=> InForce(c, t)
  BY <1>1 DEF InForce
<1>3. CASE d.kill /\ ~InForce(d, t)
  <2>1. AfterGate(c, t) = ExpireKill(d)
    BY <1>3 DEF AfterGate
  <2>2. /\ ExpireKill(d) \in CtlType /\ Guarded(ExpireKill(d))
        /\ ~ExpireKill(d).kill /\ ExpireKill(d).autoReleased
    BY <1>1, ExpireKillType
  <2>3. c.kill /\ c.until # 0 /\ t >= c.until
    BY <1>1, <1>3 DEF InForce, CtlType
  <2>4. QED
    BY <1>2, <1>3, <2>1, <2>2, <2>3
<1>4. CASE ~(d.kill /\ ~InForce(d, t))
  <2>1. AfterGate(c, t) = d
    BY <1>4 DEF AfterGate
  <2>2. QED
    BY <1>1, <1>2, <1>4, <2>1 DEF InForce
<1>5. QED
  BY <1>3, <1>4

\* One row replayed.
LEMMA ReplayCloseType ==
  ASSUME NEW c \in CtlType, NEW r \in RowType, NEW released \in Nat
  PROVE /\ ReplayClose(c, r, released) \in CtlType
        /\ ReplayClose(c, r, released).kill = c.kill
        /\ ReplayClose(c, r, released).until = c.until
<1> DEFINE d == [c EXCEPT !.peak = c.pnl, !.releaseApplied = TRUE]
<1>1. r.pnl \in Int /\ r.at \in Nat
  BY DEF RowType
<1>2. d \in CtlType /\ d.kill = c.kill /\ d.until = c.until
  BY DEF CtlType
<1>3. \/ ReplayClose(c, r, released) = AddClose(d, r.pnl)
      \/ ReplayClose(c, r, released) = AddClose(c, r.pnl)
  BY DEF ReplayClose
<1>4. QED
  BY <1>1, <1>2, <1>3, AddCloseType

\* hydrate_session leaves a guarded controller whatever the rows were.
LEMMA ReplayDoneType ==
  ASSUME NEW c \in CtlType, NEW released \in Nat, NEW t \in Nat
  PROVE /\ ReplayDone(c, released, t) \in CtlType
        /\ Guarded(ReplayDone(c, released, t))
        /\ KillPause > 0 /\ (c.kill => c.until > 0)
             /\ ReplayDone(c, released, t).kill
             => ReplayDone(c, released, t).until > 0
<1> DEFINE d == IF released # 0 /\ ~c.releaseApplied
                THEN [c EXCEPT !.peak = c.pnl, !.releaseApplied = TRUE] ELSE c
<1>1. d \in CtlType /\ d.kill = c.kill /\ d.until = c.until
  BY DEF CtlType
<1>2. /\ EngageKill(d, t) \in CtlType
      /\ EngageKill(d, t).kill
      /\ KillPause > 0 /\ (d.kill => d.until > 0)
           => EngageKill(d, t).until >= t + KillPause
  BY <1>1, EngageKillType
<1>3. CASE DrawdownBreached(d)
  <2>1. ReplayDone(c, released, t) = EngageKill(d, t)
    BY <1>3 DEF ReplayDone
  <2>2. QED
    BY <1>1, <1>2, <2>1, SlotSafetyAssumptions DEF Guarded, CtlType
<1>4. CASE ~DrawdownBreached(d)
  <2>1. ReplayDone(c, released, t) = d
    BY <1>4 DEF ReplayDone
  <2>2. QED
    BY <1>1, <1>4, <2>1 DEF Guarded
<1>5. QED
  BY <1>3, <1>4
-----------------------------------------------------------------------------
(* Type correctness.                                                       *)

\* Taking the flag down, as sync_kill_state does, keeps the rest.
LEMMA FlagDown ==
  ASSUME NEW c \in CtlType, NEW t \in Nat
  PROVE LET d == [DailyReset(c, t) EXCEPT !.autoReleased = FALSE]
        IN /\ d \in CtlType
           /\ Guarded(c) => Guarded(d)
           /\ d.kill = c.kill /\ d.until = c.until
<1> DEFINE e == DailyReset(c, t)
           d == [e EXCEPT !.autoReleased = FALSE]
<1>1. /\ e \in CtlType /\ e.kill = c.kill /\ e.until = c.until
      /\ Guarded(c) => Guarded(e)
  BY DailyResetType
<1> HIDE DEF e
<1>2. /\ d \in CtlType /\ d.kill = e.kill /\ d.until = e.until
      /\ d.pnl = e.pnl /\ d.peak = e.peak
  BY <1>1 DEF CtlType
<1> HIDE DEF d
<1>3. QED
  BY <1>1, <1>2 DEF Guarded, DrawdownBreached, d, e

\* The history record before a crash.
LEMMA NoCrashType ==
  NoCrash \in [pnl : Int, peak : Int, kill : BOOLEAN, until : Nat, at : Nat,
               clean : BOOLEAN]
<1> DEFINE z == 0
<1>1. z \in Int /\ z \in Nat
  OBVIOUS
<1>2. NoCrash = [pnl |-> z, peak |-> z, kill |-> FALSE, until |-> z, at |-> z,
                 clean |-> FALSE]
  BY DEF NoCrash
<1> HIDE DEF z
<1>3. QED
  BY <1>1, <1>2

\* Every step keeps the types.
LEMMA TypeStep == TypeOK /\ [Next]_vars => TypeOK'
<1> SUFFICES ASSUME TypeOK, [Next]_vars
             PROVE  TypeOK'
  OBVIOUS
<1> USE SlotSafetyAssumptions
<1>1. CASE Tick
  BY <1>1 DEF TypeOK, Tick, memory, disk, history
<1>2. ASSUME NEW ok \in BOOLEAN, CanOpenLive(ok) PROVE TypeOK'
  <2>1. AfterGate(ctl, now) \in CtlType
    BY AfterGateType DEF TypeOK
  <2>2. opening' \in BOOLEAN
    BY <1>2 DEF CanOpenLive
  <2>3. QED
    BY <1>2, <2>1, <2>2 DEF TypeOK, CanOpenLive, disk, history
<1>3. CASE OpenFilled
  <2>1. open + 1 \in Nat
    BY DEF TypeOK
  <2>2. QED
    BY <1>3, <2>1 DEF TypeOK, OpenFilled, disk, history
<1>4. CASE OpenMissed
  BY <1>4 DEF TypeOK, OpenMissed, disk, history
<1>5. ASSUME NEW p \in Pnls PROVE /\ NewRow(p) \in RowType
                                  /\ Decrement(open) \in Nat
                                  /\ PauseEndAfter(p) \in Nat
                                  /\ RecordClose(ctl, p, now) \in CtlType
                                  /\ LateAfter(p) \subseteq RowType
  <2>1. p \in Int
    OBVIOUS
  <2>2. NewRow(p) \in RowType
    BY <2>1 DEF NewRow, RowType, TypeOK
  <2>3. RecordClose(ctl, p, now) \in CtlType
    BY <2>1, RecordCloseType DEF TypeOK
  <2>4. Decrement(open) \in Nat /\ PauseEndAfter(p) \in Nat
    BY DEF Decrement, PauseEndAfter, TypeOK
  <2>5. LateAfter(p) \subseteq RowType
    BY <2>2 DEF LateAfter, TypeOK
  <2>6. QED
    BY <2>2, <2>3, <2>4, <2>5
<1>6. ASSUME NEW p \in Pnls, EngineClose(p) PROVE TypeOK'
  BY <1>5, <1>6 DEF TypeOK, EngineClose, disk
<1>7. ASSUME NEW p \in Pnls, ExternalClose(p) PROVE TypeOK'
  BY <1>5, <1>7 DEF TypeOK, ExternalClose
<1>8. ASSUME NEW r \in pend, PersistTrade(r) PROVE TypeOK'
  BY <1>8 DEF TypeOK, PersistTrade, history
<1>9. DailyReset(ctl, now) \in CtlType
  BY DailyResetType DEF TypeOK
<1>10. /\ ReleaseKill(ctl) \in CtlType
       /\ ReleaseKill(DailyReset(ctl, now)) \in CtlType
  BY <1>9, ReleaseKillType DEF TypeOK
<1>11. CASE OperatorRelease
  BY <1>10, <1>11 DEF TypeOK, OperatorRelease, disk
<1>12. CASE Unkill
  BY <1>10, <1>12 DEF TypeOK, Unkill, disk
<1>13. CASE OperatorMarked
  BY <1>13 DEF TypeOK, OperatorMarked, history
<1>14. CASE PanelRequest
  BY <1>14 DEF TypeOK, PanelRequest, memory, history
<1>15. ASSUME AfterRequest(ctl)
       PROVE /\ ctl' \in CtlType /\ stamp' \in Nat
             /\ sync' \in {"autoMark", "show", "hide"}
  BY <1>9, <1>15 DEF TypeOK, AfterRequest
<1>16. CASE SyncNoRequest
  BY <1>15, <1>16 DEF TypeOK, SyncNoRequest, disk, history
<1>17. CASE SyncStaleRequest
  BY <1>17 DEF TypeOK, SyncStaleRequest, disk, history
<1>18. CASE SyncRelease
  BY <1>10, <1>18 DEF TypeOK, SyncRelease, disk
<1>19. CASE SyncNotHalted
  BY <1>9, <1>19 DEF TypeOK, SyncNotHalted, disk, history
<1>20. CASE SyncMark
  BY <1>20 DEF TypeOK, SyncMark, history
<1>21. CASE SyncDelete
  BY <1>15, <1>21 DEF TypeOK, SyncDelete, history
<1>22. CASE SyncAutoMark
  <2>1. [DailyReset(ctl, now) EXCEPT !.autoReleased = FALSE] \in CtlType
    BY FlagDown DEF TypeOK
  <2>2. QED
    BY <1>22, <2>1 DEF TypeOK, SyncAutoMark, history
<1>23. CASE SyncMirror
  BY <1>23 DEF TypeOK, SyncMirror, history
<1>24. CASE Crash
  <2>1. /\ ctl.pnl \in Int /\ ctl.peak \in Int /\ ctl.kill \in BOOLEAN
        /\ ctl.until \in Nat /\ Clean \in BOOLEAN
    BY DEF TypeOK, CtlType, Clean
  <2>2. FreshCtl(now) \in CtlType
    BY FreshCtlType DEF TypeOK
  <2>3. pre' \in [pnl : Int, peak : Int, kill : BOOLEAN, until : Nat,
                  at : Nat, clean : BOOLEAN]
    BY <1>24, <2>1 DEF TypeOK, Crash
  <2>4. /\ now' \in Nat /\ open' \in Nat /\ opening' \in BOOLEAN
        /\ stamp' \in Nat /\ opStamp' \in Nat
    BY <1>24 DEF TypeOK, Crash
  <2>5. /\ pend' \subseteq RowType /\ todo' \subseteq RowType
        /\ sync' = "idle" /\ phase' = "down"
    BY <1>24 DEF Crash
  <2>6. /\ rows' \subseteq RowType /\ marker' \in Nat /\ req' \in Nat
        /\ shown' \in BOOLEAN
    BY <1>24 DEF TypeOK, Crash, disk
  <2>7. /\ closes' \in Nat /\ crashes' \in Nat /\ pauseEnd' \in Nat
        /\ late' \subseteq RowType
    BY <1>24 DEF TypeOK, Crash
  <2>8. ctl' \in CtlType
    BY <1>24, <2>2 DEF Crash
  <2>9. QED
    BY <2>3, <2>4, <2>5, <2>6, <2>7, <2>8 DEF TypeOK
<1>25. CASE Boot
  <2>1. FreshCtl(now) \in CtlType
    BY FreshCtlType DEF TypeOK
  <2>2. QED
    BY NoCrashType, <1>25, <2>1 DEF TypeOK, Boot, RowsToday, disk
<1>26. ReleasedToday \in Nat
  BY DEF ReleasedToday, TypeOK
<1>27. ASSUME NEW r \in todo, Replay(r) PROVE TypeOK'
  <2>1. ReplayClose(ctl, r, ReleasedToday) \in CtlType
    BY <1>26, ReplayCloseType DEF TypeOK
  <2>2. QED
    BY <1>27, <2>1 DEF TypeOK, Replay, disk, history
<1>28. CASE ReplayEnd
  <2>1. ReplayDone(ctl, ReleasedToday, now) \in CtlType
    BY <1>26, ReplayDoneType DEF TypeOK
  <2>2. QED
    BY NoCrashType, <1>28, <2>1 DEF TypeOK, ReplayEnd, disk
<1>29. CASE UNCHANGED vars
  BY <1>29 DEF TypeOK, vars, memory, disk, history
<1>30. QED
  BY <1>1, <1>2, <1>3, <1>4, <1>6, <1>7, <1>8, <1>11, <1>12, <1>13, <1>14,
     <1>16, <1>17, <1>18, <1>19, <1>20, <1>21, <1>22, <1>23, <1>24, <1>25,
     <1>27, <1>28, <1>29 DEF Next, Trade, Release, Sync, Restart

\* The initial state has the types.
LEMMA InitType == Init => TypeOK
<1> SUFFICES ASSUME Init PROVE TypeOK
  OBVIOUS
<1>1. /\ now \in Nat /\ phase = "up" /\ open \in Nat
      /\ opening \in BOOLEAN
  BY DEF Init
<1>2. ctl \in CtlType
  BY FreshCtlType DEF Init
<1>3. /\ pend \subseteq RowType /\ rows \subseteq RowType
      /\ todo \subseteq RowType
  BY DEF Init
<1>4. /\ marker \in Nat /\ req \in Nat /\ shown \in BOOLEAN
      /\ sync = "idle"
  BY DEF Init
<1>5. /\ stamp \in Nat /\ opStamp \in Nat /\ closes \in Nat
      /\ crashes \in Nat /\ pauseEnd \in Nat
  BY DEF Init
<1>6. QED
  BY <1>1, <1>2, <1>3, <1>4, <1>5, NoCrashType DEF Init, TypeOK

\* Every variable of the slot has its type in every reachable state.
THEOREM TypeCorrect == Spec => []TypeOK
  BY InitType, TypeStep, PTL DEF Spec

-----------------------------------------------------------------------------
(* The halt.                                                               *)

\* With a finite pause every halt has a deadline ...
DeadlineSet == KillPause > 0 /\ ctl.kill => ctl.until > 0

\* ... and while the pause of the last breach runs, the slot is up and its
\* halt reaches at least to the end of that pause.
PauseKept ==
  /\ pauseEnd > 0 => KillPause > 0 /\ phase = "up"
  /\ now < pauseEnd => ctl.kill /\ ctl.until >= pauseEnd

\* DrawdownHalts is inductive with the types alone; the pause needs the rest.
HaltInv == TypeOK /\ DrawdownHalts /\ DeadlineSet /\ PauseKept

\* A slot that keeps its controller and its clock keeps the invariant.
LEMMA HaltFrame ==
  ASSUME HaltInv, TypeOK', ctl' = ctl, now' = now, phase' = phase,
         pauseEnd' = pauseEnd
  PROVE  HaltInv'
BY DEF HaltInv, DrawdownHalts, DeadlineSet, PauseKept, DrawdownBreached

\* So does a slot whose new controller is guarded and keeps the halt as it is.
LEMMA HaltSame ==
  ASSUME HaltInv, TypeOK', now' = now, phase' = phase, pauseEnd' = pauseEnd,
         ctl'.kill = ctl.kill, ctl'.until = ctl.until,
         phase = "up" => Guarded(ctl')
  PROVE  HaltInv'
BY DEF HaltInv, DrawdownHalts, DeadlineSet, PauseKept, Guarded

\* And a slot an operator has released.
LEMMA HaltReleased ==
  ASSUME HaltInv, TypeOK', pauseEnd' = 0, ~ctl'.kill, Guarded(ctl')
  PROVE  HaltInv'
BY DEF HaltInv, DrawdownHalts, DeadlineSet, PauseKept, Guarded, TypeOK

\* A close books its result, halts on a breach, and pushes the pause.
LEMMA HaltClose ==
  ASSUME HaltInv, TypeOK', NEW p \in Pnls, phase = "up", phase' = phase,
         now' = now, ctl' = RecordClose(ctl, p, now),
         pauseEnd' = PauseEndAfter(p)
  PROVE  HaltInv'
<1> USE SlotSafetyAssumptions
<1>1. /\ p \in Int /\ ctl \in CtlType /\ now \in Nat
      /\ KillPause > 0 => (ctl.kill => ctl.until > 0)
  BY DEF HaltInv, TypeOK, DeadlineSet
<1>2. /\ Guarded(ctl')
      /\ ctl.kill => ctl'.kill
      /\ KillPause > 0
           => /\ ctl'.kill => ctl'.until > 0
              /\ ctl.kill => ctl'.until >= ctl.until
              /\ DrawdownBreached(AddClose(ctl, p))
                   => ctl'.kill /\ ctl'.until >= now + KillPause
  BY <1>1, RecordCloseType
<1>3. ctl.until \in Int /\ ctl'.until \in Int /\ pauseEnd \in Nat
  BY DEF HaltInv, TypeOK, CtlType
<1>4. DrawdownHalts' /\ DeadlineSet'
  BY <1>2 DEF DrawdownHalts, DeadlineSet, Guarded
<1>5. PauseKept'
  <2>1. CASE KillPause > 0 /\ DrawdownBreached(AddClose(ctl, p))
    BY <1>1, <1>2, <1>3, <2>1 DEF PauseKept, PauseEndAfter
  <2>2. CASE ~(KillPause > 0 /\ DrawdownBreached(AddClose(ctl, p)))
    <3>1. pauseEnd' = pauseEnd
      BY <2>2 DEF PauseEndAfter
    <3>2. QED
      BY <1>1, <1>2, <1>3, <3>1 DEF PauseKept, HaltInv
  <2>3. QED
    BY <2>1, <2>2
<1>6. QED
  BY <1>4, <1>5 DEF HaltInv

\* Every step keeps the invariant of the halt.
LEMMA HaltStep == HaltInv /\ [Next]_vars => HaltInv'
<1> SUFFICES ASSUME HaltInv, [Next]_vars
             PROVE  HaltInv'
  OBVIOUS
<1> USE SlotSafetyAssumptions
<1>1. TypeOK /\ TypeOK' /\ ctl \in CtlType /\ now \in Nat /\ pauseEnd \in Nat
  BY TypeStep DEF HaltInv, TypeOK
<1>2. phase = "up" => Guarded(ctl)
  BY DEF HaltInv, DrawdownHalts, Guarded
<1>3. CASE Tick
  BY <1>1, <1>3 DEF Tick, memory, history, HaltInv, DrawdownHalts, DeadlineSet,
     PauseKept, DrawdownBreached
<1>4. ASSUME NEW ok \in BOOLEAN, CanOpenLive(ok) PROVE HaltInv'
  <2>1. /\ phase = "up" /\ phase' = "up" /\ now' = now
        /\ pauseEnd' = pauseEnd /\ ctl' = AfterGate(ctl, now)
    BY <1>4 DEF CanOpenLive, history
  <2>2. /\ Guarded(ctl')
        /\ ctl'.kill => ctl.kill /\ ctl'.until = ctl.until
        /\ InForce(ctl, now) => ctl'.kill
    BY <1>1, <1>2, <2>1, AfterGateType
  <2>3. DrawdownHalts' /\ DeadlineSet'
    BY <2>2 DEF DrawdownHalts, DeadlineSet, Guarded, HaltInv
  <2>4. PauseKept'
    <3>1. now < pauseEnd => ctl.kill /\ ctl.until >= pauseEnd
      BY DEF HaltInv, PauseKept
    <3>2. ctl.until \in Nat
      BY <1>1 DEF CtlType
    <3>3. now < pauseEnd => InForce(ctl, now)
      BY <1>1, <3>1, <3>2 DEF InForce
    <3>4. QED
      BY <2>1, <2>2, <3>1, <3>3 DEF PauseKept, HaltInv
  <2>5. QED
    BY <1>1, <2>3, <2>4 DEF HaltInv
<1>5. CASE OpenFilled \/ OpenMissed
  BY <1>1, <1>5, HaltFrame DEF OpenFilled, OpenMissed, history
<1>6. ASSUME NEW p \in Pnls, EngineClose(p) \/ ExternalClose(p)
      PROVE  HaltInv'
  <2>1. /\ phase = "up" /\ phase' = phase /\ now' = now
        /\ ctl' = RecordClose(ctl, p, now) /\ pauseEnd' = PauseEndAfter(p)
    BY <1>6 DEF EngineClose, ExternalClose
  <2>2. QED
    BY <1>1, <2>1, HaltClose
<1>7. ASSUME NEW r \in pend, PersistTrade(r) PROVE HaltInv'
  BY <1>1, <1>7, HaltFrame DEF PersistTrade, history
<1>8. CASE OperatorRelease \/ Unkill \/ SyncRelease
  <2>1. \/ ctl' = ReleaseKill(ctl)
        \/ ctl' = ReleaseKill(DailyReset(ctl, now))
    BY <1>8 DEF OperatorRelease, Unkill, SyncRelease
  <2>2. DailyReset(ctl, now) \in CtlType
    BY <1>1, DailyResetType
  <2>3. ~ctl'.kill /\ Guarded(ctl')
    BY <1>1, <2>1, <2>2, ReleaseKillType
  <2>4. pauseEnd' = 0
    BY <1>8 DEF OperatorRelease, Unkill, SyncRelease
  <2>5. QED
    BY <1>1, <2>3, <2>4, HaltReleased
<1>9. CASE OperatorMarked \/ PanelRequest
  BY <1>1, <1>9, HaltFrame DEF OperatorMarked, PanelRequest, memory, history
<1>10. /\ DailyReset(ctl, now).kill = ctl.kill
       /\ DailyReset(ctl, now).until = ctl.until
       /\ phase = "up" => Guarded(DailyReset(ctl, now))
  BY <1>1, <1>2, DailyResetType
<1>11. CASE SyncNoRequest \/ SyncDelete
  <2>1. AfterRequest(ctl) /\ phase = "up" /\ UNCHANGED <<now, phase, pauseEnd>>
    BY <1>11 DEF SyncNoRequest, SyncDelete, history
  <2>2. ctl' = ctl \/ ctl' = DailyReset(ctl, now)
    BY <2>1 DEF AfterRequest
  <2>3. ctl'.kill = ctl.kill /\ ctl'.until = ctl.until /\ Guarded(ctl')
    BY <1>2, <1>10, <2>1, <2>2
  <2>4. QED
    BY <1>1, <2>1, <2>3, HaltSame
<1>12. CASE SyncStaleRequest \/ SyncMark \/ SyncMirror
  BY <1>1, <1>12, HaltFrame DEF SyncStaleRequest, SyncMark, SyncMirror, history
<1>13. CASE SyncNotHalted
  <2>1. /\ ctl' = DailyReset(ctl, now) /\ UNCHANGED <<now, phase, pauseEnd>>
    BY <1>13 DEF SyncNotHalted, history
  <2>2. QED
    BY <1>1, <1>10, <2>1, HaltSame
<1>14. CASE SyncAutoMark
  <2>1. /\ ctl' = [DailyReset(ctl, now) EXCEPT !.autoReleased = FALSE]
        /\ phase = "up" /\ UNCHANGED <<now, phase, pauseEnd>>
    BY <1>14 DEF SyncAutoMark, history
  <2>2. ctl'.kill = ctl.kill /\ ctl'.until = ctl.until /\ Guarded(ctl')
    BY <1>1, <1>2, <2>1, FlagDown
  <2>3. QED
    BY <1>1, <2>1, <2>2, HaltSame
<1>15. CASE Crash \/ Boot
  <2>1. ctl' = FreshCtl(now)
    BY <1>15 DEF Crash, Boot
  <2>2. ~ctl'.kill /\ Guarded(ctl')
    BY <1>1, <2>1, FreshCtlType DEF FreshCtl
  <2>3. pauseEnd' = 0
    BY <1>1, <1>15 DEF Crash, Boot, HaltInv, PauseKept
  <2>4. QED
    BY <1>1, <2>2, <2>3, HaltReleased
<1>16. ReleasedToday \in Nat /\ todo \subseteq RowType
  BY <1>1 DEF ReleasedToday, TypeOK
<1>17. ASSUME NEW r \in todo, Replay(r) PROVE HaltInv'
  <2>1. /\ ctl' = ReplayClose(ctl, r, ReleasedToday)
        /\ phase = "replay" /\ UNCHANGED <<now, phase, pauseEnd>>
    BY <1>17 DEF Replay, history
  <2>2. ctl'.kill = ctl.kill /\ ctl'.until = ctl.until
    BY <1>1, <1>16, <2>1, ReplayCloseType
  <2>3. QED
    BY <1>1, <2>1, <2>2, HaltSame
<1>18. CASE ReplayEnd
  <2>1. /\ ctl' = ReplayDone(ctl, ReleasedToday, now)
        /\ phase = "replay" /\ UNCHANGED <<now, pauseEnd>>
    BY <1>18 DEF ReplayEnd
  <2>2. KillPause > 0 => (ctl.kill => ctl.until > 0)
    BY DEF HaltInv, DeadlineSet
  <2>3. /\ Guarded(ctl')
        /\ KillPause > 0 => (ctl'.kill => ctl'.until > 0)
    BY <1>1, <1>16, <2>1, <2>2, ReplayDoneType
  <2>4. pauseEnd' = 0
    BY <1>1, <2>1 DEF HaltInv, PauseKept
  <2>5. PauseKept'
    BY <1>1, <2>1, <2>4 DEF PauseKept
  <2>6. QED
    BY <1>1, <2>3, <2>5 DEF HaltInv, DrawdownHalts, DeadlineSet, Guarded
<1>19. CASE UNCHANGED vars
  BY <1>1, <1>19, HaltFrame DEF vars, memory, history
<1>20. QED
  BY <1>3, <1>4, <1>5, <1>6, <1>7, <1>8, <1>9, <1>11, <1>12, <1>13, <1>14,
     <1>15, <1>17, <1>18, <1>19 DEF Next, Trade, Release, Sync, Restart

\* The invariant holds throughout.
THEOREM HaltInvariant == Spec => []HaltInv
<1>1. Init => HaltInv
  <2> SUFFICES ASSUME Init PROVE HaltInv
    OBVIOUS
  <2>1. TypeOK
    BY InitType
  <2>2. ~ctl.kill /\ Guarded(ctl) /\ pauseEnd = 0 /\ now = 1
    BY FreshCtlType DEF Init, FreshCtl
  <2>3. QED
    BY <2>1, <2>2 DEF HaltInv, DrawdownHalts, DeadlineSet, PauseKept, Guarded
<1>2. QED
  BY <1>1, HaltStep, PTL DEF Spec
-----------------------------------------------------------------------------
(* What the invariant gives.                                               *)

\* A running slot whose session has fallen by the limit from its peak is
\* halted, whatever closes, resets, releases, expiries and restarts led there.
THEOREM BreachAlwaysHalts == Spec => []DrawdownHalts
<1>1. HaltInv => DrawdownHalts
  BY DEF HaltInv
<1>2. QED
  BY <1>1, HaltInvariant, PTL

\* Only the gate starts an opening.
LEMMA OnlyTheGate ==
  ASSUME [Next]_vars, ~opening, opening'
  PROVE  \E ok \in BOOLEAN : CanOpenLive(ok)
<1>1. ~(UNCHANGED vars) /\ ~Tick
  BY DEF vars, memory, Tick
<1>2. ~OpenFilled /\ ~OpenMissed
  BY DEF OpenFilled, OpenMissed
<1>3. \A p \in Pnls : ~EngineClose(p) /\ ~ExternalClose(p)
  BY DEF EngineClose, ExternalClose
<1>4. \A r \in pend : ~PersistTrade(r)
  BY DEF PersistTrade
<1>5. ~Release
  BY DEF Release, OperatorRelease, Unkill, OperatorMarked, PanelRequest, memory
<1>6. ~Sync
  BY DEF Sync, SyncNoRequest, SyncStaleRequest, SyncRelease, SyncNotHalted,
     SyncMark, SyncDelete, SyncAutoMark, SyncMirror
<1>7. ~Restart
  BY DEF Restart, Crash, Boot, Replay, ReplayEnd
<1>8. QED
  BY <1>1, <1>2, <1>3, <1>4, <1>5, <1>6, <1>7 DEF Next, Trade

\* No order is admitted while a halt is in force or into a session that has
\* no drawdown left (can_open_live).
THEOREM GateNeverAdmitsHalted == Spec => HaltedNeverAdmits
<1>1. ASSUME HaltInv, HaltInv', [Next]_vars, ~opening, opening'
      PROVE  ~InForce(ctl, now) /\ ~DrawdownBreached(ctl')
  <2>1. PICK ok \in BOOLEAN : CanOpenLive(ok)
    BY <1>1, OnlyTheGate
  <2>2. /\ ctl' = AfterGate(ctl, now) /\ ~ctl'.kill /\ phase' = "up"
    BY <1>1, <2>1 DEF CanOpenLive
  <2>3. ~InForce(ctl, now)
    BY <1>1, <2>2, AfterGateType DEF HaltInv, TypeOK
  <2>4. ~DrawdownBreached(ctl')
    BY <1>1, <2>2 DEF HaltInv, DrawdownHalts
  <2>5. QED
    BY <2>3, <2>4
<1>2. HaltInv /\ HaltInv' /\ [Next]_vars
        => [~opening /\ opening'
              => ~InForce(ctl, now) /\ ~DrawdownBreached(ctl')]_vars
  BY <1>1
<1>3. QED
  BY <1>2, HaltInvariant, PTL DEF Spec, HaltedNeverAdmits

\* After a breach the slot sits out a full pause, counted from the last close
\* that breached, unless an operator lifts the halt (engage_kill only ever
\* extends).
THEOREM PauseIsServed == Spec => PauseServed
<1>1. ASSUME HaltInv, [Next]_vars, ~opening, opening'
      PROVE  now >= pauseEnd
  <2>1. PICK ok \in BOOLEAN : CanOpenLive(ok)
    BY <1>1, OnlyTheGate
  <2>2. ctl' = AfterGate(ctl, now) /\ ~ctl'.kill
    BY <1>1, <2>1 DEF CanOpenLive
  <2>3. ~InForce(ctl, now)
    BY <1>1, <2>2, AfterGateType DEF HaltInv, TypeOK
  <2>4. ctl.until \in Nat /\ now \in Nat /\ pauseEnd \in Nat
    BY <1>1 DEF HaltInv, TypeOK, CtlType
  <2>5. QED
    BY <1>1, <2>3, <2>4 DEF HaltInv, PauseKept, InForce
<1>2. HaltInv /\ [Next]_vars => [~opening /\ opening' => now >= pauseEnd]_vars
  BY <1>1
<1>3. QED
  BY <1>2, HaltInvariant, PTL DEF Spec, PauseServed

\* A halt is lifted only by its deadline or by an operator, and each of them
\* leaves in memory what will carry the new peak to live_state.
THEOREM EveryLiftLeavesATrace == Spec => LiftLeavesATrace
<1> DEFINE Trace == \/ ctl.until # 0 /\ now >= ctl.until /\ ctl'.autoReleased
                    \/ opStamp' = now
                    \/ sync' = "mark" /\ stamp' = now
<1>1. ASSUME HaltInv, [Next]_vars, phase = "up", phase' = "up", ctl.kill,
             ~ctl'.kill
      PROVE  Trace
  <2>1. ctl \in CtlType /\ now \in Nat
    BY <1>1 DEF HaltInv, TypeOK
  <2>2. ctl' # ctl
    BY <1>1
  <2>3. ~(UNCHANGED vars) /\ ~Tick /\ ~OpenFilled /\ ~OpenMissed
    BY <2>2 DEF vars, memory, Tick, OpenFilled, OpenMissed
  <2>4. ASSUME NEW ok \in BOOLEAN, CanOpenLive(ok) PROVE Trace
    BY <1>1, <2>1, <2>4, AfterGateType DEF CanOpenLive
  <2>5. \A p \in Pnls : ~EngineClose(p) /\ ~ExternalClose(p)
    <3> SUFFICES ASSUME NEW p \in Pnls, EngineClose(p) \/ ExternalClose(p)
                 PROVE  FALSE
      OBVIOUS
    <3>1. ctl' = RecordClose(ctl, p, now) /\ p \in Int
      BY SlotSafetyAssumptions DEF EngineClose, ExternalClose
    <3>2. QED
      BY <1>1, <2>1, <3>1, RecordCloseType
  <2>6. \A r \in pend : ~PersistTrade(r)
    BY <2>2 DEF PersistTrade
  <2>7. CASE Release
    BY <2>2, <2>7 DEF Release, OperatorRelease, Unkill, OperatorMarked,
       PanelRequest, memory
  <2>8. DailyReset(ctl, now).kill = ctl.kill
    BY <2>1, DailyResetType
  <2>9. ~AfterRequest(ctl)
    BY <1>1, <2>2, <2>8 DEF AfterRequest
  <2>10. ~SyncAutoMark
    <3> SUFFICES ASSUME SyncAutoMark PROVE FALSE
      OBVIOUS
    <3>1. ctl' = [DailyReset(ctl, now) EXCEPT !.autoReleased = FALSE]
      BY DEF SyncAutoMark
    <3>2. QED
      BY <1>1, <2>1, <3>1, FlagDown
  <2>11. CASE Sync
    BY <1>1, <2>2, <2>8, <2>9, <2>10, <2>11 DEF Sync, SyncNoRequest,
       SyncStaleRequest, SyncRelease, SyncNotHalted, SyncMark, SyncDelete,
       SyncMirror
  <2>12. ~Restart
    BY <1>1 DEF Restart, Crash, Boot, Replay, ReplayEnd
  <2>13. QED
    BY <1>1, <2>3, <2>4, <2>5, <2>6, <2>7, <2>11, <2>12 DEF Next, Trade
<1>2. HaltInv /\ [Next]_vars
        => [phase = "up" /\ phase' = "up" /\ ctl.kill /\ ~ctl'.kill
              => Trace]_vars
  BY <1>1
<1>3. QED
  BY <1>2, HaltInvariant, PTL DEF Spec, LiftLeavesATrace

-----------------------------------------------------------------------------
(* Local days.                                                             *)

\* A day is a block of DayLength ticks.
LEMMA DayBlock ==
  ASSUME NEW t \in Nat
  PROVE \E q \in Nat : /\ SessionStart(t) = DayLength * q
                       /\ DayLength * q \in Nat
                       /\ DayLength * q <= t /\ t < DayLength * q + DayLength
<1> DEFINE q == t \div DayLength
           r == t % DayLength
<1>1. DayLength \in Nat \ {0}
  BY SlotSafetyAssumptions
<1>2. q \in Nat /\ r \in Nat /\ r < DayLength /\ t = DayLength * q + r
  BY <1>1
<1>3. SessionStart(t) = t - r
  BY DEF SessionStart
<1> HIDE DEF q, r
<1>4. DayLength * q \in Nat
  BY <1>1, <1>2
<1>5. DayLength * q <= t /\ t < DayLength * q + DayLength
  BY <1>1, <1>2, <1>4
<1>6. SessionStart(t) = DayLength * q
  BY <1>2, <1>3, <1>4
<1>7. QED
  BY <1>2, <1>4, <1>5, <1>6, Zenon

\* The day a time is in begins no later and ends later.
LEMMA DayBounds ==
  ASSUME NEW t \in Nat
  PROVE /\ SessionStart(t) \in Nat /\ SessionStart(t) <= t
        /\ NextReset(t) \in Nat /\ t < NextReset(t)
        /\ NextReset(t) = SessionStart(t) + DayLength
<1>1. DayLength \in Nat
  BY SlotSafetyAssumptions
<1>2. QED
  BY <1>1, DayBlock DEF NextReset

\* Blocks are disjoint.
LEMMA BlocksApart ==
  ASSUME NEW d \in Nat, NEW p \in Nat, NEW q \in Nat, p < q
  PROVE d * p + d <= d * q
<1>1. q - 1 - p \in Nat
  BY SMT
<1>2. PICK k \in Nat : q = p + 1 + k
  BY <1>1
<1>3. d * q = d * p + d + d * k
  BY <1>2
<1>4. d * k \in Nat /\ d * p \in Nat
  OBVIOUS
<1>5. QED
  BY <1>3, <1>4

\* Of two times the later is in the same day or in one that begins after it.
LEMMA DaysInOrder ==
  ASSUME NEW s \in Nat, NEW t \in Nat, s <= t
  PROVE /\ SessionStart(s) <= SessionStart(t)
        /\ t < NextReset(s) => SessionStart(t) = SessionStart(s)
        /\ t >= NextReset(s) => SessionStart(t) >= NextReset(s)
<1>1. DayLength \in Nat
  BY SlotSafetyAssumptions
<1>2. PICK p \in Nat :
        /\ SessionStart(s) = DayLength * p /\ DayLength * p \in Nat
        /\ DayLength * p <= s /\ s < DayLength * p + DayLength
  BY DayBlock
<1>3. PICK q \in Nat :
        /\ SessionStart(t) = DayLength * q /\ DayLength * q \in Nat
        /\ DayLength * q <= t /\ t < DayLength * q + DayLength
  BY DayBlock
<1>4. p < q => DayLength * p + DayLength <= DayLength * q
  BY <1>1, BlocksApart
<1>5. q < p => DayLength * q + DayLength <= DayLength * p
  BY <1>1, BlocksApart
<1>6. p < q \/ p = q \/ q < p
  OBVIOUS
<1>7. QED
  BY <1>1, <1>2, <1>3, <1>4, <1>5, <1>6 DEF NextReset

-----------------------------------------------------------------------------
(* Running totals.  The replay adds up a set of rows; the proofs carry the *)
(* total after each row as a function, so that no sum is ever computed.    *)

\* A set of rows with at most one a second, none later than n
Book(S, n) ==
  /\ S \subseteq RowType /\ IsFiniteSet(S)
  /\ \A r \in S : r.at <= n
  /\ \A r, q \in S : r.at = q.at => r = q

Earlier(S, t) == {q \in S : q.at < t}

Totals == [RowType -> Int]

\* The total after the last row of S
Total(S, tot) ==
  IF S = {} THEN 0 ELSE tot[CHOOSE r \in S : \A q \in S : q.at <= r.at]

\* tot has, for each row of S, the total after it.
Chain(S, tot) == \A r \in S : tot[r] = Total(Earlier(S, r.at), tot) + r.pnl

\* A part of a book is a book.
LEMMA PartOfBook ==
  ASSUME NEW S, NEW n \in Nat, Book(S, n), NEW T, T \subseteq S
  PROVE Book(T, n)
<1>1. IsFiniteSet(T)
  BY FS_Subset DEF Book
<1>2. QED
  BY <1>1 DEF Book

\* A book that is not empty has a last row.
LEMMA LastRow ==
  ASSUME NEW S, NEW n \in Nat, Book(S, n), S # {}
  PROVE \E r \in S : \A q \in S : q.at <= r.at
<1> DEFINE Later(r) == {q \in S : q.at > r.at}
           W == {Later(r) : r \in S}
<1>1. \A r \in S : r.at \in Nat
  BY DEF Book, RowType
<1>2. W \subseteq FiniteSubsetsOf(S) /\ W # {}
  <2>1. ASSUME NEW r \in S PROVE Later(r) \in SUBSET S /\ IsFiniteSet(Later(r))
    BY FS_Subset DEF Book
  <2>2. QED
    BY <2>1 DEF FiniteSubsetsOf
<1>3. PICK w \in W : \A v \in W : <<v, w>> \notin StrictSubsetOrdering(S)
  BY <1>2, WFMin, FS_StrictSubsetOrderingWellFounded
<1>4. PICK r \in S : w = Later(r)
  OBVIOUS
<1>5. ASSUME NEW q \in S, q.at > r.at PROVE FALSE
  <2>1. q \in Later(r) /\ q \notin Later(q)
    BY <1>1, <1>5
  <2>2. Later(q) \subseteq Later(r)
    BY <1>1, <1>5
  <2>3. Later(q) \in W /\ Later(q) \in SUBSET S /\ Later(r) \in SUBSET S
    OBVIOUS
  <2>4. Later(q) # Later(r)
    BY <2>1
  <2> HIDE DEF Later, W
  <2>5. <<Later(q), Later(r)>> \in StrictSubsetOrdering(S)
    BY <2>2, <2>3, <2>4 DEF StrictSubsetOrdering
  <2>6. QED
    BY <1>3, <1>4, <2>3, <2>5
<1>6. \A q \in S : q.at <= r.at
  BY <1>1, <1>5
<1>7. QED
  BY <1>6

\* The total is the one after the last row.
LEMMA TotalAtLast ==
  ASSUME NEW S, NEW n \in Nat, Book(S, n), NEW tot, NEW r \in S,
         \A q \in S : q.at <= r.at
  PROVE Total(S, tot) = tot[r]
<1> DEFINE c == CHOOSE p \in S : \A q \in S : q.at <= p.at
<1>1. c \in S /\ \A q \in S : q.at <= c.at
  OBVIOUS
<1>2. r.at \in Nat /\ c.at \in Nat
  BY <1>1 DEF Book, RowType
<1>3. c.at = r.at
  BY <1>1, <1>2
<1>4. c = r
  BY <1>1, <1>3 DEF Book
<1>5. QED
  BY <1>4 DEF Total

\* Totals are numbers.
LEMMA TotalType ==
  ASSUME NEW S, NEW n \in Nat, Book(S, n), NEW tot \in Totals
  PROVE Total(S, tot) \in Int
<1>1. CASE S = {}
  BY <1>1 DEF Total
<1>2. CASE S # {}
  <2>1. PICK r \in S : \A q \in S : q.at <= r.at
    BY <1>2, LastRow
  <2>2. Total(S, tot) = tot[r]
    BY <2>1, TotalAtLast
  <2>3. QED
    BY <2>2 DEF Book, Totals
<1>3. QED
  BY <1>1, <1>2

\* Only the rows of S matter.
LEMMA TotalAgrees ==
  ASSUME NEW S, NEW n \in Nat, Book(S, n), NEW tot, NEW new,
         \A r \in S : new[r] = tot[r]
  PROVE Total(S, new) = Total(S, tot)
<1>1. CASE S = {}
  BY <1>1 DEF Total
<1>2. CASE S # {}
  <2>1. PICK r \in S : \A q \in S : q.at <= r.at
    BY <1>2, LastRow
  <2>2. QED
    BY <2>1, TotalAtLast
<1>3. QED
  BY <1>1, <1>2

\* The totals with a later row r added
Extended(S, tot, r) == [tot EXCEPT ![r] = Total(S, tot) + r.pnl]

\* What a later row adds, and what it leaves
Grows(S, n, tot, r) ==
  /\ Book(S \cup {r}, n)
  /\ Extended(S, tot, r) \in Totals
  /\ Chain(S \cup {r}, Extended(S, tot, r))
  /\ Total(S \cup {r}, Extended(S, tot, r)) = Total(S, tot) + r.pnl
  /\ Extended(S, tot, r)[r] = Total(S, tot) + r.pnl
  /\ \A q \in S : Extended(S, tot, r)[q] = tot[q]
  /\ \A t \in Nat : t <= r.at
       => Total(Earlier(S \cup {r}, t), Extended(S, tot, r))
            = Total(Earlier(S, t), tot)
  /\ Cardinality(S \cup {r}) = Cardinality(S) + 1

\* A later row extends a book and its totals and leaves the earlier ones.
LEMMA ChainGrows ==
  ASSUME NEW S, NEW n \in Nat, Book(S, n), NEW tot \in Totals, Chain(S, tot),
         NEW r \in RowType, r.at <= n, \A q \in S : q.at < r.at
  PROVE Grows(S, n, tot, r)
<1> DEFINE T == S \cup {r}
           v == Total(S, tot) + r.pnl
           new == Extended(S, tot, r)
<1>1. /\ r.at \in Nat /\ r.pnl \in Int /\ r \notin S
      /\ \A q \in S : q \in RowType /\ q.at \in Nat
  BY DEF RowType, Book
<1>2. v \in Int
  BY <1>1, TotalType
<1>3. new = [tot EXCEPT ![r] = v]
  BY DEF Extended
<1> HIDE DEF v, new
<1>4. new \in Totals /\ new[r] = v /\ \A q \in S : new[q] = tot[q]
  BY <1>1, <1>2, <1>3 DEF Totals
<1>5. IsFiniteSet(T) /\ Cardinality(T) = Cardinality(S) + 1
  BY <1>1, FS_AddElement DEF Book
<1>6. Book(T, n)
  <2>1. T \subseteq RowType /\ \A q \in T : q.at <= n
    BY DEF Book
  <2>2. \A p, q \in T : p.at = q.at => p = q
    BY <1>1 DEF Book
  <2>3. QED
    BY <1>5, <2>1, <2>2 DEF Book
<1>7. ASSUME NEW t \in Nat, t <= r.at
      PROVE  Total(Earlier(T, t), new) = Total(Earlier(S, t), tot)
  <2>1. Earlier(T, t) = Earlier(S, t)
    BY <1>1, <1>7 DEF Earlier
  <2>2. Earlier(S, t) \subseteq S
    BY DEF Earlier
  <2>3. Book(Earlier(S, t), n)
    BY <2>2, PartOfBook
  <2>4. QED
    BY <1>4, <2>1, <2>2, <2>3, TotalAgrees
<1>8. Total(T, new) = v
  <2>1. \A q \in T : q.at <= r.at
    BY <1>1
  <2>2. r \in T
    OBVIOUS
  <2>3. QED
    BY <1>4, <1>6, <2>1, <2>2, TotalAtLast
<1>9. Earlier(S, r.at) = S
  BY DEF Earlier
<1>10. Chain(T, new)
  <2>1. new[r] = Total(Earlier(T, r.at), new) + r.pnl
    BY <1>1, <1>4, <1>7, <1>9 DEF v
  <2>2. ASSUME NEW q \in S
        PROVE  new[q] = Total(Earlier(T, q.at), new) + q.pnl
    <3>1. q.at \in Nat /\ q.at <= r.at
      BY <1>1
    <3>2. QED
      BY <1>4, <1>7, <3>1 DEF Chain
  <2>3. QED
    BY <2>1, <2>2 DEF Chain
<1>11. QED
  BY <1>4, <1>5, <1>6, <1>7, <1>8, <1>10 DEF v, new, Grows

-----------------------------------------------------------------------------
(* Sessions.                                                               *)

\* h is the highest total since the re-basing at l.
PeakOf(h, S, tot, l) ==
  /\ Total(Earlier(S, l), tot) <= h
  /\ \A r \in S : r.at >= l => tot[r] <= h
  /\ h = Total(Earlier(S, l), tot) \/ \E r \in S : r.at >= l /\ h = tot[r]

\* c (a controller, or what the crash left of one) has gone through the
\* closes of S, and was re-based at l.
Session(c, S, tot, l) ==
  Chain(S, tot) /\ c.pnl = Total(S, tot) /\ PeakOf(c.peak, S, tot, l)

\* A peak stays a bound when the session is looked at from later on.
LEMMA PeakCovers ==
  ASSUME NEW S, NEW n \in Nat, Book(S, n), NEW tot \in Totals, NEW h \in Int,
         NEW l \in Nat, NEW m \in Nat, PeakOf(h, S, tot, l), l <= m
  PROVE /\ Total(Earlier(S, m), tot) <= h
        /\ \A r \in S : r.at >= m => tot[r] <= h
<1>1. \A r \in S : r.at \in Nat
  BY DEF Book, RowType
<1>2. /\ Earlier(S, m) \subseteq S /\ Earlier(S, l) \subseteq Earlier(S, m)
      /\ Earlier(S, l) \subseteq S
  BY <1>1 DEF Earlier
<1>3. Book(Earlier(S, m), n) /\ Book(Earlier(S, l), n)
  BY <1>2, PartOfBook
<1>4. Total(Earlier(S, m), tot) <= h
  <2>1. CASE Earlier(S, m) = {}
    <3>1. Earlier(S, l) = {}
      BY <1>2, <2>1
    <3>2. QED
      BY <2>1, <3>1 DEF PeakOf
  <2>2. CASE Earlier(S, m) # {}
    <3>1. PICK r \in Earlier(S, m) : \A q \in Earlier(S, m) : q.at <= r.at
      BY <1>3, <2>2, LastRow
    <3>2. Total(Earlier(S, m), tot) = tot[r]
      BY <1>3, <3>1, TotalAtLast
    <3>3. CASE r.at >= l
      BY <1>2, <3>2, <3>3 DEF PeakOf
    <3>4. CASE r.at < l
      <4>1. r \in Earlier(S, l) /\ \A q \in Earlier(S, l) : q.at <= r.at
        BY <1>2, <3>1, <3>4 DEF Earlier
      <4>2. Total(Earlier(S, l), tot) = tot[r]
        BY <1>3, <4>1, TotalAtLast
      <4>3. QED
        BY <3>2, <4>2 DEF PeakOf
    <3>5. r.at \in Nat
      BY <1>1, <1>2
    <3>6. QED
      BY <3>3, <3>4, <3>5
  <2>3. QED
    BY <2>1, <2>2
<1>5. \A r \in S : r.at >= m => tot[r] <= h
  BY <1>1 DEF PeakOf
<1>6. QED
  BY <1>4, <1>5

\* A session re-based later has no higher peak.
LEMMA LaterPeakIsLower ==
  ASSUME NEW S, NEW n \in Nat, Book(S, n), NEW tot \in Totals, NEW h \in Int,
         NEW g \in Int, NEW l \in Nat, NEW m \in Nat, PeakOf(h, S, tot, l),
         PeakOf(g, S, tot, m), l <= m
  PROVE g <= h
<1>1. /\ Total(Earlier(S, m), tot) <= h
      /\ \A r \in S : r.at >= m => tot[r] <= h
  BY PeakCovers
<1>2. QED
  BY <1>1 DEF PeakOf

\* Nothing but the rows between two moments tells them apart.
LEMMA PeakMoves ==
  ASSUME NEW S, NEW n \in Nat, Book(S, n), NEW tot, NEW h, NEW l \in Nat,
         NEW m \in Nat, PeakOf(h, S, tot, l),
         \A r \in S : r.at >= l <=> r.at >= m
  PROVE PeakOf(h, S, tot, m)
<1>1. \A r \in S : r.at \in Nat
  BY DEF Book, RowType
<1>2. Earlier(S, l) = Earlier(S, m)
  BY <1>1 DEF Earlier
<1>3. QED
  BY <1>2 DEF PeakOf

\* d is c after one more close with result p.
Adds(d, c, p) ==
  /\ d.pnl = c.pnl + p /\ d.trades = c.trades + 1 /\ d.resetAt = c.resetAt
  /\ d.peak = IF c.pnl + p > c.peak THEN c.pnl + p ELSE c.peak

\* One more close: the peak is the old one or the new total.
LEMMA SessionAdds ==
  ASSUME NEW S, NEW n \in Nat, Book(S, n), NEW tot \in Totals, NEW l \in Nat,
         NEW c, c.pnl \in Int, c.peak \in Int, Session(c, S, tot, l),
         NEW r \in RowType, r.at <= n, \A q \in S : q.at < r.at, l <= r.at,
         NEW d, Adds(d, c, r.pnl)
  PROVE /\ Book(S \cup {r}, n)
        /\ Extended(S, tot, r) \in Totals
        /\ Session(d, S \cup {r}, Extended(S, tot, r), l)
        /\ Cardinality(S \cup {r}) = Cardinality(S) + 1
<1> DEFINE T == S \cup {r}
           new == Extended(S, tot, r)
           v == c.pnl + r.pnl
<1>1. /\ r.at \in Nat /\ r.pnl \in Int /\ v \in Int
      /\ \A q \in S : q.at \in Nat /\ tot[q] \in Int
  <2>1. \A q \in RowType : q.at \in Nat /\ q.pnl \in Int
    BY DEF RowType
  <2>2. \A q \in S : q \in RowType /\ tot[q] \in Int
    BY DEF Book, Totals
  <2>3. QED
    BY <2>1, <2>2
<1>2. /\ Chain(S, tot) /\ c.pnl = Total(S, tot) /\ PeakOf(c.peak, S, tot, l)
  BY DEF Session
<1>3. /\ Book(T, n) /\ new \in Totals /\ Chain(T, new)
      /\ Total(T, new) = v /\ new[r] = v
      /\ \A q \in S : new[q] = tot[q]
      /\ \A t \in Nat : t <= r.at
           => Total(Earlier(T, t), new) = Total(Earlier(S, t), tot)
      /\ Cardinality(T) = Cardinality(S) + 1
  <2>1. Total(S, tot) + r.pnl = v
    BY <1>2
  <2>2. Chain(S, tot)
    BY <1>2
  <2>3. Grows(S, n, tot, r)
    BY <2>2, ChainGrows
  <2> HIDE DEF v
  <2>4. QED
    BY <2>1, <2>3 DEF Grows
<1> HIDE DEF new
<1>4. Total(Earlier(T, l), new) = Total(Earlier(S, l), tot)
  BY <1>3
<1>5. Total(Earlier(S, l), tot) \in Int
  <2>1. Earlier(S, l) \subseteq S
    BY DEF Earlier
  <2>2. QED
    BY <2>1, PartOfBook, TotalType
<1>6. d.peak \in Int /\ c.peak <= d.peak /\ v <= d.peak
      /\ (d.peak = c.peak \/ d.peak = v)
  BY <1>1 DEF Adds
<1>7. PeakOf(d.peak, T, new, l)
  <2>1. Total(Earlier(T, l), new) <= d.peak
    BY <1>2, <1>4, <1>5, <1>6 DEF PeakOf
  <2>2. \A q \in T : q.at >= l => new[q] <= d.peak
    BY <1>1, <1>2, <1>3, <1>6 DEF PeakOf
  <2>3. d.peak = Total(Earlier(T, l), new)
          \/ \E q \in T : q.at >= l /\ d.peak = new[q]
    <3>1. CASE d.peak = v
      BY <1>1, <1>3, <3>1
    <3>2. CASE d.peak = c.peak
      <4>1. CASE c.peak = Total(Earlier(S, l), tot)
        BY <1>4, <3>2, <4>1
      <4>2. CASE \E q \in S : q.at >= l /\ c.peak = tot[q]
        BY <1>3, <3>2, <4>2
      <4>3. QED
        BY <1>2, <4>1, <4>2 DEF PeakOf
    <3>3. QED
      BY <1>6, <3>1, <3>2
  <2>4. QED
    BY <2>1, <2>2, <2>3 DEF PeakOf
<1>8. QED
  BY <1>3, <1>7 DEF Session, new, Adds

\* A re-basing after the last close: release, expiry, or the replay's.
LEMMA SessionRebased ==
  ASSUME NEW S, NEW n \in Nat, Book(S, n), NEW tot \in Totals, NEW c, NEW l,
         Session(c, S, tot, l), NEW d, d.pnl = c.pnl, d.peak = c.pnl,
         NEW t \in Nat, \A q \in S : q.at < t
  PROVE Session(d, S, tot, t)
<1>1. \A q \in S : q.at \in Nat
  BY DEF Book, RowType
<1>2. Earlier(S, t) = S
  BY DEF Earlier
<1>3. Total(S, tot) \in Int
  BY TotalType
<1>4. PeakOf(d.peak, S, tot, t)
  BY <1>1, <1>2, <1>3 DEF PeakOf, Session
<1>5. QED
  BY <1>4 DEF Session

\* A session that has seen nothing.
LEMMA SessionEmpty ==
  ASSUME NEW c, c.pnl = 0, c.peak = 0, NEW tot, NEW l \in Nat
  PROVE Session(c, {}, tot, l)
<1>1. Earlier({}, l) = {} /\ Total({}, tot) = 0
  BY DEF Earlier, Total
<1>2. QED
  BY <1>1 DEF Session, Chain, PeakOf

\* The empty book and totals to begin with.
LEMMA EmptyBook ==
  ASSUME NEW n \in Nat
  PROVE /\ Book({}, n) /\ Cardinality({}) = 0
        /\ [r \in RowType |-> 0] \in Totals
BY FS_EmptySet DEF Book, Totals

-----------------------------------------------------------------------------
(* What the controller of a running slot remembers of the closes R at time *)
(* n, with the marker m on disk; lift says that a release is on its way    *)
(* there.                                                                  *)

\* The closes the session counts: all since the roll-over it is due at, none
\* of a day before.
Counted(c, S, R, n) ==
  /\ S \subseteq R /\ c.trades = Cardinality(S)
  /\ \A r \in R : r.at >= c.resetAt => r \in S
  /\ \E t \in 0..n : /\ c.resetAt = NextReset(t)
                     /\ \A r \in S : r.at >= SessionStart(t)

\* The re-basing at l is one the marker accounts for, or will; without
\* expiries no close lies between the two.
Marked(S, l, m, lift, n) ==
  /\ l <= n
  /\ l <= SessionStart(n) \/ l <= m \/ lift
  /\ KillPause = 0
       => \A r \in S : r.at >= l => r.at >= m /\ (lift => r.at >= n)

Fits(c, S, tot, l, R, m, lift, n) ==
  Counted(c, S, R, n) /\ Session(c, S, tot, l) /\ Marked(S, l, m, lift, n)

Memory(c, R, m, lift, n) ==
  \E S \in SUBSET RowType : \E tot \in Totals : \E l \in Nat :
    Fits(c, S, tot, l, R, m, lift, n)

\* Two controllers with the same session
SameSession(d, c) ==
  /\ d.pnl = c.pnl /\ d.peak = c.peak /\ d.trades = c.trades
  /\ d.resetAt = c.resetAt

\* Only the session matters.
LEMMA MemorySame ==
  ASSUME NEW c, NEW d, SameSession(d, c), NEW R, NEW m, NEW lift, NEW n,
         Memory(c, R, m, lift, n)
  PROVE Memory(d, R, m, lift, n)
<1>1. PICK S \in SUBSET RowType, tot \in Totals, l \in Nat :
        Fits(c, S, tot, l, R, m, lift, n)
  BY DEF Memory
<1>2. Fits(d, S, tot, l, R, m, lift, n)
  BY <1>1 DEF Fits, Counted, Session, SameSession
<1>3. QED
  BY <1>2 DEF Memory

\* A controller that has counted nothing since it was rolled over at n.
LEMMA MemoryEmpty ==
  ASSUME NEW n \in Nat, NEW R, Book(R, n), NEW m, NEW lift, NEW c,
         c.pnl = 0, c.peak = 0, c.trades = 0, c.resetAt = NextReset(n)
  PROVE Memory(c, R, m, lift, n)
<1> DEFINE tot == [r \in RowType |-> 0]
<1>1. Book({}, n) /\ Cardinality({}) = 0 /\ tot \in Totals
  BY EmptyBook
<1> HIDE DEF tot
<1>2. n < NextReset(n) /\ SessionStart(n) \in Nat /\ NextReset(n) \in Nat
  BY DayBounds
<1>3. \A r \in R : ~(r.at >= c.resetAt)
  BY <1>2 DEF Book, RowType
<1>4. Counted(c, {}, R, n)
  BY <1>1, <1>3 DEF Counted
<1>5. Session(c, {}, tot, 0)
  BY SessionEmpty
<1>6. Marked({}, 0, m, lift, n)
  BY <1>2 DEF Marked
<1>7. Fits(c, {}, tot, 0, R, m, lift, n)
  BY <1>4, <1>5, <1>6 DEF Fits
<1>8. QED
  BY <1>1, <1>7 DEF Memory

\* A release or an expiry at n, in a second without a close.
LEMMA MemoryReleased ==
  ASSUME NEW n \in Nat, NEW R, Book(R, n), NEW m, NEW lift, NEW c, NEW d,
         Memory(c, R, m, lift, n), \A r \in R : r.at # n,
         d.pnl = c.pnl, d.peak = c.pnl, d.trades = c.trades,
         d.resetAt = c.resetAt
  PROVE Memory(d, R, m, TRUE, n)
<1>1. PICK S \in SUBSET RowType, tot \in Totals, l \in Nat :
        Fits(c, S, tot, l, R, m, lift, n)
  BY DEF Memory
<1>2. Counted(d, S, R, n) /\ S \subseteq R
  BY <1>1 DEF Fits, Counted
<1>3. Book(S, n)
  BY <1>2, PartOfBook
<1>4. \A r \in S : r.at \in Nat /\ r.at < n
  BY <1>2, <1>3 DEF Book, RowType
<1>5. Session(d, S, tot, n)
  BY <1>1, <1>3, <1>4, SessionRebased DEF Fits
<1>6. Marked(S, n, m, TRUE, n)
  BY <1>4 DEF Marked
<1>7. Fits(d, S, tot, n, R, m, TRUE, n)
  BY <1>2, <1>5, <1>6 DEF Fits
<1>8. QED
  BY <1>7 DEF Memory

\* The marker is written.
LEMMA MemoryMarked ==
  ASSUME NEW n \in Nat, NEW R, Book(R, n), NEW m, NEW lift, NEW after, NEW c,
         Memory(c, R, m, lift, n), KillPause = 0 => lift
  PROVE Memory(c, R, n, after, n)
<1>1. PICK S \in SUBSET RowType, tot \in Totals, l \in Nat :
        Fits(c, S, tot, l, R, m, lift, n)
  BY DEF Memory
<1>2. Marked(S, l, n, after, n)
  BY <1>1 DEF Fits, Marked
<1>3. Fits(c, S, tot, l, R, n, after, n)
  BY <1>1, <1>2 DEF Fits
<1>4. QED
  BY <1>3 DEF Memory

\* Without expiries a release that is on its way is of this tick; else
\* knowing more of releases on their way does no harm.
LEMMA MemoryLifting ==
  ASSUME NEW n, NEW R, NEW m, NEW lift, NEW after, NEW c,
         Memory(c, R, m, lift, n), lift => after, KillPause = 0 => after = lift
  PROVE Memory(c, R, m, after, n)
<1>1. PICK S \in SUBSET RowType, tot \in Totals, l \in Nat :
        Fits(c, S, tot, l, R, m, lift, n)
  BY DEF Memory
<1>2. Marked(S, l, m, after, n)
  BY <1>1 DEF Fits, Marked
<1>3. Fits(c, S, tot, l, R, m, after, n)
  BY <1>1, <1>2 DEF Fits
<1>4. QED
  BY <1>3 DEF Memory

\* A close at n, the first of its second.
LEMMA MemoryCloses ==
  ASSUME NEW n \in Nat, NEW R, Book(R, n), NEW m \in Nat, m <= n, NEW lift,
         NEW c \in CtlType, Memory(c, R, m, lift, n), NEW r \in RowType,
         r.at = n, \A q \in R : q.at # n, NEW d, Adds(d, c, r.pnl)
  PROVE Memory(d, R \cup {r}, m, lift, n)
<1>1. PICK S \in SUBSET RowType, tot \in Totals, l \in Nat :
        Fits(c, S, tot, l, R, m, lift, n)
  BY DEF Memory
<1> DEFINE T == S \cup {r}
           new == Extended(S, tot, r)
<1>2. /\ S \subseteq R /\ l <= n /\ Session(c, S, tot, l)
      /\ c.trades = Cardinality(S)
  BY <1>1 DEF Fits, Counted, Marked
<1>3. Book(S, n)
  BY <1>2, PartOfBook
<1>4. \A q \in S : q.at < r.at
  BY <1>2, <1>3 DEF Book, RowType
<1>5. c.pnl \in Int /\ c.peak \in Int
  BY DEF CtlType
<1>6. r.at <= n /\ l <= r.at
  BY <1>2
<1>7. /\ new \in Totals /\ Session(d, T, new, l)
      /\ Cardinality(T) = Cardinality(S) + 1
  BY <1>2, <1>3, <1>4, <1>5, <1>6, SessionAdds
<1>8. Counted(d, T, R \cup {r}, n)
  <2>1. PICK t \in 0..n : /\ c.resetAt = NextReset(t)
                          /\ \A q \in S : q.at >= SessionStart(t)
    BY <1>1 DEF Fits, Counted
  <2>2. SessionStart(t) \in Nat /\ SessionStart(t) <= t
    BY DayBounds
  <2>3. \A q \in T : q.at >= SessionStart(t)
    BY <2>1, <2>2
  <2>4. \A q \in R : q.at >= d.resetAt => q \in T
    BY <1>1 DEF Fits, Counted, Adds
  <2>5. QED
    BY <1>2, <1>7, <2>1, <2>3, <2>4 DEF Counted, Adds
<1>9. Marked(T, l, m, lift, n)
  BY <1>1 DEF Fits, Marked
<1> HIDE DEF new
<1>10. Fits(d, T, new, l, R \cup {r}, m, lift, n)
  BY <1>7, <1>8, <1>9 DEF Fits
<1>11. T \in SUBSET RowType
  OBVIOUS
<1>12. QED
  BY <1>7, <1>10, <1>11 DEF Memory

\* The clock moves on.
LEMMA MemoryTicks ==
  ASSUME NEW n \in Nat, NEW R, Book(R, n), NEW m \in Nat, NEW lift \in BOOLEAN,
         KillPause = 0 => ~lift, NEW c, Memory(c, R, m, lift, n)
  PROVE Memory(c, R, m, lift, n + 1)
<1>1. PICK S \in SUBSET RowType, tot \in Totals, l \in Nat :
        Fits(c, S, tot, l, R, m, lift, n)
  BY DEF Memory
<1>2. Counted(c, S, R, n + 1)
  BY <1>1 DEF Fits, Counted
<1>3. /\ SessionStart(n) <= SessionStart(n + 1)
      /\ SessionStart(n) \in Nat /\ SessionStart(n + 1) \in Nat
  BY DaysInOrder, DayBounds
<1>4. Marked(S, l, m, lift, n + 1)
  BY <1>1, <1>3 DEF Fits, Marked
<1>5. Fits(c, S, tot, l, R, m, lift, n + 1)
  BY <1>1, <1>2, <1>4 DEF Fits
<1>6. QED
  BY <1>5 DEF Memory

-----------------------------------------------------------------------------
(* What the methods of the controller do to its session.                   *)

\* A halt does not touch the session.
LEMMA EngageSame ==
  ASSUME NEW c \in CtlType, NEW t \in Nat
  PROVE /\ SameSession(EngageKill(c, t), c)
        /\ EngageKill(c, t).autoReleased = c.autoReleased
        /\ KillPause = 0 /\ c.until = 0 => EngageKill(c, t).until = 0
<1> DEFINE k == KillDeadline(t)
           d == [c EXCEPT !.kill = TRUE, !.until = k]
<1>1. EngageKill(c, t) = IF KeepExisting(c, t) THEN c ELSE d
  BY DEF EngageKill
<1>2. KillPause = 0 => k = 0
  BY DEF KillDeadline
<1> HIDE DEF k
<1>3. /\ d.pnl = c.pnl /\ d.peak = c.peak /\ d.trades = c.trades
      /\ d.resetAt = c.resetAt /\ d.autoReleased = c.autoReleased
      /\ d.until = k
  BY DEF CtlType
<1> HIDE DEF d
<1>4. QED
  BY <1>1, <1>2, <1>3 DEF SameSession

\* A close adds one result, halt or not.
LEMMA AddCloseAdds ==
  ASSUME NEW c \in CtlType, NEW p \in Int
  PROVE /\ Adds(AddClose(c, p), c, p)
        /\ AddClose(c, p).autoReleased = c.autoReleased
        /\ AddClose(c, p).releaseApplied = c.releaseApplied
<1> DEFINE q == c.pnl + p
           h == IF q > c.peak THEN q ELSE c.peak
           n == c.trades + 1
           d == [c EXCEPT !.pnl = q, !.trades = n, !.peak = h]
<1>1. AddClose(c, p) = d
  BY DEF AddClose
<1>2. /\ d.pnl = q /\ d.trades = n /\ d.peak = h
      /\ d.resetAt = c.resetAt /\ d.autoReleased = c.autoReleased
      /\ d.releaseApplied = c.releaseApplied
  <2> HIDE DEF q, h, n
  <2>1. QED
    BY DEF CtlType
<1> HIDE DEF d
<1>3. QED
  BY <1>1, <1>2 DEF Adds

\* record_close adds it too.
LEMMA RecordCloseAdds ==
  ASSUME NEW c \in CtlType, NEW p \in Int, NEW t \in Nat
  PROVE /\ Adds(RecordClose(c, p, t), c, p)
        /\ RecordClose(c, p, t).autoReleased = c.autoReleased
        /\ KillPause = 0 /\ c.until = 0 => RecordClose(c, p, t).until = 0
<1> DEFINE a == AddClose(c, p)
<1>1. /\ a \in CtlType /\ a.until = c.until
      /\ Adds(a, c, p) /\ a.autoReleased = c.autoReleased
  BY AddCloseType, AddCloseAdds
<1>2. RecordClose(c, p, t) = IF DrawdownBreached(a) THEN EngageKill(a, t) ELSE a
  BY DEF RecordClose
<1> HIDE DEF a
<1>3. /\ SameSession(EngageKill(a, t), a)
      /\ EngageKill(a, t).autoReleased = a.autoReleased
      /\ KillPause = 0 /\ a.until = 0 => EngageKill(a, t).until = 0
  BY <1>1, EngageSame
<1>4. Adds(EngageKill(a, t), c, p)
  BY <1>1, <1>3 DEF Adds, SameSession
<1>5. QED
  BY <1>1, <1>2, <1>3, <1>4

\* d is c after a re-basing.
Rebased(d, c) ==
  /\ d.pnl = c.pnl /\ d.peak = c.pnl /\ d.trades = c.trades
  /\ d.resetAt = c.resetAt

\* A release re-bases, and so does an expiry.
LEMMA ReleaseRebases ==
  ASSUME NEW c \in CtlType
  PROVE /\ Rebased(ReleaseKill(c), c) /\ ReleaseKill(c).until = 0
        /\ ReleaseKill(c).autoReleased = c.autoReleased
        /\ Rebased(ExpireKill(c), c)
<1> DEFINE z == 0
           d == [c EXCEPT !.kill = FALSE, !.until = z, !.peak = c.pnl]
           e == [c EXCEPT !.kill = FALSE, !.autoReleased = TRUE, !.peak = c.pnl]
<1>1. ReleaseKill(c) = d /\ ExpireKill(c) = e
  BY DEF ReleaseKill, ExpireKill
<1>2. /\ d.pnl = c.pnl /\ d.peak = c.pnl /\ d.trades = c.trades
      /\ d.resetAt = c.resetAt /\ d.until = z
      /\ d.autoReleased = c.autoReleased
  <2> HIDE DEF z
  <2>1. QED
    BY DEF CtlType
<1>3. /\ e.pnl = c.pnl /\ e.peak = c.pnl /\ e.trades = c.trades
      /\ e.resetAt = c.resetAt
  BY DEF CtlType
<1> HIDE DEF d, e
<1>4. QED
  BY <1>1, <1>2, <1>3 DEF Rebased

\* The roll-over empties the session or leaves it.
LEMMA ResetSession ==
  ASSUME NEW c \in CtlType, NEW t \in Nat
  PROVE \/ DailyReset(c, t) = c
        \/ /\ DailyReset(c, t).pnl = 0 /\ DailyReset(c, t).peak = 0
           /\ DailyReset(c, t).trades = 0
           /\ DailyReset(c, t).resetAt = NextReset(t)
<1> DEFINE z == 0
           k == NextReset(t)
           d == [c EXCEPT !.pnl = z, !.peak = z, !.trades = z, !.resetAt = k]
<1>1. DailyReset(c, t) = IF t >= c.resetAt THEN d ELSE c
  BY DEF DailyReset
<1>2. d.pnl = z /\ d.peak = z /\ d.trades = z /\ d.resetAt = k
  <2> HIDE DEF z, k
  <2>1. QED
    BY DEF CtlType
<1> HIDE DEF d
<1>3. QED
  BY <1>1, <1>2

\* The memory of a rolled-over controller.
LEMMA MemoryReset ==
  ASSUME NEW n \in Nat, NEW R, Book(R, n), NEW m, NEW lift, NEW c \in CtlType,
         Memory(c, R, m, lift, n)
  PROVE Memory(DailyReset(c, n), R, m, lift, n)
BY ResetSession, MemoryEmpty

\* The memory of a re-based one.
LEMMA MemoryRebased ==
  ASSUME NEW n \in Nat, NEW R, Book(R, n), NEW m, NEW lift, NEW c, NEW d,
         Memory(c, R, m, lift, n), \A r \in R : r.at # n, Rebased(d, c)
  PROVE Memory(d, R, m, TRUE, n)
BY MemoryReleased DEF Rebased

\* The gate rolls over, and re-bases if it clears a halt.
LEMMA MemoryGate ==
  ASSUME NEW n \in Nat, NEW R, Book(R, n), NEW m, NEW lift, NEW c \in CtlType,
         Memory(c, R, m, lift, n),
         c.kill /\ ~AfterGate(c, n).kill => \A r \in R : r.at # n
  PROVE \/ /\ Memory(AfterGate(c, n), R, m, lift, n)
           /\ AfterGate(c, n).autoReleased = c.autoReleased
        \/ /\ Memory(AfterGate(c, n), R, m, TRUE, n)
           /\ c.kill /\ ~AfterGate(c, n).kill
<1> DEFINE d == DailyReset(c, n)
<1>1. /\ d \in CtlType /\ d.kill = c.kill /\ d.autoReleased = c.autoReleased
      /\ Memory(d, R, m, lift, n)
  BY DailyResetType, MemoryReset
<1>2. AfterGate(c, n) = IF d.kill /\ ~InForce(d, n) THEN ExpireKill(d) ELSE d
  BY DEF AfterGate
<1> HIDE DEF d
<1>3. CASE d.kill /\ ~InForce(d, n)
  <2>1. AfterGate(c, n) = ExpireKill(d) /\ ~ExpireKill(d).kill
    BY <1>1, <1>2, <1>3, ExpireKillType
  <2>2. \A r \in R : r.at # n
    BY <1>1, <1>3, <2>1
  <2>3. Memory(ExpireKill(d), R, m, TRUE, n)
    BY <1>1, <2>2, ReleaseRebases, MemoryRebased
  <2>4. QED
    BY <1>1, <1>3, <2>1, <2>3
<1>4. CASE ~(d.kill /\ ~InForce(d, n))
  BY <1>1, <1>2, <1>4
<1>5. QED
  BY <1>3, <1>4

-----------------------------------------------------------------------------
(* The invariant of the restart.                                           *)

\* A release is on its way to the marker.
Lifting == ctl.autoReleased \/ opStamp # 0 \/ sync = "mark"

\* One close a second; what is stamped is stamped in this tick; a process
\* that is not up holds nothing; without a pause nothing expires.
StampInv ==
  /\ now # 0 /\ Book(Closes, now) /\ marker <= now
  /\ opStamp # 0 => opStamp = now
  /\ sync \in {"mark", "autoMark"} => stamp = now
  /\ phase # "up" => /\ pend = {} /\ opStamp = 0 /\ sync = "idle"
                     /\ ~ctl.autoReleased /\ ~ctl.kill
  /\ KillPause = 0 => /\ ctl.until = 0 /\ ~ctl.autoReleased
                      /\ sync # "autoMark"

\* A running controller has gone through the closes of its day.
MemoryInv == phase = "up" => Memory(ctl, Closes, marker, Lifting, now)

\* The running totals tot explain the controller that was lost in the crash,
\* and the marker accounts for its last re-basing.
Explains(tot) ==
  \E l \in Nat :
    /\ Session(pre, RowsToday, tot, l)
    /\ l <= SessionStart(now) \/ l <= marker
    /\ KillPause = 0 => \A r \in RowsToday : r.at >= l => r.at >= marker

LostInv ==
  phase # "up" =>
    /\ pre.at <= now
    /\ ~pre.kill => ~DrawdownBreached(pre)
    /\ phase = "down" /\ pre.clean /\ SameDay
         => \E tot \in Totals : Explains(tot)

\* The rows of the day that have been replayed
Done == RowsToday \ todo

\* The replay has gone through the rows in their order and was re-based at
\* the marker, if it is of the day and has been passed.
ReplayedTo(tot, l) ==
  /\ Session(ctl, Done, tot, l)
  /\ IF ctl.releaseApplied
     THEN /\ ReleasedToday # 0 /\ l = ReleasedToday
          /\ \A q \in todo : q.at >= ReleasedToday
     ELSE l = 0 /\ (ReleasedToday # 0 => \A r \in Done : r.at < ReleasedToday)

ReplayInv ==
  phase = "replay" =>
    /\ todo \subseteq RowsToday
    /\ \A r \in Done, q \in todo : r.at < q.at
    /\ ctl.trades = Cardinality(Done) /\ ctl.resetAt = NextReset(now)
    /\ \E tot \in Totals : \E l \in Nat :
         /\ ReplayedTo(tot, l)
         /\ pre.clean /\ SameDay => Explains(tot)

RestartInv == HaltInv /\ StampInv /\ MemoryInv /\ LostInv /\ ReplayInv

\* A step of a running process keeps the invariant if it keeps the memory.
LEMMA UpKeeps ==
  ASSUME RestartInv, HaltInv', StampInv', phase' = "up",
         Memory(ctl, Closes, marker, Lifting, now)'
  PROVE  RestartInv'
BY DEF RestartInv, MemoryInv, LostInv, ReplayInv

\* Closes that keep their rows are a book still.
LEMMA StampKeeps ==
  ASSUME StampInv, phase' = "up", Closes' = Closes, now' = now,
         marker' \in {marker, now}, opStamp' \in {opStamp, 0, now},
         sync' \in {"mark", "autoMark"} => stamp' = now,
         KillPause = 0 => /\ ctl'.until = 0 /\ ~ctl'.autoReleased
                          /\ sync' # "autoMark",
         TypeOK, TypeOK'
  PROVE  StampInv'
<1>1. Book(Closes, now)' <=> Book(Closes, now)
  BY DEF Book
<1>2. now \in Nat /\ marker \in Nat
  BY DEF TypeOK
<1>3. QED
  BY <1>1, <1>2 DEF StampInv

\* A new row of this second extends the book.
LEMMA BookGrows ==
  ASSUME NEW R, NEW n \in Nat, Book(R, n), NEW r \in RowType, r.at = n,
         \A q \in R : q.at # n
  PROVE  Book(R \cup {r}, n)
<1>1. IsFiniteSet(R \cup {r})
  BY FS_AddElement DEF Book
<1>2. QED
  BY <1>1 DEF Book

\* The gate.
LEMMA RestartGate ==
  ASSUME RestartInv, HaltInv', TypeOK', NEW ok \in BOOLEAN, CanOpenLive(ok)
  PROVE  RestartInv'
<1>1. /\ TypeOK /\ StampInv /\ ctl \in CtlType /\ now \in Nat
      /\ Book(Closes, now)
  BY DEF RestartInv, HaltInv, TypeOK, StampInv
<1>2. /\ phase = "up" /\ phase' = "up" /\ now' = now
      /\ ctl' = AfterGate(ctl, now)
      /\ UNCHANGED <<pend, sync, stamp, opStamp, rows, marker>>
      /\ ctl.kill /\ ~ctl'.kill => FreshSecond
  BY DEF CanOpenLive, disk
<1>3. Closes' = Closes
  BY <1>2 DEF Closes
<1>4. Memory(ctl, Closes, marker, Lifting, now)
  BY <1>2 DEF RestartInv, MemoryInv
<1>5. ctl.kill /\ ~ctl'.kill => \A r \in Closes : r.at # now
  BY <1>2 DEF FreshSecond
<1>6. \/ /\ Memory(ctl', Closes, marker, Lifting, now)
         /\ ctl'.autoReleased = ctl.autoReleased
      \/ Memory(ctl', Closes, marker, TRUE, now) /\ ctl.kill /\ ~ctl'.kill
  BY <1>1, <1>2, <1>4, <1>5, MemoryGate
<1>7. /\ ctl'.kill => ctl.kill /\ ctl'.until = ctl.until
      /\ ctl.kill /\ ~ctl'.kill => ctl.until # 0 /\ ctl'.autoReleased
  BY <1>1, <1>2, AfterGateType
<1>8. ctl'.until = ctl.until
  <2>1. /\ DailyReset(ctl, now).until = ctl.until
        /\ DailyReset(ctl, now) \in CtlType
    BY <1>1, DailyResetType
  <2>2. ExpireKill(DailyReset(ctl, now)).until = DailyReset(ctl, now).until
    BY <2>1 DEF ExpireKill, CtlType
  <2>3. QED
    BY <1>2, <2>1, <2>2 DEF AfterGate
<1>9. KillPause = 0 => /\ ctl'.until = 0 /\ ~ctl'.autoReleased
                       /\ sync' # "autoMark"
  BY <1>1, <1>2, <1>6, <1>7, <1>8 DEF StampInv
<1>10. StampInv'
  BY <1>1, <1>2, <1>3, <1>9, StampKeeps DEF StampInv
<1>11. Memory(ctl, Closes, marker, Lifting, now)'
  <2>1. CASE /\ Memory(ctl', Closes, marker, Lifting, now)
             /\ ctl'.autoReleased = ctl.autoReleased
    <3>1. Lifting' = Lifting
      BY <1>2, <2>1 DEF Lifting
    <3>2. QED
      BY <1>2, <1>3, <2>1, <3>1
  <2>2. CASE Memory(ctl', Closes, marker, TRUE, now) /\ ctl.kill /\ ~ctl'.kill
    <3>1. Lifting' = TRUE
      BY <1>7, <2>2 DEF Lifting
    <3>2. QED
      BY <1>2, <1>3, <2>2, <3>1
  <2>3. QED
    BY <1>6, <2>1, <2>2
<1>12. QED
  BY <1>2, <1>10, <1>11, UpKeeps

\* A step that leaves the session and what is stamped alone.
LEMMA RestartFrame ==
  ASSUME RestartInv, HaltInv', TypeOK', phase = "up", phase' = "up",
         now' = now, Closes' = Closes, marker' = marker, opStamp' = opStamp,
         ctl' = ctl \/ ctl' = DailyReset(ctl, now),
         sync' = "mark" <=> sync = "mark",
         sync' \in {"mark", "autoMark"} => stamp' = now,
         KillPause = 0 => sync' # "autoMark"
  PROVE  RestartInv'
<1>1. /\ TypeOK /\ StampInv /\ ctl \in CtlType /\ now \in Nat
      /\ Book(Closes, now) /\ Memory(ctl, Closes, marker, Lifting, now)
  BY DEF RestartInv, HaltInv, TypeOK, StampInv, MemoryInv
<1>2. /\ Memory(ctl', Closes, marker, Lifting, now)
      /\ ctl'.autoReleased = ctl.autoReleased /\ ctl'.until = ctl.until
  BY <1>1, MemoryReset, DailyResetType
<1>3. Lifting' = Lifting
  BY <1>2 DEF Lifting
<1>4. StampInv'
  BY <1>1, <1>2, StampKeeps DEF StampInv
<1>5. QED
  BY <1>2, <1>3, <1>4, UpKeeps

\* A close of the engine or of the exchange.
LEMMA RestartClose ==
  ASSUME RestartInv, HaltInv', TypeOK', NEW p \in Pnls,
         EngineClose(p) \/ ExternalClose(p)
  PROVE  RestartInv'
<1> DEFINE r == NewRow(p)
<1>1. /\ TypeOK /\ StampInv /\ ctl \in CtlType /\ now \in Nat /\ marker \in Nat
      /\ Book(Closes, now) /\ p \in Int /\ marker <= now
  BY SlotSafetyAssumptions DEF RestartInv, HaltInv, TypeOK, StampInv
<1>2. /\ phase = "up" /\ phase' = "up" /\ now' = now
      /\ ctl' = RecordClose(ctl, p, now)
      /\ UNCHANGED <<sync, stamp, opStamp, marker>>
      /\ \A q \in Closes : q.at # now
      /\ Closes' = Closes \cup {r}
  BY DEF EngineClose, ExternalClose, disk, MayClose, FreshSecond, Closes
<1>3. r \in RowType /\ r.at = now /\ r.pnl = p
  BY <1>1 DEF NewRow, RowType
<1> HIDE DEF r
<1>4. Memory(ctl, Closes, marker, Lifting, now)
  BY <1>2 DEF RestartInv, MemoryInv
<1>5. /\ Adds(ctl', ctl, p) /\ ctl'.autoReleased = ctl.autoReleased
      /\ KillPause = 0 /\ ctl.until = 0 => ctl'.until = 0
  BY <1>1, <1>2, RecordCloseAdds
<1>6. Adds(ctl', ctl, r.pnl)
  BY <1>3, <1>5
<1>7. Memory(ctl', Closes \cup {r}, marker, Lifting, now)
  BY <1>1, <1>2, <1>3, <1>4, <1>6, MemoryCloses
<1>8. Lifting' = Lifting
  BY <1>2, <1>5 DEF Lifting
<1>9. Book(Closes \cup {r}, now)
  BY <1>1, <1>2, <1>3, BookGrows
<1>10. Book(Closes, now)'
  BY <1>2, <1>9
<1>11. StampInv'
  BY <1>1, <1>2, <1>5, <1>10 DEF StampInv
<1>12. QED
  BY <1>2, <1>7, <1>8, <1>11, UpKeeps

\* An operator's release, of Telegram or of the panel.
LEMMA RestartRelease ==
  ASSUME RestartInv, HaltInv', TypeOK', OperatorRelease \/ Unkill \/ SyncRelease
  PROVE  RestartInv'
<1>1. /\ TypeOK /\ StampInv /\ ctl \in CtlType /\ now \in Nat /\ now # 0
      /\ Book(Closes, now)
  BY DEF RestartInv, HaltInv, TypeOK, StampInv
<1>2. /\ phase = "up" /\ phase' = "up" /\ now' = now
      /\ UNCHANGED <<pend, rows, marker>>
      /\ \A q \in Closes : q.at # now
  BY DEF OperatorRelease, Unkill, SyncRelease, disk, FreshSecond
<1>3. \/ opStamp' = now /\ sync' = sync /\ stamp' = stamp
      \/ opStamp' = opStamp /\ sync' = "mark" /\ stamp' = now
  BY DEF OperatorRelease, Unkill, SyncRelease
<1>4. Closes' = Closes
  BY <1>2 DEF Closes
<1>5. PICK c \in CtlType : /\ ctl' = ReleaseKill(c)
                           /\ c.autoReleased = ctl.autoReleased
                           /\ Memory(c, Closes, marker, Lifting, now)
  <2>1. Memory(ctl, Closes, marker, Lifting, now)
    BY <1>2 DEF RestartInv, MemoryInv
  <2>2. /\ DailyReset(ctl, now) \in CtlType
        /\ DailyReset(ctl, now).autoReleased = ctl.autoReleased
        /\ Memory(DailyReset(ctl, now), Closes, marker, Lifting, now)
    BY <1>1, <2>1, DailyResetType, MemoryReset
  <2>3. ctl' = ReleaseKill(ctl) \/ ctl' = ReleaseKill(DailyReset(ctl, now))
    BY DEF OperatorRelease, Unkill, SyncRelease
  <2>4. QED
    BY <1>1, <2>1, <2>2, <2>3
<1>6. /\ Rebased(ctl', c) /\ ctl'.until = 0
      /\ ctl'.autoReleased = ctl.autoReleased
  BY <1>5, ReleaseRebases
<1>7. Memory(ctl', Closes, marker, TRUE, now)
  BY <1>1, <1>2, <1>5, <1>6, MemoryRebased
<1>8. Lifting' = TRUE
  BY <1>1, <1>3 DEF Lifting
<1>9. StampInv'
  BY <1>1, <1>2, <1>3, <1>4, <1>6, StampKeeps DEF StampInv
<1>10. QED
  BY <1>2, <1>4, <1>7, <1>8, <1>9, UpKeeps

\* A marker is written.
LEMMA RestartMark ==
  ASSUME RestartInv, HaltInv', TypeOK',
         OperatorMarked \/ SyncMark \/ SyncAutoMark
  PROVE  RestartInv'
<1>1. /\ TypeOK /\ StampInv /\ ctl \in CtlType /\ now \in Nat
      /\ Book(Closes, now)
  BY DEF RestartInv, HaltInv, TypeOK, StampInv
<1>2. /\ phase = "up" /\ phase' = "up" /\ now' = now /\ marker' = now
      /\ UNCHANGED <<pend, rows>> /\ opStamp' \in {opStamp, 0}
      /\ sync' \in {"mark", "autoMark"} => stamp' = now
  BY <1>1 DEF OperatorMarked, SyncMark, SyncAutoMark, history, StampInv
<1>3. Closes' = Closes
  BY <1>2 DEF Closes
<1>4. /\ Memory(ctl', Closes, marker, Lifting, now) /\ ctl'.until = ctl.until
      /\ ctl'.autoReleased => ctl.autoReleased
  <2>1. Memory(ctl, Closes, marker, Lifting, now)
    BY <1>2 DEF RestartInv, MemoryInv
  <2>2. CASE ctl' = ctl
    BY <2>1, <2>2
  <2>3. CASE SyncAutoMark
    <3> DEFINE d == DailyReset(ctl, now)
               e == [d EXCEPT !.autoReleased = FALSE]
    <3>1. /\ d \in CtlType /\ d.until = ctl.until
          /\ Memory(d, Closes, marker, Lifting, now)
      BY <1>1, <2>1, DailyResetType, MemoryReset
    <3>2. ctl' = e
      BY <2>3 DEF SyncAutoMark
    <3> HIDE DEF d
    <3>3. /\ e.pnl = d.pnl /\ e.peak = d.peak /\ e.trades = d.trades
          /\ e.resetAt = d.resetAt /\ e.until = d.until /\ ~e.autoReleased
      BY <3>1 DEF CtlType
    <3> HIDE DEF e
    <3>4. SameSession(e, d)
      BY <3>3 DEF SameSession
    <3>5. QED
      BY <3>1, <3>2, <3>3, <3>4, MemorySame
  <2>4. QED
    BY <2>2, <2>3 DEF OperatorMarked, SyncMark
<1>5. KillPause = 0 => Lifting
  BY <1>1 DEF OperatorMarked, SyncMark, SyncAutoMark, Lifting, StampInv
<1>6. Memory(ctl', Closes, now, Lifting', now)
  BY <1>1, <1>4, <1>5, MemoryMarked
<1>7. KillPause = 0 => /\ ctl'.until = 0 /\ ~ctl'.autoReleased
                       /\ sync' # "autoMark"
  BY <1>1, <1>4 DEF OperatorMarked, SyncMark, SyncAutoMark, StampInv
<1>8. StampInv'
  BY <1>1, <1>2, <1>3, <1>7, StampKeeps DEF StampInv
<1>9. QED
  BY <1>2, <1>3, <1>6, <1>8, UpKeeps

\* Time passes, in a running process or in one that is down.
LEMMA RestartTick ==
  ASSUME RestartInv, HaltInv', TypeOK', Tick
  PROVE  RestartInv'
<1>1. /\ TypeOK /\ StampInv /\ now \in Nat /\ marker \in Nat
      /\ Book(Closes, now) /\ marker <= now
  BY DEF RestartInv, HaltInv, TypeOK, StampInv
<1>2. /\ now' = now + 1 /\ phase' = phase /\ phase # "replay"
      /\ sync = "idle" /\ opStamp = 0
      /\ UNCHANGED <<ctl, pend, rows, marker, sync, stamp, opStamp, todo, pre>>
  BY DEF Tick, memory, disk, history
<1>3. Closes' = Closes
  BY <1>2 DEF Closes
<1>4. Book(Closes, now + 1)
  BY <1>1 DEF Book, RowType
<1>5. StampInv'
  BY <1>1, <1>2, <1>3, <1>4 DEF StampInv
<1>6. MemoryInv'
  <2>1. SUFFICES ASSUME phase = "up" PROVE MemoryInv'
    BY <1>2 DEF MemoryInv
  <2>2. Memory(ctl, Closes, marker, Lifting, now)
    BY <2>1 DEF RestartInv, MemoryInv
  <2>3. Lifting \in BOOLEAN /\ (KillPause = 0 => ~Lifting)
    BY <1>1, <1>2 DEF Lifting, StampInv, TypeOK, CtlType
  <2>4. Memory(ctl, Closes, marker, Lifting, now + 1)
    BY <1>1, <2>2, <2>3, MemoryTicks
  <2>5. Lifting' = Lifting
    BY <1>2 DEF Lifting
  <2>6. QED
    BY <1>2, <1>3, <2>4, <2>5 DEF MemoryInv
<1>7. LostInv'
  <2>1. SUFFICES ASSUME phase # "up" PROVE LostInv'
    BY <1>2 DEF LostInv
  <2>2. /\ pre.at <= now /\ pre.at \in Nat
        /\ ~pre.kill => ~DrawdownBreached(pre)
    BY <1>1, <2>1 DEF RestartInv, LostInv, TypeOK
  <2>3. /\ SessionStart(pre.at) <= SessionStart(now)
        /\ SessionStart(now) <= SessionStart(now + 1)
        /\ SessionStart(now) \in Nat /\ SessionStart(pre.at) \in Nat
        /\ SessionStart(now + 1) \in Nat
    BY <1>1, <2>2, DaysInOrder, DayBounds
  <2>4. ASSUME SameDay'
        PROVE  SameDay /\ SessionStart(now)' = SessionStart(now)
    BY <1>2, <2>3, <2>4 DEF SameDay
  <2>5. ASSUME SameDay', NEW tot, Explains(tot)
        PROVE  Explains(tot)'
    <3>1. SessionStart(now)' = SessionStart(now)
      BY <2>4, <2>5
    <3>2. RowsToday' = RowsToday
      BY <1>2, <3>1 DEF RowsToday
    <3>3. QED
      BY <1>2, <2>5, <3>1, <3>2 DEF Explains
  <2>6. ASSUME phase' = "down", pre'.clean, SameDay'
        PROVE  \E tot \in Totals : Explains(tot)'
    <3>1. SameDay /\ phase = "down" /\ pre.clean
      BY <1>2, <2>4, <2>6
    <3>2. PICK tot \in Totals : Explains(tot)
      BY <2>1, <3>1 DEF RestartInv, LostInv
    <3>3. QED
      BY <2>5, <2>6, <3>2
  <2>7. /\ pre'.at <= now'
        /\ ~pre'.kill => ~DrawdownBreached(pre')
    BY <1>1, <1>2, <2>2
  <2>8. QED
    BY <2>6, <2>7 DEF LostInv
<1>8. ReplayInv'
  BY <1>2 DEF ReplayInv
<1>9. QED
  BY <1>5, <1>6, <1>7, <1>8 DEF RestartInv

\* What the day has counted is what the table holds of it, if everything is
\* on disk and the numbers agree.
LEMMA CountedToday ==
  ASSUME NEW n \in Nat, NEW R, Book(R, n), NEW c, NEW S, Counted(c, S, R, n),
         c.trades = Cardinality({r \in R : r.at >= SessionStart(n)})
  PROVE  S = {r \in R : r.at >= SessionStart(n)}
<1> DEFINE D == {r \in R : r.at >= SessionStart(n)}
<1>1. /\ S \subseteq R /\ D \subseteq R /\ c.trades = Cardinality(S)
      /\ \A r \in R : r.at >= c.resetAt => r \in S
  BY DEF Counted
<1>2. PICK t \in 0..n : /\ c.resetAt = NextReset(t)
                        /\ \A r \in S : r.at >= SessionStart(t)
  BY DEF Counted
<1>3. t \in Nat /\ t <= n
  OBVIOUS
<1>4. /\ IsFiniteSet(S) /\ IsFiniteSet(D) /\ Cardinality(S) = Cardinality(D)
  BY <1>1, FS_Subset DEF Book
<1>5. \A r \in R : r.at \in Nat
  BY DEF Book, RowType
<1>6. /\ SessionStart(t) \in Nat /\ SessionStart(n) \in Nat
      /\ NextReset(t) \in Nat
  BY <1>3, DayBounds
<1>7. CASE n < NextReset(t)
  <2>1. SessionStart(n) = SessionStart(t)
    BY <1>3, <1>7, DaysInOrder
  <2>2. S \subseteq D
    BY <1>1, <1>2, <2>1
  <2>3. QED
    BY <1>4, <2>2, FS_Subset
<1>8. CASE n >= NextReset(t)
  <2>1. SessionStart(n) >= NextReset(t)
    BY <1>3, <1>8, DaysInOrder
  <2>2. \A r \in R : r.at >= SessionStart(n) => r.at >= c.resetAt
    BY <1>2, <1>5, <1>6, <2>1
  <2>3. D \subseteq S
    BY <1>1, <2>2
  <2>4. QED
    BY <1>4, <2>3, FS_Subset
<1>9. QED
  BY <1>6, <1>7, <1>8

\* The crash leaves a session the rows of the day explain.
LEMMA RestartCrash ==
  ASSUME RestartInv, HaltInv', TypeOK', Crash
  PROVE  RestartInv'
<1>1. /\ TypeOK /\ StampInv /\ now \in Nat /\ marker \in Nat
      /\ Book(Closes, now) /\ marker <= now /\ now # 0
      /\ phase = "up" => Memory(ctl, Closes, marker, Lifting, now)
      /\ phase = "up" /\ DrawdownBreached(ctl) => ctl.kill
  BY DEF RestartInv, HaltInv, TypeOK, StampInv, MemoryInv, DrawdownHalts
<1>2. /\ phase = "up" /\ phase' = "down" /\ now' = now
      /\ UNCHANGED <<rows, marker>>
      /\ ctl' = FreshCtl(now) /\ pend' = {} /\ sync' = "idle" /\ opStamp' = 0
  BY DEF Crash, disk
<1>3. /\ pre'.pnl = ctl.pnl /\ pre'.peak = ctl.peak /\ pre'.kill = ctl.kill
      /\ pre'.at = now /\ pre'.clean = Clean
  BY DEF Crash
<1>4. /\ ~ctl'.autoReleased /\ ~ctl'.kill /\ ctl'.until = 0
  BY <1>2 DEF FreshCtl
<1>5. StampInv'
  <2>1. rows \subseteq Closes
    BY DEF Closes
  <2>2. Closes' = rows
    BY <1>2 DEF Closes
  <2>3. Book(Closes, now)'
    BY <1>1, <1>2, <2>1, <2>2, PartOfBook
  <2>4. QED
    BY <1>1, <1>2, <1>4, <2>3 DEF StampInv
<1>6. ASSUME Clean PROVE \E tot \in Totals : Explains(tot)'
  <2>1. /\ pend = {} /\ ~Lifting
        /\ ctl.trades = Cardinality(RowsToday)
    BY <1>6 DEF Clean, Lifting
  <2>2. Closes = rows
    BY <2>1 DEF Closes
  <2>3. PICK S \in SUBSET RowType, tot \in Totals, l \in Nat :
          Fits(ctl, S, tot, l, rows, marker, Lifting, now)
    BY <1>1, <1>2, <2>2 DEF Memory
  <2>4. S = RowsToday
    BY <1>1, <2>1, <2>2, <2>3, CountedToday DEF Fits, RowsToday
  <2>5. RowsToday' = RowsToday
    BY <1>2 DEF RowsToday
  <2>6. Session(pre', RowsToday', tot, l)
    BY <1>3, <2>3, <2>4, <2>5 DEF Fits, Session
  <2>7. /\ l <= SessionStart(now) \/ l <= marker
        /\ KillPause = 0 => \A r \in RowsToday : r.at >= l => r.at >= marker
    BY <2>1, <2>3, <2>4 DEF Fits, Marked
  <2>8. Explains(tot)'
    BY <1>2, <2>5, <2>6, <2>7 DEF Explains
  <2>9. QED
    BY <2>8
<1>7. LostInv'
  <2>1. ~pre'.kill => ~DrawdownBreached(pre')
    BY <1>1, <1>2, <1>3 DEF DrawdownBreached
  <2>2. pre'.at <= now'
    BY <1>1, <1>2, <1>3
  <2>3. QED
    BY <1>3, <1>6, <2>1, <2>2 DEF LostInv
<1>8. MemoryInv' /\ ReplayInv'
  BY <1>2 DEF MemoryInv, ReplayInv
<1>9. QED
  BY <1>5, <1>7, <1>8 DEF RestartInv

\* The new process begins with the rows of its day.
LEMMA RestartBoot ==
  ASSUME RestartInv, HaltInv', TypeOK', Boot
  PROVE  RestartInv'
<1>1. /\ TypeOK /\ StampInv /\ now \in Nat /\ marker \in Nat
      /\ Book(Closes, now)
  BY DEF RestartInv, HaltInv, TypeOK, StampInv
<1>2. /\ phase = "down" /\ now' = now
      /\ UNCHANGED <<rows, marker, pend, sync, stamp, opStamp>>
      /\ ctl' = FreshCtl(now) /\ todo' = RowsToday
      /\ \/ phase' = "replay" /\ pre' = pre
         \/ phase' = "up" /\ pre' = NoCrash
  BY DEF Boot, disk
<1>3. pend = {} /\ opStamp = 0 /\ sync = "idle"
  BY <1>1, <1>2 DEF StampInv
<1>4. /\ ctl'.pnl = 0 /\ ctl'.peak = 0 /\ ctl'.trades = 0
      /\ ctl'.resetAt = NextReset(now) /\ ~ctl'.autoReleased /\ ~ctl'.kill
      /\ ctl'.until = 0 /\ ~ctl'.releaseApplied
  BY <1>2 DEF FreshCtl
<1>5. Closes' = Closes
  BY <1>2 DEF Closes
<1>6. StampInv'
  BY <1>1, <1>2, <1>3, <1>4, <1>5 DEF StampInv
<1>7. CASE phase' = "up"
  <2>1. Memory(ctl', Closes, marker, Lifting', now)
    BY <1>1, <1>4, MemoryEmpty
  <2>2. QED
    BY <1>2, <1>5, <1>6, <1>7, <2>1, UpKeeps
<1>8. CASE phase' = "replay"
  <2>1. pre' = pre
    BY <1>2, <1>8
  <2>2. RowsToday' = RowsToday
    BY <1>2 DEF RowsToday
  <2>3. Done' = {}
    BY <1>2, <2>2 DEF Done
  <2>4. LostInv'
    BY <1>2, <1>8, <2>1 DEF RestartInv, LostInv, DrawdownBreached
  <2>5. \A tot : ReplayedTo(tot, 0)'
    <3>1. \A tot : Session(ctl', {}, tot, 0)
      BY <1>4, SessionEmpty
    <3>2. QED
      BY <1>4, <2>3, <3>1 DEF ReplayedTo
  <2>6. \E tot \in Totals : \E l \in Nat :
          /\ ReplayedTo(tot, l)'
          /\ pre'.clean /\ SameDay' => Explains(tot)'
    <3>1. SameDay' = SameDay
      BY <1>2, <2>1 DEF SameDay
    <3>2. CASE pre.clean /\ SameDay
      <4>1. PICK tot \in Totals : Explains(tot)
        BY <1>2, <3>2 DEF RestartInv, LostInv
      <4>2. Explains(tot)'
        BY <1>2, <2>1, <2>2, <4>1 DEF Explains
      <4>3. QED
        BY <2>5, <4>2
    <3>3. CASE ~(pre.clean /\ SameDay)
      <4>1. [r \in RowType |-> 0] \in Totals
        BY <1>1, EmptyBook
      <4>2. QED
        BY <2>1, <2>5, <3>1, <3>3, <4>1
    <3>4. QED
      BY <3>2, <3>3
  <2>7. Cardinality({}) = 0
    BY FS_EmptySet
  <2>8. ReplayInv'
    BY <1>2, <1>4, <2>2, <2>3, <2>6, <2>7 DEF ReplayInv
  <2>9. MemoryInv'
    BY <1>8 DEF MemoryInv
  <2>10. QED
    BY <1>6, <2>4, <2>8, <2>9 DEF RestartInv
<1>9. QED
  BY <1>2, <1>7, <1>8

\* The rows of the day are a book, and so are those replayed.
LEMMA DayBook ==
  ASSUME TypeOK, StampInv
  PROVE  Book(RowsToday, now) /\ Book(Done, now)
<1>1. Done \subseteq Closes /\ RowsToday \subseteq Closes
  BY DEF Done, RowsToday, Closes
<1>2. QED
  BY <1>1, PartOfBook DEF TypeOK, StampInv

\* One row of the replay: re-based first if it is the first at or after the
\* marker, and added as record_close would.
LEMMA RestartReplay ==
  ASSUME RestartInv, HaltInv', TypeOK', NEW r \in todo, Replay(r)
  PROVE  RestartInv'
<1> DEFINE rel == ReleasedToday
           c == IF Rebases(ctl, r, rel)
                THEN [ctl EXCEPT !.peak = ctl.pnl, !.releaseApplied = TRUE]
                ELSE ctl
<1>1. /\ TypeOK /\ StampInv /\ ctl \in CtlType /\ now \in Nat /\ marker \in Nat
      /\ Book(RowsToday, now) /\ Book(Done, now)
  BY DayBook DEF RestartInv, HaltInv, TypeOK, StampInv
<1>2. /\ phase = "replay" /\ phase' = "replay" /\ now' = now
      /\ \A q \in todo : r.at <= q.at
      /\ ctl' = AddClose(c, r.pnl) /\ todo' = todo \ {r}
      /\ UNCHANGED <<rows, marker, pend, sync, stamp, opStamp, pre>>
  BY DEF Replay, ReplayClose, disk, history
<1>3. /\ todo \subseteq RowsToday
      /\ \A p \in Done, q \in todo : p.at < q.at
      /\ ctl.trades = Cardinality(Done) /\ ctl.resetAt = NextReset(now)
  BY <1>2 DEF RestartInv, ReplayInv
<1>4. PICK tot \in Totals, l \in Nat :
        /\ ReplayedTo(tot, l)
        /\ pre.clean /\ SameDay => Explains(tot)
  BY <1>2 DEF RestartInv, ReplayInv
<1>5. /\ r \in RowsToday /\ r \in RowType /\ r.at \in Nat /\ r.pnl \in Int
      /\ r.at <= now /\ \A q \in todo : q.at \in Nat
  BY <1>1, <1>3 DEF Book, RowType
<1>6. /\ RowsToday' = RowsToday /\ ReleasedToday' = rel /\ rel \in Nat
      /\ Done' = Done \cup {r} /\ r \notin Done
  <2>1. RowsToday' = RowsToday /\ ReleasedToday' = rel
    BY <1>2 DEF RowsToday, ReleasedToday
  <2>2. rel \in Nat
    BY <1>1 DEF ReleasedToday
  <2>3. QED
    BY <1>2, <1>5, <2>1, <2>2 DEF Done
<1>7. \A q \in todo \ {r} : r.at < q.at
  <2>1. \A q \in todo : r.at = q.at => r = q
    BY <1>1, <1>3, <1>5 DEF Book
  <2>2. QED
    BY <1>2, <1>5, <2>1
<1>8. /\ c \in CtlType /\ c.trades = ctl.trades /\ c.resetAt = ctl.resetAt
      /\ c.kill = ctl.kill /\ c.autoReleased = ctl.autoReleased
      /\ c.pnl = ctl.pnl /\ c.until = ctl.until
      /\ c.pnl \in Int /\ c.peak \in Int
      /\ Rebases(ctl, r, rel) => c.peak = ctl.pnl /\ c.releaseApplied
      /\ ~Rebases(ctl, r, rel) => c = ctl
  BY <1>1 DEF CtlType
<1>9. PICK b \in Nat :
        /\ Session(c, Done, tot, b) /\ b <= r.at
        /\ IF c.releaseApplied
           THEN rel # 0 /\ b = rel /\ \A q \in todo \ {r} : q.at >= rel
           ELSE b = 0 /\ (rel # 0 => \A q \in Done \cup {r} : q.at < rel)
  <2>1. CASE Rebases(ctl, r, rel)
    <3>1. rel # 0 /\ ~ctl.releaseApplied /\ r.at >= rel
      BY <2>1 DEF Rebases
    <3>2. \A q \in Done : q.at < rel
      BY <1>4, <3>1 DEF ReplayedTo
    <3>3. Session(c, Done, tot, rel)
      BY <1>1, <1>4, <1>6, <1>8, <2>1, <3>2, SessionRebased DEF ReplayedTo
    <3>4. \A q \in todo \ {r} : q.at >= rel
      BY <1>5, <1>6, <1>7, <3>1
    <3>5. c.releaseApplied
      BY <1>8, <2>1
    <3> HIDE DEF c, rel
    <3>6. QED
      BY <1>5, <1>6, <3>1, <3>3, <3>4, <3>5
  <2>2. CASE ~Rebases(ctl, r, rel) /\ ctl.releaseApplied
    <3>1. c = ctl
      BY <1>8, <2>2
    <3>2. /\ rel # 0 /\ l = rel /\ \A q \in todo : q.at >= rel
          /\ Session(ctl, Done, tot, l)
      BY <1>4, <2>2 DEF ReplayedTo
    <3> HIDE DEF c, rel
    <3>3. QED
      BY <1>5, <2>2, <3>1, <3>2
  <2>3. CASE ~Rebases(ctl, r, rel) /\ ~ctl.releaseApplied
    <3>1. c = ctl
      BY <1>8, <2>3
    <3>2. /\ l = 0 /\ (rel # 0 => \A q \in Done : q.at < rel)
          /\ Session(ctl, Done, tot, l)
      BY <1>4, <2>3 DEF ReplayedTo
    <3>3. rel # 0 => r.at < rel
      BY <1>5, <1>6, <2>3 DEF Rebases
    <3> HIDE DEF c, rel
    <3>4. QED
      BY <1>5, <2>3, <3>1, <3>2, <3>3
  <2>4. QED
    BY <2>1, <2>2, <2>3
<1> HIDE DEF c, rel
<1>10. /\ Adds(ctl', c, r.pnl) /\ ctl'.autoReleased = ctl.autoReleased
       /\ ctl'.releaseApplied = c.releaseApplied
       /\ ctl'.kill = ctl.kill /\ ctl'.until = ctl.until
  BY <1>2, <1>5, <1>8, AddCloseAdds, AddCloseType
<1>20. PICK new : new = Extended(Done, tot, r)
  OBVIOUS
<1>21. Session(c, Done, tot, b) /\ b <= r.at
  BY <1>9
<1>11. \A q \in Done : q.at < r.at
  BY <1>3
<1>12. /\ new \in Totals /\ Session(ctl', Done \cup {r}, new, b)
       /\ Cardinality(Done \cup {r}) = Cardinality(Done) + 1
  <2>1. Adds(ctl', c, r.pnl) /\ c.pnl \in Int /\ c.peak \in Int
    BY <1>8, <1>10
  <2>2. Book(Done, now) /\ now \in Nat /\ r \in RowType /\ r.at <= now
    BY <1>1, <1>5
  <2>3. QED
    BY <1>11, <1>20, <1>21, <2>1, <2>2, SessionAdds
<1>13. ReplayedTo(new, b)'
  <2>1. ReleasedToday' = rel
    BY <1>6 DEF rel
  <2>2. Session(ctl', Done', new, b)
    BY <1>6, <1>12
  <2>3. IF ctl'.releaseApplied
        THEN /\ ReleasedToday' # 0 /\ b = ReleasedToday'
             /\ \A q \in todo' : q.at >= ReleasedToday'
        ELSE /\ b = 0
             /\ ReleasedToday' # 0 => \A q \in Done' : q.at < ReleasedToday'
    BY <1>2, <1>6, <1>9, <1>10, <2>1
  <2>4. QED
    BY <2>2, <2>3 DEF ReplayedTo
<1>14. ASSUME pre'.clean, SameDay' PROVE Explains(new)'
  <2>1. Explains(tot)
    BY <1>2, <1>4, <1>14 DEF SameDay
  <2>2. Earlier(RowsToday, r.at) = Done
    <3>1. \A q \in RowsToday : q \in Done \/ q \in todo
      BY DEF Done
    <3>2. \A q \in todo : ~(q.at < r.at)
      BY <1>2, <1>5
    <3>3. QED
      BY <1>11, <3>1, <3>2 DEF Earlier, Done
  <2>3. tot[r] = Total(Done, tot) + r.pnl
    BY <1>5, <2>1, <2>2 DEF Explains, Session, Chain
  <2>4. new = tot
    <3>1. new = [tot EXCEPT ![r] = tot[r]]
      BY <1>20, <2>3 DEF Extended
    <3>2. QED
      BY <3>1 DEF Totals
  <2>5. Explains(tot)'
    BY <1>2, <1>6, <2>1 DEF Explains
  <2>6. QED
    BY <2>4, <2>5
<1>15. ReplayInv'
  <2>1. todo' \subseteq RowsToday'
    BY <1>2, <1>3, <1>6
  <2>2. \A p \in Done', q \in todo' : p.at < q.at
    BY <1>2, <1>3, <1>6, <1>7
  <2>3. ctl'.trades = Cardinality(Done') /\ ctl'.resetAt = NextReset(now')
    BY <1>2, <1>3, <1>6, <1>8, <1>10, <1>12 DEF Adds
  <2>4. \E t \in Totals : \E k \in Nat :
          /\ ReplayedTo(t, k)'
          /\ pre'.clean /\ SameDay' => Explains(t)'
    BY <1>12, <1>13, <1>14
  <2>5. QED
    BY <2>1, <2>2, <2>3, <2>4 DEF ReplayInv
<1>16. StampInv'
  <2>1. Closes' = Closes
    BY <1>2 DEF Closes
  <2>2. QED
    BY <1>1, <1>2, <1>10, <2>1 DEF StampInv
<1>17. LostInv'
  BY <1>2 DEF RestartInv, LostInv, DrawdownBreached
<1>18. MemoryInv'
  BY <1>2 DEF MemoryInv
<1>19. QED
  BY <1>15, <1>16, <1>17, <1>18 DEF RestartInv

\* The controller at the end of the replay, before the halt is decided
Replayed ==
  IF ReleasedToday # 0 /\ ~ctl.releaseApplied
  THEN [ctl EXCEPT !.peak = ctl.pnl, !.releaseApplied = TRUE] ELSE ctl

\* It has gone through the rows of the day, re-based at the marker if there
\* is one.
LEMMA ReplayedSession ==
  ASSUME RestartInv, ReplayEnd
  PROVE  /\ Replayed \in CtlType /\ ~Replayed.kill /\ ~Replayed.autoReleased
         /\ Replayed.trades = Cardinality(RowsToday)
         /\ Replayed.resetAt = NextReset(now) /\ Replayed.until = ctl.until
         /\ \E tot \in Totals :
              /\ Session(Replayed, RowsToday, tot, ReleasedToday)
              /\ pre.clean /\ SameDay => Explains(tot)
<1> DEFINE rel == ReleasedToday
           d == [ctl EXCEPT !.peak = ctl.pnl, !.releaseApplied = TRUE]
<1>1. /\ TypeOK /\ StampInv /\ ctl \in CtlType /\ now \in Nat /\ marker \in Nat
      /\ Book(RowsToday, now) /\ Book(Done, now)
  BY DayBook DEF RestartInv, HaltInv, TypeOK, StampInv
<1>2. phase = "replay" /\ todo = {}
  BY DEF ReplayEnd
<1>3. Done = RowsToday
  BY <1>2 DEF Done
<1>4. /\ ctl.trades = Cardinality(RowsToday) /\ ctl.resetAt = NextReset(now)
      /\ ~ctl.kill /\ ~ctl.autoReleased
  BY <1>2, <1>3 DEF RestartInv, ReplayInv, StampInv
<1>5. PICK tot \in Totals, l \in Nat :
        /\ ReplayedTo(tot, l)
        /\ pre.clean /\ SameDay => Explains(tot)
  BY <1>2 DEF RestartInv, ReplayInv
<1>6. rel \in Nat
  BY <1>1 DEF ReleasedToday
<1>7. /\ d \in CtlType /\ d.pnl = ctl.pnl /\ d.peak = ctl.pnl
      /\ d.trades = ctl.trades /\ d.resetAt = ctl.resetAt
      /\ d.kill = ctl.kill /\ d.autoReleased = ctl.autoReleased
      /\ d.until = ctl.until
  BY <1>1 DEF CtlType
<1>8. CASE rel # 0 /\ ~ctl.releaseApplied
  <2>1. Replayed = d
    BY <1>8 DEF Replayed
  <2>2. \A q \in RowsToday : q.at < rel
    BY <1>3, <1>5, <1>8 DEF ReplayedTo
  <2>3. Session(ctl, RowsToday, tot, l)
    BY <1>3, <1>5 DEF ReplayedTo
  <2> HIDE DEF d
  <2>4. Session(d, RowsToday, tot, rel)
    BY <1>1, <1>6, <1>7, <2>2, <2>3, SessionRebased
  <2>5. QED
    BY <1>4, <1>5, <1>7, <2>1, <2>4
<1>9. CASE ~(rel # 0 /\ ~ctl.releaseApplied)
  <2>1. Replayed = ctl
    BY <1>9 DEF Replayed
  <2>2. Session(ctl, RowsToday, tot, l) /\ l = rel
    BY <1>3, <1>5, <1>9 DEF ReplayedTo
  <2>3. QED
    BY <1>1, <1>4, <1>5, <2>1, <2>2
<1>10. QED
  BY <1>8, <1>9

\* The halt is decided on it and changes nothing else.
LEMMA ReplayEndSession ==
  ASSUME RestartInv, ReplayEnd
  PROVE  /\ SameSession(ctl', Replayed) /\ ~ctl'.autoReleased
         /\ ctl'.kill => DrawdownBreached(Replayed)
         /\ KillPause = 0 => ctl'.until = 0
<1> DEFINE d == Replayed
<1>1. now \in Nat /\ StampInv
  BY DEF RestartInv, HaltInv, TypeOK
<1>2. d \in CtlType /\ ~d.kill /\ ~d.autoReleased /\ d.until = ctl.until
  BY ReplayedSession
<1>3. ctl' = IF DrawdownBreached(d) THEN EngageKill(d, now) ELSE d
  BY DEF ReplayEnd, ReplayDone, Replayed
<1> HIDE DEF d
<1>4. /\ SameSession(EngageKill(d, now), d)
      /\ EngageKill(d, now).autoReleased = d.autoReleased
      /\ KillPause = 0 /\ d.until = 0 => EngageKill(d, now).until = 0
  BY <1>1, <1>2, EngageSame
<1>5. SameSession(d, d)
  BY DEF SameSession
<1>6. KillPause = 0 => ctl.until = 0
  BY <1>1 DEF StampInv
<1>7. QED
  BY <1>2, <1>3, <1>4, <1>5, <1>6 DEF d

\* The slot is up again.
LEMMA RestartReplayEnd ==
  ASSUME RestartInv, HaltInv', TypeOK', ReplayEnd
  PROVE  RestartInv'
<1> DEFINE rel == ReleasedToday
<1>1. /\ TypeOK /\ StampInv /\ now \in Nat /\ marker \in Nat
      /\ Book(Closes, now) /\ Book(RowsToday, now) /\ marker <= now
  BY DayBook DEF RestartInv, HaltInv, TypeOK, StampInv
<1>2. /\ phase = "replay" /\ phase' = "up" /\ now' = now
      /\ UNCHANGED <<rows, marker, pend, sync, stamp, opStamp>>
  BY DEF ReplayEnd, disk
<1>3. pend = {} /\ opStamp = 0 /\ sync = "idle"
  BY <1>1, <1>2 DEF StampInv
<1>4. /\ SameSession(ctl', Replayed) /\ ~ctl'.autoReleased
      /\ KillPause = 0 => ctl'.until = 0
  BY ReplayEndSession
<1>5. Closes = rows /\ Closes' = Closes /\ ~Lifting'
  BY <1>2, <1>3, <1>4 DEF Closes, Lifting
<1>6. /\ Replayed.trades = Cardinality(RowsToday)
      /\ Replayed.resetAt = NextReset(now)
  BY ReplayedSession
<1>7. PICK tot \in Totals : Session(Replayed, RowsToday, tot, rel)
  BY ReplayedSession
<1>8. Counted(Replayed, RowsToday, Closes, now)
  <2>1. RowsToday \subseteq Closes
    BY <1>5 DEF RowsToday
  <2>2. now < NextReset(now) /\ NextReset(now) \in Nat
    BY <1>1, DayBounds
  <2>3. \A r \in Closes : ~(r.at >= Replayed.resetAt)
    BY <1>1, <1>6, <2>2 DEF Book, RowType
  <2>4. \A r \in RowsToday : r.at >= SessionStart(now)
    BY DEF RowsToday
  <2>5. now \in 0..now
    BY <1>1
  <2>6. QED
    BY <1>6, <2>1, <2>3, <2>4, <2>5 DEF Counted
<1>9. Marked(RowsToday, rel, marker, FALSE, now)
  <2>1. SessionStart(now) \in Nat
    BY <1>1, DayBounds
  <2>2. \A r \in RowsToday : r.at \in Nat /\ r.at >= SessionStart(now)
    BY <1>1 DEF RowsToday, Book, RowType
  <2>3. CASE marker >= SessionStart(now)
    <3>1. rel = marker
      BY <2>3 DEF ReleasedToday
    <3>2. QED
      BY <1>1, <3>1 DEF Marked
  <2>4. CASE marker < SessionStart(now)
    <3>1. rel = 0
      BY <1>1, <2>1, <2>4 DEF ReleasedToday
    <3>2. \A r \in RowsToday : r.at >= marker
      BY <1>1, <2>1, <2>2, <2>4
    <3>3. QED
      BY <1>1, <2>1, <3>1, <3>2 DEF Marked
  <2>5. marker >= SessionStart(now) \/ marker < SessionStart(now)
    BY <1>1, <2>1
  <2>6. QED
    BY <2>3, <2>4, <2>5
<1>10. rel \in Nat /\ RowsToday \in SUBSET RowType
  BY <1>1 DEF ReleasedToday, Book
<1> HIDE DEF rel
<1>11. Memory(Replayed, Closes, marker, FALSE, now)
  BY <1>7, <1>8, <1>9, <1>10 DEF Memory, Fits
<1>12. Memory(ctl', Closes, marker, FALSE, now)
  BY <1>4, <1>11, MemorySame
<1>13. Lifting' = FALSE
  BY <1>5
<1>14. Memory(ctl, Closes, marker, Lifting, now)'
  BY <1>2, <1>5, <1>12, <1>13
<1>15. StampInv'
  BY <1>1, <1>2, <1>3, <1>4, <1>5 DEF StampInv
<1>16. QED
  BY <1>2, <1>14, <1>15, UpKeeps

\* Every step keeps the invariant of the restart.
LEMMA RestartStep == RestartInv /\ [Next]_vars => RestartInv'
<1> SUFFICES ASSUME RestartInv, [Next]_vars
             PROVE  RestartInv'
  OBVIOUS
<1>1. HaltInv' /\ TypeOK' /\ TypeOK /\ StampInv /\ ctl \in CtlType /\ now \in Nat
  BY HaltStep DEF RestartInv, HaltInv, TypeOK
<1>2. CASE Tick
  BY <1>1, <1>2, RestartTick
<1>3. ASSUME NEW ok \in BOOLEAN, CanOpenLive(ok) PROVE RestartInv'
  BY <1>1, <1>3, RestartGate
<1>4. CASE OpenFilled \/ OpenMissed
  <2>1. /\ phase = "up" /\ phase' = "up" /\ ctl' = ctl
        /\ UNCHANGED <<now, pend, rows, marker, sync, stamp, opStamp>>
    BY <1>4 DEF OpenFilled, OpenMissed, disk
  <2>2. Closes' = Closes
    BY <2>1 DEF Closes
  <2>3. QED
    BY <1>1, <2>1, <2>2, RestartFrame DEF StampInv
<1>5. ASSUME NEW p \in Pnls, EngineClose(p) \/ ExternalClose(p)
      PROVE  RestartInv'
  BY <1>1, <1>5, RestartClose
<1>6. ASSUME NEW r \in pend, PersistTrade(r) PROVE RestartInv'
  <2>1. /\ phase = "up" /\ phase' = "up" /\ ctl' = ctl
        /\ UNCHANGED <<now, marker, sync, stamp, opStamp>>
    BY <1>6 DEF PersistTrade
  <2>2. Closes' = Closes
    BY <1>6 DEF PersistTrade, Closes
  <2>3. QED
    BY <1>1, <2>1, <2>2, RestartFrame DEF StampInv
<1>7. CASE OperatorRelease \/ Unkill \/ SyncRelease
  BY <1>1, <1>7, RestartRelease
<1>8. CASE OperatorMarked \/ SyncMark \/ SyncAutoMark
  BY <1>1, <1>8, RestartMark
<1>9. CASE PanelRequest \/ UNCHANGED vars
  <2>1. UNCHANGED <<now, phase, memory, rows, marker, pre>>
    BY <1>9 DEF PanelRequest, vars, history, disk
  <2>2. /\ UNCHANGED <<ctl, pend, todo, sync, stamp, opStamp>>
        /\ Closes' = Closes
    BY <2>1 DEF memory, Closes
  <2>3. StampInv'
    BY <1>1, <2>1, <2>2 DEF StampInv
  <2>4. RowsToday' = RowsToday /\ Done' = Done /\ ReleasedToday' = ReleasedToday
    BY <2>1, <2>2 DEF RowsToday, Done, ReleasedToday
  <2>5. MemoryInv'
    BY <2>1, <2>2 DEF RestartInv, MemoryInv, Lifting
  <2>6. LostInv'
    BY <2>1, <2>4 DEF RestartInv, LostInv, Explains, SameDay
  <2>7. ReplayInv'
    BY <2>1, <2>2, <2>4 DEF RestartInv, ReplayInv, ReplayedTo, Explains, SameDay
  <2>8. QED
    BY <1>1, <2>3, <2>5, <2>6, <2>7 DEF RestartInv
<1>10. CASE SyncNoRequest \/ SyncDelete
  <2>1. /\ phase = "up" /\ phase' = "up" /\ AfterRequest(ctl)
        /\ UNCHANGED <<now, pend, rows, marker, opStamp>> /\ sync # "mark"
    BY <1>10 DEF SyncNoRequest, SyncDelete, disk
  <2>2. /\ ctl' = ctl \/ ctl' = DailyReset(ctl, now)
        /\ sync' \in {"autoMark", "show", "hide"}
        /\ sync' = "autoMark" => ctl.autoReleased /\ stamp' = now
    BY <2>1 DEF AfterRequest
  <2>3. Closes' = Closes
    BY <2>1 DEF Closes
  <2>4. KillPause = 0 => sync' # "autoMark"
    BY <1>1, <2>2 DEF StampInv
  <2>5. QED
    BY <1>1, <2>1, <2>2, <2>3, <2>4, RestartFrame
<1>11. CASE SyncStaleRequest \/ SyncNotHalted \/ SyncMirror
  <2>1. /\ phase = "up" /\ phase' = "up"
        /\ UNCHANGED <<now, pend, rows, marker, opStamp>> /\ sync # "mark"
        /\ sync' \in {"delete", "idle"}
        /\ ctl' = ctl \/ ctl' = DailyReset(ctl, now)
    BY <1>11 DEF SyncStaleRequest, SyncNotHalted, SyncMirror, disk
  <2>2. Closes' = Closes
    BY <2>1 DEF Closes
  <2>3. QED
    BY <1>1, <2>1, <2>2, RestartFrame
<1>12. CASE Crash
  BY <1>1, <1>12, RestartCrash
<1>13. CASE Boot
  BY <1>1, <1>13, RestartBoot
<1>14. ASSUME NEW r \in todo, Replay(r) PROVE RestartInv'
  BY <1>1, <1>14, RestartReplay
<1>15. CASE ReplayEnd
  BY <1>1, <1>15, RestartReplayEnd
<1>16. QED
  BY <1>2, <1>3, <1>4, <1>5, <1>6, <1>7, <1>8, <1>9, <1>10, <1>11, <1>12,
     <1>13, <1>14, <1>15 DEF Next, Trade, Release, Sync, Restart

\* The slot begins with an empty book.
LEMMA RestartInit == Init => RestartInv
<1> SUFFICES ASSUME Init PROVE RestartInv
  OBVIOUS
<1>1. HaltInv
  <2>1. TypeOK
    BY InitType
  <2>2. ~ctl.kill /\ Guarded(ctl) /\ pauseEnd = 0 /\ now = 1
    BY FreshCtlType DEF Init, FreshCtl
  <2>3. QED
    BY <2>1, <2>2 DEF HaltInv, DrawdownHalts, DeadlineSet, PauseKept, Guarded
<1>2. /\ now = 1 /\ phase = "up" /\ Closes = {} /\ marker = 0 /\ opStamp = 0
      /\ sync = "idle"
  BY DEF Init, Closes
<1>3. /\ ctl.pnl = 0 /\ ctl.peak = 0 /\ ctl.trades = 0 /\ ctl.until = 0
      /\ ctl.resetAt = NextReset(now) /\ ~ctl.autoReleased
  BY DEF Init, FreshCtl
<1>4. Book(Closes, now)
  BY <1>2, EmptyBook
<1>5. StampInv
  BY <1>2, <1>3, <1>4 DEF StampInv
<1>6. Memory(ctl, Closes, marker, Lifting, now)
  BY <1>2, <1>3, <1>4, MemoryEmpty
<1>7. QED
  BY <1>1, <1>2, <1>5, <1>6 DEF RestartInv, MemoryInv, LostInv, ReplayInv

\* The invariant holds throughout.
THEOREM RestartInvariant == Spec => []RestartInv
  BY RestartInit, RestartStep, PTL DEF Spec

\* Only the restart ends a boot, and it ends it in one of two ways.
LEMMA HowBootEnds ==
  ASSUME [Next]_vars, phase # "up", phase' = "up"
  PROVE  \/ Boot /\ phase = "down" /\ todo' = {} /\ pre' = NoCrash
         \/ ReplayEnd
<1>1. ~(UNCHANGED vars) /\ ~Tick
  BY DEF vars, Tick
<1>2. ~Trade
  BY DEF Trade, CanOpenLive, OpenFilled, OpenMissed, EngineClose,
     ExternalClose, PersistTrade
<1>3. ~Release
  BY DEF Release, OperatorRelease, Unkill, OperatorMarked, PanelRequest, memory
<1>4. ~Sync
  BY DEF Sync, SyncNoRequest, SyncStaleRequest, SyncRelease, SyncNotHalted,
     SyncMark, SyncDelete, SyncAutoMark, SyncMirror
<1>5. ~Crash /\ \A r \in todo : ~Replay(r)
  BY DEF Crash, Replay
<1>6. Boot => phase = "down" /\ todo' = {} /\ pre' = NoCrash
  BY DEF Boot
<1>7. QED
  BY <1>1, <1>2, <1>3, <1>4, <1>5, <1>6 DEF Next, Restart

\* On the same day a process that went down with everything on disk comes up
\* with the same PnL, a peak no higher, and no halt it did not have; without
\* expiries the peak is the same.
LEMMA BootRestores ==
  ASSUME RestartInv, [Next]_vars, phase # "up", phase' = "up", pre.clean,
         SameDay
  PROVE  /\ ctl'.pnl = pre.pnl /\ ctl'.peak <= pre.peak
         /\ KillPause = 0 => ctl'.peak = pre.peak
         /\ ~pre.kill => ~ctl'.kill
<1>1. /\ TypeOK /\ StampInv /\ now \in Nat /\ marker \in Nat /\ marker <= now
      /\ Book(RowsToday, now) /\ pre.peak \in Int /\ pre.pnl \in Int
  BY DayBook DEF RestartInv, HaltInv, TypeOK, StampInv
<1>2. ~pre.kill => ~DrawdownBreached(pre)
  BY DEF RestartInv, LostInv
<1>3. ASSUME NEW d, NEW tot \in Totals, d.peak \in Int, Explains(tot),
             Session(d, RowsToday, tot, ReleasedToday)
      PROVE  /\ d.pnl = pre.pnl /\ d.peak <= pre.peak
             /\ KillPause = 0 => d.peak = pre.peak
  <2> DEFINE D == RowsToday
             rel == ReleasedToday
  <2>1. PICK l \in Nat :
          /\ Session(pre, D, tot, l)
          /\ l <= SessionStart(now) \/ l <= marker
          /\ KillPause = 0 => \A r \in D : r.at >= l => r.at >= marker
    BY <1>3 DEF Explains
  <2>2. /\ PeakOf(pre.peak, D, tot, l) /\ PeakOf(d.peak, D, tot, rel)
        /\ d.pnl = pre.pnl
    BY <1>3, <2>1 DEF Session
  <2>3. /\ SessionStart(now) \in Nat /\ rel \in Nat
        /\ \A r \in D : r.at \in Nat /\ r.at >= SessionStart(now)
        /\ rel = IF marker >= SessionStart(now) THEN marker ELSE 0
    BY <1>1, DayBounds DEF ReleasedToday, RowsToday, Book, RowType
  <2> HIDE DEF D, rel
  <2>4. Book(D, now)
    BY <1>1 DEF D
  <2>5. CASE marker >= SessionStart(now)
    <3>1. rel = marker /\ l <= rel
      BY <1>1, <2>1, <2>3, <2>5
    <3>2. d.peak <= pre.peak
      BY <1>1, <1>3, <2>2, <2>3, <2>4, <3>1, LaterPeakIsLower
    <3>3. ASSUME KillPause = 0 PROVE d.peak = pre.peak
      <4>1. \A r \in D : r.at >= rel <=> r.at >= l
        BY <2>1, <2>3, <3>1, <3>3
      <4>2. PeakOf(d.peak, D, tot, l)
        BY <1>1, <2>2, <2>3, <2>4, <4>1, PeakMoves
      <4>3. l <= l
        OBVIOUS
      <4>4. pre.peak <= d.peak
        BY <1>1, <1>3, <2>2, <2>4, <4>2, <4>3, LaterPeakIsLower
      <4>5. QED
        BY <1>1, <1>3, <3>2, <4>4
    <3>4. QED
      BY <2>2, <3>2, <3>3
  <2>6. CASE marker < SessionStart(now)
    <3>1. rel = 0 /\ l <= SessionStart(now)
      BY <1>1, <2>1, <2>3, <2>6
    <3>2. \A r \in D : r.at >= l <=> r.at >= 0
      BY <2>3, <3>1
    <3>3. PeakOf(pre.peak, D, tot, 0)
      BY <1>1, <2>2, <2>4, <3>2, PeakMoves
    <3>4. PeakOf(d.peak, D, tot, 0)
      BY <2>2, <3>1
    <3>5. d.peak <= pre.peak /\ pre.peak <= d.peak
      BY <1>1, <1>3, <2>4, <3>3, <3>4, LaterPeakIsLower
    <3>6. QED
      BY <1>1, <1>3, <2>2, <3>5
  <2>7. marker >= SessionStart(now) \/ marker < SessionStart(now)
    BY <1>1, <2>3
  <2>8. QED
    BY <2>5, <2>6, <2>7
<1>4. CASE Boot /\ phase = "down" /\ todo' = {}
  <2>1. ctl' = FreshCtl(now) /\ RowsToday = {}
    BY <1>4 DEF Boot
  <2>2. ctl'.pnl = 0 /\ ctl'.peak = 0 /\ ~ctl'.kill
    BY <2>1 DEF FreshCtl
  <2>3. PICK tot \in Totals : Explains(tot)
    BY <1>4 DEF RestartInv, LostInv
  <2>4. ReleasedToday \in Nat
    BY <1>1 DEF ReleasedToday
  <2>5. Session(ctl', RowsToday, tot, ReleasedToday)
    BY <2>1, <2>2, <2>4, SessionEmpty
  <2>6. QED
    BY <1>3, <2>2, <2>3, <2>5
<1>5. CASE ReplayEnd
  <2>1. PICK tot \in Totals :
          Explains(tot) /\ Session(Replayed, RowsToday, tot, ReleasedToday)
    BY <1>5, ReplayedSession
  <2>2. Replayed \in CtlType
    BY <1>5, ReplayedSession
  <2>3. Replayed.peak \in Int /\ Replayed.pnl \in Int
    BY <2>2 DEF CtlType
  <2>4. /\ Replayed.pnl = pre.pnl /\ Replayed.peak <= pre.peak
        /\ KillPause = 0 => Replayed.peak = pre.peak
    BY <1>3, <2>1, <2>3
  <2>5. /\ ctl'.pnl = Replayed.pnl /\ ctl'.peak = Replayed.peak
        /\ ctl'.kill => DrawdownBreached(Replayed)
    BY <1>5, ReplayEndSession DEF SameSession
  <2>6. DrawdownBreached(Replayed) => DrawdownBreached(pre)
    BY <1>1, <2>3, <2>4, SlotSafetyAssumptions DEF DrawdownBreached
  <2>7. QED
    BY <1>2, <2>4, <2>5, <2>6
<1>6. QED
  BY <1>4, <1>5, HowBootEnds

\* A restart does not bring back a halt that had been lifted, by hand or by
\* its deadline: whatever was re-based in memory is re-based by the replay at
\* the marker, which lies no earlier (persist_kill_release, _hydrate_safety).
THEOREM LiftedStaysLifted == Spec => LiftSurvivesRestart
<1>1. RestartInv /\ [Next]_vars
        => [BootEnds /\ pre.clean /\ ~pre.kill /\ SameDay => ~ctl'.kill]_vars
  BY BootRestores DEF BootEnds
<1>2. QED
  BY <1>1, RestartInvariant, PTL DEF Spec, LiftSurvivesRestart

\* With halts that only an operator lifts, a restart on the same day rebuilds
\* PnL and peak exactly (hydrate_session); with expiries it does not, because
\* the marker is stamped after the re-basing.
THEOREM SessionIsRestored ==
  ASSUME KillPause = 0
  PROVE  Spec => HydrateRestoresSession
<1>1. RestartInv /\ [Next]_vars
        => [BootEnds /\ pre.clean /\ SameDay
              => ctl'.pnl = pre.pnl /\ ctl'.peak = pre.peak]_vars
  BY BootRestores DEF BootEnds
<1>2. QED
  BY <1>1, RestartInvariant, PTL DEF Spec, HydrateRestoresSession

-----------------------------------------------------------------------------
(* Sums over finite sets.                                                  *)

\* A bounded set of numbers has a smallest and a greatest member.
LEMMA LeastOf ==
  ASSUME NEW T \in SUBSET Nat, T # {}
  PROVE  \E x \in T : \A y \in T : x <= y
<1> DEFINE R == {p \in Nat \X Nat : p[1] < p[2]}
<1>1. OpToRel(<, Nat) = R
  BY DEF OpToRel
<1>2. IsWellFoundedOn(R, Nat)
  BY <1>1, NatLessThanWellFounded
<1>3. PICK x \in T : \A y \in T : ~(<<y, x>> \in R)
  BY <1>2, WFMin
<1>4. ASSUME NEW y \in T PROVE x <= y
  <2>1. ~(y < x)
    BY <1>3
  <2>2. QED
    BY <2>1
<1>5. QED
  BY <1>4

\* The recursion of a sum.
Pick(s) == CHOOSE x \in s : TRUE
Rec(f, S, g) ==
  g = [s \in SUBSET S |-> IF s = {} THEN 0 ELSE f[Pick(s)] + g[s \ {Pick(s)}]]

\* The sum is read off a solution of it.
LEMMA SumIs ==
  ASSUME NEW f, NEW S
  PROVE  SumFunctionOnSet(f, S) = (CHOOSE g : Rec(f, S, g))[S]
BY DEF SumFunctionOnSet, FoldFunctionOnSet, MapThenFoldSet, Rec, Pick

\* A set without one of its members is smaller.
LEMMA Smaller ==
  ASSUME NEW s, IsFiniteSet(s), NEW y \in s
  PROVE  /\ IsFiniteSet(s \ {y}) /\ Cardinality(s \ {y}) \in Nat
         /\ Cardinality(s) \in Nat /\ Cardinality(s \ {y}) = Cardinality(s) - 1
BY FS_RemoveElement, FS_CardinalityType

\* The recursion has a solution: for sets of one size after the other.
LEMMA RecExists ==
  ASSUME NEW f, NEW S, IsFiniteSet(S)
  PROVE  \E g : Rec(f, S, g)
<1> DEFINE D(n) == {s \in SUBSET S : Cardinality(s) <= n}
           One(g, s) == IF s = {} THEN 0 ELSE f[Pick(s)] + g[s \ {Pick(s)}]
           G(n, g) == g = [s \in D(n) |-> One(g, s)]
           N == Cardinality(S)
           Bad == {n \in Nat : ~\E g : G(n, g)}
<1>1. /\ N \in Nat
      /\ \A s \in SUBSET S : /\ IsFiniteSet(s) /\ Cardinality(s) \in Nat
                              /\ Cardinality(s) <= N
  BY FS_CardinalityType, FS_Subset
<1>2. \A s \in SUBSET S :
        s # {} => /\ Pick(s) \in s /\ s \ {Pick(s)} \in SUBSET S
                  /\ Cardinality(s \ {Pick(s)}) = Cardinality(s) - 1
  BY <1>1, Smaller DEF Pick
<1>3. \E g : G(0, g)
  <2>1. D(0) = {{}}
    BY <1>1, FS_EmptySet
  <2> DEFINE h == [s \in D(0) |-> 0]
  <2>2. G(0, h)
    BY <2>1
  <2>3. QED
    BY <2>2
<1>4. ASSUME NEW n \in Nat, NEW g, G(n, g)
      PROVE  \E h : G(n + 1, h)
  <2> DEFINE h == [s \in D(n + 1) |-> One(g, s)]
  <2>1. \A s \in D(n) : s \in D(n + 1) /\ h[s] = g[s]
    <3> SUFFICES ASSUME NEW s \in D(n) PROVE s \in D(n + 1) /\ h[s] = g[s]
      OBVIOUS
    <3>1. s \in D(n + 1)
      BY <1>1
    <3>2. g[s] = One(g, s)
      BY <1>4
    <3>3. QED
      BY <3>1, <3>2
  <2>2. \A s \in D(n + 1) : s # {} => s \ {Pick(s)} \in D(n)
    BY <1>1, <1>2
  <2>3. h = [s \in D(n + 1) |-> One(h, s)]
    <3> HIDE DEF D
    <3>1. \A s \in D(n + 1) : One(g, s) = One(h, s)
      BY <2>1, <2>2
    <3>2. QED
      BY <3>1
  <2>4. G(n + 1, h)
    BY <2>3
  <2>5. QED
    BY <2>4
<1> HIDE DEF G, D
<1>5. \A n \in Nat : \E g : G(n, g)
  <2> SUFFICES ASSUME Bad # {} PROVE FALSE
    OBVIOUS
  <2>1. PICK n \in Bad : \A k \in Bad : n <= k
    BY LeastOf
  <2>2. n # 0 /\ n \in Nat
    BY <1>3
  <2>3. n - 1 \in Nat /\ ~(n - 1 \in Bad)
    BY <2>1, <2>2
  <2>4. PICK g : G(n - 1, g)
    BY <2>3
  <2>5. \E h : G((n - 1) + 1, h)
    BY <1>4, <2>3, <2>4
  <2>6. (n - 1) + 1 = n
    BY <2>2
  <2>7. QED
    BY <2>1, <2>5, <2>6
<1>6. D(N) = SUBSET S
  BY <1>1 DEF D
<1>7. PICK g : G(N, g)
  BY <1>1, <1>5
<1>8. Rec(f, S, g)
  BY <1>6, <1>7 DEF Rec, G
<1>9. QED
  BY <1>8

\* What a solution gives for a set.
LEMMA RecGives ==
  ASSUME NEW f, NEW S, NEW g, Rec(f, S, g), NEW s \in SUBSET S
  PROVE  /\ s = {} => g[s] = 0
         /\ s # {} => Pick(s) \in s /\ g[s] = f[Pick(s)] + g[s \ {Pick(s)}]
BY DEF Rec, Pick

\* Solutions for functions that agree on a set agree on the set.
LEMMA RecAgree ==
  ASSUME NEW f, NEW S, NEW g, Rec(f, S, g), IsFiniteSet(S),
         NEW e, NEW T, NEW h, Rec(e, T, h),
         NEW U, U \in SUBSET S, U \in SUBSET T, \A x \in U : f[x] = e[x]
  PROVE  g[U] = h[U]
<1> DEFINE Bad == {n \in Nat : \E s \in SUBSET U :
                     Cardinality(s) = n /\ g[s] # h[s]}
<1>1. \A s \in SUBSET U : IsFiniteSet(s) /\ Cardinality(s) \in Nat
  BY FS_CardinalityType, FS_Subset
<1>2. Bad = {}
  <2> SUFFICES ASSUME Bad # {} PROVE FALSE
    OBVIOUS
  <2>1. PICK n \in Bad : \A k \in Bad : n <= k
    BY LeastOf
  <2>2. PICK s \in SUBSET U : Cardinality(s) = n /\ g[s] # h[s]
    BY <2>1
  <2>3. s # {} /\ s \in SUBSET S /\ s \in SUBSET T
    BY <2>2, RecGives
  <2> DEFINE c == Pick(s)
  <2>4. /\ c \in s /\ g[s] = f[c] + g[s \ {c}] /\ h[s] = e[c] + h[s \ {c}]
    BY <2>3, RecGives
  <2>5. Cardinality(s \ {c}) = n - 1 /\ n - 1 \in Nat /\ n \in Nat
    BY <1>1, <2>2, <2>4, Smaller
  <2>6. g[s \ {c}] = h[s \ {c}]
    <3>1. ~(n - 1 \in Bad)
      BY <2>1, <2>5
    <3>2. QED
      BY <2>5, <3>1
  <2>7. f[c] = e[c]
    BY <2>4
  <2>8. QED
    BY <2>2, <2>4, <2>6, <2>7
<1>3. QED
  BY <1>1, <1>2

\* The sums of functions that agree on a set.
LEMMA SumSame ==
  ASSUME NEW f, NEW e, NEW S, IsFiniteSet(S), \A x \in S : f[x] = e[x]
  PROVE  SumFunctionOnSet(f, S) = SumFunctionOnSet(e, S)
<1>1. Rec(f, S, CHOOSE g : Rec(f, S, g)) /\ Rec(e, S, CHOOSE g : Rec(e, S, g))
  BY RecExists
<1>2. QED
  BY <1>1, SumIs, RecAgree

\* The sum over the empty set,
LEMMA SumOfNone == ASSUME NEW f PROVE SumFunctionOnSet(f, {}) = 0
<1>1. Rec(f, {}, CHOOSE g : Rec(f, {}, g))
  BY RecExists, FS_EmptySet
<1>2. QED
  BY <1>1, SumIs, RecGives

\* and over a set with one of its members apart.
LEMMA SumSplits ==
  ASSUME NEW f, NEW S, IsFiniteSet(S), \A x \in S : f[x] \in Int, NEW y \in S
  PROVE  /\ SumFunctionOnSet(f, S) \in Int
         /\ SumFunctionOnSet(f, S) = f[y] + SumFunctionOnSet(f, S \ {y})
<1> DEFINE g == CHOOSE k : Rec(f, S, k)
           h == CHOOSE k : Rec(f, S \ {y}, k)
           Bad == {n \in Nat : \E s \in SUBSET S :
                     Cardinality(s) = n /\ g[s] \notin Int}
           Odd == {n \in Nat : \E s \in SUBSET S : \E z \in s :
                     Cardinality(s) = n /\ g[s] # f[z] + g[s \ {z}]}
<1>1. Rec(f, S, g) /\ Rec(f, S \ {y}, h)
  BY RecExists, FS_Subset
<1>2. \A s \in SUBSET S : IsFiniteSet(s) /\ Cardinality(s) \in Nat
  BY FS_CardinalityType, FS_Subset
<1> HIDE DEF g, h, Bad, Odd
<1>0. \A s \in SUBSET S :
        s # {} => Pick(s) \in s /\ g[s] = f[Pick(s)] + g[s \ {Pick(s)}]
  BY <1>1, RecGives
<1> USE DEF Bad, Odd
<1>3. Bad = {}
  <2> SUFFICES ASSUME Bad # {} PROVE FALSE
    OBVIOUS
  <2>1. PICK n \in Bad : \A k \in Bad : n <= k
    BY LeastOf
  <2>2. PICK s \in SUBSET S : Cardinality(s) = n /\ g[s] \notin Int
    BY <2>1
  <2>3. s # {}
    <3>1. s = {} => g[s] = 0
      BY <1>1, RecGives
    <3>2. QED
      BY <2>2, <3>1
  <2> DEFINE c == Pick(s)
  <2>4. /\ c \in s /\ g[s] = f[c] + g[s \ {c}]
    BY <1>0, <2>3
  <2>5. Cardinality(s \ {c}) = n - 1 /\ n - 1 \in Nat /\ n \in Nat
    BY <1>2, <2>2, <2>4, Smaller
  <2>6. ~(n - 1 \in Bad)
    BY <2>1, <2>5
  <2>7. g[s \ {c}] \in Int /\ f[c] \in Int
    BY <2>4, <2>5, <2>6
  <2>8. QED
    BY <2>2, <2>4, <2>7
<1>4. \A s \in SUBSET S : g[s] \in Int
  BY <1>2, <1>3
<1>5. Odd = {}
  <2> SUFFICES ASSUME Odd # {} PROVE FALSE
    OBVIOUS
  <2>1. PICK n \in Odd : \A k \in Odd : n <= k
    BY LeastOf
  <2>2. PICK s \in SUBSET S :
          \E z \in s : Cardinality(s) = n /\ g[s] # f[z] + g[s \ {z}]
    BY <2>1
  <2>3. PICK z \in s : Cardinality(s) = n /\ g[s] # f[z] + g[s \ {z}]
    BY <2>2
  <2> DEFINE c == Pick(s)
  <2>4. /\ c \in s /\ g[s] = f[c] + g[s \ {c}]
    BY <1>0
  <2> HIDE DEF c
  <2>5. z # c /\ z \in s \ {c} /\ c \in s \ {z}
    BY <2>3, <2>4
  <2>6. /\ Cardinality(s \ {c}) = n - 1 /\ Cardinality(s \ {z}) = n - 1
        /\ n - 1 \in Nat /\ n \in Nat
    BY <1>2, <2>3, <2>4, Smaller
  <2>7. ~(n - 1 \in Odd)
    <3>1. n - 1 \in Odd => n <= n - 1
      BY <2>1
    <3>2. QED
      BY <2>6, <3>1
  <2>8. g[s \ {c}] = f[z] + g[(s \ {c}) \ {z}]
    BY <2>5, <2>6, <2>7
  <2>9. g[s \ {z}] = f[c] + g[(s \ {z}) \ {c}]
    BY <2>5, <2>6, <2>7
  <2>10. (s \ {c}) \ {z} = (s \ {z}) \ {c}
    OBVIOUS
  <2>11. f[c] \in Int /\ f[z] \in Int /\ g[(s \ {z}) \ {c}] \in Int
    BY <1>4, <2>4
  <2>12. g[s] = f[c] + (f[z] + g[(s \ {z}) \ {c}])
    BY <2>4, <2>8, <2>10
  <2>13. f[z] + g[s \ {z}] = f[z] + (f[c] + g[(s \ {z}) \ {c}])
    BY <2>9
  <2>14. QED
    BY <2>3, <2>11, <2>12, <2>13
<1>6. g[S] = f[y] + g[S \ {y}]
  <2>1. Cardinality(S) \in Nat /\ ~(Cardinality(S) \in Odd)
    BY <1>2, <1>5
  <2>2. QED
    BY <2>1
<1>7. g[S \ {y}] = h[S \ {y}]
  BY <1>1, RecAgree
<1>8. QED
  BY <1>4, <1>6, <1>7, SumIs DEF g, h

-----------------------------------------------------------------------------
(* The session and the table.                                              *)

PnlIn == [r \in RowType |-> r.pnl]

\* What the rows of S add up to
PnlOf(S) == SumFunctionOnSet(PnlIn, S)

\* The closes of the day, without those that came before its roll-over
ClosesToday == {r \in Closes : r.at >= SessionStart(now)} \ late

\* A running controller that is rolled over has the sum of the closes of its
\* day; one that is not has put all of the new day among the late ones.  The
\* replay has the sum of the rows it has taken.
LedgerInv ==
  /\ late \subseteq Closes
  /\ phase # "up" => late = {}
  /\ phase = "up" =>
       /\ now < ctl.resetAt => ctl.pnl = PnlOf(ClosesToday)
       /\ \A r \in Closes : r.at >= ctl.resetAt => r \in late
  /\ phase = "replay" => ctl.pnl = PnlOf(Done)

SumInv == RestartInv /\ LedgerInv

\* No rows add up to nothing.
LEMMA PnlOfNone == PnlOf({}) = 0
BY SumOfNone DEF PnlOf

\* One more row.
LEMMA PnlAdds ==
  ASSUME NEW S, NEW n \in Nat, Book(S, n), NEW r \in RowType, r \notin S
  PROVE  PnlOf(S \cup {r}) = PnlOf(S) + r.pnl
<1> DEFINE T == S \cup {r}
<1>1. IsFiniteSet(T) /\ T \subseteq RowType /\ r \in T /\ T \ {r} = S
  BY FS_AddElement DEF Book
<1>2. \A x \in T : PnlIn[x] \in Int
  BY <1>1 DEF PnlIn, RowType
<1>3. PnlIn[r] = r.pnl /\ r.pnl \in Int
  BY DEF PnlIn, RowType
<1>4. PnlOf(T) = r.pnl + PnlOf(S)
  BY <1>1, <1>2, <1>3, SumSplits DEF PnlOf
<1>5. PnlOf(S) \in Int
  <2>1. CASE S = {}
    BY <2>1, PnlOfNone
  <2>2. CASE S # {}
    <3>1. PICK y \in S : TRUE
      BY <2>2
    <3>2. IsFiniteSet(S) /\ \A x \in S : PnlIn[x] \in Int
      BY <1>2 DEF Book
    <3>3. QED
      BY <3>1, <3>2, SumSplits DEF PnlOf
  <2>3. QED
    BY <2>1, <2>2
<1>6. QED
  BY <1>3, <1>4, <1>5

\* A running controller is rolled over at the end of a day it has begun.
LEMMA DayOfController ==
  ASSUME RestartInv, phase = "up"
  PROVE  \E t \in 0..now : ctl.resetAt = NextReset(t)
<1>1. Memory(ctl, Closes, marker, Lifting, now)
  BY DEF RestartInv, MemoryInv
<1>2. QED
  BY <1>1 DEF Memory, Fits, Counted

\* c and d have the same PnL and day, or d was rolled over at t.
Rolls(d, c, t) ==
  \/ d.pnl = c.pnl /\ d.resetAt = c.resetAt
  \/ t >= c.resetAt /\ d.pnl = 0 /\ d.resetAt = NextReset(t)

\* The roll-over does that,
LEMMA ResetRolls ==
  ASSUME NEW c \in CtlType, NEW t \in Nat
  PROVE  Rolls(DailyReset(c, t), c, t)
<1> DEFINE z == 0
           k == NextReset(t)
           d == [c EXCEPT !.pnl = z, !.peak = z, !.trades = z, !.resetAt = k]
<1>1. DailyReset(c, t) = IF t >= c.resetAt THEN d ELSE c
  BY DEF DailyReset
<1>2. d.pnl = z /\ d.resetAt = k
  <2> HIDE DEF z, k
  <2>1. QED
    BY DEF CtlType
<1> HIDE DEF d
<1>3. QED
  BY <1>1, <1>2 DEF Rolls

\* and so do the gate and the release after it.
LEMMA MethodsRoll ==
  ASSUME NEW c \in CtlType, NEW t \in Nat
  PROVE  /\ Rolls(c, c, t)
         /\ Rolls(AfterGate(c, t), c, t)
         /\ Rolls(ReleaseKill(c), c, t)
         /\ Rolls(ReleaseKill(DailyReset(c, t)), c, t)
         /\ Rolls([DailyReset(c, t) EXCEPT !.autoReleased = FALSE], c, t)
<1> DEFINE d == DailyReset(c, t)
           e == [d EXCEPT !.autoReleased = FALSE]
<1>1. d \in CtlType /\ Rolls(d, c, t)
  BY DailyResetType, ResetRolls
<1>2. AfterGate(c, t) = d \/ AfterGate(c, t) = ExpireKill(d)
  BY DEF AfterGate
<1> HIDE DEF d
<1>3. /\ Rebased(ExpireKill(d), d) /\ Rebased(ReleaseKill(d), d)
      /\ Rebased(ReleaseKill(c), c)
  BY <1>1, ReleaseRebases
<1>4. e.pnl = d.pnl /\ e.resetAt = d.resetAt
  BY <1>1 DEF CtlType
<1> HIDE DEF e
<1>5. Rolls(e, c, t)
  BY <1>1, <1>4 DEF Rolls
<1>6. QED
  BY <1>1, <1>2, <1>3, <1>5 DEF Rolls, Rebased, d, e

\* A step of a running process that closes nothing keeps the sum.
LEMMA LedgerRolls ==
  ASSUME SumInv, phase = "up", phase' = "up", now' = now, Closes' = Closes,
         late' = late, Rolls(ctl', ctl, now)
  PROVE  LedgerInv'
<1>1. /\ now \in Nat /\ Book(Closes, now) /\ ctl.resetAt \in Nat
  BY DEF SumInv, RestartInv, HaltInv, StampInv, TypeOK, CtlType
<1>2. /\ late \subseteq Closes
      /\ now < ctl.resetAt => ctl.pnl = PnlOf(ClosesToday)
      /\ \A r \in Closes : r.at >= ctl.resetAt => r \in late
  BY DEF SumInv, LedgerInv
<1>3. ClosesToday' = ClosesToday
  BY DEF ClosesToday
<1>4. CASE ctl'.pnl = ctl.pnl /\ ctl'.resetAt = ctl.resetAt
  BY <1>2, <1>3, <1>4 DEF LedgerInv
<1>5. CASE /\ now >= ctl.resetAt /\ ctl'.pnl = 0
           /\ ctl'.resetAt = NextReset(now)
  <2>1. PICK t \in 0..now : ctl.resetAt = NextReset(t)
    BY DayOfController DEF SumInv
  <2>2. /\ SessionStart(now) \in Nat /\ SessionStart(now) >= ctl.resetAt
        /\ now < NextReset(now) /\ NextReset(now) \in Nat
    BY <1>1, <1>5, <2>1, DaysInOrder, DayBounds
  <2>3. \A r \in Closes : r.at \in Nat /\ r.at <= now
    BY <1>1 DEF Book, RowType
  <2>4. ClosesToday = {}
    BY <1>1, <1>2, <2>2, <2>3 DEF ClosesToday
  <2>5. \A r \in Closes : ~(r.at >= ctl'.resetAt)
    BY <1>1, <1>5, <2>2, <2>3
  <2>6. ctl'.pnl = PnlOf(ClosesToday')
    BY <1>3, <1>5, <2>4, PnlOfNone
  <2>7. QED
    BY <1>2, <2>5, <2>6 DEF LedgerInv
<1>6. QED
  BY <1>4, <1>5 DEF Rolls

\* A close is added to the session, and is late if the roll-over is due.
LEMMA LedgerClose ==
  ASSUME SumInv, NEW p \in Pnls, EngineClose(p) \/ ExternalClose(p)
  PROVE  LedgerInv'
<1> DEFINE r == NewRow(p)
<1>1. /\ ctl \in CtlType /\ now \in Nat /\ p \in Int /\ Book(Closes, now)
      /\ ctl.resetAt \in Nat
  BY SlotSafetyAssumptions
     DEF SumInv, RestartInv, HaltInv, StampInv, TypeOK, CtlType
<1>2. /\ phase = "up" /\ phase' = "up" /\ now' = now
      /\ ctl' = RecordClose(ctl, p, now)
      /\ late' = IF now >= ctl.resetAt THEN late \cup {r} ELSE late
      /\ \A q \in Closes : q.at # now
      /\ Closes' = Closes \cup {r}
  BY DEF EngineClose, ExternalClose, disk, MayClose, FreshSecond, Closes,
     LateAfter
<1>3. r \in RowType /\ r.at = now /\ r.pnl = p
  BY <1>1 DEF NewRow, RowType
<1> HIDE DEF r
<1>4. Adds(ctl', ctl, p)
  BY <1>1, <1>2, RecordCloseAdds
<1>5. /\ late \subseteq Closes
      /\ now < ctl.resetAt => ctl.pnl = PnlOf(ClosesToday)
      /\ \A q \in Closes : q.at >= ctl.resetAt => q \in late
  BY <1>2 DEF SumInv, LedgerInv
<1>6. r \notin Closes /\ r \notin late
  BY <1>2, <1>3, <1>5
<1>7. late' \subseteq Closes'
  BY <1>2, <1>5
<1>8. \A q \in Closes' : q.at >= ctl'.resetAt => q \in late'
  BY <1>2, <1>3, <1>4, <1>5 DEF Adds
<1>9. ASSUME now < ctl.resetAt
      PROVE  ctl'.pnl = PnlOf(ClosesToday')
  <2>1. late' = late
    BY <1>1, <1>2, <1>9
  <2>2. SessionStart(now) \in Nat /\ SessionStart(now) <= now
    BY <1>1, DayBounds
  <2>3. ClosesToday' = ClosesToday \cup {r}
    BY <1>2, <1>3, <1>6, <2>1, <2>2 DEF ClosesToday
  <2>4. ClosesToday \subseteq Closes
    BY DEF ClosesToday
  <2>5. Book(ClosesToday, now) /\ r \notin ClosesToday
    BY <1>1, <1>6, <2>4, PartOfBook
  <2>6. PnlOf(ClosesToday \cup {r}) = PnlOf(ClosesToday) + r.pnl
    BY <1>1, <1>3, <2>5, PnlAdds
  <2>7. QED
    BY <1>3, <1>4, <1>5, <1>9, <2>3, <2>6 DEF Adds
<1>10. now' < ctl'.resetAt => now < ctl.resetAt
  BY <1>2, <1>4 DEF Adds
<1>11. QED
  BY <1>2, <1>7, <1>8, <1>9, <1>10 DEF LedgerInv

\* Time passes: the day stays or the roll-over becomes due.
LEMMA LedgerTick == SumInv /\ Tick => LedgerInv'
<1> SUFFICES ASSUME SumInv, Tick PROVE LedgerInv'
  OBVIOUS
<1>1. /\ now \in Nat /\ Book(Closes, now) /\ ctl.resetAt \in Nat
  BY DEF SumInv, RestartInv, HaltInv, StampInv, TypeOK, CtlType
<1>2. /\ now' = now + 1 /\ phase' = phase /\ phase # "replay"
      /\ UNCHANGED <<ctl, pend, rows, late>>
  BY DEF Tick, memory, disk, history
<1>3. Closes' = Closes
  BY <1>2 DEF Closes
<1>4. ASSUME phase = "up", now + 1 < ctl.resetAt
      PROVE  ClosesToday' = ClosesToday /\ now < ctl.resetAt
  <2>1. PICK t \in 0..now : ctl.resetAt = NextReset(t)
    BY <1>4, DayOfController DEF SumInv
  <2>2. now < NextReset(t)
    BY <1>1, <1>4, <2>1
  <2>3. /\ SessionStart(now) = SessionStart(t)
        /\ SessionStart(now + 1) = SessionStart(t)
    BY <1>1, <1>4, <2>1, <2>2, DaysInOrder
  <2>4. SessionStart(now)' = SessionStart(now)
    BY <1>2, <2>3
  <2>5. QED
    BY <1>2, <1>3, <2>1, <2>2, <2>4 DEF ClosesToday
<1>5. QED
  BY <1>2, <1>3, <1>4 DEF SumInv, LedgerInv

\* A restart: the memory is gone, the rows are read back one by one.
LEMMA LedgerRestart ==
  ASSUME SumInv, RestartInv', Restart
  PROVE  LedgerInv'
<1>1. /\ ctl \in CtlType /\ now \in Nat /\ Book(Closes, now)
      /\ Book(RowsToday, now) /\ Book(Done, now)
  BY DayBook DEF SumInv, RestartInv, HaltInv, StampInv, TypeOK
<1>2. CASE Crash
  BY <1>2 DEF Crash, LedgerInv
<1>3. CASE Boot
  <2>1. /\ phase = "down" /\ now' = now /\ todo' = RowsToday
        /\ ctl'.pnl = 0 /\ ctl'.resetAt = NextReset(now)
        /\ UNCHANGED <<rows, pend, late>>
        /\ \/ phase' = "replay"
           \/ phase' = "up" /\ RowsToday = {}
    BY <1>3 DEF Boot, FreshCtl, disk
  <2>2. late = {} /\ pend = {}
    BY <2>1 DEF SumInv, LedgerInv, RestartInv, StampInv
  <2>3. RowsToday' = RowsToday /\ Done' = {} /\ Closes' = Closes
    BY <2>1 DEF RowsToday, Done, Closes
  <2>4. now < NextReset(now) /\ NextReset(now) \in Nat
    BY <1>1, DayBounds
  <2>5. \A r \in Closes : ~(r.at >= ctl'.resetAt)
    BY <1>1, <2>1, <2>4 DEF Book, RowType
  <2>6. ClosesToday' = RowsToday
    BY <2>1, <2>2 DEF ClosesToday, Closes, RowsToday
  <2>7. QED
    BY <2>1, <2>2, <2>3, <2>5, <2>6, PnlOfNone DEF LedgerInv
<1>4. ASSUME NEW r \in todo, Replay(r) PROVE LedgerInv'
  <2>1. /\ phase = "replay" /\ phase' = "replay" /\ todo' = todo \ {r}
        /\ ctl' = ReplayClose(ctl, r, ReleasedToday)
        /\ UNCHANGED <<now, rows, pend, late>>
    BY <1>4 DEF Replay, disk, history
  <2>2. /\ todo \subseteq RowsToday /\ late = {}
        /\ ctl.pnl = PnlOf(Done)
    BY <2>1 DEF SumInv, RestartInv, ReplayInv, LedgerInv
  <2>3. /\ r \in RowType /\ r.pnl \in Int /\ r \in RowsToday
    BY <1>1, <2>2 DEF Book, RowType
  <2>4. Done' = Done \cup {r} /\ r \notin Done
    BY <2>1, <2>2 DEF Done, RowsToday
  <2>5. ctl'.pnl = ctl.pnl + r.pnl
    <3> DEFINE d == [ctl EXCEPT !.peak = ctl.pnl, !.releaseApplied = TRUE]
    <3>1. d \in CtlType /\ d.pnl = ctl.pnl
      BY <1>1 DEF CtlType
    <3>2. ctl' = AddClose(d, r.pnl) \/ ctl' = AddClose(ctl, r.pnl)
      BY <2>1 DEF ReplayClose
    <3> HIDE DEF d
    <3>3. QED
      BY <1>1, <2>3, <3>1, <3>2, AddCloseAdds DEF Adds
  <2>6. PnlOf(Done \cup {r}) = PnlOf(Done) + r.pnl
    BY <1>1, <2>3, <2>4, PnlAdds
  <2>7. QED
    BY <2>1, <2>2, <2>4, <2>5, <2>6 DEF LedgerInv
<1>5. CASE ReplayEnd
  <2>1. /\ phase = "replay" /\ phase' = "up" /\ todo = {}
        /\ UNCHANGED <<now, rows, pend, late>>
    BY <1>5 DEF ReplayEnd, disk
  <2>2. /\ late = {} /\ pend = {} /\ ctl.pnl = PnlOf(Done)
    BY <2>1 DEF SumInv, RestartInv, StampInv, LedgerInv
  <2>3. Done = RowsToday /\ Closes' = Closes /\ ClosesToday' = RowsToday
    BY <2>1, <2>2 DEF Done, RowsToday, Closes, ClosesToday
  <2>4. ctl'.pnl = ctl.pnl /\ ctl'.resetAt = NextReset(now)
    <3>1. /\ ctl'.pnl = Replayed.pnl /\ ctl'.resetAt = Replayed.resetAt
          /\ Replayed.resetAt = NextReset(now)
      BY <1>5, ReplayEndSession, ReplayedSession DEF SumInv, SameSession
    <3>2. Replayed.pnl = ctl.pnl
      BY <1>1 DEF Replayed, CtlType
    <3>3. QED
      BY <3>1, <3>2
  <2>5. now < NextReset(now) /\ NextReset(now) \in Nat
    BY <1>1, DayBounds
  <2>6. \A r \in Closes : ~(r.at >= ctl'.resetAt)
    BY <1>1, <2>4, <2>5 DEF Book, RowType
  <2>7. QED
    BY <2>1, <2>2, <2>3, <2>4, <2>6 DEF LedgerInv
<1>6. QED
  BY <1>2, <1>3, <1>4, <1>5 DEF Restart

\* Every step keeps the sum.
LEMMA LedgerStep == SumInv /\ [Next]_vars => SumInv'
<1> SUFFICES ASSUME SumInv, [Next]_vars
             PROVE  LedgerInv'
  BY RestartStep DEF SumInv
<1>1. RestartInv'
  BY RestartStep DEF SumInv
<1>2. ctl \in CtlType /\ now \in Nat
  BY DEF SumInv, RestartInv, HaltInv, TypeOK
<1> DEFINE Idle == /\ now' = now /\ phase' = phase /\ ctl' = ctl /\ pend' = pend
                   /\ rows' = rows /\ todo' = todo /\ late' = late
           Moved == /\ phase = "up" /\ phase' = "up" /\ now' = now
                    /\ pend' = pend /\ rows' = rows /\ late' = late
<1>3. ASSUME Idle PROVE LedgerInv'
  <2>1. Closes' = Closes /\ ClosesToday' = ClosesToday /\ Done' = Done
    BY <1>3 DEF Closes, ClosesToday, Done, RowsToday
  <2>2. QED
    BY <1>3, <2>1 DEF SumInv, LedgerInv
<1>4. ASSUME Moved, Rolls(ctl', ctl, now) PROVE LedgerInv'
  <2>1. Closes' = Closes
    BY <1>4 DEF Closes
  <2>2. QED
    BY <1>4, <2>1, LedgerRolls
<1> HIDE DEF Idle, Moved
<1>5. ASSUME NEW ok \in BOOLEAN, CanOpenLive(ok) PROVE LedgerInv'
  <2>1. Moved /\ ctl' = AfterGate(ctl, now)
    BY <1>5 DEF Moved, CanOpenLive, disk, history
  <2>2. QED
    BY <1>2, <1>4, <2>1, MethodsRoll
<1>6. ASSUME NEW p \in Pnls, EngineClose(p) \/ ExternalClose(p)
      PROVE  LedgerInv'
  BY <1>6, LedgerClose
<1>7. ASSUME NEW r \in pend, PersistTrade(r) PROVE LedgerInv'
  <2>1. /\ phase = "up" /\ phase' = "up" /\ now' = now /\ late' = late
        /\ Closes' = Closes /\ ctl' = ctl
    BY <1>7 DEF PersistTrade, Closes, history
  <2>2. Rolls(ctl', ctl, now)
    BY <2>1 DEF Rolls
  <2>3. QED
    BY <2>1, <2>2, LedgerRolls
<1>8. CASE \/ OpenFilled \/ OpenMissed \/ OperatorMarked \/ SyncStaleRequest
           \/ SyncMark \/ SyncMirror
  <2>1. Idle
    BY <1>8 DEF Idle, OpenFilled, OpenMissed, OperatorMarked, SyncStaleRequest,
       SyncMark, SyncMirror, disk, history
  <2>2. QED
    BY <1>3, <2>1
<1>9. CASE PanelRequest \/ UNCHANGED vars
  <2>1. Idle
    BY <1>9 DEF Idle, PanelRequest, vars, memory, disk, history
  <2>2. QED
    BY <1>3, <2>1
<1>10. CASE OperatorRelease \/ Unkill \/ SyncRelease \/ SyncNotHalted
  <2>1. Moved
    BY <1>10 DEF Moved, OperatorRelease, Unkill, SyncRelease, SyncNotHalted,
       disk, history
  <2>2. \/ ctl' = ReleaseKill(ctl) \/ ctl' = DailyReset(ctl, now)
        \/ ctl' = ReleaseKill(DailyReset(ctl, now))
    BY <1>10 DEF OperatorRelease, Unkill, SyncRelease, SyncNotHalted
  <2>3. QED
    BY <1>2, <1>4, <2>1, <2>2, ResetRolls, MethodsRoll
<1>11. CASE SyncNoRequest \/ SyncDelete
  <2>1. Moved /\ AfterRequest(ctl)
    BY <1>11 DEF Moved, SyncNoRequest, SyncDelete, disk, history
  <2>2. ctl' = ctl \/ ctl' = DailyReset(ctl, now)
    BY <2>1 DEF AfterRequest
  <2>3. QED
    BY <1>2, <1>4, <2>1, <2>2, ResetRolls, MethodsRoll
<1>12. CASE SyncAutoMark
  <2>1. Moved /\ ctl' = [DailyReset(ctl, now) EXCEPT !.autoReleased = FALSE]
    BY <1>12 DEF Moved, SyncAutoMark, history
  <2>2. QED
    BY <1>2, <1>4, <2>1, MethodsRoll
<1>13. CASE Tick
  BY <1>13, LedgerTick
<1>14. CASE Restart
  BY <1>1, <1>14, LedgerRestart
<1>15. QED
  BY <1>5, <1>6, <1>7, <1>8, <1>9, <1>10, <1>11, <1>12, <1>13, <1>14
     DEF Next, Trade, Release, Sync

\* Once the rows are written and the day is rolled over, the PnL in memory is
\* the sum of the day's rows, whatever closes, releases, midnights and restarts
\* led there; only the closes between a midnight and the roll-over are missing
\* (record_close, _maybe_reset_daily, hydrate_session).
THEOREM PnlIsInTheLedger == Spec => []SessionMatchesLedger
<1>1. Init => SumInv
  <2> SUFFICES ASSUME Init PROVE SumInv
    OBVIOUS
  <2>1. RestartInv
    BY RestartInit
  <2>2. /\ phase = "up" /\ Closes = {} /\ late = {} /\ ClosesToday = {}
        /\ ctl.pnl = 0
    BY DEF Init, Closes, ClosesToday, FreshCtl
  <2>3. QED
    BY <2>1, <2>2, PnlOfNone DEF SumInv, LedgerInv
<1>2. SumInv => SessionMatchesLedger
  <2> SUFFICES ASSUME SumInv, phase = "up", pend = {}, now < ctl.resetAt
               PROVE  ctl.pnl = LedgerPnl
    BY DEF SessionMatchesLedger
  <2> DEFINE S == RowsToday \ late
             f == [r \in rows |-> r.pnl]
  <2>1. Closes = rows /\ ClosesToday = S
    BY DEF Closes, ClosesToday, RowsToday
  <2>2. S \subseteq rows /\ Book(rows, now) /\ now \in Nat
    BY <2>1 DEF RowsToday, SumInv, RestartInv, HaltInv, StampInv, TypeOK
  <2>3. IsFiniteSet(S) /\ S \subseteq RowType
    BY <2>2, FS_Subset DEF Book
  <2>4. \A r \in S : PnlIn[r] = f[r]
    BY <2>2, <2>3 DEF PnlIn
  <2> HIDE DEF S, f
  <2>5. PnlOf(S) = SumFunctionOnSet(f, S)
    BY <2>3, <2>4, SumSame DEF PnlOf
  <2>6. ctl.pnl = PnlOf(ClosesToday)
    BY DEF SumInv, LedgerInv
  <2>7. QED
    BY <2>1, <2>5, <2>6 DEF LedgerPnl, S, f
<1>3. QED
  BY <1>1, <1>2, LedgerStep, PTL DEF Spec
=============================================================================
