----------------------- MODULE PositionLifecycle_proofs -----------------------
(***************************************************************************)
(* Theorems about PositionLifecycle, for every number of attempts, orders  *)
(* and restarts: types, that each tracked trade is booked once, that the   *)
(* counter does not outlive the position, that Case B marks only what is   *)
(* gone of what it could have read, and that an entry of one attempt       *)
(* forgets no order of unknown outcome.                                    *)
(***************************************************************************)
EXTENDS PositionLifecycle, TLAPS

-----------------------------------------------------------------------------
(* The invariants.                                                         *)

\* An order this process has not tracked and nobody has booked
Fresh(o) == o \notin taken /\ ebooks[o] = 0

\* The entry in flight works on orders that are sent and fresh, and while it
\* runs the slot tracks nothing.
EntryInv ==
  /\ \A o \in Orders : ord[o].st = "new" => Fresh(o)
  /\ op.at # "idle" =>
       /\ pos.st = "none"
       /\ op.o \in Orders /\ ord[op.o].st # "new" /\ Fresh(op.o)
       /\ op.last \in Orders => ord[op.last].st # "new" /\ Fresh(op.last)
  /\ op.at = "retry" => op.n < MaxAttempts

\* One call at most is past the guard of _close_position, and it holds the
\* tracked position; Case B holds the one it has marked.
CloseInv ==
  /\ \A c \in Closers :
       cl[c].at # "none" => pos.st = "closing" /\ cl[c].o = pos.o
  /\ cl["watcher"].at = "none" \/ cl["shutdown"].at = "none"
  /\ rec.at = "persist" => pos.st = "external"
  /\ pos.st # "none" => pos.o \in taken

LifeInv == TypeOK /\ EntryInv /\ CloseInv /\ NoBrickedSlot /\ BookedOnce

\* Position ids are issued in order, and everything known has one.
IdInv ==
  /\ ex.id <= npos
  /\ \A o \in Orders : ord[o].st = "filled" => ord[o].id \in 1..npos
  /\ pos.st # "none" => pos.id \in 1..npos
  /\ op.at = "opened" => op.id \in 1..npos

\* What the exchange answered "empty" is still empty, or holds a position it
\* has opened since; Case B goes on from such an answer only.
SnapshotInv ==
  /\ rec.upto <= npos
  /\ rec.at \in {"stale", "history"} => rec.ok /\ rec.id = 0
  /\ rec.at \in {"fetched", "stale", "history"} /\ rec.ok /\ rec.id = 0
       => ex.id = 0 \/ ex.id > rec.upto

\* With one attempt the only order in doubt is the one that blocks the pair,
\* and it is under a check.
DoubtInv ==
  /\ doubt \subseteq checks /\ doubt \subseteq {blocking}
  /\ op.at # "idle" => op.n = 1 /\ blocking = 0
  /\ op.at # "retry"
  /\ op.at = "poll" => op.last = op.o


-----------------------------------------------------------------------------
(* Types.                                                                  *)

\* No order has the id 0, which stands for "none".
LEMMA OrderFacts ==
  /\ 0 \in OrderIds /\ Orders \subseteq OrderIds /\ 0 \notin Orders
  /\ \A o \in OrderIds : o # 0 => o \in Orders
BY PositionLifecycleAssumptions DEF Orders, OrderIds

\* What the program starts an entry, a position, a close and a pass from, and
\* goes back to, has its type.
LEMMA BlankTypes ==
  /\ NoEx \in ExType /\ NoEx.id = 0
  /\ NoOp \in OpType /\ NoOp.at = "idle" /\ NoOp.last = 0
  /\ NoPos \in PosType /\ NoPos.st = "none"
  /\ NoCl \in ClType /\ NoCl.at = "none"
  /\ NoRec \in RecType /\ NoRec.at = "idle"
<1>1. NoEx \in ExType /\ NoEx.id = 0
  BY DEF NoEx, ExType
<1>2. NoOp \in OpType /\ NoOp.at = "idle" /\ NoOp.last = 0
  <2>1. 0 \in 0..MaxAttempts
    BY PositionLifecycleAssumptions
  <2>2. QED
    BY <2>1, OrderFacts DEF NoOp, OpType
<1>3. NoPos \in PosType /\ NoPos.st = "none"
  BY OrderFacts DEF NoPos, PosType
<1>4. NoCl \in ClType /\ NoCl.at = "none"
  BY OrderFacts DEF NoCl, ClType
<1>5. NoRec \in RecType /\ NoRec.at = "idle"
  BY OrderFacts DEF NoRec, RecType
<1>6. QED
  BY <1>1, <1>2, <1>3, <1>4, <1>5

\* A fill opens the position or adds to it, a close or a flatten takes from it,
\* and the ids issued are counted.
LEMMA ExchangeTypeStep == ExchangeType /\ [Next]_vars => ExchangeType'
<1> SUFFICES ASSUME ExchangeType, [Next]_vars PROVE ExchangeType'
  OBVIOUS
<1> USE BlankTypes
<1>1. CASE UNCHANGED exchange
  BY <1>1 DEF ExchangeType, exchange
<1>2. ASSUME NEW o \in Orders, Fills(o) PROVE ExchangeType'
  <2>1. npos + 1 \in Nat /\ ex.units + 1 \in Nat
    BY DEF ExchangeType, ExType
  <2>2. ex' \in ExType /\ npos' \in Nat
    <3>1. \A n, u \in Nat : [id |-> n, units |-> u] \in ExType
      BY DEF ExType
    <3>2. CASE ex.id = 0
      BY <1>2, <2>1, <3>1, <3>2 DEF Fills
    <3>3. CASE ex.id # 0
      BY <1>2, <2>1, <3>3 DEF Fills, ExchangeType, ExType
    <3>4. QED
      BY <3>2, <3>3
  <2>3. ex'.id \in Nat
    BY <2>2 DEF ExType
  <2>4. ord' \in [Orders -> OrdType]
    BY <1>2, <2>3 DEF Fills, ExchangeType, OrdType
  <2>5. QED
    BY <2>2, <2>4 DEF ExchangeType
<1>3. ASSUME NEW o \in Orders, Expires(o) PROVE ExchangeType'
  BY <1>3 DEF Expires, ExchangeType, ExType, OrdType
<1>4. CASE ClosedOutside
  BY <1>4 DEF ClosedOutside, ExchangeType, ExType, OrdType
<1>6. ASSUME NEW o \in Orders, Enter(o) PROVE ExchangeType'
  BY <1>6 DEF Enter, Send, ExchangeType, ExType, OrdType
<1>7. ASSUME NEW o \in Orders, RetrySends(o) PROVE ExchangeType'
  BY <1>7 DEF RetrySends, Send, ExchangeType, ExType, OrdType
<1>8. CASE OrderRefused
  BY <1>8 DEF OrderRefused, ExchangeType, ExType, OrdType
<1>9. CASE SlotRefused
  BY <1>9 DEF SlotRefused, ExchangeType, ExType, OrdType
<1>10. ASSUME NEW o \in Orders, PhantomFlattens(o) PROVE ExchangeType'
  <2>1. ex.units > 1 => ex.units - 1 \in Nat
    BY DEF ExchangeType, ExType
  <2>2. ex' \in ExType
    BY <1>10, <2>1 DEF PhantomFlattens, ExchangeType, ExType
  <2>3. QED
    BY <1>10, <2>2 DEF PhantomFlattens, ExchangeType
<1>11. ASSUME NEW c \in Closers, CloseHits(c) PROVE ExchangeType'
  BY <1>11 DEF CloseHits, ExchangeType, ExType, OrdType
<1>12. CASE OrphanHit
  BY <1>12 DEF OrphanHit, ExchangeType, ExType, OrdType
<1>13. QED
  BY <1>1, <1>2, <1>3, <1>4, <1>6, <1>7, <1>8, <1>9, <1>10, <1>11, <1>12
    DEF Next, Exchange, Entry, Phantom, Close, Pass, vars, OrderUnanswered,
        OrderRaised, OrderAccepted, PollFilled, PollAdopts, PollExpired,
        PollSilent, RetryFindsFill, RetryEnds, Tracked, CooldownEnds,
        PhantomGivesUp, WatcherCloses, CloseSucceeds, CloseFails, CloseGivesUp,
        RecFetch, RecCompares, OrphanSpared, OrphanGone, OrphanOrder,
        OrphanClosed, OrphanFailed, OrphanBooked, StaleChecked, StaleMarked,
        StaleBooked, Crash, StopBegins, StopEnds, Boot

\* An entry keeps its type: no attempt beyond the last is made, and an order in
\* doubt is one that was sent.
LEMMA EntryTypeStep ==
  ExchangeType /\ EntryType /\ EntryInv /\ [Next]_vars => EntryType'
<1> SUFFICES ASSUME ExchangeType, EntryType, EntryInv, [Next]_vars
             PROVE  EntryType'
  OBVIOUS
<1> USE PositionLifecycleAssumptions, OrderFacts, BlankTypes
<1>1. CASE UNCHANGED entry
  BY <1>1 DEF EntryType, entry
<1>3. ASSUME NEW o \in Orders, Enter(o) PROVE EntryType'
  <2>1. /\ op' = [NoOp EXCEPT !.at = "sent", !.o = o, !.n = 1]
        /\ 1 \in 0..MaxAttempts
    BY <1>3 DEF Enter
  <2>2. op' \in OpType
    BY <2>1 DEF OpType
  <2>3. QED
    BY <1>3, <2>2 DEF Enter, EntryType
<1>4. ASSUME NEW o \in Orders, RetrySends(o) PROVE EntryType'
  <2>1. op.n + 1 \in 0..MaxAttempts
    BY <1>4 DEF RetrySends, EntryInv, EntryType, OpType
  <2>2. op' \in OpType
    BY <1>4, <2>1 DEF RetrySends, EntryType, OpType
  <2>3. QED
    BY <1>4, <2>2 DEF RetrySends, EntryType
<1>5. CASE OrderUnanswered
  BY <1>5 DEF OrderUnanswered, AttemptOver, Finish, EntryType, OpType
<1>6. CASE OrderRaised
  BY <1>6 DEF OrderRaised, Finish, EntryType, OpType
<1>7. CASE OrderRefused
  BY <1>7 DEF OrderRefused, AttemptOver, Finish, EntryType, OpType
<1>8. CASE SlotRefused
  BY <1>8 DEF SlotRefused, EntryType, OpType
<1>9. CASE OrderAccepted
  BY <1>9 DEF OrderAccepted, EntryType, OpType
<1>10. CASE PollFilled \/ PollAdopts
  <2>1. op.o \in Orders /\ ex.id \in Nat
    BY <1>10 DEF PollFilled, PollAdopts, EntryInv, ExchangeType, ExType
  <2>2. ord[op.o].id \in Nat
    BY <2>1 DEF ExchangeType, OrdType
  <2>3. QED
    BY <1>10, <2>1, <2>2 DEF PollFilled, PollAdopts, EntryType, OpType
<1>11. CASE PollExpired
  BY <1>11 DEF PollExpired, AttemptOver, Finish, EntryType, OpType
<1>12. CASE PollSilent
  <2>1. op.o \in Orders
    BY <1>12 DEF PollSilent, EntryInv
  <2>2. doubt' \subseteq Orders
    BY <1>12, <2>1 DEF PollSilent, EntryType
  <2>3. op' \in OpType /\ checks' \subseteq Orders /\ blocking' \in OrderIds
    BY <1>12 DEF PollSilent, AttemptOver, Finish, EntryType, OpType
  <2>4. QED
    BY <2>2, <2>3 DEF EntryType
<1>13. CASE RetryFindsFill
  <2>1. ex.id \in Nat
    BY DEF ExchangeType, ExType
  <2>2. op' \in OpType
    BY <1>13, <2>1 DEF RetryFindsFill, EntryType, OpType
  <2>3. QED
    BY <1>13, <2>2 DEF RetryFindsFill, EntryType
<1>14. CASE RetryEnds
  BY <1>14 DEF RetryEnds, Finish, EntryType, OpType
<1>15. CASE Tracked
  BY <1>15 DEF Tracked, EntryType, OpType
<1>16. ASSUME NEW o \in Orders, PhantomFlattens(o) \/ PhantomGivesUp(o)
       PROVE  EntryType'
  BY <1>16
    DEF PhantomFlattens, CheckDone, Running, PhantomGivesUp, EntryType, OpType
<1>17. CASE Crash \/ StopEnds
  BY <1>17 DEF Crash, GoDown, StopEnds, EntryType, OpType
<1>18. QED
  BY <1>1, <1>3, <1>4, <1>5, <1>6, <1>7, <1>8, <1>9, <1>10, <1>11,
     <1>12, <1>13, <1>14, <1>15, <1>16, <1>17
    DEF Next, Exchange, Entry, Phantom, Close, Pass, vars, Fills, Expires,
        ClosedOutside, CooldownEnds, WatcherCloses, CloseHits, CloseSucceeds,
        CloseFails, CloseGivesUp, RecFetch, RecCompares, OrphanSpared,
        OrphanGone, OrphanOrder, OrphanHit, OrphanClosed, OrphanFailed,
        OrphanBooked, StaleChecked, StaleMarked, StaleBooked, StopBegins, Boot

\* From pos.close() to record_close: the counter ends at zero.
LEMMA BookCloseType ==
  ASSUME EngineType, NEW c \in Closers, BookClose(c), UNCHANGED taken,
         settled' \subseteq Nat
  PROVE  EngineType' /\ count' = 0
<1> USE OrderFacts, BlankTypes
<1>1. ebooks' \in [Orders -> Nat]
  <2>1. \A o \in Orders : ebooks[o] + 1 \in Nat
    BY DEF EngineType
  <2>2. QED
    BY <2>1 DEF EngineType, BookClose
<1>2. count' = 0
  BY DEF EngineType, BookClose, Decrement
<1>3. cl' \in [Closers -> ClType] /\ pos' \in PosType /\ cooling' \in BOOLEAN
  BY DEF EngineType, BookClose
<1>4. QED
  BY <1>1, <1>2, <1>3 DEF EngineType

\* The counter stays within the one position of the slot: record_open runs only
\* while the slot tracks nothing (EntryInv), when the counter is zero.
LEMMA EngineTypeStep ==
  TypeOK /\ EntryInv /\ NoBrickedSlot /\ [Next]_vars => EngineType'
<1> SUFFICES ASSUME TypeOK, EntryInv, NoBrickedSlot, [Next]_vars
             PROVE  EngineType'
  OBVIOUS
<1> USE PositionLifecycleAssumptions, OrderFacts, BlankTypes DEF TypeOK
<1>1. CASE UNCHANGED engine
  BY <1>1 DEF EngineType, engine
<1>2. ASSUME NEW ok \in BOOLEAN, RecFetch(ok) PROVE EngineType'
  BY <1>2 DEF RecFetch, EngineType
<1>3. CASE Tracked
  BY <1>3
    DEF Tracked, ExchangeType, EntryType, EngineType, EntryInv, NoBrickedSlot,
        OpType, PosType, OrdType
<1>4. CASE CooldownEnds
  BY <1>4 DEF CooldownEnds, EngineType
<1>5. CASE WatcherCloses
  BY <1>5 DEF WatcherCloses, StartClose, MayClose, EngineType, PosType, ClType
<1>6. ASSUME NEW c \in Closers, CloseHits(c) PROVE EngineType'
  BY <1>6 DEF CloseHits, EngineType, ClType
<1>7. ASSUME NEW c \in Closers, CloseSucceeds(c) PROVE EngineType'
  <2>1. cl[c].id \in Nat /\ settled' \subseteq Nat
    BY <1>7 DEF CloseSucceeds, EngineType, ClType
  <2>2. QED
    BY <1>7, <2>1, BookCloseType DEF CloseSucceeds
<1>8. ASSUME NEW c \in Closers, CloseFails(c) PROVE EngineType'
  <2>1. cl[c].at \in {"first", "second", "market"}
    BY <1>8 DEF CloseFails, Escalation
  <2>2. Escalation[cl[c].at] \in {"second", "market", "alert"}
    BY <2>1 DEF Escalation
  <2>3. cl' \in [Closers -> ClType]
    BY <1>8, <2>2 DEF CloseFails, EngineType, ClType
  <2>4. QED
    BY <1>8, <2>3 DEF CloseFails, EngineType
<1>9. ASSUME NEW c \in Closers, CloseGivesUp(c) PROVE EngineType'
  BY <1>9, BookCloseType DEF CloseGivesUp, EngineType
<1>10. CASE OrphanBooked
  BY <1>10 DEF OrphanBooked, PassOver, Decrement, EngineType
<1>11. CASE StaleMarked
  BY <1>11 DEF StaleMarked, PassOver, EngineType, PosType
<1>12. CASE StaleBooked
  <2>1. \A o \in Orders : ebooks[o] + 1 \in Nat
    BY DEF EngineType
  <2>2. ebooks' \in [Orders -> Nat]
    BY <1>12, <2>1 DEF StaleBooked, EngineType
  <2>3. count' \in 0..1 /\ pos' \in PosType
    BY <1>12 DEF StaleBooked, EngineType, Decrement
  <2>4. QED
    BY <1>12, <2>2, <2>3 DEF StaleBooked, EngineType
<1>13. CASE Crash \/ StopEnds
  <2>1. cl' \in [Closers -> ClType]
    BY <1>13 DEF Crash, StopEnds, GoDown
  <2>2. /\ pos' = NoPos /\ count' = 0 /\ cooling' = FALSE /\ taken' = {}
        /\ UNCHANGED <<ebooks, settled>>
    BY <1>13 DEF Crash, StopEnds, GoDown
  <2>3. /\ pos' \in PosType /\ count' \in 0..1 /\ taken' \subseteq Orders
        /\ ebooks' \in [Orders -> Nat] /\ settled' \subseteq Nat
    BY <2>2 DEF EngineType
  <2>4. cooling' \in BOOLEAN
    BY <2>2
  <2>5. QED
    BY <2>1, <2>3, <2>4 DEF EngineType
<1>14. CASE StopBegins
  <2>1. CASE StartClose("shutdown")
    <3>1. pos' \in PosType
      BY <2>1 DEF StartClose, EngineType, PosType
    <3>2. [NoCl EXCEPT !.at = "first", !.o = pos.o, !.id = pos.id] \in ClType
      BY DEF EngineType, PosType, ClType
    <3>3. cl' \in [Closers -> ClType]
      BY <2>1, <3>2 DEF StartClose, EngineType
    <3>4. QED
      BY <1>14, <3>1, <3>3 DEF StopBegins, EngineType
  <2>2. QED
    BY <1>14, <2>1 DEF StopBegins, EngineType
<1>15. QED
  BY <1>1, <1>2, <1>3, <1>4, <1>5, <1>6, <1>7, <1>8, <1>9, <1>10, <1>11,
     <1>12, <1>13, <1>14
    DEF Next, Exchange, Entry, Phantom, Close, Pass, vars, Fills, Expires,
        ClosedOutside, Enter, RetrySends, OrderUnanswered, OrderRaised,
        OrderRefused, SlotRefused, OrderAccepted, PollFilled, PollAdopts,
        PollExpired, PollSilent, RetryFindsFill, RetryEnds, PhantomFlattens,
        PhantomGivesUp, RecFetch, RecCompares, OrphanSpared, OrphanGone,
        OrphanOrder, OrphanHit, OrphanClosed, OrphanFailed, StaleChecked, Boot

\* A pass keeps the type of what it has read and of what it booked.
LEMMA ReconTypeStep == TypeOK /\ [Next]_vars => ReconType'
<1> SUFFICES ASSUME TypeOK, [Next]_vars PROVE ReconType'
  OBVIOUS
<1> USE PositionLifecycleAssumptions, OrderFacts, BlankTypes DEF TypeOK
<1>1. CASE UNCHANGED rec
  BY <1>1 DEF ReconType
<1>2. ASSUME NEW ok \in BOOLEAN, RecFetch(ok) PROVE ReconType'
  BY <1>2
    DEF RecFetch, Snapshot, ExchangeType, EngineType, ReconType, RecType,
        ExType, PosType
<1>3. CASE RecCompares
  BY <1>3
    DEF RecCompares, IsOrphan, MaybeStale, PassOver, ExchangeType, EngineType,
        ReconType, RecType, ExType, PosType
<1>4. CASE OrphanSpared \/ OrphanGone \/ OrphanHit \/ OrphanClosed \/ OrphanFailed
  BY <1>4
    DEF OrphanSpared, OrphanGone, PassOver, OrphanHit, OrphanClosed,
        OrphanFailed, ExchangeType, EngineType, ReconType, RecType, ExType,
        PosType
<1>5. CASE OrphanOrder
  BY <1>5
    DEF OrphanOrder, ExchangeType, EngineType, ReconType, RecType, ExType,
        PosType
<1>6. CASE OrphanBooked
  BY <1>6
    DEF OrphanBooked, PassOver, Decrement, ExchangeType, EngineType,
        ReconType, RecType, ExType, PosType
<1>7. CASE StaleChecked \/ StaleMarked \/ StaleBooked
  BY <1>7
    DEF StaleChecked, PassOver, StaleMarked, StaleBooked, Decrement,
        ExchangeType, EngineType, ReconType, RecType, ExType, PosType
<1>8. CASE Crash \/ StopEnds
  BY <1>8
    DEF Crash, GoDown, StopEnds, ExchangeType, EngineType, ReconType, RecType,
        ExType, PosType
<1>9. QED
  BY <1>1, <1>2, <1>3, <1>4, <1>5, <1>6, <1>7, <1>8
    DEF Next, Exchange, Entry, Phantom, Close, Pass, vars, Fills, Expires,
        ClosedOutside, Enter, RetrySends, OrderUnanswered,
        OrderRaised, OrderRefused, SlotRefused, OrderAccepted, PollFilled,
        PollAdopts, PollExpired, PollSilent, RetryFindsFill, RetryEnds, Tracked,
        CooldownEnds, PhantomFlattens, PhantomGivesUp, WatcherCloses,
        CloseHits, CloseSucceeds, CloseFails, CloseGivesUp, StopBegins, Boot

\* The phases of the process, and the bound on its restarts.
LEMMA ProcessTypeStep == ProcessType /\ [Next]_vars => ProcessType'
<1> SUFFICES ASSUME ProcessType, [Next]_vars PROVE ProcessType'
  OBVIOUS
<1> USE PositionLifecycleAssumptions
<1>1. CASE UNCHANGED process
  BY <1>1 DEF ProcessType, process
<1>2. CASE RecCompares \/ OrphanSpared \/ OrphanGone \/ OrphanClosed \/ OrphanFailed
  BY <1>2
    DEF RecCompares, IsOrphan, MaybeStale, PassOver, OrphanSpared, OrphanGone,
        OrphanClosed, OrphanFailed, ProcessType
<1>3. CASE OrphanBooked \/ StaleChecked \/ StaleMarked \/ StaleBooked
  BY <1>3
    DEF OrphanBooked, PassOver, Decrement, StaleChecked, StaleMarked,
        StaleBooked, ProcessType
<1>4. CASE Crash \/ StopEnds
  BY <1>4 DEF Crash, GoDown, StopEnds, ProcessType
<1>5. CASE StopBegins \/ Boot
  BY <1>5 DEF StopBegins, StartClose, MayClose, Boot, ProcessType
<1>6. QED
  BY <1>1, <1>2, <1>3, <1>4, <1>5
    DEF Next, Exchange, Entry, Phantom, Close, Pass, vars, Fills, Expires,
        ClosedOutside, Enter, RetrySends, OrderUnanswered,
        OrderRaised, OrderRefused, SlotRefused, OrderAccepted, PollFilled,
        PollAdopts, PollExpired, PollSilent, RetryFindsFill, RetryEnds, Tracked,
        CooldownEnds, PhantomFlattens, PhantomGivesUp, WatcherCloses,
        CloseHits, CloseSucceeds, CloseFails, CloseGivesUp, RecFetch,
        OrphanOrder, OrphanHit

\* Together: every step keeps the types.
LEMMA TypeStep ==
  TypeOK /\ EntryInv /\ NoBrickedSlot /\ [Next]_vars => TypeOK'
<1> SUFFICES ASSUME TypeOK, EntryInv, NoBrickedSlot, [Next]_vars PROVE TypeOK'
  OBVIOUS
<1>1. ExchangeType' /\ EntryType'
  BY ExchangeTypeStep, EntryTypeStep DEF TypeOK
<1>2. EngineType' /\ ReconType' /\ ProcessType'
  BY EngineTypeStep, ReconTypeStep, ProcessTypeStep DEF TypeOK
<1>3. QED
  BY <1>1, <1>2 DEF TypeOK

-----------------------------------------------------------------------------
(* The entry, the close and the booking.                                   *)

\* No order goes back to being unsent.
OrdersStaySent == \A o \in Orders : ord'[o].st = "new" => ord[o].st = "new"

\* An entry in flight ends, or goes on with an order it already knows.
EntryGoesOn ==
  \/ op' = op \/ op'.at = "idle"
  \/ /\ op.at # "idle"
     /\ op'.o \in {op.o, op.last} /\ op'.o \in Orders
     /\ op'.last \in {0, op.o, op.last}
     /\ op'.at = "retry" => op'.n < MaxAttempts

\* EntryInv survives what neither sends an order nor tracks or books one.
LEMMA EntryKept ==
  ASSUME EntryInv, OrdersStaySent, EntryGoesOn, pos'.st = pos.st,
         UNCHANGED <<taken, ebooks>>
  PROVE  EntryInv'
<1>1. \A o \in Orders : Fresh(o)' <=> Fresh(o)
  BY DEF Fresh
<1>2. \A o \in Orders : ord'[o].st = "new" => Fresh(o)'
  BY <1>1 DEF EntryInv, OrdersStaySent
<1>3. CASE op' = op
  BY <1>1, <1>2, <1>3 DEF EntryInv, OrdersStaySent
<1>4. CASE op'.at = "idle"
  BY <1>2, <1>4 DEF EntryInv
<1>5. CASE op' # op /\ op'.at # "idle"
  BY <1>1, <1>2, <1>5, OrderFacts DEF EntryInv, OrdersStaySent, EntryGoesOn
<1>6. QED
  BY <1>3, <1>4, <1>5

\* ... the submission of a fresh order, the first of an entry or a later one,
LEMMA EntrySends ==
  ASSUME EntryInv, NEW o \in Orders, ord[o].st = "new",
         ord \in [Orders -> OrdType],
         ord' = [ord EXCEPT ![o].st = "live"],
         op'.at = "sent", op'.o = o, op'.last \in {0, op.last},
         op.at = "idle" => op'.last = 0,
         pos.st = "none", UNCHANGED <<pos, taken, ebooks>>
  PROVE  EntryInv'
<1>1. \A q \in Orders :
        /\ Fresh(q)' <=> Fresh(q)
        /\ ord'[q].st = IF q = o THEN "live" ELSE ord[q].st
  BY DEF Fresh, OrdType
<1>2. QED
  BY <1>1, OrderFacts DEF EntryInv

\* ... and the booking of a tracked one, during which no entry is in flight.
LEMMA EntryBooked ==
  ASSUME EntryInv, EngineType, NEW x \in taken, pos.st # "none",
         UNCHANGED <<ord, op, taken>>,
         ebooks' = [ebooks EXCEPT ![x] = @ + 1]
  PROVE  EntryInv'
<1>1. op.at = "idle"
  BY DEF EntryInv
<1>2. \A o \in Orders : Fresh(o) => Fresh(o)'
  BY DEF Fresh, EngineType
<1>3. QED
  BY <1>1, <1>2 DEF EntryInv

\* The entry in flight works on sent and fresh orders in every step.
LEMMA EntryInvStep ==
  TypeOK /\ EntryInv /\ CloseInv /\ [Next]_vars => EntryInv'
<1> SUFFICES ASSUME TypeOK, EntryInv, CloseInv, [Next]_vars PROVE EntryInv'
  OBVIOUS
<1> USE OrderFacts, BlankTypes DEF TypeOK
<1>1. CASE UNCHANGED <<ord, op, pos, taken, ebooks>>
  BY <1>1, EntryKept DEF OrdersStaySent, EntryGoesOn
<1>2. ASSUME NEW o \in Orders, Fills(o) \/ Expires(o) PROVE EntryInv'
  <2>1. OrdersStaySent
    BY <1>2 DEF Fills, Expires, OrdersStaySent, ExchangeType, OrdType
  <2>2. QED
    BY <1>2, <2>1, EntryKept DEF Fills, Expires, entry, engine, EntryGoesOn
<1>4. ASSUME NEW o \in Orders, Enter(o) PROVE EntryInv'
  <2>1. op'.at = "sent" /\ op'.o = o /\ op'.last = 0
    BY <1>4 DEF Enter, OpType
  <2>2. QED
    BY <1>4, <2>1, EntrySends DEF Enter, MayEnter, Send, engine, ExchangeType
<1>5. ASSUME NEW o \in Orders, RetrySends(o) PROVE EntryInv'
  <2>1. op'.at = "sent" /\ op'.o = o /\ op'.last = op.last /\ op.at # "idle"
    BY <1>5 DEF RetrySends, EntryType, OpType
  <2>2. pos.st = "none"
    BY <2>1 DEF EntryInv
  <2>3. QED
    BY <1>5, <2>1, <2>2, EntrySends DEF RetrySends, Send, engine, ExchangeType
<1>6. ASSUME \/ OrderUnanswered \/ OrderRaised \/ OrderAccepted \/ PollFilled
             \/ PollAdopts \/ PollExpired \/ PollSilent
             \/ RetryFindsFill \/ RetryEnds
      PROVE EntryInv'
  <2>1. OrdersStaySent /\ UNCHANGED <<pos, taken, ebooks>>
    BY <1>6
      DEF OrderUnanswered, OrderRaised, OrderAccepted, PollFilled, PollAdopts,
          PollExpired, PollSilent, RetryFindsFill, RetryEnds, OrdersStaySent,
          exchange, engine
  <2>2. op.at # "idle" /\ op.o \in Orders
    BY <1>6
      DEF OrderUnanswered, OrderRaised, OrderAccepted, PollFilled, PollAdopts,
          PollExpired, PollSilent, RetryFindsFill, RetryEnds, EntryInv
  <2>3. CASE OrderUnanswered \/ OrderRaised
    BY <2>1, <2>2, <2>3, EntryKept
      DEF OrderUnanswered, OrderRaised, AttemptOver, Finish, EntryGoesOn,
          EntryType, OpType
  <2>4. CASE OrderAccepted \/ PollFilled \/ PollAdopts
    BY <2>1, <2>2, <2>4, EntryKept
      DEF OrderAccepted, PollFilled, PollAdopts, EntryGoesOn, EntryType, OpType
  <2>5. CASE PollExpired \/ PollSilent
    BY <2>1, <2>2, <2>5, EntryKept
      DEF PollExpired, PollSilent, AttemptOver, Finish, EntryGoesOn,
          EntryType, OpType
  <2>6. CASE RetryFindsFill \/ RetryEnds
    BY <2>1, <2>2, <2>6, EntryKept
      DEF RetryFindsFill, RetryEnds, Finish, EntryGoesOn, EntryType, OpType
  <2>7. QED
    BY <1>6, <2>3, <2>4, <2>5, <2>6
<1>7. CASE OrderRefused \/ SlotRefused
  <2>1. /\ OrdersStaySent /\ UNCHANGED <<pos, taken, ebooks>>
        /\ op.at # "idle" /\ op.o \in Orders
    BY <1>7
      DEF OrderRefused, SlotRefused, OrdersStaySent, ExchangeType, OrdType,
          engine, EntryInv
  <2>2. EntryGoesOn
    BY <1>7, <2>1
      DEF OrderRefused, SlotRefused, AttemptOver, Finish, EntryGoesOn,
          EntryType, OpType
  <2>3. QED
    BY <2>1, <2>2, EntryKept
<1>8. CASE Tracked
  <2>1. /\ op' = NoOp /\ op.o \in Orders /\ op.o \notin taken
        /\ taken' = taken \cup {op.o} /\ UNCHANGED <<ord, ebooks>>
    BY <1>8 DEF Tracked, EntryInv, Fresh, exchange
  <2>2. \A o \in Orders : ord[o].st = "new" => o # op.o
    BY <1>8 DEF Tracked, EntryInv
  <2>3. QED
    BY <2>1, <2>2 DEF EntryInv, Fresh
<1>9. CASE WatcherCloses \/ StopBegins \/ StaleMarked
  <2>1. UNCHANGED <<ord, op, taken, ebooks>>
    BY <1>9 DEF WatcherCloses, StopBegins, StaleMarked, exchange, entry
  <2>2. pos' = pos \/ pos.st = "open"
    BY <1>9 DEF WatcherCloses, StopBegins, StaleMarked, StartClose, MayClose
  <2>3. pos' = pos \/ op.at = "idle"
    BY <2>2 DEF EntryInv
  <2>4. QED
    BY <2>1, <2>3 DEF EntryInv, Fresh
<1>10. ASSUME NEW c \in Closers, CloseSucceeds(c) \/ CloseGivesUp(c)
       PROVE  EntryInv'
  <2>1. cl[c].at # "none"
    BY <1>10 DEF CloseSucceeds, CloseGivesUp
  <2>2. cl[c].o \in taken /\ pos.st # "none"
    BY <2>1 DEF CloseInv
  <2>3. /\ UNCHANGED <<ord, op, taken>>
        /\ ebooks' = [ebooks EXCEPT ![cl[c].o] = @ + 1]
    BY <1>10 DEF CloseSucceeds, CloseGivesUp, BookClose, exchange, entry
  <2>4. QED
    BY <2>2, <2>3, EntryBooked
<1>11. CASE StaleBooked
  <2>1. pos.o \in taken /\ pos.st # "none"
    BY <1>11 DEF StaleBooked, CloseInv
  <2>2. QED
    BY <1>11, <2>1, EntryBooked DEF StaleBooked, exchange, entry
<1>12. CASE Crash \/ StopEnds
  <2>1. op' = NoOp /\ taken' = {} /\ UNCHANGED <<ord, ebooks>>
    BY <1>12 DEF Crash, StopEnds, GoDown, exchange
  <2>2. QED
    BY <2>1 DEF EntryInv, Fresh
<1>13. QED
  BY <1>1, <1>2, <1>4, <1>5, <1>6, <1>7, <1>8, <1>9, <1>10, <1>11, <1>12
    DEF Next, Exchange, Entry, Phantom, Close, Pass, vars, exchange, entry,
        engine, process, CooldownEnds, ClosedOutside, PhantomFlattens,
        PhantomGivesUp, CheckDone, CloseHits, CloseFails, RecFetch, RecCompares,
        OrphanSpared, OrphanGone, OrphanOrder, OrphanHit, OrphanClosed,
        OrphanFailed, OrphanBooked, StaleChecked, Boot

\* CloseInv survives what leaves the tracked position and the callers alone.
LEMMA CloseKept ==
  ASSUME CloseInv, pos'.st = pos.st, pos'.o = pos.o,
         \A c \in Closers :
           cl'[c].at # "none" => cl[c].at # "none" /\ cl'[c].o = cl[c].o,
         rec'.at = "persist" => rec.at = "persist", UNCHANGED taken
  PROVE  CloseInv'
BY DEF CloseInv, Closers

\* ... a call that passes the guard: it is the only one,
LEMMA CloseStarts ==
  ASSUME TypeOK, CloseInv, NEW c \in Closers, StartClose(c),
         UNCHANGED <<taken, rec>>
  PROVE  CloseInv'
<1>1. pos.st = "open" /\ pos'.st = "closing" /\ pos'.o = pos.o
  BY DEF StartClose, MayClose, TypeOK, EngineType, PosType
<1>2. \A d \in Closers : cl[d].at = "none"
  BY <1>1 DEF CloseInv
<1>3. \A d \in Closers : IF d = c THEN cl'[d].at = "first" /\ cl'[d].o = pos.o
                               ELSE cl'[d] = cl[d]
  BY BlankTypes DEF StartClose, TypeOK, EngineType, ClType
<1>4. QED
  BY <1>1, <1>2, <1>3 DEF CloseInv, Closers

\* ... and the end of a call, which forgets the position it was holding.
LEMMA CloseBooks ==
  ASSUME TypeOK, CloseInv, NEW c \in Closers, cl[c].at # "none",
         BookClose(c), UNCHANGED <<taken, rec>>
  PROVE  CloseInv'
<1>1. pos.st = "closing" /\ cl[c].o = pos.o /\ pos' = NoPos
  BY DEF CloseInv, BookClose
<1>2. \A d \in Closers : cl'[d].at = "none"
  BY BlankTypes DEF CloseInv, BookClose, TypeOK, EngineType, Closers
<1>3. QED
  BY <1>1, <1>2, BlankTypes DEF CloseInv, Closers

\* One call of _close_position at a time, and it holds the tracked position.
LEMMA CloseInvStep ==
  TypeOK /\ EntryInv /\ CloseInv /\ [Next]_vars => CloseInv'
<1> SUFFICES ASSUME TypeOK, EntryInv, CloseInv, [Next]_vars PROVE CloseInv'
  OBVIOUS
<1> USE OrderFacts, BlankTypes DEF TypeOK
<1>1. CASE UNCHANGED <<pos, cl, rec, taken>>
  BY <1>1, CloseKept
<1>3. CASE Tracked
  <2>1. pos.st = "none" /\ op.o \in Orders
    BY <1>3 DEF Tracked, EntryInv
  <2>2. /\ pos'.st = "open" /\ pos'.o = op.o /\ taken' = taken \cup {op.o}
        /\ UNCHANGED <<cl, rec>>
    BY <1>3 DEF Tracked
  <2>3. QED
    BY <2>1, <2>2 DEF CloseInv, Closers
<1>4. CASE WatcherCloses \/ StopBegins
  <2>1. UNCHANGED <<taken, rec>>
    BY <1>4 DEF WatcherCloses, StopBegins
  <2>2. \/ UNCHANGED <<pos, cl>>
        \/ StartClose("watcher") \/ StartClose("shutdown")
    BY <1>4 DEF WatcherCloses, StopBegins
  <2>3. QED
    BY <2>1, <2>2, CloseKept, CloseStarts DEF Closers
<1>5. ASSUME NEW c \in Closers, CloseHits(c) \/ CloseFails(c) PROVE CloseInv'
  <2>1. cl[c].at # "none" /\ UNCHANGED <<pos, taken, rec>>
    BY <1>5 DEF CloseHits, CloseFails, Escalation
  <2>2. \A d \in Closers : cl'[d].o = cl[d].o /\ (d # c => cl'[d] = cl[d])
    BY <1>5 DEF CloseHits, CloseFails, EngineType, ClType
  <2>3. QED
    BY <2>1, <2>2, CloseKept
<1>6. ASSUME NEW c \in Closers, CloseSucceeds(c) \/ CloseGivesUp(c)
      PROVE  CloseInv'
  <2>1. cl[c].at # "none" /\ BookClose(c) /\ UNCHANGED <<taken, rec>>
    BY <1>6 DEF CloseSucceeds, CloseGivesUp
  <2>2. QED
    BY <2>1, CloseBooks
<1>7. ASSUME \/ \E ok \in BOOLEAN : RecFetch(ok)
             \/ RecCompares \/ OrphanSpared \/ OrphanGone \/ OrphanOrder \/ OrphanHit
             \/ OrphanClosed \/ OrphanFailed \/ OrphanBooked \/ StaleChecked
      PROVE CloseInv'
  <2>1. UNCHANGED <<pos, cl, taken>>
    BY <1>7
      DEF RecFetch, RecCompares, OrphanSpared, OrphanGone, OrphanOrder,
          OrphanHit, OrphanClosed, OrphanFailed, OrphanBooked, StaleChecked,
          engine
  <2>2. rec'.at # "persist"
    BY <1>7
      DEF RecFetch, Snapshot, RecCompares, OrphanSpared, OrphanGone,
          OrphanOrder, OrphanHit, OrphanClosed, OrphanFailed, OrphanBooked,
          StaleChecked, PassOver, ReconType, RecType
  <2>3. QED
    BY <2>1, <2>2, CloseKept
<1>8. CASE StaleMarked
  <2>1. CASE pos.o = rec.o /\ pos.st = "open"
    <3>1. \A c \in Closers : cl[c].at = "none"
      BY <2>1 DEF CloseInv
    <3>2. pos'.st = "external" /\ pos'.o = pos.o /\ UNCHANGED <<cl, taken>>
      BY <1>8, <2>1 DEF StaleMarked, EngineType, PosType
    <3>3. QED
      BY <2>1, <3>1, <3>2 DEF CloseInv, Closers
  <2>2. CASE ~(pos.o = rec.o /\ pos.st = "open")
    BY <1>8, <2>2, CloseKept DEF StaleMarked, PassOver
  <2>3. QED
    BY <2>1, <2>2
<1>9. CASE StaleBooked
  <2>1. /\ pos' = NoPos /\ rec' = NoRec /\ UNCHANGED <<cl, taken>>
        /\ \A c \in Closers : cl[c].at = "none"
    BY <1>9 DEF StaleBooked, PassOver, CloseInv
  <2>2. QED
    BY <2>1 DEF CloseInv, Closers
<1>10. CASE Crash \/ StopEnds
  BY <1>10 DEF Crash, StopEnds, GoDown, CloseInv, Closers
<1>11. QED
  BY <1>1, <1>3, <1>4, <1>5, <1>6, <1>7, <1>8, <1>9, <1>10
    DEF Next, Exchange, Entry, Phantom, Close, Pass, vars, exchange, entry,
        engine, process, CooldownEnds, ClosedOutside, PhantomFlattens,
        PhantomGivesUp, Boot, Fills, Expires, Enter, RetrySends,
        OrderUnanswered, OrderRaised, OrderRefused, SlotRefused,
        OrderAccepted, PollFilled, PollAdopts, PollExpired, PollSilent,
        RetryFindsFill, RetryEnds

\* Every path out of _open_positions takes the counter to zero.
LEMMA NoBrickedStep ==
  TypeOK /\ EntryInv /\ CloseInv /\ NoBrickedSlot /\ [Next]_vars
    => NoBrickedSlot'
<1> SUFFICES ASSUME TypeOK, EntryInv, CloseInv, NoBrickedSlot, [Next]_vars
             PROVE  NoBrickedSlot'
  OBVIOUS
<1> USE BlankTypes DEF TypeOK, EngineType
<1>1. CASE UNCHANGED <<pos, count>>
  BY <1>1 DEF NoBrickedSlot
<1>3. CASE Tracked
  BY <1>3 DEF Tracked, NoBrickedSlot, PosType, ClType
<1>4. CASE WatcherCloses
  BY <1>4
    DEF WatcherCloses, StartClose, MayClose, NoBrickedSlot, PosType, ClType
<1>5. ASSUME NEW c \in Closers, CloseSucceeds(c) PROVE NoBrickedSlot'
  BY <1>5
    DEF CloseSucceeds, BookClose, Decrement, NoBrickedSlot, PosType, ClType
<1>6. ASSUME NEW c \in Closers, CloseGivesUp(c) PROVE NoBrickedSlot'
  BY <1>6
    DEF CloseGivesUp, BookClose, Decrement, NoBrickedSlot, PosType, ClType
<1>7. CASE OrphanBooked
  BY <1>7
    DEF OrphanBooked, PassOver, Decrement, NoBrickedSlot, PosType, ClType
<1>8. CASE StaleMarked
  BY <1>8 DEF StaleMarked, PassOver, NoBrickedSlot, PosType, ClType
<1>9. CASE StaleBooked
  BY <1>9 DEF StaleBooked, PassOver, Decrement, NoBrickedSlot, PosType, ClType
<1>10. CASE Crash \/ StopEnds
  BY <1>10 DEF Crash, GoDown, StopEnds, NoBrickedSlot, PosType, ClType
<1>11. CASE StopBegins
  BY <1>11
    DEF StopBegins, StartClose, MayClose, NoBrickedSlot, PosType, ClType
<1>12. QED
  BY <1>1, <1>3, <1>4, <1>5, <1>6, <1>7, <1>8, <1>9, <1>10, <1>11
    DEF Next, Exchange, Entry, Phantom, Close, Pass, vars, exchange, entry,
        engine, process, Fills, Expires, ClosedOutside, Enter, RetrySends,
        OrderUnanswered, OrderRaised, OrderRefused, SlotRefused, OrderAccepted,
        PollFilled, PollAdopts, PollExpired, PollSilent, RetryFindsFill,
        RetryEnds, CooldownEnds, PhantomFlattens, PhantomGivesUp, CloseHits,
        CloseFails, RecFetch, RecCompares, OrphanSpared, OrphanGone,
        OrphanOrder, OrphanHit, OrphanClosed, OrphanFailed, StaleChecked, Boot

\* The close that ends is the only one and holds the tracked position, so that
\* position is booked now, and no other is.
LEMMA BookedStep ==
  TypeOK /\ EntryInv /\ CloseInv /\ BookedOnce /\ [Next]_vars => BookedOnce'
<1> SUFFICES ASSUME TypeOK, EntryInv, CloseInv, BookedOnce, [Next]_vars
             PROVE  BookedOnce'
  OBVIOUS
<1> USE OrderFacts, BlankTypes DEF TypeOK, EngineType
<1>1. CASE UNCHANGED <<pos, taken, ebooks>>
  BY <1>1 DEF BookedOnce
<1>3. CASE Tracked
  BY <1>3 DEF Tracked, BookedOnce, EntryInv, Fresh
<1>4. CASE WatcherCloses
  BY <1>4
    DEF WatcherCloses, StartClose, MayClose, BookedOnce, CloseInv, PosType
<1>5. ASSUME NEW c \in Closers, CloseSucceeds(c) PROVE BookedOnce'
  BY <1>5
    DEF CloseSucceeds, BookClose, Decrement, BookedOnce, CloseInv, PosType
<1>6. ASSUME NEW c \in Closers, CloseGivesUp(c) PROVE BookedOnce'
  BY <1>6
    DEF CloseGivesUp, BookClose, Decrement, BookedOnce, CloseInv, PosType
<1>7. CASE StaleMarked
  BY <1>7 DEF StaleMarked, PassOver, BookedOnce, CloseInv, PosType
<1>8. CASE StaleBooked
  BY <1>8 DEF StaleBooked, PassOver, Decrement, BookedOnce, CloseInv, PosType
<1>9. CASE Crash \/ StopEnds
  BY <1>9 DEF Crash, GoDown, StopEnds, BookedOnce, CloseInv, PosType
<1>10. CASE StopBegins
  BY <1>10 DEF StopBegins, StartClose, MayClose, BookedOnce, CloseInv, PosType
<1>11. QED
  BY <1>1, <1>3, <1>4, <1>5, <1>6, <1>7, <1>8, <1>9, <1>10
    DEF Next, Exchange, Entry, Phantom, Close, Pass, vars, exchange, entry,
        engine, process, Fills, Expires, ClosedOutside, Enter, RetrySends,
        OrderUnanswered, OrderRaised, OrderRefused, SlotRefused, OrderAccepted,
        PollFilled, PollAdopts, PollExpired, PollSilent, RetryFindsFill,
        RetryEnds, CooldownEnds, PhantomFlattens, PhantomGivesUp, CloseHits,
        CloseFails, RecFetch, RecCompares, OrphanSpared, OrphanGone,
        OrphanOrder, OrphanHit, OrphanClosed, OrphanFailed, OrphanBooked,
        StaleChecked, Boot

\* The four together, in every step
LEMMA LifeStep == LifeInv /\ [Next]_vars => LifeInv'
<1> SUFFICES ASSUME LifeInv, [Next]_vars PROVE LifeInv'
  OBVIOUS
<1>1. TypeOK'
  BY TypeStep DEF LifeInv
<1>2. EntryInv' /\ CloseInv'
  BY EntryInvStep, CloseInvStep DEF LifeInv
<1>3. NoBrickedSlot' /\ BookedOnce'
  BY NoBrickedStep, BookedStep DEF LifeInv
<1>4. QED
  BY <1>1, <1>2, <1>3 DEF LifeInv

\* ... and at the start
LEMMA LifeInit == Init => LifeInv
<1> SUFFICES ASSUME Init PROVE LifeInv
  OBVIOUS
<1> USE PositionLifecycleAssumptions, OrderFacts, BlankTypes
<1>1. ExchangeType
  BY DEF Init, ExchangeType, OrdType
<1>2. EntryType /\ ReconType /\ ProcessType
  <2>1. rec \in RecType
    BY DEF Init
  <2>2. EntryType /\ ProcessType
    BY DEF Init, EntryType, ProcessType
  <2>3. QED
    BY <2>1, <2>2 DEF ReconType
<1>3. EngineType
  <2>1. pos \in PosType /\ cl \in [Closers -> ClType] /\ count \in 0..1
    BY DEF Init
  <2>2. /\ taken \subseteq Orders /\ ebooks \in [Orders -> Nat]
        /\ settled \subseteq Nat
    BY DEF Init
  <2>3. cooling \in BOOLEAN
    BY DEF Init
  <2>4. QED
    BY <2>1, <2>2, <2>3 DEF EngineType
<1>4. EntryInv
  BY DEF Init, EntryInv, Fresh
<1>5. CloseInv
  BY DEF Init, CloseInv, Closers
<1>6. NoBrickedSlot /\ BookedOnce
  BY DEF Init, NoBrickedSlot, BookedOnce
<1>7. QED
  BY <1>1, <1>2, <1>3, <1>4, <1>5, <1>6 DEF LifeInv, TypeOK

-----------------------------------------------------------------------------
(* What a pass may conclude.                                               *)

\* IdInv survives a step that issues ids in order and names only issued ones.
LEMMA IdKept ==
  ASSUME IdInv, ex'.id <= npos', npos <= npos', npos \in Nat, npos' \in Nat,
         \A o \in Orders : ord'[o].st = "filled" =>
            \/ ord'[o].id \in 1..npos'
            \/ ord[o].st = "filled" /\ ord'[o].id = ord[o].id,
         pos'.st # "none" => \/ pos.st # "none" /\ pos'.id = pos.id
                             \/ pos'.id \in 1..npos',
         op'.at = "opened" => op'.id \in 1..npos'
  PROVE  IdInv'
BY DEF IdInv

\* Position ids are issued in order, in every step.
LEMMA IdStep == TypeOK /\ EntryInv /\ IdInv /\ [Next]_vars => IdInv'
<1> SUFFICES ASSUME TypeOK, EntryInv, IdInv, [Next]_vars PROVE IdInv'
  OBVIOUS
<1> USE OrderFacts, BlankTypes DEF TypeOK
<1>1. CASE UNCHANGED <<ord, ex, npos, pos, op>>
  BY <1>1 DEF IdInv
<1>2. ASSUME NEW o \in Orders, Fills(o) PROVE IdInv'
  <2>1. npos \in Nat /\ ex.id \in Nat /\ op.at = "opened" => op.o \in Orders
    BY DEF ExchangeType, ExType, EntryInv
  <2>2. /\ ex'.id <= npos' /\ ex'.id \in 1..npos' /\ npos <= npos'
        /\ npos' \in Nat
    BY <1>2 DEF Fills, ExchangeType, ExType, IdInv
  <2>3. \A q \in Orders :
          ord'[q] = IF q = o THEN [st |-> "filled", id |-> ex'.id] ELSE ord[q]
    BY <1>2 DEF Fills, ExchangeType
  <2>4. op'=op /\ pos' = pos
    BY <1>2 DEF Fills, entry, engine
  <2>5. ord[o].st = "live"
    BY <1>2 DEF Fills
  <2>6. npos \in Nat
    BY DEF ExchangeType
  <2>7. op'.at = "opened" => op'.id \in 1..npos'
    BY <2>2, <2>4, <2>6 DEF IdInv
  <2>8. \A q \in Orders : ord'[q].st = "filled" =>
            \/ ord'[q].id \in 1..npos'
            \/ ord[q].st = "filled" /\ ord'[q].id = ord[q].id
    BY <2>2, <2>3
  <2>9. QED
    BY <2>2, <2>4, <2>6, <2>7, <2>8, IdKept
<1>3. ASSUME NEW o \in Orders, Expires(o) \/ Enter(o) \/ RetrySends(o)
      PROVE  IdInv'
  <2>1. \A q \in Orders :
          ord'[q].st = "filled" => ord[q].st = "filled" /\ ord'[q].id = ord[q].id
    BY <1>3 DEF Expires, Enter, RetrySends, Send, ExchangeType, OrdType
  <2>2. UNCHANGED <<ex, npos, pos>>
    BY <1>3 DEF Expires, Enter, RetrySends, entry, engine
  <2>3. op' = op \/ (op'.at = "sent")
    BY <1>3
      DEF Expires, Enter, RetrySends, entry, EntryType, OpType, NoOp, IdInv
  <2>4. npos \in Nat
    BY DEF ExchangeType
  <2>5. QED
    BY <2>1, <2>2, <2>3, <2>4 DEF IdInv
<1>5. CASE OrderRefused \/ SlotRefused
  <2>1. \A q \in Orders :
          ord'[q].st = "filled" => ord[q].st = "filled" /\ ord'[q].id = ord[q].id
    BY <1>5 DEF OrderRefused, SlotRefused, ExchangeType, OrdType
  <2>2. UNCHANGED <<ex, npos, pos>>
    BY <1>5 DEF OrderRefused, SlotRefused, engine
  <2>3. op'.at # "opened"
    BY <1>5
      DEF OrderRefused, SlotRefused, AttemptOver, Finish, EntryType, OpType,
          NoOp, IdInv
  <2>4. QED
    BY <2>1, <2>2, <2>3 DEF IdInv
<1>6. CASE \/ OrderUnanswered \/ OrderRaised \/ PollExpired \/ PollSilent
           \/ RetryEnds \/ OrderAccepted
  <2>1. UNCHANGED <<ord, ex, npos, pos>>
    BY <1>6
      DEF OrderUnanswered, OrderRaised, PollExpired, PollSilent, RetryEnds,
          OrderAccepted, exchange, engine
  <2>2. op.at # "opened"
    BY <1>6
      DEF OrderUnanswered, OrderRaised, PollExpired, PollSilent, RetryEnds,
          OrderAccepted
  <2>3. op'.at # "opened"
    BY <1>6, <2>2
      DEF OrderUnanswered, OrderRaised, PollExpired, PollSilent, RetryEnds,
          OrderAccepted, AttemptOver, Finish, EntryType, OpType, NoOp, IdInv
  <2>4. QED
    BY <2>1, <2>3 DEF IdInv
<1>7. CASE PollFilled \/ PollAdopts \/ RetryFindsFill
  <2>1. /\ UNCHANGED <<ord, ex, npos, pos>> /\ op'.at = "opened"
        /\ \/ op'.id = ord[op.o].id /\ ord[op.o].st = "filled"
           \/ op'.id = ex.id /\ ex.id # 0
    BY <1>7
      DEF PollFilled, PollAdopts, RetryFindsFill, exchange, engine, EntryType,
          OpType
  <2>2. op.o \in Orders /\ ex.id \in Nat /\ npos \in Nat
    BY <1>7
      DEF PollFilled, PollAdopts, RetryFindsFill, EntryInv, ExchangeType,
          ExType
  <2>3. op'.id \in 1..npos
    BY <2>1, <2>2 DEF IdInv
  <2>4. QED
    BY <2>1, <2>3 DEF IdInv
<1>8. CASE Tracked
  <2>1. pos'.id = op.id /\ op' = NoOp /\ UNCHANGED <<ord, ex, npos>>
    BY <1>8 DEF Tracked, exchange
  <2>2. op.id \in 1..npos
    BY <1>8 DEF Tracked, IdInv
  <2>3. QED
    BY <2>1, <2>2 DEF IdInv, NoOp
<1>9. ASSUME ClosedOutside \/ OrphanHit \/ (\E c \in Closers : CloseHits(c))
               \/ (\E o \in Orders : PhantomFlattens(o))
      PROVE  IdInv'
  <2>1. UNCHANGED <<ord, npos, pos, op>>
    BY <1>9
      DEF ClosedOutside, OrphanHit, CloseHits, PhantomFlattens, entry, engine
  <2>2. ex'.id = ex.id \/ ex'.id = 0
    BY <1>9
      DEF ClosedOutside, OrphanHit, CloseHits, PhantomFlattens, ExchangeType,
          ExType
  <2>3. QED
    BY <2>1, <2>2 DEF IdInv, ExchangeType
<1>10. ASSUME \/ \E c \in Closers : CloseSucceeds(c) \/ CloseGivesUp(c)
              \/ WatcherCloses \/ StopBegins \/ StaleMarked \/ StaleBooked
       PROVE IdInv'
  <2>1. UNCHANGED <<ord, ex, npos, op>>
    BY <1>10
      DEF CloseSucceeds, CloseGivesUp, WatcherCloses, StopBegins, StaleMarked,
          StaleBooked, exchange, entry
  <2>2. pos' = NoPos \/ pos' = pos \/ (pos.st # "none" /\ pos'.id = pos.id)
    BY <1>10
      DEF CloseSucceeds, CloseGivesUp, BookClose, WatcherCloses, StopBegins,
          StartClose, MayClose, StaleMarked, StaleBooked, EngineType, PosType
  <2>3. QED
    BY <2>1, <2>2 DEF IdInv
<1>11. CASE Crash \/ StopEnds
  <2>1. UNCHANGED <<ord, ex, npos>> /\ op' = NoOp /\ pos' = NoPos
    BY <1>11 DEF Crash, StopEnds, GoDown, exchange
  <2>2. QED
    BY <2>1 DEF IdInv, NoOp
<1>12. QED
  BY <1>1, <1>2, <1>3, <1>5, <1>6, <1>7, <1>8, <1>9, <1>10, <1>11
    DEF Next, Exchange, Entry, Phantom, Close, Pass, vars, exchange, entry,
        engine, process, CooldownEnds, PhantomGivesUp, CheckDone, CloseFails,
        RecFetch, RecCompares, OrphanSpared, OrphanGone, OrphanOrder,
        OrphanClosed, OrphanFailed, OrphanBooked, StaleChecked, Boot

\* A step leaves the position of the exchange there, removes it, or opens one
\* with a new id.
LEMMA NewIds ==
  ASSUME TypeOK, [Next]_vars
  PROVE  /\ npos \in Nat /\ npos' \in Nat /\ npos <= npos'
         /\ ex'.id \in {ex.id, 0, npos + 1}
<1> USE BlankTypes DEF TypeOK, ExchangeType, ExType
<1>1. CASE UNCHANGED <<ex, npos>>
  BY <1>1
<1>2. ASSUME NEW o \in Orders, Fills(o)
      PROVE  /\ npos' \in Nat /\ npos <= npos'
             /\ ex'.id \in {ex.id, 0, npos + 1}
  BY <1>2 DEF Fills
<1>3. ASSUME ClosedOutside \/ OrphanHit \/ (\E c \in Closers : CloseHits(c))
               \/ (\E o \in Orders : PhantomFlattens(o))
      PROVE  npos' = npos /\ ex'.id \in {ex.id, 0}
  BY <1>3 DEF ClosedOutside, OrphanHit, CloseHits, PhantomFlattens
<1>4. \/ UNCHANGED <<ex, npos>> \/ ClosedOutside \/ OrphanHit
      \/ \E o \in Orders : Fills(o) \/ PhantomFlattens(o)
      \/ \E c \in Closers : CloseHits(c)
  BY DEF Next, Exchange, Entry, Phantom, Close, Pass, vars, exchange,
        Expires, Enter, RetrySends, OrderUnanswered, OrderRaised,
        OrderRefused, SlotRefused, OrderAccepted, PollFilled, PollAdopts,
        PollExpired, PollSilent, RetryFindsFill, RetryEnds, Tracked,
        CooldownEnds, PhantomGivesUp, WatcherCloses, CloseSucceeds,
        CloseFails, CloseGivesUp, RecFetch, RecCompares, OrphanSpared,
        OrphanGone, OrphanOrder, OrphanClosed, OrphanFailed, OrphanBooked,
        StaleChecked, StaleMarked, StaleBooked, Crash, StopBegins, StopEnds,
        Boot
<1>5. QED
  BY <1>1, <1>2, <1>3, <1>4

\* However long a pass holds an empty answer, what appears on the exchange
\* meanwhile is newer than the answer.
LEMMA SnapshotStep ==
  ASSUME TypeOK, SnapshotInv, [Next]_vars
  PROVE  SnapshotInv'
<1> USE BlankTypes DEF TypeOK
<1>1. ASSUME NEW ok \in BOOLEAN, RecFetch(ok) PROVE SnapshotInv'
  <2>1. /\ rec'.at = "fetched" /\ rec'.ok = ok /\ rec'.upto = npos
        /\ rec'.id = IF ok THEN ex.id ELSE 0
        /\ UNCHANGED <<ex, npos>>
    BY <1>1 DEF RecFetch, Snapshot, NoRec, exchange
  <2>2. QED
    BY <2>1, NewIds DEF SnapshotInv
<1>2. CASE RecCompares
  <2>1. UNCHANGED <<ex, npos>> /\ rec.at = "fetched"
    BY <1>2 DEF RecCompares, exchange
  <2>2. \/ rec' = NoRec
        \/ /\ rec'.at = "orphan" /\ rec'.upto = rec.upto
        \/ /\ rec.ok /\ rec.id = 0 /\ rec'.at = "stale"
           /\ rec'.ok = rec.ok /\ rec'.id = rec.id /\ rec'.upto = rec.upto
    BY <1>2 DEF RecCompares, PassOver, MaybeStale, ReconType, RecType
  <2>3. QED
    BY <2>1, <2>2, NewIds DEF SnapshotInv, NoRec
<1>3. CASE StaleChecked
  <2>1. UNCHANGED <<ex, npos>> /\ rec.at = "stale"
    BY <1>3 DEF StaleChecked, exchange
  <2>2. \/ rec' = NoRec
        \/ /\ rec'.at = "history" /\ rec'.ok = rec.ok /\ rec'.id = rec.id
           /\ rec'.upto = rec.upto
    BY <1>3 DEF StaleChecked, PassOver, ReconType, RecType
  <2>3. QED
    BY <2>1, <2>2, NewIds DEF SnapshotInv, NoRec
<1>4. ASSUME \/ OrphanSpared \/ OrphanFailed \/ OrphanBooked \/ StaleBooked
             \/ Crash \/ StopEnds \/ OrphanGone \/ OrphanOrder \/ OrphanHit
             \/ OrphanClosed \/ StaleMarked
      PROVE SnapshotInv'
  <2>1. rec \in RecType
    BY DEF ReconType
  <2>2. ASSUME OrphanSpared \/ OrphanFailed \/ OrphanBooked \/ StaleBooked
                 \/ Crash \/ StopEnds
        PROVE  rec' = NoRec
    BY <2>2
      DEF OrphanSpared, OrphanFailed, OrphanBooked, StaleBooked, Crash,
          StopEnds, GoDown, PassOver
  <2>3. ASSUME OrphanGone \/ OrphanClosed \/ StaleMarked
        PROVE  rec' = NoRec \/ (/\ rec'.at \in {"book", "persist"}
                                /\ rec'.upto = rec.upto)
    BY <2>1, <2>3 DEF OrphanGone, OrphanClosed, StaleMarked, PassOver, RecType
  <2>4. ASSUME OrphanOrder \/ OrphanHit
        PROVE  rec'.at = "order" /\ rec'.upto = rec.upto
    BY <2>1, <2>4 DEF OrphanOrder, OrphanHit, RecType
  <2>5. /\ rec'.at \notin {"fetched", "stale", "history"}
        /\ rec'.upto \in {rec.upto, 0}
    BY <1>4, <2>2, <2>3, <2>4 DEF NoRec
  <2>6. QED
    BY <2>1, <2>5, NewIds DEF SnapshotInv, RecType
<1>5. CASE rec' = rec
  BY <1>5, NewIds
    DEF SnapshotInv, ReconType, RecType, ExchangeType, ExType
<1>6. QED
  BY <1>1, <1>2, <1>3, <1>4, <1>5
    DEF Next, Exchange, Entry, Phantom, Close, Pass, vars,
        Fills, Expires, ClosedOutside, Enter, RetrySends, OrderUnanswered,
        OrderRaised, OrderRefused, SlotRefused, OrderAccepted, PollFilled,
        PollAdopts, PollExpired, PollSilent, RetryFindsFill, RetryEnds, Tracked,
        CooldownEnds, PhantomFlattens, PhantomGivesUp, WatcherCloses,
        CloseHits, CloseSucceeds, CloseFails, CloseGivesUp, StopBegins, Boot

\* Only mark_position_closed_externally takes an open position to "external".
LEMMA MarkStep ==
  ASSUME TypeOK, SnapshotInv, [Next]_vars, pos.st = "open",
         pos'.st = "external", pos.id # 0, pos.id <= rec.upto
  PROVE  ex.id # pos.id
<1>1. StaleMarked
  <2>1. pos' # pos /\ pos' # NoPos
    BY BlankTypes
  <2>2. CASE Tracked
    BY <2>2 DEF Tracked
  <2>3. CASE WatcherCloses \/ StopBegins
    BY <2>1, <2>3
      DEF WatcherCloses, StopBegins, StartClose, TypeOK, EngineType, PosType
  <2>4. ASSUME (\E c \in Closers : CloseSucceeds(c) \/ CloseGivesUp(c))
                 \/ StaleBooked \/ Crash \/ StopEnds
        PROVE  FALSE
    BY <2>1, <2>4
      DEF CloseSucceeds, CloseGivesUp, BookClose, StaleBooked, Crash,
          StopEnds, GoDown
  <2>5. QED
    BY <2>1, <2>2, <2>3, <2>4
      DEF Next, Exchange, Entry, Phantom, Close, Pass, vars, exchange, entry,
          engine, process, Fills, Expires, ClosedOutside, Enter, RetrySends,
          OrderUnanswered, OrderRaised, OrderRefused, SlotRefused,
          OrderAccepted, PollFilled, PollAdopts, PollExpired, PollSilent,
          RetryFindsFill, RetryEnds, CooldownEnds, PhantomFlattens,
          PhantomGivesUp, CloseHits, CloseFails, RecFetch, RecCompares,
          OrphanSpared, OrphanGone, OrphanOrder, OrphanHit, OrphanClosed,
          OrphanFailed, OrphanBooked, StaleChecked, Boot
<1>2. rec.at = "history"
  BY <1>1 DEF StaleMarked
<1>3. ex.id = 0 \/ ex.id > rec.upto
  BY <1>2 DEF SnapshotInv
<1>4. ex.id \in Nat /\ rec.upto \in Nat /\ pos.id \in Nat
  BY DEF TypeOK, ExchangeType, ExType, ReconType, RecType, EngineType, PosType
<1>5. QED
  BY <1>3, <1>4

-----------------------------------------------------------------------------
(* Orders in doubt.                                                        *)

\* With one attempt an entry starts with nothing in doubt, and ends by putting
\* the one order it may leave in doubt under a check that blocks the pair.
LEMMA DoubtStep ==
  ASSUME MaxAttempts = 1, TypeOK, EntryInv, DoubtInv, [Next]_vars
  PROVE  DoubtInv'
<1> USE OrderFacts, BlankTypes DEF TypeOK
<1>1. CASE UNCHANGED <<op, checks, blocking, doubt>>
  BY <1>1 DEF DoubtInv
<1>3. ASSUME NEW o \in Orders, Enter(o) PROVE DoubtInv'
  <2>1. /\ op'.at = "sent" /\ op'.n = 1
        /\ UNCHANGED <<checks, blocking, doubt>> /\ blocking = 0
    BY <1>3 DEF Enter, MayEnter, OpType
  <2>2. QED
    BY <2>1 DEF DoubtInv
<1>4. CASE OrderAccepted \/ PollFilled \/ PollAdopts
  <2>1. /\ op'.at \in {"poll", "opened"} /\ op'.n = op.n /\ op.at # "idle"
        /\ op'.at = "poll" => op'.last = op'.o
        /\ UNCHANGED <<checks, blocking, doubt>>
    BY <1>4 DEF OrderAccepted, PollFilled, PollAdopts, EntryType, OpType
  <2>2. QED
    BY <2>1 DEF DoubtInv
<1>5. ASSUME OrderUnanswered \/ OrderRaised \/ OrderRefused \/ SlotRefused
               \/ PollExpired
      PROVE  DoubtInv'
  <2>1. op.at # "idle"
    BY <1>5
      DEF OrderUnanswered, OrderRaised, OrderRefused, SlotRefused, PollExpired
  <2>2. op.n = 1 /\ blocking = 0
    BY <2>1 DEF DoubtInv
  <2>3. doubt = {}
    BY <2>2 DEF DoubtInv, EntryType
  <2>4. op' = NoOp /\ doubt' = doubt
    BY <1>5, <2>2
      DEF OrderUnanswered, OrderRaised, OrderRefused, SlotRefused,
          PollExpired, AttemptOver, Finish
  <2>5. QED
    BY <2>3, <2>4 DEF DoubtInv
<1>6. CASE PollSilent
  <2>1. op.at = "poll" /\ op.o \in Orders /\ doubt' = doubt \cup {op.o}
    BY <1>6 DEF PollSilent, EntryInv
  <2>2. op.n = 1 /\ blocking = 0 /\ op.last = op.o
    BY <2>1 DEF DoubtInv
  <2>3. doubt = {}
    BY <2>2 DEF DoubtInv, EntryType
  <2>4. op' = NoOp /\ checks' = checks \cup {op.o} /\ blocking' = op.o
    BY <1>6, <2>1, <2>2 DEF PollSilent, AttemptOver, Finish
  <2>5. QED
    BY <2>1, <2>3, <2>4 DEF DoubtInv
<1>7. ASSUME (\E o \in Orders : RetrySends(o)) \/ RetryFindsFill \/ RetryEnds
      PROVE  DoubtInv'
  BY <1>7 DEF RetrySends, RetryFindsFill, RetryEnds, DoubtInv
<1>8. CASE Tracked
  BY <1>8 DEF Tracked, DoubtInv
<1>9. ASSUME NEW o \in Orders, PhantomFlattens(o) \/ PhantomGivesUp(o)
      PROVE  DoubtInv'
  <2>1. /\ op' = op /\ checks' = checks \ {o} /\ doubt' = doubt \ {o}
        /\ blocking' = IF blocking = o THEN 0 ELSE blocking
    BY <1>9 DEF PhantomFlattens, PhantomGivesUp, CheckDone
  <2>2. QED
    BY <2>1 DEF DoubtInv, EntryType
<1>10. CASE Crash \/ StopEnds
  BY <1>10 DEF Crash, StopEnds, GoDown, DoubtInv
<1>11. QED
  BY <1>1, <1>3, <1>4, <1>5, <1>6, <1>7, <1>8, <1>9, <1>10
    DEF Next, Exchange, Entry, Phantom, Close, Pass, vars, exchange, entry,
        engine, process, Fills, Expires, ClosedOutside, CooldownEnds,
        WatcherCloses, CloseHits, CloseSucceeds, CloseFails, CloseGivesUp,
        StopBegins, RecFetch, RecCompares, OrphanSpared, OrphanGone,
        OrphanOrder, OrphanHit, OrphanClosed, OrphanFailed, OrphanBooked,
        StaleChecked, StaleMarked, StaleBooked, Boot

\* Such an entry sends only while nothing is in doubt.
LEMMA SendStep ==
  ASSUME TypeOK, DoubtInv, [Next]_vars, NEW o \in Orders, ord[o].st = "new",
         ord'[o].st = "live"
  PROVE  doubt = {}
<1> USE OrderFacts DEF TypeOK
<1>1. CASE \E q \in Orders : Enter(q)
  BY <1>1 DEF Enter, MayEnter, DoubtInv, EntryType
<1>2. CASE \E q \in Orders : Fills(q) \/ Expires(q)
  BY <1>2 DEF Fills, Expires, ExchangeType, OrdType
<1>3. CASE OrderRefused \/ SlotRefused
  BY <1>3 DEF OrderRefused, SlotRefused, ExchangeType, OrdType
<1>4. CASE UNCHANGED ord
  BY <1>4
<1>5. CASE \E q \in Orders : RetrySends(q)
  BY <1>5 DEF RetrySends, DoubtInv
<1>6. QED
  BY <1>1, <1>2, <1>3, <1>4, <1>5
    DEF Next, Exchange, Entry, Phantom, Close, Pass, vars, exchange,
        ClosedOutside, OrderUnanswered, OrderRaised, OrderAccepted, PollFilled,
        PollAdopts, PollExpired, PollSilent, RetryFindsFill, RetryEnds, Tracked,
        CooldownEnds, PhantomFlattens, PhantomGivesUp, WatcherCloses, CloseHits,
        CloseSucceeds, CloseFails, CloseGivesUp, StopBegins, StopEnds, Crash,
        RecFetch, RecCompares, OrphanSpared, OrphanGone, OrphanOrder, OrphanHit,
        OrphanClosed, OrphanFailed, OrphanBooked, StaleChecked, StaleMarked,
        StaleBooked, Boot

-----------------------------------------------------------------------------
(* Theorems.                                                               *)

\* The lifecycle invariant: types, the entry in flight, the one close in
\* progress, the counter and the bookings, through every interleaving of entry,
\* watcher, reconciliation, stop() and crash.
THEOREM LifeInvariant == Spec => []LifeInv
<1>1. LifeInv /\ UNCHANGED vars => LifeInv'
  BY LifeStep
<1>2. QED
  BY <1>1, LifeInit, LifeStep, PTL DEF Spec

\* Every variable keeps its type; in particular the counter of the slot never
\* exceeds one position.
THEOREM TypeCorrect == Spec => []TypeOK
<1>1. LifeInv => TypeOK
  BY DEF LifeInv
<1>2. QED
  BY <1>1, LifeInvariant, PTL

\* A tracked trade is booked exactly once, whichever of the watcher, stop() and
\* Case B gets to it first.
THEOREM EachTradeBookedOnce == Spec => []BookedOnce
<1>1. LifeInv => BookedOnce
  BY DEF LifeInv
<1>2. QED
  BY <1>1, LifeInvariant, PTL

\* A slot that tracks no position is free to trade again.
THEOREM SlotNeverBricked == Spec => []NoBrickedSlot
<1>1. LifeInv => NoBrickedSlot
  BY DEF LifeInv
<1>2. QED
  BY <1>1, LifeInvariant, PTL

\* A position that existed when the exchange answered a pass is marked as
\* closed externally by it only if the exchange holds it no longer.
THEOREM MarkedPositionsWereGone == Spec => MarkedWasGone
<1> DEFINE Inv == LifeInv /\ IdInv /\ SnapshotInv
           Marks == /\ pos.st = "open" /\ pos'.st = "external"
                    /\ pos.id <= rec.upto
<1>1. Init => IdInv /\ SnapshotInv
  BY BlankTypes, OrderFacts DEF Init, IdInv, SnapshotInv, NoRec
<1>2. Inv /\ [Next]_vars => Inv'
  BY LifeStep, IdStep, SnapshotStep DEF LifeInv
<1>3. Inv /\ [Next]_vars => [Marks => ex.id # pos.id]_vars
  BY MarkStep DEF LifeInv, IdInv
<1>4. QED
  BY <1>1, <1>2, <1>3, LifeInit, PTL DEF Spec, MarkedWasGone

\* When an entry makes one attempt, whatever it leaves in doubt is under a
\* phantom check when it is over ...
THEOREM DoubtAlwaysChecked ==
  ASSUME MaxAttempts = 1
  PROVE  Spec => []DoubtIsChecked
<1>1. Init => DoubtInv
  BY BlankTypes DEF Init, DoubtInv
<1>2. LifeInv /\ DoubtInv /\ [Next]_vars => DoubtInv'
  BY DoubtStep DEF LifeInv
<1>3. DoubtInv => DoubtIsChecked
  BY DEF DoubtInv, DoubtIsChecked
<1>4. QED
  BY <1>1, <1>2, <1>3, LifeInvariant, PTL DEF Spec

\* ... and no order goes out before the check is over.
THEOREM NothingSentInDoubt ==
  ASSUME MaxAttempts = 1
  PROVE  Spec => NoOrderOnUnknown
<1> DEFINE Sends == \E o \in Orders : ord[o].st = "new" /\ ord'[o].st = "live"
<1>1. Init => DoubtInv
  BY BlankTypes DEF Init, DoubtInv
<1>2. LifeInv /\ DoubtInv /\ [Next]_vars => DoubtInv'
  BY DoubtStep DEF LifeInv
<1>3. LifeInv /\ DoubtInv /\ [Next]_vars => [Sends => doubt = {}]_vars
  BY SendStep DEF LifeInv
<1>4. QED
  BY <1>1, <1>2, <1>3, LifeInvariant, PTL DEF Spec, NoOrderOnUnknown

-----------------------------------------------------------------------------
(* PositionLifecycle implements TradeLedger, for every number of attempts,  *)
(* orders and restarts.  The argument: LifeInv says which of the ledger's   *)
(* stages an order is in (StageFacts), a step of the slot moves the stages  *)
(* in one of the six ways the ledger knows, and what moves is read off the  *)
(* slot's own variables.                                                    *)

\* What the entry in flight works on
InFlight(o) == op.at # "idle" /\ (o = op.o \/ o = op.last)

Tracks(o) == pos.st # "none" /\ pos.o = o

\* The stages, each by the variable that shows it
StageIs ==
  \A o \in Orders :
    /\ StageOf(o) \in {"new", "sent", "open", "booked", "over"}
    /\ StageOf(o) = "new" <=> ord[o].st = "new"
    /\ StageOf(o) = "open" <=> Tracks(o)
    /\ StageOf(o) = "sent" <=> InFlight(o)
    /\ StageOf(o) = "booked" <=> ebooks[o] # 0

-----------------------------------------------------------------------------
(* The stages.                                                             *)

\* An order is in one stage at a time: a tracked one is not booked yet, and
\* while an entry is in flight the slot tracks nothing.
LEMMA StageFacts == LifeInv => StageIs
<1> SUFFICES ASSUME LifeInv, NEW o \in Orders
    PROVE /\ StageOf(o) \in {"new", "sent", "open", "booked", "over"}
          /\ StageOf(o) = "new" <=> ord[o].st = "new"
          /\ StageOf(o) = "open" <=> Tracks(o)
          /\ StageOf(o) = "sent" <=> InFlight(o)
          /\ StageOf(o) = "booked" <=> ebooks[o] # 0
  BY DEF StageIs
<1>1. ord[o].st = "new" => ~Tracks(o) /\ ~InFlight(o) /\ ebooks[o] = 0
  BY DEF LifeInv, EntryInv, CloseInv, Fresh, Tracks, InFlight
<1>2. Tracks(o) => ~InFlight(o) /\ ebooks[o] = 0
  BY DEF LifeInv, EntryInv, CloseInv, BookedOnce, Tracks, InFlight
<1>3. InFlight(o) => ebooks[o] = 0
  BY DEF LifeInv, EntryInv, Fresh, InFlight
<1>4. QED
  BY <1>1, <1>2, <1>3 DEF StageOf, Tracks, InFlight

\* ... and in the next state
LEMMA StageFactsNext == LifeInv' => StageIs'
BY StageFacts, PTL

-----------------------------------------------------------------------------
(* The ledger's steps, by what the stages do.                              *)

\* Attempts are given up, or nothing changes.
LEMMA LedgerMisses ==
  ASSUME UNCHANGED ebooks,
         \A o \in Orders :
           \/ StageOf(o)' = StageOf(o)
           \/ StageOf(o) = "sent" /\ StageOf(o)' = "over"
  PROVE  Ledger!Next
<1> DEFINE D == {o \in Orders : StageOf(o) = "sent" /\ StageOf(o)' = "over"}
<1>1. D \in SUBSET Ledger!InStage("sent")
  BY DEF Ledger!InStage
<1>2. [o \in Orders |-> StageOf(o)'] = Ledger!Moved(D, "over")
  BY DEF Ledger!Moved
<1>3. Ledger!Miss
  BY <1>1, <1>2 DEF Ledger!Miss
<1>4. QED
  BY <1>3 DEF Ledger!Next

\* An order goes out while the slot holds nothing.
LEMMA LedgerSends ==
  ASSUME NEW q \in Orders, UNCHANGED ebooks,
         StageOf(q) = "new", StageOf(q)' = "sent",
         \A o \in Orders : StageOf(o) # "open",
         \A o \in Orders \ {q} :
           \/ StageOf(o)' = StageOf(o)
           \/ StageOf(o) = "sent" /\ StageOf(o)' = "over"
  PROVE  Ledger!Next
<1> DEFINE D == {o \in Orders : StageOf(o) = "sent" /\ StageOf(o)' = "over"}
<1>1. D \in SUBSET Ledger!InStage("sent") /\ Ledger!InStage("open") = {}
  BY DEF Ledger!InStage
<1>2. [o \in Orders |-> StageOf(o)']
        = [Ledger!Moved(D, "over") EXCEPT ![q] = "sent"]
  BY DEF Ledger!Moved
<1>3. Ledger!Send(q)
  BY <1>1, <1>2 DEF Ledger!Send
<1>4. QED
  BY <1>3 DEF Ledger!Next

\* An attempt becomes the position; the others are given up.
LEMMA LedgerOpens ==
  ASSUME NEW q \in Orders, UNCHANGED ebooks,
         StageOf(q) = "sent", StageOf(q)' = "open",
         \A o \in Orders : StageOf(o) # "open",
         \A o \in Orders \ {q} :
           StageOf(o)' = IF StageOf(o) = "sent" THEN "over" ELSE StageOf(o)
  PROVE  Ledger!Next
<1>1. Ledger!InStage("open") = {}
  BY DEF Ledger!InStage
<1>2. [o \in Orders |-> StageOf(o)']
        = [Ledger!Moved(Ledger!InStage("sent"), "over") EXCEPT ![q] = "open"]
  BY DEF Ledger!Moved, Ledger!InStage
<1>3. Ledger!Open(q)
  BY <1>1, <1>2 DEF Ledger!Open
<1>4. QED
  BY <1>3 DEF Ledger!Next

\* The position is booked.
LEMMA LedgerBooks ==
  ASSUME NEW q \in Orders, ebooks' = [ebooks EXCEPT ![q] = @ + 1],
         StageOf(q) = "open", StageOf(q)' = "booked",
         \A o \in Orders \ {q} : StageOf(o)' = StageOf(o)
  PROVE  Ledger!Next
<1>1. [o \in Orders |-> StageOf(o)']
        = [[o \in Orders |-> StageOf(o)] EXCEPT ![q] = "booked"]
  OBVIOUS
<1>2. Ledger!Book(q)
  BY <1>1 DEF Ledger!Book
<1>3. QED
  BY <1>2 DEF Ledger!Next

\* The process ends.
LEMMA LedgerForgets ==
  ASSUME UNCHANGED ebooks,
         \A o \in Orders :
           StageOf(o)' = IF StageOf(o) \in {"sent", "open"} THEN "over"
                         ELSE StageOf(o)
  PROVE  Ledger!Next
<1>1. [o \in Orders |-> StageOf(o)']
        = Ledger!Moved(Ledger!InStage("sent") \cup Ledger!InStage("open"),
        "over")
  BY DEF Ledger!Moved, Ledger!InStage
<1>2. Ledger!Forget
  BY <1>1 DEF Ledger!Forget
<1>3. QED
  BY <1>2 DEF Ledger!Next

-----------------------------------------------------------------------------
(* The slot's steps.                                                       *)

\* No order is sent, and the slot tracks and has booked what it did.
SlotKept ==
  /\ UNCHANGED ebooks
  /\ \A o \in Orders :
       /\ ord'[o].st = "new" <=> ord[o].st = "new"
       /\ Tracks(o)' <=> Tracks(o)

\* Then attempts may be given up.
LEMMA KeptStep ==
  ASSUME StageIs, StageIs', SlotKept,
         \A o \in Orders : InFlight(o)' => InFlight(o)
  PROVE  Ledger!Next
<1>1. ASSUME NEW o \in Orders
      PROVE  \/ StageOf(o)' = StageOf(o)
             \/ StageOf(o) = "sent" /\ StageOf(o)' = "over"
  BY DEF StageIs, SlotKept
<1>2. QED
  BY <1>1, LedgerMisses DEF SlotKept

\* An entry begins, or makes another attempt.
LEMMA SendsStep ==
  ASSUME LifeInv, StageIs, StageIs', NEW q \in Orders, Enter(q) \/ RetrySends(q)
  PROVE  Ledger!Next
<1>1. pos.st = "none" /\ ord[q].st = "new" /\ UNCHANGED <<pos, ebooks>>
  BY DEF Enter, MayEnter, RetrySends, Send, LifeInv, EntryInv, engine
<1>2. \A o \in Orders : ord'[o].st = IF o = q THEN "live" ELSE ord[o].st
  BY DEF Enter, RetrySends, Send, LifeInv, TypeOK, ExchangeType, OrdType
<1>3. /\ InFlight(q)'
      /\ \A o \in Orders \ {q} : InFlight(o)' => InFlight(o)
  <2>1. CASE Enter(q)
    <3>1. op'.at = "sent" /\ op'.o = q /\ op'.last = 0
      BY <2>1, BlankTypes DEF Enter, OpType
    <3>2. QED
      BY <3>1, OrderFacts DEF InFlight
  <2>2. CASE RetrySends(q)
    <3>1. op.at = "retry" /\ op'.at = "sent" /\ op'.o = q /\ op'.last = op.last
      BY <2>2 DEF RetrySends, LifeInv, TypeOK, EntryType, OpType
    <3>2. QED
      BY <3>1 DEF InFlight
  <2>3. QED
    BY <2>1, <2>2
<1>4. /\ StageOf(q) = "new" /\ StageOf(q)' = "sent"
      /\ \A o \in Orders : StageOf(o) # "open"
  BY <1>1, <1>3 DEF StageIs, Tracks
<1>5. ASSUME NEW o \in Orders \ {q}
      PROVE  \/ StageOf(o)' = StageOf(o)
             \/ StageOf(o) = "sent" /\ StageOf(o)' = "over"
  BY <1>1, <1>2, <1>3 DEF StageIs, Tracks
<1>6. QED
  BY <1>1, <1>4, <1>5, LedgerSends

\* The entry has opened a position.
LEMMA TracksStep ==
  ASSUME LifeInv, StageIs, StageIs', Tracked
  PROVE  Ledger!Next
<1>1. PICK q \in Orders : q = op.o
  BY DEF Tracked, LifeInv, EntryInv
<1>2. InFlight(q) /\ pos.st = "none" /\ UNCHANGED <<ord, ebooks>>
  BY <1>1 DEF Tracked, LifeInv, EntryInv, InFlight, exchange
<1>3. \A o \in Orders : ~InFlight(o)' /\ (Tracks(o)' <=> o = q)
  BY <1>1, BlankTypes DEF Tracked, InFlight, Tracks
<1>4. /\ StageOf(q) = "sent" /\ StageOf(q)' = "open"
      /\ \A o \in Orders : StageOf(o) # "open"
  BY <1>2, <1>3 DEF StageIs, Tracks
<1>5. ASSUME NEW o \in Orders \ {q}
      PROVE  StageOf(o)' = IF StageOf(o) = "sent" THEN "over" ELSE StageOf(o)
  BY <1>2, <1>3 DEF StageIs, Tracks
<1>6. QED
  BY <1>2, <1>4, <1>5, LedgerOpens

\* The tracked position q is booked and gone.
LEMMA BooksStep ==
  ASSUME LifeInv, StageIs, StageIs', NEW q \in Orders, Tracks(q),
         ebooks' = [ebooks EXCEPT ![q] = @ + 1], pos' = NoPos,
         UNCHANGED <<ord, op>>
  PROVE  Ledger!Next
<1>1. \A o \in Orders : ~Tracks(o)' /\ (InFlight(o)' <=> InFlight(o))
  BY BlankTypes DEF Tracks, InFlight
<1>2. ebooks[q] = 0
  BY DEF LifeInv, CloseInv, BookedOnce, Tracks
<1>3. \A o \in Orders : ebooks'[o] = IF o = q THEN 1 ELSE ebooks[o]
  BY <1>2 DEF LifeInv, TypeOK, EngineType
<1>4. StageOf(q) = "open" /\ StageOf(q)' = "booked"
  BY <1>3 DEF StageIs
<1>5. ASSUME NEW o \in Orders \ {q} PROVE StageOf(o)' = StageOf(o)
  <2>1. ~Tracks(o)
    BY DEF Tracks
  <2>2. QED
    BY <1>1, <1>3, <2>1 DEF StageIs
<1>6. QED
  BY <1>4, <1>5, LedgerBooks

\* The process ends.
LEMMA EndsStep ==
  ASSUME LifeInv, StageIs, StageIs', Crash \/ StopEnds
  PROVE  Ledger!Next
<1>1. op' = NoOp /\ pos' = NoPos /\ UNCHANGED <<ord, ebooks>>
  BY DEF Crash, StopEnds, GoDown, exchange
<1>2. \A o \in Orders : ~Tracks(o)' /\ ~InFlight(o)'
  BY <1>1, BlankTypes DEF Tracks, InFlight
<1>3. ASSUME NEW o \in Orders
      PROVE  StageOf(o)' = IF StageOf(o) \in {"sent", "open"} THEN "over"
                           ELSE StageOf(o)
  BY <1>1, <1>2 DEF StageIs
<1>4. QED
  BY <1>1, <1>3, LedgerForgets

\* Every step of the slot is one of the ledger's.
LEMMA LedgerStep == LifeInv /\ [Next]_vars => [Ledger!Next]_(Ledger!vars)
<1> SUFFICES ASSUME LifeInv, [Next]_vars PROVE Ledger!Next
  OBVIOUS
<1>1. StageIs /\ LifeInv'
  BY StageFacts, LifeStep
<1>2. StageIs'
  BY <1>1, StageFactsNext
<1> USE <1>1, <1>2
<1>3. CASE UNCHANGED <<ord, op, pos, ebooks>>
  BY <1>3, KeptStep DEF SlotKept, Tracks, InFlight
<1>4. ASSUME NEW o \in Orders, Fills(o) \/ Expires(o) PROVE Ledger!Next
  <2>1. \A q \in Orders : ord'[q].st = "new" <=> ord[q].st = "new"
    BY <1>4 DEF Fills, Expires, LifeInv, TypeOK, ExchangeType, OrdType
  <2>2. UNCHANGED <<op, pos, ebooks>>
    BY <1>4 DEF Fills, Expires, entry, engine
  <2>3. QED
    BY <2>1, <2>2, KeptStep DEF SlotKept, Tracks, InFlight
<1>6. ASSUME NEW o \in Orders, Enter(o) \/ RetrySends(o) PROVE Ledger!Next
  BY <1>6, SendsStep
<1>7. ASSUME \/ OrderUnanswered \/ OrderRaised \/ OrderAccepted \/ PollFilled
             \/ PollAdopts \/ PollExpired \/ PollSilent
             \/ RetryFindsFill \/ RetryEnds
             \/ OrderRefused \/ SlotRefused
      PROVE  Ledger!Next
  <2>1. /\ op.at # "idle" /\ UNCHANGED <<pos, ebooks>>
        /\ \A o \in Orders : ord'[o].st = "new" <=> ord[o].st = "new"
    BY <1>7
      DEF OrderUnanswered, OrderRaised, OrderAccepted, PollFilled, PollAdopts,
          PollExpired, PollSilent, RetryFindsFill, RetryEnds, OrderRefused,
          SlotRefused, exchange, engine, LifeInv, TypeOK, ExchangeType, OrdType
  <2>2. op'.at = "idle" \/ (op'.o \in {op.o, op.last}
                            /\ op'.last \in {op.o, op.last})
    BY <1>7, BlankTypes
      DEF OrderUnanswered, OrderRaised, OrderAccepted, PollFilled, PollAdopts,
          PollExpired, PollSilent, RetryFindsFill, RetryEnds, OrderRefused,
          SlotRefused, AttemptOver, Finish, LifeInv, TypeOK, EntryType, OpType
  <2>3. \A o \in Orders : InFlight(o)' => InFlight(o)
    BY <2>1, <2>2 DEF InFlight
  <2>4. QED
    BY <2>1, <2>3, KeptStep DEF SlotKept, Tracks
<1>8. CASE Tracked
  BY <1>8, TracksStep
<1>9. CASE WatcherCloses \/ StopBegins \/ StaleMarked
  <2>1. UNCHANGED <<ord, op, ebooks>>
    BY <1>9 DEF WatcherCloses, StopBegins, StaleMarked, exchange, entry
  <2>2. \/ pos' = pos
        \/ pos'.o = pos.o /\ pos.st = "open" /\ pos'.st # "none"
    BY <1>9
      DEF WatcherCloses, StopBegins, StaleMarked, StartClose, MayClose,
          LifeInv, TypeOK, EngineType, PosType
  <2>3. QED
    BY <2>1, <2>2, KeptStep DEF SlotKept, Tracks, InFlight
<1>10. ASSUME NEW c \in Closers, CloseSucceeds(c) \/ CloseGivesUp(c)
       PROVE  Ledger!Next
  <2>1. cl[c].at # "none" /\ BookClose(c) /\ UNCHANGED <<ord, op>>
    BY <1>10 DEF CloseSucceeds, CloseGivesUp, exchange, entry
  <2>2. PICK q \in Orders : q = pos.o
    BY <2>1 DEF LifeInv, CloseInv, TypeOK, EngineType
  <2>3. pos.st = "closing" /\ cl[c].o = q
    BY <2>1, <2>2 DEF LifeInv, CloseInv
  <2>4. /\ Tracks(q) /\ pos' = NoPos
        /\ ebooks' = [ebooks EXCEPT ![q] = @ + 1]
    BY <2>1, <2>2, <2>3 DEF BookClose, Tracks
  <2>5. QED
    BY <2>1, <2>4, BooksStep
<1>11. CASE StaleBooked
  <2>1. PICK q \in Orders : q = pos.o
    BY <1>11 DEF StaleBooked, LifeInv, CloseInv, TypeOK, EngineType
  <2>2. /\ Tracks(q) /\ pos' = NoPos /\ UNCHANGED <<ord, op>>
        /\ ebooks' = [ebooks EXCEPT ![q] = @ + 1]
    BY <1>11, <2>1
      DEF StaleBooked, Tracks, LifeInv, CloseInv, exchange, entry
  <2>3. QED
    BY <2>2, BooksStep
<1>12. CASE Crash \/ StopEnds
  BY <1>12, EndsStep
<1>13. QED
  BY <1>3, <1>4, <1>6, <1>7, <1>8, <1>9, <1>10, <1>11, <1>12
    DEF Next, Exchange, Entry, Phantom, Close, Pass, vars, exchange, entry,
        engine, process, CooldownEnds, ClosedOutside, PhantomFlattens,
        PhantomGivesUp, CheckDone, CloseHits, CloseFails, RecFetch, RecCompares,
        OrphanSpared, OrphanGone, OrphanOrder, OrphanHit, OrphanClosed,
        OrphanFailed, OrphanBooked, StaleChecked, Boot

\* Nothing is sent, tracked or booked at the start.
LEMMA LedgerInit == Init => Ledger!Init
<1> SUFFICES ASSUME Init PROVE Ledger!Init
  OBVIOUS
<1>1. \A o \in Orders : StageOf(o) = "new"
  BY DEF Init, StageOf
<1>2. ebooks = [o \in Orders |-> 0]
  BY DEF Init
<1>3. QED
  BY <1>1, <1>2 DEF Ledger!Init

-----------------------------------------------------------------------------
(* Theorems.                                                               *)

\* The slot implements the ledger: through every interleaving of entries,
\* retries, closes, reconciliation passes and restarts nothing is sent while
\* a position is held, no order is tracked twice, and each tracked position
\* is booked once or forgotten with its process.
THEOREM SlotKeepsLedger == Spec => KeepsLedger
<1>1. QED
  BY LedgerInit, LedgerStep, LifeInvariant, PTL DEF Spec, KeepsLedger,
  Ledger!Spec

=============================================================================
