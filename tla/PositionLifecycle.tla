--------------------------- MODULE PositionLifecycle ---------------------------
(***************************************************************************)
(* One live slot trading one pair: the entry order (place_ioc_open and the *)
(* end of _open_position), the phantom-fill check, the close               *)
(* (_close_position with its three escalating paths), the two passes of    *)
(* reconciliation, graceful shutdown, and the exchange they all act on.    *)
(*                                                                         *)
(* Everything runs on one asyncio loop, so the code between two awaits is  *)
(* one step.  The exchange decides an order or a close request at a moment *)
(* of its own; the answer travels back separately and may be lost.         *)
(*                                                                         *)
(* Of time only the grace of reconciliation (15 s) matters.  A submit with *)
(* its retry, the poll, the tail of an entry, a fetch and the closes of    *)
(* other orphans may each take about as long, and the engine counts from   *)
(* the signal: where a pass looks at an age, it may be on either side.     *)
(***************************************************************************)
EXTENDS Integers, FiniteSets

CONSTANTS
  MaxAttempts,   \* ioc_max_attempts
  MaxOrders,     \* bound: entry orders in one behaviour
  MaxCrashes     \* bound: crashes and graceful stops in one behaviour

ASSUME PositionLifecycleAssumptions ==
  /\ MaxAttempts \in Nat \ {0}
  /\ MaxOrders \in Nat \ {0} /\ MaxCrashes \in Nat

Orders == 1..MaxOrders
Closers == {"watcher", "shutdown"}

VARIABLES
  ord,      \* exchange: the entry orders
  ex,       \* exchange: the position on the symbol, id 0 = none
  npos,     \* exchange: last position id issued
  phase,    \* "down", "boot" (startup_reconcile), "up", "stopping"
  op,       \* the entry in flight (_pending_submissions admits one)
  checks,   \* orders with a phantom check running
  blocking, \* the check that holds the symbol in _phantom_unknown, 0 = none
  pos,      \* the ShadowPosition in _open_positions
  cl,       \* the calls of _close_position in progress
  count,    \* open_live_positions[symbol]
  cooling,  \* _cooldown_until has not passed
  rec,      \* the pass of reconciliation
  restarts, \* crashes and stops so far
  taken,    \* history: orders this process has tracked as positions
  doubt,    \* history: accepted orders whose poll ended without an answer
  ebooks,   \* history: how often record_close ran for a tracked order
  settled   \* history: positions the last pass read, then booked from a success

exchange == <<ord, ex, npos>>
entry    == <<op, checks, blocking, doubt>>
engine   == <<pos, cl, count, cooling, taken, ebooks, settled>>
process  == <<phase, restarts>>
vars     == <<exchange, entry, engine, rec, process>>

-----------------------------------------------------------------------------
NoEx   == [id |-> 0, units |-> 0]
NoOp   == [at |-> "idle", o |-> 0, last |-> 0, unknown |-> FALSE, n |-> 0,
           id |-> 0]
NoPos  == [st |-> "none", o |-> 0, id |-> 0]
NoCl   == [at |-> "none", o |-> 0, id |-> 0, hit |-> FALSE]
NoRec  == [at |-> "idle", ok |-> TRUE, id |-> 0, upto |-> 0, o |-> 0,
           hit |-> FALSE]

Running == phase \in {"boot", "up", "stopping"}

\* record_close stops the counter at zero; the variant does not.
Decrement_unclamped == count - 1
Decrement == IF count > 0 THEN count - 1 ELSE 0

Init ==
  /\ ord = [o \in Orders |-> [st |-> "new", id |-> 0]]
  /\ ex = NoEx /\ npos = 0
  /\ phase = "up" /\ restarts = 0
  /\ op = NoOp /\ checks = {} /\ blocking = 0 /\ doubt = {}
  /\ pos = NoPos /\ cl = [c \in Closers |-> NoCl]
  /\ count = 0 /\ cooling = FALSE
  /\ taken = {} /\ ebooks = [o \in Orders |-> 0] /\ settled = {}
  /\ rec = NoRec

-----------------------------------------------------------------------------
(* The exchange.                                                           *)

\* A fill opens a position or adds to the one that is there.
Fills(o) ==
  /\ ord[o].st = "live"
  /\ \/ /\ ex.id = 0
        /\ ex' = [id |-> npos + 1, units |-> 1]
        /\ npos' = npos + 1
     \/ /\ ex.id # 0
        /\ ex' = [ex EXCEPT !.units = @ + 1] /\ npos' = npos
  /\ ord' = [ord EXCEPT ![o] = [st |-> "filled", id |-> ex'.id]]
  /\ UNCHANGED <<entry, engine, rec, process>>

Expires(o) ==
  /\ ord[o].st = "live"
  /\ ord' = [ord EXCEPT ![o].st = "dead"]
  /\ UNCHANGED <<ex, npos, entry, engine, rec, process>>

\* A liquidation, or a close by hand
ClosedOutside ==
  /\ ex.id # 0
  /\ ex' = NoEx
  /\ UNCHANGED <<ord, npos, entry, engine, rec, process>>

-----------------------------------------------------------------------------
(* The entry: gates, attempts, fill poll, phantom check.                   *)

\* Entry orders are numbered in the order they are sent.
Send(o) ==
  /\ ord[o].st = "new" /\ \A q \in 1..(o - 1) : ord[q].st # "new"
  /\ ord' = [ord EXCEPT ![o].st = "live"]

\* _enter_for_slot, can_open_live and the phantom gate of place_ioc_open; the
\* variant counts on the cooldown alone.
MayEnter_holding == phase = "up" /\ op.at = "idle" /\ ~cooling /\ blocking = 0
MayEnter ==
  /\ phase = "up" /\ op.at = "idle"
  /\ ~cooling /\ pos.st = "none" /\ count = 0 /\ blocking = 0

Enter(o) ==
  /\ MayEnter /\ Send(o)
  /\ op' = [NoOp EXCEPT !.at = "sent", !.o = o, !.n = 1]
  /\ UNCHANGED <<ex, npos, checks, blocking, doubt, engine, rec, process>>

CooldownEnds ==
  /\ cooling /\ cooling' = FALSE
  /\ UNCHANGED <<exchange, entry, pos, cl, count, taken, ebooks, settled,
                 rec, process>>

\* The end of place_ioc_open without a confirmed fill: an order id in hand
\* gets a phantom check, and an unknown outcome blocks the symbol.  The
\* variant does not block it.
Finish_unblocked(last, unknown) ==
  /\ op' = NoOp
  /\ checks' = IF last # 0 THEN checks \cup {last} ELSE checks
  /\ blocking' = blocking

\* The variant takes an unanswered order for one that never reached a book.
Finish_unchecked(last, unknown) ==
  /\ op' = NoOp
  /\ checks' = IF last # 0 /\ ~unknown THEN checks \cup {last} ELSE checks
  /\ blocking' = blocking

Finish(last, unknown) ==
  /\ op' = NoOp
  /\ checks' = IF last # 0 THEN checks \cup {last} ELSE checks
  /\ blocking' = IF last # 0 /\ unknown THEN last ELSE blocking

\* An attempt is over; _outcome_unknown keeps the value of the last poll.
AttemptOver(last, unknown) ==
  \/ /\ op.n < MaxAttempts
     /\ op' = [op EXCEPT !.at = "retry", !.last = last, !.unknown = unknown]
     /\ UNCHANGED <<checks, blocking>>
  \/ /\ op.n = MaxAttempts
     /\ Finish(last, unknown)

\* No usable answer: the submit timed out, or came back without an order id
OrderUnanswered ==
  /\ op.at = "sent"
  /\ AttemptOver(op.last, op.unknown)
  /\ UNCHANGED <<exchange, doubt, engine, rec, process>>

\* An exception on submit is not retried.
OrderRaised ==
  /\ op.at = "sent"
  /\ Finish(op.last, op.unknown)
  /\ UNCHANGED <<exchange, doubt, engine, rec, process>>

OrderRefused ==
  /\ op.at = "sent" /\ ord[op.o].st = "live"
  /\ ord' = [ord EXCEPT ![op.o].st = "dead"]
  /\ AttemptOver(op.last, op.unknown)
  /\ UNCHANGED <<ex, npos, doubt, engine, rec, process>>

\* A slot-level refusal returns at once, without the phantom check.
SlotRefused ==
  /\ op.at = "sent" /\ ord[op.o].st = "live"
  /\ ord' = [ord EXCEPT ![op.o].st = "dead"]
  /\ op' = NoOp
  /\ UNCHANGED <<ex, npos, checks, blocking, doubt, engine, rec, process>>

OrderAccepted ==
  /\ op.at = "sent"
  /\ op' = [op EXCEPT !.at = "poll", !.last = op.o]
  /\ UNCHANGED <<exchange, checks, blocking, doubt, engine, rec, process>>

\* The private stream or the REST poll shows the deal.
PollFilled ==
  /\ op.at = "poll" /\ ord[op.o].st = "filled"
  /\ op' = [op EXCEPT !.at = "opened", !.id = ord[op.o].id]
  /\ UNCHANGED <<exchange, checks, blocking, doubt, engine, rec, process>>

\* The REST poll finds no deal of the order and takes the position the symbol
\* has for its fill, whoever opened it.
PollAdopts ==
  /\ op.at = "poll" /\ ex.id # 0
  /\ op' = [op EXCEPT !.at = "opened", !.id = ex.id]
  /\ UNCHANGED <<exchange, checks, blocking, doubt, engine, rec, process>>

\* The private stream shows a terminal state without a deal.
PollExpired ==
  /\ op.at = "poll" /\ ord[op.o].st = "dead"
  /\ AttemptOver(op.last, FALSE)
  /\ UNCHANGED <<exchange, doubt, engine, rec, process>>

\* Neither: the REST poll runs into its timeout.
PollSilent ==
  /\ op.at = "poll"
  /\ AttemptOver(op.last, TRUE)
  /\ doubt' = doubt \cup {op.o}
  /\ UNCHANGED <<exchange, engine, rec, process>>

\* Before another attempt _has_open_position is asked; a failed read counts
\* as "no".
RetrySends(o) ==
  /\ op.at = "retry" /\ Send(o)
  /\ op' = [op EXCEPT !.at = "sent", !.o = o, !.n = @ + 1]
  /\ UNCHANGED <<ex, npos, checks, blocking, doubt, engine, rec, process>>

\* There is a position, and it counts as the fill of the earlier order ...
RetryFindsFill ==
  /\ op.at = "retry" /\ ex.id # 0
  /\ op' = [op EXCEPT !.at = "opened", !.o = IF op.last # 0 THEN op.last ELSE @,
                      !.id = ex.id]
  /\ doubt' = doubt \ {op.last}
  /\ UNCHANGED <<exchange, checks, blocking, engine, rec, process>>

\* ... or it is gone when its size is asked for, or the book has no price
RetryEnds ==
  /\ op.at = "retry"
  /\ Finish(op.last, op.unknown)
  /\ UNCHANGED <<exchange, doubt, engine, rec, process>>

\* The tail of the entry is over: record_open, and the position joins
\* _open_positions with its watcher.
Tracked ==
  /\ op.at = "opened"
  /\ pos' = [st |-> "open", o |-> op.o, id |-> op.id]
  /\ count' = count + 1 /\ taken' = taken \cup {op.o}
  /\ op' = NoOp
  /\ UNCHANGED <<exchange, checks, blocking, doubt, cl, cooling, ebooks,
                 settled, rec, process>>

\* A check ends, and with it the block it may have held.
CheckDone(o) ==
  /\ checks' = checks \ {o} /\ doubt' = doubt \ {o}
  /\ blocking' = IF blocking = o THEN 0 ELSE blocking

\* A window finds the deals and sells them with a market order, which may
\* fail; it is not tried again.
PhantomFlattens(o) ==
  /\ Running /\ o \in checks /\ ord[o].st = "filled"
  /\ \/ ex' = ex
     \/ ex.units > 1 /\ ex' = [ex EXCEPT !.units = @ - 1]
     \/ ex.units = 1 /\ ex' = NoEx
  /\ CheckDone(o)
  /\ UNCHANGED <<ord, npos, op, engine, rec, process>>

\* The last window saw nothing, or could not read.
PhantomGivesUp(o) ==
  /\ Running /\ o \in checks
  /\ CheckDone(o)
  /\ UNCHANGED <<exchange, op, engine, rec, process>>

-----------------------------------------------------------------------------
(* The close.                                                              *)

\* The guard of _close_position; the variant drops is_closing.
MayClose_anytime == pos.st \in {"open", "closing"}
MayClose == pos.st = "open"

StartClose(c) ==
  /\ MayClose
  /\ pos' = [pos EXCEPT !.st = "closing"]
  /\ cl' = [cl EXCEPT ![c] = [NoCl EXCEPT !.at = "first", !.o = pos.o,
                                       !.id = pos.id]]

\* An exit of the strategy, or the hard ceiling on the age
WatcherCloses ==
  /\ phase = "up" /\ cl["watcher"].at = "none"
  /\ StartClose("watcher")
  /\ UNCHANGED <<exchange, entry, count, cooling, taken, ebooks, settled, rec,
                 process>>

\* The exchange carries out close_all or the market order, if the symbol has
\* a position, whether or not the caller will hear of it.
CloseHits(c) ==
  /\ cl[c].at \in {"first", "second", "market"} /\ ~cl[c].hit /\ ex.id # 0
  /\ ex' = NoEx /\ cl' = [cl EXCEPT ![c].hit = TRUE]
  /\ UNCHANGED <<ord, npos, entry, pos, count, cooling, taken, ebooks, settled,
                 rec, process>>

\* From pos.close() to record_close there is no await.
BookClose(c) ==
  /\ ebooks' = [ebooks EXCEPT ![cl[c].o] = @ + 1]
  /\ count' = Decrement
  /\ cooling' = TRUE
  /\ pos' = IF pos.o = cl[c].o THEN NoPos ELSE pos
  /\ cl' = [cl EXCEPT ![c] = NoCl]

\* The market order has nothing to sell when the quantity rounds to no
\* contract; if the account cannot be read either, it reports success.
NothingToSell(c) == cl[c].at = "market"

\* Otherwise success needs the fill or an explicit "no such position".
CloseSucceeds(c) ==
  /\ cl[c].at \in {"first", "second", "market"}
  /\ ex.id # cl[c].id \/ NothingToSell(c)
  /\ BookClose(c)
  /\ settled' = settled \cup ({cl[c].id} \cap {rec.id})
  /\ UNCHANGED <<exchange, entry, taken, rec, process>>

\* close_position, again after 1 s, then market_close_position, then an alert
Escalation == [first |-> "second", second |-> "market", market |-> "alert"]

\* A timeout, an error, a refusal, or a verification that proves nothing
CloseFails(c) ==
  /\ cl[c].at \in DOMAIN Escalation
  /\ cl' = [cl EXCEPT ![c].at = Escalation[@], ![c].hit = FALSE]
  /\ UNCHANGED <<exchange, entry, pos, count, cooling, taken, ebooks, settled,
                 rec, process>>

\* All paths failed: the close is booked all the same and the position is
\* forgotten; the variant keeps it, still closing.
CloseGivesUp_kept(c) ==
  /\ cl[c].at = "alert"
  /\ cl' = [cl EXCEPT ![c] = NoCl]
  /\ UNCHANGED <<exchange, entry, pos, count, cooling, taken, ebooks, settled,
                 rec, process>>

CloseGivesUp(c) ==
  /\ cl[c].at = "alert"
  /\ BookClose(c)
  /\ UNCHANGED <<exchange, entry, taken, settled, rec, process>>

-----------------------------------------------------------------------------
(* Reconciliation.                                                         *)

\* A pass ends; trading starts after the pass of the boot.
PassOver ==
  /\ rec' = NoRec
  /\ phase' = IF phase = "boot" THEN "up" ELSE phase

\* What a pass believes of the account; upto, the last position the exchange
\* had opened when it answered, is history.  The variant takes a failed read for
\* an empty account.
Snapshot_trusting(ok) ==
  [NoRec EXCEPT !.at = "fetched", !.id = IF ok THEN ex.id ELSE 0,
                !.upto = npos]

Snapshot(ok) ==
  [NoRec EXCEPT !.at = "fetched", !.ok = ok, !.id = IF ok THEN ex.id ELSE 0,
                !.upto = npos]

\* get_open_positions: the exchange answers now, the pass goes on later.
RecFetch(ok) ==
  /\ phase \in {"boot", "up"} /\ rec.at = "idle"
  /\ rec' = Snapshot(ok) /\ settled' = {}
  /\ UNCHANGED <<exchange, entry, pos, cl, count, cooling, taken, ebooks, process>>

\* The engine's view is read when the answer is in.  startup_reconcile has
\* no engine to look at.
IsOrphan ==
  /\ rec.id # 0
  /\ phase = "boot" \/ pos.st \notin {"open", "closing"}

MaybeStale ==
  rec.ok /\ rec.id = 0 /\ phase # "boot" /\ pos.st = "open"

RecCompares ==
  /\ rec.at = "fetched"
  /\ \/ /\ IsOrphan
        /\ rec' = [rec EXCEPT !.at = "orphan"] /\ UNCHANGED phase
     \/ /\ MaybeStale
        /\ rec' = [rec EXCEPT !.at = "stale", !.o = pos.o] /\ UNCHANGED phase
     \/ ~IsOrphan /\ ~MaybeStale /\ PassOver
  /\ UNCHANGED <<exchange, entry, engine, restarts>>

\* Case A, an orphan at a time.  When its turn comes it may be younger than
\* the grace, by the exchange's clock; startup_reconcile has no grace.
OrphanSpared ==
  /\ rec.at = "orphan" /\ phase # "boot"
  /\ PassOver
  /\ UNCHANGED <<exchange, entry, engine, restarts>>

\* Older: market_close_position takes a snapshot of its own.  If the symbol
\* is gone it succeeds without a fill, and the history of the position named
\* by the first snapshot is read for its result, which may not be there yet.
OrphanGone ==
  /\ rec.at = "orphan" /\ ex.id = 0
  /\ \/ rec' = [rec EXCEPT !.at = "book"] /\ UNCHANGED phase
     \/ PassOver
  /\ UNCHANGED <<exchange, entry, engine, restarts>>

\* Otherwise, or if that snapshot fails, the market order goes out.
OrphanOrder ==
  /\ rec.at = "orphan"
  /\ \E id \in {rec.id} \cup ({ex.id} \ {0}) :
       rec' = [rec EXCEPT !.at = "order", !.id = id]
  /\ UNCHANGED <<exchange, entry, engine, process>>

OrphanHit ==
  /\ rec.at = "order" /\ ~rec.hit /\ ex.id # 0
  /\ ex' = NoEx /\ rec' = [rec EXCEPT !.hit = TRUE]
  /\ UNCHANGED <<ord, npos, entry, engine, process>>

\* Confirmed; without a history row nothing is booked.
OrphanClosed ==
  /\ rec.at = "order" /\ ex.id # rec.id
  /\ \/ rec' = [rec EXCEPT !.at = "book"] /\ UNCHANGED phase
     \/ PassOver
  /\ UNCHANGED <<exchange, entry, engine, restarts>>

OrphanFailed ==
  /\ rec.at = "order" /\ PassOver
  /\ UNCHANGED <<exchange, entry, engine, restarts>>

\* After the alert and the INSERT: record_close of the slot
OrphanBooked ==
  /\ rec.at = "book"
  /\ count' = Decrement
  /\ PassOver
  /\ UNCHANGED <<exchange, entry, pos, cl, cooling, taken, ebooks, settled,
                 restarts>>

\* Case B, after Case A of other orphans: the grace is checked now, the
\* position was listed before.
StaleChecked ==
  /\ rec.at = "stale"
  /\ \/ rec' = [rec EXCEPT !.at = "history"] /\ UNCHANGED phase
     \/ PassOver
  /\ UNCHANGED <<exchange, entry, engine, restarts>>

\* mark_position_closed_externally up to its INSERT; a no-op if the position
\* has been closed meanwhile or is being closed
StaleMarked ==
  /\ rec.at = "history"
  /\ \/ /\ pos.o = rec.o /\ pos.st = "open"
        /\ pos' = [pos EXCEPT !.st = "external"]
        /\ rec' = [rec EXCEPT !.at = "persist"] /\ UNCHANGED phase
     \/ ~(pos.o = rec.o /\ pos.st = "open") /\ PassOver /\ UNCHANGED pos
  /\ UNCHANGED <<exchange, entry, cl, count, cooling, taken, ebooks, settled,
                 restarts>>

\* ... and the rest of it; the variant is the version without record_close.
StaleBooked_uncounted ==
  /\ rec.at = "persist"
  /\ pos' = NoPos /\ PassOver
  /\ UNCHANGED <<exchange, entry, cl, count, cooling, taken, ebooks, settled,
                 restarts>>

StaleBooked ==
  /\ rec.at = "persist"
  /\ ebooks' = [ebooks EXCEPT ![pos.o] = @ + 1] /\ count' = Decrement
  /\ pos' = NoPos /\ PassOver
  /\ UNCHANGED <<exchange, entry, cl, cooling, taken, settled, restarts>>

-----------------------------------------------------------------------------
(* The process.                                                            *)

\* Memory is gone; orders on their way are not.
GoDown ==
  /\ phase' = "down"
  /\ op' = NoOp /\ checks' = {} /\ blocking' = 0 /\ doubt' = {}
  /\ pos' = NoPos /\ cl' = [c \in Closers |-> NoCl]
  /\ count' = 0 /\ cooling' = FALSE /\ taken' = {}
  /\ rec' = NoRec

Crash ==
  /\ phase \in {"boot", "up"} /\ restarts < MaxCrashes
  /\ restarts' = restarts + 1
  /\ GoDown
  /\ UNCHANGED <<exchange, ebooks, settled>>

\* stop(): the detector is silent already; the open position is closed ...
StopBegins ==
  /\ phase = "up" /\ restarts < MaxCrashes
  /\ phase' = "stopping" /\ restarts' = restarts + 1
  /\ \/ StartClose("shutdown")
     \/ ~MayClose /\ UNCHANGED <<pos, cl>>
  /\ UNCHANGED <<exchange, entry, count, cooling, taken, ebooks, settled, rec>>

\* ... and then the watchers are cancelled, wherever they are.
StopEnds ==
  /\ phase = "stopping" /\ cl["shutdown"].at = "none"
  /\ GoDown
  /\ UNCHANGED <<exchange, ebooks, settled, restarts>>

Boot ==
  /\ phase = "down" /\ phase' = "boot"
  /\ UNCHANGED <<exchange, entry, engine, rec, restarts>>

-----------------------------------------------------------------------------
Exchange ==
  \/ \E o \in Orders : Fills(o) \/ Expires(o)
  \/ ClosedOutside

Entry ==
  \/ \E o \in Orders : RetrySends(o)
  \/ OrderUnanswered \/ OrderRaised \/ OrderRefused \/ SlotRefused
  \/ OrderAccepted \/ PollFilled \/ PollAdopts \/ PollExpired \/ PollSilent
  \/ RetryFindsFill \/ RetryEnds \/ Tracked

Phantom == \E o \in Orders : PhantomFlattens(o) \/ PhantomGivesUp(o)

Close(c) == CloseHits(c) \/ CloseSucceeds(c) \/ CloseFails(c) \/ CloseGivesUp(c)

Pass ==
  \/ RecCompares
  \/ OrphanSpared \/ OrphanGone \/ OrphanOrder \/ OrphanHit \/ OrphanClosed
  \/ OrphanFailed \/ OrphanBooked \/ StaleChecked \/ StaleMarked \/ StaleBooked

Next ==
  \/ Exchange
  \/ \E o \in Orders : Enter(o)
  \/ Entry \/ CooldownEnds \/ Phantom
  \/ WatcherCloses \/ (\E c \in Closers : Close(c))
  \/ (\E ok \in BOOLEAN : RecFetch(ok)) \/ Pass
  \/ Crash \/ StopBegins \/ StopEnds \/ Boot

Spec == Init /\ [][Next]_vars

\* Coroutines that can go on do; the exchange decides orders.  A read of the
\* account, and a close order, do not fail for ever, and an orphan that stays
\* does not stay younger than the grace.
Fairness ==
  /\ WF_vars(Entry) /\ WF_vars(Phantom) /\ WF_vars(CooldownEnds)
  /\ \A o \in Orders : WF_vars(Fills(o) \/ Expires(o))
  /\ WF_vars(WatcherCloses)
  /\ \A c \in Closers :
       WF_vars(CloseSucceeds(c) \/ CloseFails(c) \/ CloseGivesUp(c))
  /\ SF_vars(RecFetch(TRUE)) /\ SF_vars(OrphanOrder)
  /\ WF_vars(Pass) /\ SF_vars(OrphanHit)
  /\ WF_vars(Boot \/ StopEnds)

FairSpec == Spec /\ Fairness

-----------------------------------------------------------------------------
(* Properties.                                                             *)

OrderIds == Orders \cup {0}

OrdType == [st : {"new", "live", "dead", "filled"}, id : Nat]
ExType  == [id : Nat, units : Nat]
OpType  == [at : {"idle", "sent", "poll", "retry", "opened"}, o : OrderIds,
            last : OrderIds, unknown : BOOLEAN, n : 0..MaxAttempts,
            id : Nat]
PosType == [st : {"none", "open", "closing", "external"}, o : OrderIds,
            id : Nat]
ClType  == [at : {"none", "first", "second", "market", "alert"},
            o : OrderIds, id : Nat, hit : BOOLEAN]
RecType == [at : {"idle", "fetched", "orphan", "order", "book", "stale",
                  "history", "persist"},
            ok : BOOLEAN, id : Nat, upto : Nat, o : OrderIds,
            hit : BOOLEAN]

ExchangeType == ord \in [Orders -> OrdType] /\ ex \in ExType /\ npos \in Nat

EntryType ==
  /\ op \in OpType
  /\ checks \subseteq Orders /\ blocking \in OrderIds /\ doubt \subseteq Orders

EngineType ==
  /\ pos \in PosType /\ cl \in [Closers -> ClType]
  /\ count \in 0..1 /\ cooling \in BOOLEAN
  /\ taken \subseteq Orders /\ ebooks \in [Orders -> Nat] /\ settled \subseteq Nat

ReconType == rec \in RecType

ProcessType ==
  phase \in {"down", "boot", "up", "stopping"} /\ restarts \in 0..MaxCrashes

\* Every variable has its type; the slot counts one position at most.
TypeOK ==
  ExchangeType /\ EntryType /\ EngineType /\ ReconType /\ ProcessType

\* A trade the engine has tracked is booked exactly once when it leaves
\* _open_positions, whichever of the watcher, stop() and Case B got there
\* first, and not before (the is_closing guard).
BookedOnce ==
  \A o \in taken : ebooks[o] = IF pos.st # "none" /\ pos.o = o THEN 0 ELSE 1

\* A slot that tracks nothing is not held back by its own counter: no path
\* out of _open_positions "silently bricks the slot".
NoBrickedSlot == pos.st = "none" => count = 0

\* Case B declares a position closed only if the exchange no longer has it.
MarkedIsGone ==
  [][pos.st = "open" /\ pos'.st = "external" => ex.id # pos.id]_vars

\* Case B is wrong only about positions that were opened after the exchange
\* had answered: one that existed then is declared closed only if it is gone,
\* however late the answer is used.  A failed read is "unknown", not empty.
MarkedWasGone ==
  [][pos.st = "open" /\ pos'.st = "external" /\ pos.id <= rec.upto
       => ex.id # pos.id]_vars

\* No order goes out while the outcome of an earlier one is unknown: it
\* could stack on a position that may already exist (_phantom_unknown).
NoOrderOnUnknown ==
  [][(\E o \in Orders : ord[o].st = "new" /\ ord'[o].st = "live")
       => doubt = {}]_vars

\* When an entry is over, every order that may have filled late is under a
\* phantom check, "including one created on an earlier attempt".
DoubtIsChecked == op.at = "idle" => doubt \subseteq checks

\* The PnL of a position whose close the engine has booked from a success is
\* not booked again as an orphan's: reconciliation "must NOT also
\* orphan-close and re-book" it.
NotBookedTwice == [][OrphanBooked => rec.id \notin settled]_vars

\* The ledger's view of an order
StageOf(o) ==
  IF ord[o].st = "new" THEN "new"
  ELSE IF pos.st # "none" /\ pos.o = o THEN "open"
  ELSE IF op.at # "idle" /\ o \in {op.o, op.last} THEN "sent"
  ELSE IF ebooks[o] = 0 THEN "over" ELSE "booked"

Ledger == INSTANCE TradeLedger WITH
  Trades <- Orders, stage <- [o \in Orders |-> StageOf(o)], books <- ebooks

\* The slot keeps the ledger's promise: nothing is sent while it holds a
\* position, no order is tracked twice, and no trade is booked but once, by
\* whichever path, in this process or in a later one.
KeepsLedger == Ledger!Spec

\* Every position the exchange holds for the slot is closed in the end,
\* tracked or not, through failed closes, missed fills and restarts.
EveryPositionEnds == \A i \in 1..MaxOrders : (ex.id = i) ~> (ex.id # i)
=============================================================================
