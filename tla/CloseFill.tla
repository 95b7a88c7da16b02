------------------------------ MODULE CloseFill ------------------------------
(***************************************************************************)
(* Which close of the exchange a closed position is booked with            *)
(* (live_executor.py close_position, close_position_capped,                *)
(* _close_fill_ws_or_rest, _poll_close_fill; mexc_private_ws.py).  The     *)
(* private stream pushes each close once and names the pair only, and the  *)
(* client keeps the last push; the history over REST names the position    *)
(* too, but whether the bot knows its number depends on a snapshot taken   *)
(* while the close is on its way.  Positions of the pair are numbered in   *)
(* the order they are opened.                                              *)
(***************************************************************************)
EXTENDS Integers, Sequences

CONSTANTS
  Window,        \* the 5 s a row may be older than the close asked for
  MaxPositions,  \* bound: positions opened
  MaxTime,       \* bound: time, while nothing is open
  MaxTries,      \* bound: closes asked for
  MaxDrops       \* bound: connections lost

CloseFillAssumptions ==
  /\ Window \in Nat /\ MaxPositions \in Nat /\ MaxTime \in Nat \ {0}
  /\ MaxTries \in Nat /\ MaxDrops \in Nat

VARIABLES
  now,
  opened,    \* positions opened so far
  held,      \* the last of them is open on the exchange
  closedAt,  \* when each was closed, 0 for not yet
  listed,    \* the closes the history over REST shows
  wire,      \* pushes on their way
  line,      \* the private stream is logged in
  drops,
  cached,    \* _closes[symbol]: the last push, and that it came after t0
  job,       \* the close under way
  tries,
  booked,    \* the close each position was booked with, 0 for none known
  mixed      \* history: positions whose close met an earlier one

vars == <<now, opened, held, closedAt, listed, wire, line, drops, cached, job, tries,
          booked, mixed>>

exchange == <<opened, held, closedAt, listed>>
stream == <<wire, line, drops, cached>>
result == <<booked, mixed>>

NotYet == -1
NoJob == [at |-> "none", capped |-> FALSE, pid |-> 0, since |-> 0]
Mine == opened
AtWork == job # NoJob

-----------------------------------------------------------------------------
(* The exchange.                                                           *)

Open ==
  /\ ~held /\ ~AtWork /\ opened < MaxPositions
  /\ opened > 0 => booked[opened] # NotYet
  /\ opened' = opened + 1 /\ held' = TRUE
  /\ UNCHANGED <<now, closedAt, listed, stream, job, tries, result>>

\* the position is gone: by the order of the bot or without it
Vanishes ==
  /\ held' = FALSE
  /\ closedAt' = [closedAt EXCEPT ![opened] = now]
  /\ wire' = IF line THEN Append(wire, opened) ELSE wire

Liquidated ==
  /\ held /\ Vanishes
  /\ UNCHANGED <<now, opened, listed, line, drops, cached, job, tries, result>>

Lists(i) ==
  /\ closedAt[i] > 0 /\ i \notin listed
  /\ listed' = listed \cup {i}
  /\ UNCHANGED <<now, opened, held, closedAt, stream, job, tries, result>>

Tick ==
  /\ now < MaxTime /\ ~AtWork /\ now' = now + 1
  /\ UNCHANGED <<exchange, stream, job, tries, result>>

-----------------------------------------------------------------------------
(* The private stream.                                                     *)

\* _on_position
Push ==
  /\ wire # <<>> /\ line
  /\ wire' = Tail(wire)
  /\ cached' = [id |-> Head(wire), fresh |-> AtWork]
  /\ mixed' = IF AtWork /\ Head(wire) # Mine THEN mixed \cup {Mine} ELSE mixed
  /\ UNCHANGED <<now, exchange, line, drops, job, tries, booked>>

Drop ==
  /\ line /\ drops < MaxDrops /\ drops' = drops + 1
  /\ line' = FALSE /\ wire' = <<>>
  /\ UNCHANGED <<now, exchange, cached, job, tries, result>>

Login ==
  /\ ~line /\ line' = TRUE
  /\ UNCHANGED <<now, exchange, wire, drops, cached, job, tries, result>>

-----------------------------------------------------------------------------
(* A close.                                                                *)

\* t0: what has been pushed so far is an earlier close
Asked(at, capped, pid) ==
  /\ job' = [at |-> at, capped |-> capped, pid |-> pid, since |-> now]
  /\ cached' = [cached EXCEPT !.fresh = FALSE]

\* close_position: the snapshot and close_all_positions go out together
Close ==
  /\ opened > 0 /\ booked[Mine] = NotYet /\ ~AtWork
  /\ tries < MaxTries /\ tries' = tries + 1
  /\ Asked("both", FALSE, 0)
  /\ UNCHANGED <<now, exchange, wire, line, drops, result>>

\* close_position_capped: the snapshot first
CloseCapped ==
  /\ held /\ ~AtWork
  /\ tries < MaxTries /\ tries' = tries + 1
  /\ \E pid \in {0, Mine} : Asked("capped", TRUE, pid)
  /\ UNCHANGED <<now, exchange, wire, line, drops, result>>

\* the snapshot shows the position while it is still there, or is not back in time
SnapshotTaken ==
  /\ job.at = "both" /\ job.pid = 0 /\ held
  /\ job' = [job EXCEPT !.pid = Mine]
  /\ UNCHANGED <<now, exchange, stream, tries, result>>

\* the order reaches the exchange and the answer comes back
OrderDone ==
  /\ job.at \in {"both", "capped"}
  /\ job' = [job EXCEPT !.at = "push"]
  /\ IF held THEN Vanishes ELSE UNCHANGED <<held, closedAt, wire>>
  /\ UNCHANGED <<now, opened, listed, line, drops, cached, tries, result>>

\* accepted and not carried out, or an IOC order that left a rest
OrderLeavesRest ==
  /\ job.at \in {"both", "capped"} /\ held
  /\ job' = [job EXCEPT !.at = "push"]
  /\ UNCHANGED <<now, exchange, stream, tries, result>>

\* no answer, or an error: the capped close falls back to the full one
OrderFails ==
  /\ job.at \in {"both", "capped"}
  /\ \/ held /\ Vanishes
     \/ UNCHANGED <<held, closedAt, wire>>
  /\ IF job.capped THEN Asked("both", FALSE, 0)
                   ELSE job' = NoJob /\ UNCHANGED cached
  /\ UNCHANGED <<now, opened, listed, line, drops, tries, result>>

Booked(id) ==
  /\ booked' = [booked EXCEPT ![Mine] = id]
  /\ job' = NoJob

\* wait_close: only a push received since t0 counts.  The variant takes what
\* is there.
Counts_any == cached.id # 0
Counts == cached.id # 0 /\ cached.fresh

PushTells ==
  /\ job.at = "push" /\ line /\ Counts
  /\ Booked(cached.id)
  /\ UNCHANGED <<now, exchange, stream, tries, mixed>>

PushSilent ==
  /\ job.at = "push" /\ ~(line /\ Counts)
  /\ job' = [job EXCEPT !.at = "rest"]
  /\ UNCHANGED <<now, exchange, stream, tries, result>>

\* _poll_close_fill: the position's own row, or without its number any recent one
Recent(i) == closedAt[i] >= job.since - Window
Found(i) == i \in listed /\ Recent(i) /\ job.pid \in {0, i}

RestTells(i) ==
  /\ job.at = "rest" /\ Found(i)
  /\ Booked(i)
  /\ mixed' = IF job.pid = 0 /\ i # Mine THEN mixed \cup {Mine} ELSE mixed
  /\ UNCHANGED <<now, exchange, stream, tries>>

\* Nothing found in time: the capped close asks for the full one, the full
\* one looks whether the position is gone and books it without a price.
RestSilent ==
  /\ job.at = "rest"
  /\ IF job.capped THEN Asked("both", FALSE, 0) /\ UNCHANGED booked
     ELSE /\ IF held THEN job' = NoJob /\ UNCHANGED booked ELSE Booked(0)
          /\ UNCHANGED cached
  /\ UNCHANGED <<now, exchange, wire, line, drops, tries, mixed>>

-----------------------------------------------------------------------------
Init ==
  /\ now = 1 /\ opened = 0 /\ held = FALSE
  /\ closedAt = [i \in 1 .. MaxPositions |-> 0] /\ listed = {}
  /\ wire = <<>> /\ line = TRUE /\ drops = 0 /\ cached = [id |-> 0, fresh |-> FALSE]
  /\ job = NoJob /\ tries = 0
  /\ booked = [i \in 1 .. MaxPositions |-> NotYet] /\ mixed = {}

Next ==
  \/ Open \/ Liquidated \/ Tick \/ Push \/ Drop \/ Login
  \/ Close \/ CloseCapped \/ SnapshotTaken \/ OrderDone \/ OrderLeavesRest \/ OrderFails
  \/ PushTells \/ PushSilent \/ RestSilent
  \/ \E i \in 1 .. MaxPositions : Lists(i) \/ RestTells(i)

Spec == Init /\ [][Next]_vars

-----------------------------------------------------------------------------
TypeOK ==
  /\ now \in 1 .. MaxTime /\ opened \in 0 .. MaxPositions
  /\ listed \subseteq 1 .. MaxPositions /\ cached.id \in 0 .. MaxPositions
  /\ job.at \in {"none", "both", "capped", "push", "rest"} /\ job.pid \in {0, opened}
  /\ booked \in [1 .. MaxPositions -> NotYet .. MaxPositions]

\* A position is booked with its own close or with none: the push of an
\* earlier position of the pair, kept by the client, is never taken for it,
\* whatever retries, fallbacks and lost connections came between.  Not when
\* the earlier push arrived while this close was under way, or the history
\* was asked without a number and the earlier close was seconds ago.
BookedWithItsOwnClose ==
  \A i \in 1 .. opened :
    booked[i] > 0 /\ i \notin mixed => booked[i] = i

\* The inductive invariant: while a close is under way, the number it knows
\* and a push that came since it was asked for are of the position it closes,
\* and what is not opened yet is not booked.
Job == [at : {"both", "capped", "push", "rest"}, capped : BOOLEAN, pid : {0, opened}, since : Nat]

FillInv ==
  /\ TypeOK
  /\ wire \in Seq(1 .. MaxPositions) /\ cached \in [id : 0 .. MaxPositions, fresh : BOOLEAN]
  /\ held => opened > 0
  /\ AtWork => opened > 0 /\ job \in Job
  /\ AtWork /\ cached.fresh => cached.id \in {0, opened} \/ opened \in mixed
  /\ \A i \in 1 .. MaxPositions : i > opened => booked[i] = NotYet
  /\ BookedWithItsOwnClose

=============================================================================
