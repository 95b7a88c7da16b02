--------------------------- MODULE FuturesSoftStart ---------------------------
(***************************************************************************)
(* The futures half of account warming: FuturesSoftStart in                *)
(* src/src/execution/futures_soft_start.py.  It holds at most one position *)
(* of its own, remembers it in a file that is rewritten atomically before  *)
(* every await that matters, and asks the exchange whenever an answer was  *)
(* lost or the file cannot be read.                                        *)
(*                                                                         *)
(* The engine is a coroutine.  job is what is left of the method that is   *)
(* running, one entry per await; the caller (SoftStartRunner) puts a job   *)
(* there and goes on when it is empty.  Every save succeeds, so the        *)
(* engine's memory and the file are one variable.                          *)
(***************************************************************************)
EXTENDS Naturals, Sequences

CONSTANTS
  Rechecks,       \* PENDING_RECHECKS
  LagReads,       \* reads that may miss an order which still lands
  MaxFaults       \* bound: calls without an answer, and process ends

ASSUME FuturesAssumptions ==
  /\ Rechecks \in Nat /\ LagReads \in Nat /\ MaxFaults \in Nat
  /\ LagReads < Rechecks

VARIABLES
  file,     \* FuturesState: the state file and its copy in memory
  job,      \* the awaits left of the running method
  tries,    \* reads done by the running reconcile_pending
  sending,  \* not dry_run and SOFT_START_LIVE, fixed when the process starts
  order,    \* the last open order: "none", "sent", "filled", "rejected", "late"
  held,     \* warming positions on the exchange
  faults    \* calls that failed so far

futures == <<file, job, tries, sending, order, held>>

-----------------------------------------------------------------------------
(* The state file.                                                         *)

\* bad: the file cannot be parsed.  pos: none, held, or due for a close.
\* pend: an open was sent and its answer is not known.  check: the file was
\* unreadable, the exchange has to be asked.  The exposure survives midnight
\* (_roll_day); the counters of the day are left out.
EmptyFile == [bad |-> FALSE, pos |-> "none", pend |-> FALSE, check |-> FALSE]

\* load_state and the end of __init__: what cannot be read is asked for.
Load(f) == IF f.bad THEN [EmptyFile EXCEPT !.check = TRUE] ELSE f

\* has_exposure
HasExposure(f) == f.pos # "none" \/ f.pend \/ f.check

-----------------------------------------------------------------------------
(* The methods, as lists of awaits.                                        *)

RecoverJob == <<"sweep", "reconcile", "closeDue">>
TickJob    == <<"sweep", "reconcile", "closeDue", "open">>
DrainJob   == <<"sweep", "reconcile", "close">>

\* what an entry of a job has to find in the state to do anything
Needed(name, f) ==
  /\ name = "sweep"     => f.check
  /\ name = "reconcile" => f.pend
  /\ name = "closeDue"  => f.pos = "due"
  /\ name = "close"     => f.pos # "none"
  /\ name = "open"      => f.pos = "none"

\* The rest of a job after its first entry: what finds nothing to do is
\* passed without an await.
Pruned(j, f) ==
  LET needed == {i \in DOMAIN j : Needed(j[i], f)}
  IN  IF needed = {} THEN <<>>
      ELSE SubSeq(j, CHOOSE i \in needed : \A k \in needed : i <= k, Len(j))

Fault == faults < MaxFaults /\ faults' = faults + 1

Step(name) == job # <<>> /\ Head(job) = name
Done       == job' = Pruned(Tail(job), file')

\* sweep_exchange: the position list could not be read, the flag stays for
\* the next call
SweepUnread ==
  /\ Step("sweep")
  /\ Fault
  /\ UNCHANGED <<file, tries, sending, order, held>>
  /\ Done

\* what is found is adopted with a hold of zero minutes
Sweep ==
  /\ Step("sweep")
  /\ file' = [file EXCEPT !.check = FALSE, !.pos = IF held > 0 THEN "due" ELSE @]
  /\ Done
  /\ UNCHANGED <<faults, tries, sending, order, held>>

\* one read failed: unresolved, the breadcrumb stays
ReconcileUnread ==
  /\ Step("reconcile")
  /\ Fault
  /\ tries' = 0
  /\ UNCHANGED <<file, sending, order, held>>
  /\ Done

\* _adopt and the bookkeeping after it
Adopted(f) == [f EXCEPT !.pos = "hold", !.pend = FALSE]

ReconcileFound ==
  /\ Step("reconcile")
  /\ held > 0
  /\ file' = Adopted(file)
  /\ tries' = 0 /\ Done
  /\ UNCHANGED <<faults, sending, order, held>>

\* the order is not on the exchange; MEXC may show it late
Missing == held = 0 /\ (order = "late" => tries < LagReads)

\* the last of the reads; variants stop after the first, or one too late
LastRead_first(n) == TRUE
LastRead_late(n) == n = Rechecks
LastRead(n) == n + 1 = Rechecks

ReconcileAgain ==
  /\ Step("reconcile")
  /\ Missing /\ ~LastRead(tries)
  /\ tries' = tries + 1
  /\ UNCHANGED <<faults, file, job, sending, order, held>>

ReconcileNever ==
  /\ Step("reconcile")
  /\ Missing /\ LastRead(tries)
  /\ file' = [file EXCEPT !.pend = FALSE]
  /\ tries' = 0 /\ Done
  /\ UNCHANGED <<faults, sending, order, held>>

-----------------------------------------------------------------------------
(* close_position; recover, tick and _drain_futures return after it.       *)

WantsClose == Step("close") \/ Step("closeDue")

\* a dry-run process leaves the record of a live position alone
CloseDry ==
  /\ WantsClose /\ ~sending
  /\ job' = <<>>
  /\ UNCHANGED <<faults, file, tries, sending, order, held>>

\* close_all_positions answered with code 0
CloseAccepted ==
  /\ WantsClose /\ sending
  /\ held' = 0
  /\ file' = [file EXCEPT !.pos = "none"]
  /\ job' = <<>>
  /\ UNCHANGED <<faults, tries, sending, order>>

\* an exception or another code; the order may have been executed;
\* the record stays
CloseFailed ==
  /\ WantsClose /\ sending
  /\ Fault
  /\ held' \in {held, 0}
  /\ job' = <<>>
  /\ UNCHANGED <<file, tries, sending, order>>

-----------------------------------------------------------------------------
(* open_position.                                                          *)

\* what tick and open_position check before pick_pair
MayOpen ==
  file.pos = "none" /\ ~file.pend /\ ~file.check

\* the day's orders are done, the pause or the night is not over, no pair
\* is fit, or the position is unaffordable
OpenSkipped ==
  /\ Step("open")
  /\ UNCHANGED <<faults, file, tries, sending, order, held>>
  /\ Done

OpenDry ==
  /\ Step("open") /\ MayOpen /\ ~sending
  /\ UNCHANGED <<faults, file, tries, sending, order, held>>
  /\ Done

\* The breadcrumb is on disk before the order leaves.  The variant writes
\* it only when an answer came.
Breadcrumb_after(f) == f
Breadcrumb(f) == [f EXCEPT !.pend = TRUE]

SendOpen ==
  /\ Step("open") /\ MayOpen /\ sending
  /\ file' = Breadcrumb(file)
  /\ order' = "sent"
  /\ job' = <<"answer">>
  /\ UNCHANGED <<faults, tries, sending, held>>

Opened ==
  /\ Step("answer") /\ order = "filled"
  /\ file' = [file EXCEPT !.pos = "hold", !.pend = FALSE]
  /\ order' = "none" /\ Done
  /\ UNCHANGED <<faults, tries, sending, held>>

OpenRejected ==
  /\ Step("answer") /\ order = "rejected"
  /\ file' = [file EXCEPT !.pend = FALSE]
  /\ order' = "none" /\ Done
  /\ UNCHANGED <<faults, tries, sending, held>>

\* an order nobody waits for any more: it may still land
Abandoned(o) == IF o \in {"sent", "late"} THEN "late" ELSE "none"

\* no answer: ask the exchange whether it landed
OpenUnanswered ==
  /\ Step("answer")
  /\ Fault
  /\ order' = Abandoned(order)
  /\ job' = <<"reconcile">>
  /\ UNCHANGED <<file, tries, sending, held>>

FuturesStep ==
  \/ SweepUnread \/ Sweep \/ ReconcileUnread \/ ReconcileFound
  \/ ReconcileAgain \/ ReconcileNever \/ CloseDry \/ CloseFailed
  \/ OpenSkipped \/ OpenDry \/ SendOpen \/ OpenRejected \/ OpenUnanswered

-----------------------------------------------------------------------------
(* The exchange and the clock.                                             *)

OrderFills ==
  /\ order \in {"sent", "late"}
  /\ held' = held + 1
  /\ order' = IF order = "sent" THEN "filled" ELSE "none"
  /\ UNCHANGED <<faults, file, job, tries, sending>>

OrderDies ==
  /\ order \in {"sent", "late"}
  /\ order' = IF order = "sent" THEN "rejected" ELSE "none"
  /\ UNCHANGED <<faults, file, job, tries, sending, held>>

\* liquidated, or closed by the operator
ClosedElsewhere ==
  /\ held > 0
  /\ held' = 0
  /\ UNCHANGED <<faults, file, job, tries, sending, order>>

HoldElapses ==
  /\ file.pos = "hold"
  /\ file' = [file EXCEPT !.pos = "due"]
  /\ UNCHANGED <<faults, job, tries, sending, order, held>>

FuturesEnv ==
  OrderFills \/ OrderDies \/ ClosedElsewhere \/ HoldElapses

-----------------------------------------------------------------------------
(* The types.  A method has at most four awaits left, and the wait for the *)
(* answer of an open is never followed by another.                         *)

Files == [bad : BOOLEAN, pos : {"none", "hold", "due"}, pend : BOOLEAN,
          check : BOOLEAN]
Orders == {"none", "sent", "filled", "rejected", "late"}
Awaits == {"sweep", "reconcile", "closeDue", "close", "open", "answer"}
IsJob(j) ==
  /\ j \in Seq(Awaits) /\ Len(j) <= 4
  /\ \A i \in 1 .. Len(j) : j[i] = "answer" => Len(j) = 1

=============================================================================
