--------------------------- MODULE SharedConnection ---------------------------
(***************************************************************************)
(* The one connection all coroutines share (Database of                    *)
(* src/src/storage/db.py, LiveDatabase of db_live.py, SignalWriter of      *)
(* src/src/strategy/signal.py).  Each statement is an entry of the queue   *)
(* of aiosqlite's thread, its answer resumes the coroutine, and a          *)
(* transaction belongs to the connection: what one coroutine opens another *)
(* one commits or rolls back.  Pruning and the panel write to the file     *)
(* through connections of their own.                                       *)
(***************************************************************************)
EXTENDS Integers, Sequences

CONSTANTS
  Tasks,      \* a call of the database each
  Attempts,   \* tries of a write on "database is locked"
  MaxOutside  \* bound: commits of other connections

ConnectionAssumptions == Attempts \in Nat \ {0} /\ MaxOutside \in Nat

VARIABLES
  file,     \* tasks whose row is committed
  tx,       \* open: in_transaction.  rows: written and not committed.
            \* snap: what reads and writes see, an earlier state if not outside
  cursors,  \* tasks with an unfinished SELECT
  task,     \* kind, at: the statement awaited, tries, stale: read an old state
  queue,    \* statements for the thread
  results,  \* answers for the loop
  locked,   \* another connection holds the writer's lock
  outside,  \* commits of other connections
  undone,   \* history: tasks whose row another one rolled back
  lone      \* history: the task that has the connection for itself

tables == <<file, tx, cursors, undone>>
others == <<locked, outside>>
vars == <<tables, task, queue, results, others, lone>>

None == -1
Nobody == "nobody"

\* execute and executemany, execute_write, _write_batch, fetchone and fetchall
Kinds == {"write", "control", "batch", "read"}
AtRest(t) == task[t].at \in {"new", "done", "failed"}

Ask(t, op) == task' = [task EXCEPT ![t].at = op] /\ queue' = Append(queue, t)
Rest(t, at) == task' = [task EXCEPT ![t].at = at] /\ UNCHANGED queue

-----------------------------------------------------------------------------
(* The loop: a coroutine up to its next statement.                         *)

\* A read first commits the transaction it finds, "orphaned" or not.
FirstOp(kind) ==
  IF kind # "read" THEN "insert" ELSE IF tx.open THEN "commit" ELSE "select"

Begin(t, kind) ==
  /\ task[t].at = "new"
  /\ task' = [task EXCEPT ![t].kind = kind, ![t].at = FirstOp(kind)]
  /\ queue' = Append(queue, t)
  /\ lone' = IF \A u \in Tasks \ {t} : AtRest(u) THEN t ELSE Nobody
  /\ UNCHANGED <<tables, results, others>>

Answer == Head(results)
Answered(t, op) ==
  /\ results # <<>> /\ Answer.t = t /\ task[t].at = op
  /\ results' = Tail(results)
  /\ UNCHANGED <<tables, others, lone>>

Inserted(t) ==
  /\ Answered(t, "insert") /\ Answer.ok
  /\ Ask(t, "commit")

LastTry(t) == task[t].tries + 1 >= Attempts

\* the last failure is raised; the batch writer catches it
GivesUp(t) ==
  /\ Answered(t, "insert") /\ ~Answer.ok /\ LastTry(t)
  /\ IF task[t].kind = "batch" THEN Ask(t, "undo") ELSE Rest(t, "failed")

\* retry_if_locked takes the transaction back before it waits, execute_write
\* does not
TriesAgain(t) ==
  /\ Answered(t, "insert") /\ ~Answer.ok /\ ~LastTry(t)
  /\ LET back == task[t].kind # "control" /\ tx.open
     IN  /\ task' = [task EXCEPT ![t].tries = @ + 1,
                                 ![t].at = IF back THEN "rollback" ELSE "sleep"]
         /\ queue' = IF back THEN Append(queue, t) ELSE queue

RolledBack(t) == Answered(t, "rollback") /\ Rest(t, "sleep")
Undone(t) == Answered(t, "undo") /\ Rest(t, "failed")

Wakes(t) ==
  /\ task[t].at = "sleep" /\ Ask(t, "insert")
  /\ UNCHANGED <<tables, results, others, lone>>

Committed(t) ==
  /\ Answered(t, "commit")
  /\ IF task[t].kind = "read" THEN Ask(t, "select") ELSE Rest(t, "done")

Selected(t) == Answered(t, "select") /\ Ask(t, "close")
Closed(t) == Answered(t, "close") /\ Rest(t, "done")

Loop(t) ==
  \/ \E kind \in Kinds : Begin(t, kind)
  \/ Inserted(t) \/ GivesUp(t) \/ TriesAgain(t) \/ RolledBack(t) \/ Undone(t) \/ Wakes(t)
  \/ Committed(t) \/ Selected(t) \/ Closed(t)

-----------------------------------------------------------------------------
(* The thread and SQLite.                                                  *)

Ended(left) == [open |-> FALSE, rows |-> {}, snap |-> IF left = {} THEN None ELSE tx.snap]

Serve(t, op, ok) ==
  /\ queue # <<>> /\ Head(queue) = t /\ task[t].at = op
  /\ queue' = Tail(queue) /\ results' = Append(results, [t |-> t, ok |-> ok])
  /\ UNCHANGED <<others, lone>>

\* A write needs the lock and a snapshot that is not old.
CanWrite == ~locked /\ tx.snap \in {None, outside}

Insert(t) ==
  /\ Serve(t, "insert", TRUE) /\ CanWrite
  /\ tx' = [open |-> TRUE, rows |-> tx.rows \cup {t}, snap |-> outside]
  /\ UNCHANGED <<file, cursors, undone, task>>

\* The transaction an INSERT begins stays open when the INSERT fails.
Busy(t) ==
  /\ Serve(t, "insert", FALSE) /\ ~CanWrite
  /\ tx' = [tx EXCEPT !.open = TRUE]
  /\ UNCHANGED <<file, cursors, undone, task>>

\* commit takes all that the connection wrote.
Kept(rows) == file \cup rows

Commit(t) ==
  /\ Serve(t, "commit", TRUE)
  /\ file' = Kept(tx.rows) /\ tx' = Ended(cursors)
  /\ UNCHANGED <<cursors, undone, task>>

Rollback(t) ==
  /\ Serve(t, "rollback", TRUE) \/ Serve(t, "undo", TRUE)
  /\ undone' = undone \cup tx.rows /\ tx' = Ended(cursors)
  /\ UNCHANGED <<file, cursors, task>>

Select(t) ==
  /\ Serve(t, "select", TRUE)
  /\ cursors' = cursors \cup {t}
  /\ tx' = [tx EXCEPT !.snap = IF @ = None THEN outside ELSE @]
  /\ task' = [task EXCEPT ![t].stale = tx'.snap # outside]
  /\ UNCHANGED <<file, undone>>

\* The snapshot goes with the last reader, unless a transaction holds it.
Close(t) ==
  /\ Serve(t, "close", TRUE)
  /\ cursors' = cursors \ {t}
  /\ tx' = IF tx.open THEN tx ELSE Ended(cursors')
  /\ UNCHANGED <<file, undone, task>>

Thread(t) == Insert(t) \/ Busy(t) \/ Commit(t) \/ Rollback(t) \/ Select(t) \/ Close(t)

\* Another connection writes for a while, and commits.
Lock ==
  /\ ~locked /\ tx.rows = {} /\ outside < MaxOutside
  /\ locked' = TRUE
  /\ UNCHANGED <<tables, task, queue, results, outside, lone>>

Unlock ==
  /\ locked
  /\ locked' = FALSE /\ outside' = outside + 1
  /\ UNCHANGED <<tables, task, queue, results, lone>>

-----------------------------------------------------------------------------
Init ==
  /\ file = {} /\ tx = [open |-> FALSE, rows |-> {}, snap |-> None] /\ cursors = {}
  /\ task = [t \in Tasks |-> [kind |-> "read", at |-> "new", tries |-> 0, stale |-> FALSE]]
  /\ queue = <<>> /\ results = <<>> /\ locked = FALSE /\ outside = 0
  /\ undone = {} /\ lone = Nobody

Next == (\E t \in Tasks : Loop(t) \/ Thread(t)) \/ Lock \/ Unlock

Spec == Init /\ [][Next]_vars

-----------------------------------------------------------------------------
Ops == {"insert", "commit", "rollback", "undo", "select", "close"}

TypeOK ==
  /\ file \subseteq Tasks /\ cursors \subseteq Tasks /\ undone \subseteq Tasks
  /\ tx \in [open : BOOLEAN, rows : SUBSET Tasks, snap : {None} \cup 0 .. MaxOutside]
  /\ task \in [Tasks -> [kind : Kinds, at : Ops \cup {"new", "sleep", "done", "failed"},
                         tries : 0 .. Attempts - 1, stale : BOOLEAN]]
  /\ queue \in Seq(Tasks) /\ results \in Seq([t : Tasks, ok : BOOLEAN])
  /\ locked \in BOOLEAN /\ outside \in 0 .. MaxOutside /\ lone \in Tasks \cup {Nobody}

\* A write that returned is in the file and one that raised is not, whoever
\* committed or rolled back the shared transaction, except for the rows a
\* retry of another write took back (undone): those are lost, though their
\* writes return (retry_if_locked, _write_batch).
WritesAreAnswered ==
  \A t \in Tasks : task[t].kind # "read" =>
    /\ task[t].at = "done" => t \in file \cup undone
    /\ task[t].at = "failed" => t \notin file

\* A read that has the connection for itself sees the file as it is: no
\* transaction another coroutine left behind keeps an old state alive
\* (fetchone, fetchall).
LoneReadIsFresh ==
  lone # Nobody /\ task[lone].kind = "read" => ~task[lone].stale

-----------------------------------------------------------------------------
(* The inductive invariant.                                                *)

Queued == {queue[i] : i \in DOMAIN queue}
Told == {results[i] : i \in DOMAIN results}

\* A task waits for one statement, or for its answer.
OneAtATime ==
  /\ \A i, j \in DOMAIN queue : queue[i] = queue[j] => i = j
  /\ \A i, j \in DOMAIN results : results[i].t = results[j].t => i = j
  /\ \A t \in Queued : task[t].at \in Ops
  /\ \A r \in Told : r.t \notin Queued /\ task[r.t].at \in Ops

\* Whether the row of a task has been written, and where it is by then
Unwritten(t) == t \notin file \cup tx.rows
Written(t) == t \in file \cup tx.rows \cup undone

RowFits(t) ==
  /\ task[t].kind = "read" =>
       Unwritten(t) /\ task[t].at \in {"new", "commit", "select", "close", "done"}
  /\ task[t].kind # "read" => task[t].at \notin {"new", "select", "close"}
  /\ task[t].at \in {"failed", "undo", "rollback", "sleep"} => Unwritten(t)
  /\ task[t].at = "insert" /\ t \in Queued => Unwritten(t)
  /\ task[t].at = "insert" =>
       \A r \in Told : r.t = t => IF r.ok THEN Written(t) ELSE Unwritten(t)
  /\ task[t].kind # "read" /\ task[t].at = "commit" =>
       Written(t) /\ (t \notin Queued => t \in file \cup undone)
  /\ task[t].kind # "read" /\ task[t].at = "done" => t \in file \cup undone

\* A cursor is open between the answer of a SELECT and the close.
CursorFits(t) ==
  t \in cursors =>
    \/ task[t].at = "select" /\ t \notin Queued
    \/ task[t].at = "close" /\ t \in Queued

\* While a task has the connection for itself the others rest, and a read
\* has committed what it found.
LoneFits ==
  lone # Nobody =>
    /\ \A u \in Tasks \ {lone} : AtRest(u)
    /\ task[lone].kind = "read" =>
         /\ task[lone].at = "commit" /\ lone \notin Queued => ~tx.open
         /\ task[lone].at = "select" /\ lone \in Queued => ~tx.open
         /\ ~task[lone].stale

ConnInv ==
  /\ TypeOK /\ OneAtATime
  /\ \A t \in Tasks : RowFits(t) /\ CursorFits(t)
  /\ \A t \in Tasks : task[t].at = "new" => ~task[t].stale
  /\ ~tx.open => tx.rows = {} /\ (cursors = {} => tx.snap = None)
  /\ LoneFits
  /\ locked => outside < MaxOutside

=============================================================================
