---------------------------- MODULE SchemaUpgrade ----------------------------
(***************************************************************************)
(* The database at a start (init_db): tables are created, old layouts of   *)
(* webkey_slots are rebuilt (the single key of v3, the blobs of v4, the    *)
(* sizing columns of v5) and missing columns added, over a database of any *)
(* age and with a crash between any two statements.  A column that cannot  *)
(* be added, because the other process has the file locked, is only warned *)
(* of.  Bot and panel read the columns when the start is over.             *)
(*                                                                         *)
(* What a statement does is durable at once unless a transaction is open;  *)
(* INSERT opens one, CREATE, ALTER and DROP do not, and executescript      *)
(* commits the one that is open.                                           *)
(***************************************************************************)
EXTENDS Integers, FiniteSets

CONSTANTS
  Slots,      \* the first one takes over the single key of v3
  First,
  MaxStarts   \* bound: starts

SchemaAssumptions ==
  /\ First \in Slots /\ IsFiniteSet(Slots) /\ MaxStarts \in Nat

\* Columns of webkey_slots that came after v5, one of each group that is added
\* together, and sizing that left with v6
Columns == {"assigned_pair", "recovery_mode", "open_throttle", "soft_start"}
Sizing == {"slots", "whitelist", "configs"}

VARIABLES
  disk,    \* the database file
  db,      \* what the connection sees: the file and its open transaction
  open,    \* a transaction is open
  at,      \* the statement of init_db that comes next
  rows,    \* the keys _migrate_v4_to_v5 holds in memory
  starts,
  owned,   \* history: slots with a key since the first start
  torn,    \* history: a crash struck while the keys were in memory only
  rebuilt, \* history: this start rebuilt webkey_slots for v6
  refused  \* history: the columns this start could not add

vars == <<disk, db, open, at, rows, starts, owned, torn, rebuilt, refused>>
history == <<owned, torn, rebuilt, refused>>

-----------------------------------------------------------------------------
\* old is the table of v3, slots the layout of webkey_slots, keys the slots
\* with a key, cols the later columns it has, sizing the tables with sizing.
Layout(old, slots, keys, cols, sizing) ==
  [old |-> old, slots |-> slots, keys |-> keys, cols |-> cols, sizing |-> sizing]

\* Databases of earlier versions; "odd" has neither blob column.
Installed ==
  {Layout("none", "none", {}, {}, {}), Layout("empty", "none", {}, {}, {})}
    \cup {Layout("key", "none", {}, {}, z) : z \in {{}, {"configs"}}}
    \cup {Layout("key", "v5", k, {}, {}) : k \in {{}, {First}}}
    \cup {Layout("none", "v4", k, {}, {}) : k \in {{First}, Slots}}
    \cup {Layout("none", "odd", {}, {}, {})}
    \cup {Layout("none", "v5", Slots, {"assigned_pair"}, z) : z \in {{}, {"configs"}, Sizing}}
    \cup {Layout("none", "v5", Slots, Columns, {})}

Keys(d) == d.keys \cup (IF d.old = "key" THEN {First} ELSE {})

Init ==
  /\ disk \in Installed
  /\ db = disk /\ open = FALSE /\ at = "down" /\ rows = {} /\ starts = 0
  /\ owned = Keys(disk) /\ torn = FALSE /\ rebuilt = FALSE /\ refused = {}

Goto(next) == at' = next
Steps(here, next) == at = here /\ Goto(next)

\* A statement outside of INSERT, an INSERT, and the end of a transaction
Does(d) == db' = d /\ disk' = (IF open THEN disk ELSE d) /\ UNCHANGED open
Inserts(d) == db' = d /\ open' = TRUE /\ UNCHANGED disk
Commits(d) == db' = d /\ disk' = d /\ open' = FALSE
Nothing == UNCHANGED <<disk, db, open>>

-----------------------------------------------------------------------------
(* init_db.                                                                *)

Start ==
  /\ starts < MaxStarts /\ Steps("down", "base") /\ starts' = starts + 1
  /\ rebuilt' = FALSE /\ refused' = {}
  /\ UNCHANGED <<disk, db, open, rows, owned, torn>>

\* SCHEMA_V1 and V2, the columns of the trade tables, the dead columns of
\* pair_configs: nothing a later step depends on
BaseTables ==
  /\ Steps("base", "v5") /\ Nothing
  /\ UNCHANGED <<rows, starts, history>>

\* _migrate_v4_to_v5; the variant does not recognise its own work.
AlreadyV5_not == FALSE
AlreadyV5 == db.slots = "v5"

Dropped == [db EXCEPT !.slots = "none", !.keys = {}, !.cols = {}]

SkipToV5 ==
  /\ db.slots = "none" \/ AlreadyV5
  /\ Steps("v5", "tables") /\ Nothing
  /\ UNCHANGED <<rows, starts, history>>

RecreateOdd ==
  /\ db.slots # "none" /\ ~AlreadyV5 /\ db.slots # "v4"
  /\ Steps("v5", "tables") /\ Does(Dropped)
  /\ UNCHANGED <<rows, starts, history>>

DropV4 ==
  /\ db.slots = "v4" /\ Steps("v5", "create")
  /\ rows' = db.keys /\ Does(Dropped)
  /\ UNCHANGED <<starts, history>>

CreateV5 ==
  /\ Steps("create", "refill") /\ Commits([db EXCEPT !.slots = "v5"])
  /\ UNCHANGED <<rows, starts, history>>

RefillV5 ==
  /\ Steps("refill", "tables") /\ Inserts([db EXCEPT !.keys = rows])
  /\ UNCHANGED <<rows, starts, history>>

\* SCHEMA_V5 is a script: it commits what the migration inserted.
SlotTable ==
  /\ Steps("tables", "v4") /\ Commits([db EXCEPT !.slots = "v5"])
  /\ rows' = {}
  /\ UNCHANGED <<starts, history>>

\* _migrate_v3_to_v4: the single key moves to the first slot if that one has
\* none.
TakeOldKey ==
  /\ db.old = "key" /\ First \notin db.keys
  /\ Steps("v4", "columns")
  /\ Inserts([db EXCEPT !.old = "none", !.keys = @ \cup {First}])
  /\ UNCHANGED <<rows, starts, history>>

DropOldTable ==
  /\ db.old = "key" => First \in db.keys
  /\ Steps("v4", "columns") /\ Does([db EXCEPT !.old = "none"])
  /\ UNCHANGED <<rows, starts, history>>

\* _add_columns_idempotent: the start goes on without the columns that fail.
AddColumns(cs) ==
  \E fails \in SUBSET (cs \ db.cols) :
    /\ Does([db EXCEPT !.cols = @ \cup (cs \ fails)])
    /\ refused' = refused \cup fails

SlotColumns ==
  /\ Steps("columns", "v6") /\ AddColumns(Columns \ {"soft_start"})
  /\ UNCHANGED <<rows, starts, owned, torn, rebuilt>>

\* _migrate_v5_to_v6
SkipV6 ==
  /\ db.sizing = {} /\ Steps("v6", "soft") /\ Nothing
  /\ UNCHANGED <<rows, starts, history>>

BeginV6 ==
  /\ db.sizing # {} /\ ~open /\ Steps("v6", "rebuild")
  /\ open' = TRUE
  /\ UNCHANGED <<disk, db, rows, starts, history>>

\* Copies of the three tables take their places; webkey_slots must have what
\* v5 knew, and keeps nothing else.
RebuildV6 ==
  /\ Steps("rebuild", "commit")
  /\ "slots" \in db.sizing => "assigned_pair" \in db.cols
  /\ Does([db EXCEPT !.sizing = {},
                     !.cols = IF "slots" \in db.sizing THEN @ \cap {"assigned_pair"} ELSE @])
  /\ rebuilt' = ("slots" \in db.sizing)
  /\ UNCHANGED <<rows, starts, owned, torn, refused>>

CommitV6 ==
  /\ Steps("commit", "soft") /\ Commits(db)
  /\ UNCHANGED <<rows, starts, history>>

SoftColumn ==
  /\ Steps("soft", "seed") /\ AddColumns({"soft_start"})
  /\ UNCHANGED <<rows, starts, owned, torn, rebuilt>>

\* The whitelist and the version are inserted, and everything is committed.
Seed ==
  /\ Steps("seed", "ready") /\ Commits(db)
  /\ UNCHANGED <<rows, starts, history>>

\* The connection closes; what was not committed is gone.
Closes == Goto("down") /\ db' = disk /\ open' = FALSE /\ rows' = {}

\* BEGIN refuses inside a transaction, and a statement of the rebuild may
\* fail: init_db raises and the process ends.
Fails ==
  /\ \/ at = "v6" /\ db.sizing # {} /\ open
     \/ at \in {"rebuild", "commit"}
  /\ Closes
  /\ UNCHANGED <<disk, starts, history>>

\* also what a statement that raises does elsewhere
Crash ==
  /\ at # "down" /\ Closes
  /\ torn' = (torn \/ ~(rows \subseteq disk.keys))
  /\ UNCHANGED <<disk, starts, owned, rebuilt, refused>>

\* A key is pasted while the bot runs.
SetKey(s) ==
  /\ at = "ready" /\ s \notin db.keys
  /\ Commits([db EXCEPT !.keys = @ \cup {s}])
  /\ owned' = owned \cup {s}
  /\ UNCHANGED <<at, rows, starts, torn, rebuilt, refused>>

Next ==
  \/ Start \/ BaseTables
  \/ SkipToV5 \/ RecreateOdd \/ DropV4 \/ CreateV5 \/ RefillV5 \/ SlotTable
  \/ TakeOldKey \/ DropOldTable \/ SlotColumns
  \/ SkipV6 \/ BeginV6 \/ RebuildV6 \/ CommitV6 \/ SoftColumn \/ Seed
  \/ Fails \/ Crash \/ \E s \in Slots : SetKey(s)

Spec == Init /\ [][Next]_vars

-----------------------------------------------------------------------------
(* Properties.                                                             *)

DbType ==
  [old : {"none", "empty", "key"}, slots : {"none", "odd", "v4", "v5"},
   keys : SUBSET Slots, cols : SUBSET Columns, sizing : SUBSET Sizing]

TypeOK ==
  /\ disk \in DbType /\ db \in DbType /\ open \in BOOLEAN
  /\ at \in {"down", "base", "v5", "create", "refill", "tables", "v4", "columns", "v6",
             "rebuild", "commit", "soft", "seed", "ready"}
  /\ rows \subseteq Slots /\ starts \in 0 .. MaxStarts /\ owned \subseteq Slots
  /\ torn \in BOOLEAN /\ rebuilt \in BOOLEAN /\ refused \subseteq Columns

\* No start loses a key, whatever the age of the database and wherever a
\* crash or a failing statement ends it: the file has each key or, while
\* v4 is rebuilt, the process has.  A crash right then is the exception
\* (torn), and the code does lose them.
KeysSurvive == torn \/ owned \subseteq Keys(disk) \cup rows

\* What the rebuild for v6 leaves out and nothing adds before the next start
LeftOut == IF rebuilt THEN Columns \ {"assigned_pair", "soft_start"} ELSE {}

\* A column that the bot runs without is one that this start could not add
\* (refused) or that its rebuild for v6 left out: the next start adds it.
ColumnsArePresent == at = "ready" => Columns \ db.cols \subseteq refused \cup LeftOut

-----------------------------------------------------------------------------
(* The inductive invariant.                                                *)

\* A table without blobs has no keys.
Sound(d) == d \in DbType /\ (d.slots \in {"none", "odd"} => d.keys = {})

\* What is in memory while v4 is rebuilt, and what the columns have by then
SchemaInv ==
  /\ TypeOK
  /\ Sound(disk) /\ Sound(db) /\ (~open => db = disk)
  /\ torn \/ owned \subseteq Keys(db) \cup rows
  /\ at \notin {"create", "refill", "tables"} => rows = {}
  /\ at = "create" => db.slots = "none"
  /\ at = "refill" => db.keys = {} /\ db.slots = "v5"
  /\ at = "tables" => rows \subseteq db.keys
  /\ rebuilt => at \in {"commit", "soft", "seed", "ready", "down"}
  /\ at \in {"v6", "rebuild", "commit", "soft"} =>
       Columns \ ({"soft_start"} \cup db.cols) \subseteq refused \cup LeftOut
  /\ at \in {"v4", "columns", "v6", "rebuild", "commit", "soft", "seed", "ready"} =>
       db.slots = "v5"
  /\ at = "down" => ~open
  /\ KeysSurvive
  /\ at \in {"seed", "ready"} => Columns \ db.cols \subseteq refused \cup LeftOut

=============================================================================
