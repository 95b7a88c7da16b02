---------------------------- MODULE ConfigReload ----------------------------
(***************************************************************************)
(* ConfigLoader (config_loader.py) and its two readers: the engine, which  *)
(* rebuilds its cache of execution settings (_reload_pair_configs), and the *)
(* detector with its overrides (_reload_pair_overrides_from_yaml).  A person *)
(* or the panel edits global.yaml and pairs/*.yaml at any time, also between *)
(* two file operations of a check, which runs in one go otherwise.         *)
(*                                                                         *)
(* A file is the number of its last edit, 0 when there is none; the number  *)
(* is its mtime too.  A pair is [own, base]: the edits of its own file and  *)
(* of global.yaml it was parsed from.                                      *)
(***************************************************************************)
EXTENDS Integers, FiniteSets

CONSTANTS
  Pairs,
  Global,    \* global.yaml
  Consumers, \* the readers: of them Detector
  Detector,
  None,
  MaxEdits   \* bound of the model

Files == Pairs \cup {Global}

\* what a pair was parsed from
Config == [own: 0 .. MaxEdits, base: 0 .. MaxEdits]

ReloadAssumptions ==
  /\ IsFiniteSet(Pairs) /\ Global \notin Pairs /\ Detector \in Consumers
  /\ "boot" \notin Consumers /\ None \notin Consumers \cup {"boot"} \cup Config
  /\ MaxEdits \in Nat \ {0}

VARIABLES
  disk, fault, edits, \* fault: "unreadable", or "refused" by the validation
  glob,   \* _global_defaults, _global_exit_strategy, _global_execution
  pairs,  \* _pairs
  mtime,  \* _file_mtimes
  job,    \* the check under way
  view,   \* _pair_configs of the engine, _pair_overrides of the detector
  base0,  \* the detector's own StaticGapConf, taken at boot
  slipped,\* files whose mtime does not stand for what was read
  clean,  \* no file changed since the last check began
  upto    \* readers that rebuilt since then

files == <<disk, fault, edits>>
loader == <<glob, pairs, mtime>>
readers == <<view, base0>>
marks == <<clean, upto>>
vars == <<files, loader, job, readers, slipped, marks>>

Listed == {p \in Pairs : disk[p] # 0}
Readable(f) == disk[f] # 0 /\ fault[f] = "fine"
Parsed(p) == [own |-> disk[p], base |-> glob]
Nobody == [p \in Pairs |-> None]
Idle == [who |-> None, at |-> "idle", todo |-> {}, seen |-> {}, file |-> None,
         mt |-> 0, got |-> Nobody, calm |-> TRUE]

-----------------------------------------------------------------------------
(* The files.  An editor that writes in place passes through "unreadable". *)

Edited ==
  /\ edits < MaxEdits /\ edits' = edits + 1
  /\ job' = [job EXCEPT !.calm = FALSE] /\ clean' = FALSE /\ upto' = {}
  /\ UNCHANGED <<loader, readers, slipped>>

Save(f, k) ==
  /\ k = "refused" => f = Global
  /\ Edited
  /\ disk' = [disk EXCEPT ![f] = edits'] /\ fault' = [fault EXCEPT ![f] = k]

Delete(f) ==
  /\ disk[f] # 0
  /\ disk' = [disk EXCEPT ![f] = 0] /\ fault' = [fault EXCEPT ![f] = "fine"]
  /\ Edited

\* the panel on the host leaves a file the container may not read
Chmod(f) ==
  /\ disk[f] # 0 /\ fault[f] # "refused"
  /\ fault' = [fault EXCEPT ![f] = IF @ = "fine" THEN "unreadable" ELSE "fine"]
  /\ UNCHANGED disk /\ Edited

-----------------------------------------------------------------------------
(* maybe_reload.                                                           *)

At(at) == job.at = at
Step(j) == job' = j /\ UNCHANGED <<files, readers, marks>>

Booting == [Idle EXCEPT !.who = "boot", !.at = "readGlobal"]

\* an exception leaves the loader as it is: boot starts anew, a reader goes on
Raise ==
  job' = IF job.who = "boot" THEN Booting ELSE [job EXCEPT !.at = "build"]

\* A reader's own interval is over; the loader looks at the files when its own
\* reload_ttl_sec is over too.
BeginCheck(c) ==
  /\ At("idle")
  /\ Step([Idle EXCEPT !.who = c, !.at = "global"])
  /\ UNCHANGED <<loader, slipped>>

WithinTtl(c) ==
  /\ At("idle")
  /\ Step([Idle EXCEPT !.who = c, !.at = "build"])
  /\ UNCHANGED <<loader, slipped>>

Changed(f) == disk[f] # mtime[f]

CheckGlobal ==
  /\ At("global")
  /\ Step(IF disk[Global] # 0 /\ Changed(Global)
            THEN [job EXCEPT !.at = "readGlobal"]
            ELSE [job EXCEPT !.at = "walk", !.todo = Listed, !.seen = Listed])
  /\ UNCHANGED <<loader, slipped>>

\* _reload_all_pairs begins: the files there are now
AllPairs == [job EXCEPT !.at = "bulk", !.todo = Listed]

\* _reload_global; the values are taken before they are validated
ReadGlobal ==
  /\ At("readGlobal")
  /\ CASE disk[Global] = 0 -> glob' = 0 /\ job' = AllPairs
       [] fault[Global] = "unreadable" -> glob' = glob /\ Raise
       [] fault[Global] = "refused" -> glob' = disk[Global] /\ Raise
       [] OTHER -> glob' = disk[Global] /\ job' = [job EXCEPT !.at = "statGlobal"]
  /\ UNCHANGED <<files, pairs, mtime, readers, slipped, marks>>

StatGlobal ==
  /\ At("statGlobal")
  /\ IF disk[Global] = 0
       THEN Raise /\ UNCHANGED <<mtime, slipped>>
       ELSE /\ job' = AllPairs /\ mtime' = [mtime EXCEPT ![Global] = disk[Global]]
            /\ slipped' = IF disk[Global] = glob THEN slipped \ {Global}
                                                 ELSE slipped \cup {Global}
  /\ UNCHANGED <<files, glob, pairs, readers, marks>>

\* A file that cannot be read loses its pair, and keeps its mtime.
BulkRead(p) ==
  /\ At("bulk") /\ p \in job.todo
  /\ IF Readable(p)
       THEN /\ Step([job EXCEPT !.at = "bulkStat", !.file = p, !.got[p] = Parsed(p)])
            /\ UNCHANGED slipped
       ELSE /\ Step([job EXCEPT !.todo = @ \ {p}])
            /\ slipped' = slipped \cup {p}
  /\ UNCHANGED loader

\* the mtime is taken after the file was read
BulkStat ==
  LET p == job.file IN
  /\ At("bulkStat")
  /\ Step([job EXCEPT !.at = "bulk", !.todo = @ \ {p}, !.file = None])
  /\ IF disk[p] = 0
       THEN UNCHANGED <<mtime, slipped>>
       ELSE /\ mtime' = [mtime EXCEPT ![p] = disk[p]]
            /\ slipped' = IF disk[p] = job.got[p].own THEN slipped \ {p}
                                                      ELSE slipped \cup {p}
  /\ UNCHANGED <<glob, pairs>>

Ended == [job EXCEPT !.at = IF job.who = "boot" THEN "boot" ELSE "build",
                     !.seen = {}, !.got = Nobody]

BulkEnd ==
  /\ At("bulk") /\ job.todo = {}
  /\ pairs' = job.got /\ job' = Ended /\ clean' = job.calm
  /\ UNCHANGED <<files, glob, mtime, readers, slipped, upto>>

\* _reload_changed_files, pair by pair; its stat is outside of the try
WalkStat(p) ==
  /\ At("walk") /\ p \in job.todo
  /\ CASE disk[p] = 0 -> Raise
       [] disk[p] # 0 /\ Changed(p) ->
            job' = [job EXCEPT !.at = "walkRead", !.file = p, !.mt = disk[p]]
       [] OTHER -> job' = [job EXCEPT !.todo = @ \ {p}]
  /\ UNCHANGED <<files, loader, readers, slipped, marks>>

\* here a file that cannot be read keeps its pair, and is tried again
WalkRead ==
  LET p == job.file IN
  /\ At("walkRead")
  /\ Step([job EXCEPT !.at = "walk", !.todo = @ \ {p}, !.file = None, !.mt = 0])
  /\ IF Readable(p)
       THEN /\ pairs' = [pairs EXCEPT ![p] = Parsed(p)]
            /\ mtime' = [mtime EXCEPT ![p] = job.mt]
            /\ slipped' = slipped \ {p}
       ELSE UNCHANGED <<pairs, mtime, slipped>>
  /\ UNCHANGED glob

\* The variant keeps the pair of a file that was deleted.
Removed_none == {}

Removed == {p \in Pairs : pairs[p] # None} \ job.seen

\* files deleted since: their pairs go back to the defaults
WalkEnd ==
  /\ At("walk") /\ job.todo = {}
  /\ pairs' = [p \in Pairs |-> IF p \in Removed THEN None ELSE pairs[p]]
  /\ mtime' = [f \in Files |-> IF f \in Removed THEN 0 ELSE mtime[f]]
  /\ job' = Ended /\ clean' = job.calm
  /\ UNCHANGED <<files, glob, readers, slipped, upto>>

-----------------------------------------------------------------------------
(* The readers.                                                            *)

\* get of the loader; the detector takes the pairs of list_pairs only, and
\* falls back to what it was started with
Seen(c, p) ==
  IF pairs[p] # None THEN pairs[p]
  ELSE [own |-> 0, base |-> IF c = Detector THEN base0 ELSE glob]

Build ==
  /\ At("build")
  /\ view' = [view EXCEPT ![job.who] = [p \in Pairs |-> Seen(job.who, p)]]
  /\ upto' = IF clean THEN upto \cup {job.who} ELSE upto
  /\ job' = Idle
  /\ UNCHANGED <<files, loader, base0, slipped, clean>>

\* main: StaticGapConf from global_defaults, then the detector and the engine
Boot ==
  /\ At("boot") /\ base0' = glob /\ job' = Idle
  /\ UNCHANGED <<files, loader, view, slipped, marks>>

-----------------------------------------------------------------------------
Init ==
  /\ disk \in [Files -> {0, 1}] /\ fault = [f \in Files |-> "fine"] /\ edits = 1
  /\ glob = 0 /\ pairs = Nobody /\ mtime = [f \in Files |-> 0]
  /\ job = Booting
  /\ view = [c \in Consumers |-> Nobody] /\ base0 = 0
  /\ slipped = {} /\ clean = FALSE /\ upto = {}

Check ==
  \/ CheckGlobal \/ ReadGlobal \/ StatGlobal \/ BulkStat \/ BulkEnd
  \/ \E p \in Pairs : BulkRead(p) \/ WalkStat(p)
  \/ WalkRead \/ WalkEnd

Next ==
  \/ Check \/ Build \/ Boot
  \/ \E c \in Consumers : BeginCheck(c) \/ WithinTtl(c)
  \/ \E f \in Files :
       Delete(f) \/ Chmod(f) \/ \E k \in {"fine", "refused", "unreadable"} : Save(f, k)

Spec == Init /\ [][Next]_vars

-----------------------------------------------------------------------------
Walks == {"walk", "walkRead"}
Bulks == {"bulk", "bulkStat"}
Places == {"idle", "global", "readGlobal", "statGlobal", "boot", "build"} \cup Walks \cup Bulks
Jobs == [who : Consumers \cup {"boot", None}, at : Places, todo : SUBSET Pairs,
         seen : SUBSET Pairs, file : Pairs \cup {None}, mt : 0 .. MaxEdits,
         got : [Pairs -> Config \cup {None}], calm : BOOLEAN]

TypeOK ==
  /\ disk \in [Files -> 0 .. MaxEdits]
  /\ fault \in [Files -> {"fine", "refused", "unreadable"}]
  /\ glob \in 0 .. MaxEdits /\ base0 \in 0 .. MaxEdits
  /\ pairs \in [Pairs -> Config \cup {None}] /\ mtime \in [Files -> 0 .. MaxEdits]
  /\ job \in Jobs
  /\ view \in [Consumers -> [Pairs -> Config \cup {None}]]
  /\ slipped \subseteq Files /\ clean \in BOOLEAN /\ upto \subseteq Consumers

\* What the files ask of a pair; the detector's fallback is fixed at boot.
Asked(c, p) ==
  IF disk[p] # 0 THEN [own |-> disk[p], base |-> disk[Global]]
  ELSE [own |-> 0, base |-> IF c = Detector THEN base0 ELSE disk[Global]]

\* "YAML edits become active within reload_ttl_sec" (config_loader.py:8): a reader
\* that rebuilds after a check during which nothing was edited works with the
\* files as they are, inherited values and deleted files included.  Not when
\* the file was edited between read and stat of an earlier rebuild of all pairs,
\* or could not be read then (slipped), and not without a good global.yaml.
ViewFollowsFiles ==
  \A c \in upto, p \in Pairs :
    /\ Readable(Global) /\ (disk[p] # 0 => Readable(p))
    /\ slipped \cap {Global, p} = {}
    => view[c][p] = Asked(c, p)

-----------------------------------------------------------------------------
(* The inductive invariant.                                                *)

\* A file has the mtime it was loaded with.
Loaded(f) == disk[f] # 0 /\ mtime[f] = disk[f] /\ f \notin slipped
AsOnDisk(p) == [own |-> disk[p], base |-> disk[Global]]

\* edits counts up; the check is where its bookkeeping says
ReloadTyped ==
  /\ TypeOK /\ edits \in 0 .. MaxEdits
  /\ \A f \in Files :
       disk[f] <= edits /\ mtime[f] <= edits /\ (disk[f] = 0 => fault[f] = "fine")
  /\ job.mt <= edits
  /\ job.who = None => job.at = "idle"
  /\ job.who = "boot" =>
       upto = {} /\ job.at \in {"readGlobal", "statGlobal", "boot"} \cup Bulks
  /\ job.at \in {"walkRead", "bulkStat"} => job.file \in job.todo
  /\ job.at = "boot" => job.who = "boot"
  /\ job.at \notin Bulks => job.got = Nobody

\* What is loaded is what is on disk: of the defaults, of each pair, and of
\* each pair the check that rebuilds all of them is done with.
LoaderInv ==
  /\ Loaded(Global) => glob = disk[Global]
  /\ job.at \notin Bulks =>
       \A p \in Pairs : Loaded(Global) /\ Loaded(p) => pairs[p] = AsOnDisk(p)
  /\ job.at \in Bulks =>
       \A p \in Pairs \ job.todo : Loaded(Global) /\ Loaded(p) => job.got[p] = AsOnDisk(p)
  /\ job.at = "bulkStat" => job.got[job.file] # None /\ job.got[job.file].base = glob

\* What a check that nothing disturbed has found
CalmInv ==
  /\ job.at \in Walks \cup Bulks =>
       /\ disk[Global] # 0 => mtime[Global] = disk[Global]
       /\ \A p \in Listed \ job.todo : Readable(p) => mtime[p] = disk[p]
  /\ job.at \in Walks => job.seen = Listed
  /\ job.at = "walkRead" => job.mt = disk[job.file] /\ job.mt # mtime[job.file]
  /\ job.at \in Bulks => \A p \in Pairs : job.got[p] # None => disk[p] # 0

\* Since a check that nothing disturbed: all that can be read is loaded, and
\* nothing else.
CleanInv ==
  /\ job.calm /\ job.at \notin Bulks \cup {"readGlobal", "statGlobal"}
  /\ disk[Global] # 0 => mtime[Global] = disk[Global]
  /\ \A p \in Pairs : Readable(p) => mtime[p] = disk[p]
  /\ \A p \in Pairs : disk[p] = 0 => pairs[p] = None

ReloadInv ==
  /\ ReloadTyped
  /\ LoaderInv
  /\ job.calm => CalmInv
  /\ clean => CleanInv
  /\ upto # {} => clean
  /\ ViewFollowsFiles

=============================================================================
