---------------------------- MODULE ControlCache ----------------------------
(***************************************************************************)
(* The snapshot of the control service (masterjet_cache.py).               *)
(*                                                                         *)
(* One file, one operation at a time under the file's path lock.  Every    *)
(* operation first clears what an earlier one left: a temporary file, or a *)
(* second name of it, and the rollback file that older versions wrote.     *)
(* A save then writes a temporary file, syncs it and its directory, and    *)
(* links it (first save) or renames it over the present snapshot.  Any     *)
(* step may fail, the process may die between two steps, and a power loss  *)
(* leaves one of the directories since the last sync.                      *)
(*                                                                         *)
(* A file is its inode and its text: two names with one inode are links of *)
(* one file.  The number of the save that wrote it stands for both; 0 is   *)
(* the snapshot that was there before.                                     *)
(***************************************************************************)
EXTENDS Naturals, FiniteSets

CONSTANTS NoSnapshot,    \* no file of that name
          MaxSaves,      \* bound: saves
          MaxFailures    \* bound: failing steps, deaths and power losses

Half   == MaxSaves + 1   \* the text of a file that is not written to its end
Legacy == MaxSaves + 2   \* the inode of a rollback file, or a text of its own
Files  == [ino : 0..Legacy, text : 0..Legacy]
Folder == [cache : Files \cup {NoSnapshot}, temp : Files \cup {NoSnapshot},
           rollback : Files \cup {NoSnapshot}]

VARIABLES
  folder, images,
  spot,                  \* where the operation is
  saving,                \* the number of the save, 0 for a load
  found,                 \* what a save saw before it wrote
  saves,                 \* the saves begun
  due,                   \* what a load may find: the last save that succeeded,
                         \* or what was there at first, and every later save
  outcome,               \* what the last operation reported
  broken                 \* failures so far

vars == <<folder, images, spot, saving, found, saves, due, outcome, broken>>

Links(d, f) == Cardinality({n \in {"cache", "temp", "rollback"} :
                              d[n] # NoSnapshot /\ d[n].ino = f.ino})
There(n)  == folder[n] # NoSnapshot
Change(d) == folder' = d /\ images' = images \cup {d}
Sync      == images' = {folder} /\ UNCHANGED folder            \* _fsync_directory
Still     == UNCHANGED <<folder, images>>
Goto(to)  == spot' = to /\ UNCHANGED <<saving, found, saves, due, outcome>>
Return(r) == spot' = "idle" /\ outcome' = r /\ UNCHANGED <<saving, found, saves, due>>
NoFault   == UNCHANGED broken
Fault     == broken < MaxFailures /\ broken' = broken + 1

\* A failing operation: a save that made its temporary file removes it.
Fail(made) ==
  IF made THEN Goto("cleanup") ELSE Return("failed")

\* A fresh directory, the snapshot of an earlier run, and the four rollback
\* files an older version may have left.
Started(c, r) == [cache |-> c, temp |-> NoSnapshot, rollback |-> r]
Snapshot0     == [ino |-> 0, text |-> 0]
Leftovers ==
  {Started(NoSnapshot, NoSnapshot), Started(Snapshot0, NoSnapshot),
   Started(Snapshot0, Snapshot0), Started(NoSnapshot, [ino |-> Legacy, text |-> 0]),
   Started(Snapshot0, [ino |-> Legacy, text |-> 0]),
   Started(Snapshot0, [ino |-> Legacy, text |-> Legacy])}

Init ==
  /\ folder \in Leftovers /\ images = {folder}
  /\ spot = "idle" /\ saving = 0 /\ found = NoSnapshot /\ saves = 0
  /\ due = IF folder = Started(NoSnapshot, NoSnapshot) THEN {NoSnapshot} ELSE {0}
  /\ outcome = "none" /\ broken = 0

\* save() and load() have the lock and the root directory.
BeginSave ==
  /\ spot = "idle" /\ saves < MaxSaves
  /\ saves' = saves + 1 /\ saving' = saves + 1 /\ due' = due \cup {saves + 1}
  /\ spot' = "stale" /\ outcome' = "none"
  /\ Still /\ NoFault /\ UNCHANGED found

BeginLoad ==
  /\ spot = "idle"
  /\ saving' = 0 /\ spot' = "stale" /\ outcome' = "none"
  /\ Still /\ NoFault /\ UNCHANGED <<found, saves, due>>

\* _cleanup_stale_temp: a second name must be the snapshot's.
DropTemp ==
  /\ spot = "stale" /\ There("temp")
  /\ \/ /\ Links(folder, folder.temp) = 2 => folder.cache = folder.temp
        /\ Change([folder EXCEPT !.temp = NoSnapshot]) /\ Goto("staleSync") /\ NoFault
     \/ Fault /\ Still /\ Return("failed")

SyncStale ==
  /\ spot = "staleSync"
  /\ \/ Sync /\ Goto("stale") /\ NoFault
     \/ Fault /\ Still /\ Return("failed")

AfterRecovery == IF saving = 0 THEN "read" ELSE "existing"

NoRollback ==
  /\ spot = "stale" /\ ~There("temp") /\ ~There("rollback")
  /\ Still /\ Goto(AfterRecovery) /\ NoFault

\* _recover_rollback: a second name of the snapshot, or a copy of it, goes; ...
DropRollback ==
  /\ spot = "stale" /\ ~There("temp") /\ There("rollback") /\ There("cache")
  /\ folder.cache.text = folder.rollback.text
  /\ \/ /\ Change([folder EXCEPT !.rollback = NoSnapshot])
        /\ Goto("rollbackSync") /\ NoFault
     \/ Fault /\ Still /\ Return("failed")

\* ... another text is for nobody to decide, and stays; ...
RefuseRollback ==
  /\ spot = "stale" /\ ~There("temp") /\ There("rollback") /\ There("cache")
  /\ folder.cache.text # folder.rollback.text
  /\ Still /\ Return("invalid") /\ NoFault

\* ... and without a snapshot it becomes the snapshot.
LinkRollback ==
  /\ spot = "stale" /\ ~There("temp") /\ There("rollback") /\ ~There("cache")
  /\ \/ Change([folder EXCEPT !.cache = folder.rollback]) /\ Goto("stale") /\ NoFault
     \/ Fault /\ Still /\ Return("failed")

SyncRollback ==
  /\ spot = "rollbackSync"
  /\ \/ Sync /\ Goto(AfterRecovery) /\ NoFault
     \/ Fault /\ Still /\ Return("failed")

\* load: the file must have one name and decode.
Read ==
  /\ spot = "read"
  /\ \/ /\ There("cache") /\ Links(folder, folder.cache) = 1 /\ folder.cache.text # Half
        /\ spot' = "idle" /\ outcome' = "read" /\ found' = folder.cache
        /\ NoFault /\ UNCHANGED <<saving, saves, due>>
     \/ ~There("cache") /\ Return("missing") /\ NoFault
     \/ Fault /\ Return("failed")
  /\ Still

ReadExisting ==
  /\ spot = "existing"
  /\ \/ /\ spot' = "create" /\ found' = folder.cache
        /\ There("cache") => Links(folder, folder.cache) = 1 /\ folder.cache.text # Half
        /\ NoFault /\ UNCHANGED <<saving, saves, due, outcome>>
     \/ Fault /\ Return("failed")
  /\ Still

\* _publish
CreateTemp ==
  /\ spot = "create"
  /\ \/ /\ Change([folder EXCEPT !.temp = [ino |-> saving, text |-> Half]])
        /\ Goto("write") /\ NoFault
     \/ Fault /\ Still /\ Fail(FALSE)

\* The text reaches the disk with the sync of the file.
WriteTemp ==
  /\ spot = "write"
  /\ \/ /\ folder' = [folder EXCEPT !.temp.text = saving]
        /\ images' = {IF d.temp # NoSnapshot /\ d.temp.ino = saving
                      THEN [d EXCEPT !.temp.text = saving] ELSE d : d \in images}
        /\ Goto("tempSync") /\ NoFault
     \/ Fault /\ Still /\ Fail(TRUE)

SyncTemp ==
  /\ spot = "tempSync"
  /\ \/ Sync /\ Goto("publish") /\ NoFault
     \/ Fault /\ Still /\ Fail(TRUE)

\* _recheck_target, then a link for the first snapshot, a rename for the others.
Publish ==
  /\ spot = "publish" /\ folder.cache = found
  /\ \/ /\ found = NoSnapshot
        /\ Change([folder EXCEPT !.cache = folder.temp]) /\ Goto("linked") /\ NoFault
     \/ /\ found # NoSnapshot
        /\ Change([folder EXCEPT !.cache = folder.temp, !.temp = NoSnapshot])
        /\ Goto("published") /\ NoFault
     \/ Fault /\ Still /\ Fail(TRUE)

UnlinkTemp ==
  /\ spot = "linked"
  /\ \/ Change([folder EXCEPT !.temp = NoSnapshot]) /\ Goto("unlinkSync") /\ NoFault
     \/ Fault /\ Still /\ Fail(TRUE)

SyncUnlink ==
  /\ spot = "unlinkSync"
  /\ \/ Sync /\ Goto("published") /\ NoFault
     \/ Fault /\ Still /\ Fail(TRUE)

Succeed == spot' = "idle" /\ outcome' = "saved" /\ due' = {saving} /\ UNCHANGED <<saving, found, saves>>

\* Mutant of SyncPublished: the rename is left to the kernel.
SkipSyncPublished == spot = "published" /\ Still /\ Succeed /\ NoFault

\* The last sync: from here on the save is reported as done.
SyncPublished ==
  /\ spot = "published"
  /\ \/ Sync /\ Succeed /\ NoFault
     \/ Fault /\ Still /\ Fail(TRUE)

\* _remove_created_temp; what it cannot remove is left to the next operation.
RemoveTemp ==
  /\ spot = "cleanup"
  /\ \/ There("temp") /\ Change([folder EXCEPT !.temp = NoSnapshot])
     \/ ~There("temp") /\ Still
  /\ Return("failed") /\ NoFault

LeaveTemp == spot = "cleanup" /\ There("temp") /\ Still /\ Return("failed") /\ Fault

Die       == spot # "idle" /\ Still /\ Return("none") /\ Fault
PowerLoss == \E d \in images : folder' = d /\ images' = {d} /\ Return("none") /\ Fault

Next ==
  \/ BeginSave \/ BeginLoad
  \/ DropTemp \/ SyncStale \/ NoRollback \/ DropRollback \/ RefuseRollback \/ LinkRollback
  \/ SyncRollback \/ Read \/ ReadExisting
  \/ CreateTemp \/ WriteTemp \/ SyncTemp \/ Publish \/ UnlinkTemp \/ SyncUnlink \/ SyncPublished
  \/ RemoveTemp \/ LeaveTemp \/ Die \/ PowerLoss

Spec == Init /\ [][Next]_vars

-----------------------------------------------------------------------------
TypeOK ==
  /\ folder \in Folder /\ images \subseteq Folder /\ folder \in images
  /\ found \in Files \cup {NoSnapshot}
  /\ saving \in 0..MaxSaves /\ saves \in 0..MaxSaves /\ broken \in 0..MaxFailures
  /\ due \subseteq 0..MaxSaves \cup {NoSnapshot}
  /\ outcome \in {"none", "read", "missing", "invalid", "failed", "saved"}

\* A load finds the snapshot whose save succeeded last, or one whose save
\* began later, whole, whatever failed, died or lost power in between
\* (load, _prepare_publish_state, _publish).
LoadIsDue ==
  /\ outcome = "read"    => found.text \in due
  /\ outcome = "missing" => NoSnapshot \in due

-----------------------------------------------------------------------------
(* What makes the property inductive *)

\* What the proofs need of the constants.
CacheConstants == MaxSaves \in Nat /\ NoSnapshot \notin Files

ValuesOK ==
  /\ folder \in Folder /\ images \subseteq Folder /\ folder \in images
  /\ saving \in 0..MaxSaves /\ saves \in 0..MaxSaves

\* What a load would find in a directory, once the rollback file is dealt with.
Surviving(d) ==
  IF d.cache # NoSnapshot THEN d.cache.text
  ELSE IF d.rollback # NoSnapshot THEN d.rollback.text ELSE NoSnapshot

\* After any crash a load finds what is due.
ImagesAreDue == \A d \in images : Surviving(d) \in due

\* The save in progress may be found, and only a save comes to the places of a save.
ProgressOK ==
  /\ spot # "idle" => outcome = "none" /\ (saving # 0 => saving \in due)
  /\ saving = 0 => spot \in {"idle", "stale", "staleSync", "rollbackSync", "read"}
  /\ spot \in {"rollbackSync", "read"} => folder.rollback = NoSnapshot

\* The file of the save is written before it is published.
Written == [ino |-> saving, text |-> saving]
WrittenOK ==
  /\ spot = "write" => folder.temp = [ino |-> saving, text |-> Half]
  /\ spot \in {"tempSync", "publish"} => folder.temp = Written
  /\ spot \in {"linked", "unlinkSync", "published"} => folder.cache = Written

CacheInv == ValuesOK /\ ImagesAreDue /\ ProgressOK /\ WrittenOK /\ LoadIsDue
=============================================================================
