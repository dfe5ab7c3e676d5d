---------------------------- MODULE PrivateWrite ----------------------------
(***************************************************************************)
(* Replacing a private file (private_io.py, write_private_text).           *)
(*                                                                         *)
(* A writer holds the file's path lock, readers and those who remove the   *)
(* file do not.  It writes a temporary file, copies the present text to a  *)
(* rollback file, renames the temporary file over the target, syncs the    *)
(* directory and unlinks the rollback copy; the create-only form links the *)
(* temporary file instead.  Any of these steps may fail, and the writer    *)
(* may die between any two.                                                *)
(*                                                                         *)
(* dir is what processes see.  images are the directories a power loss may *)
(* leave: every state since the last sync, the metadata being written in   *)
(* order.  Temporary names are never used twice and nobody reads such a    *)
(* file, so they are left out of dir, except as a second name of target.   *)
(***************************************************************************)
EXTENDS Naturals

CONSTANTS Texts,         \* complete texts
          NoFile,        \* no file of that name
          Torn,          \* a copy that is not complete
          MaxFaults,     \* bound: failing system calls
          MaxCrashes     \* bound: deaths of the writer and power losses

Contents  == Texts \cup {NoFile, Torn}
Directory == [target : Contents, rollback : Contents,
              linked : BOOLEAN]    \* target and a temporary name are one file

VARIABLES
  dir, images,
  pc,                    \* where the writer is
  create,                \* the write must not replace a file
  text,                  \* the text being written, or written last
  before,                \* what the target was when the write began
  maybe,                 \* ... and what a power loss might have made of it
  result,                \* what the last write reported
  removed,               \* somebody has removed the file behind the writer's back
  faults, crashes

writeVars == <<create, text, before, maybe>>
boundVars == <<faults, crashes>>
vars == <<dir, images, pc, create, text, before, maybe, result, removed, faults, crashes>>

Nothing == [target |-> NoFile, rollback |-> NoFile, linked |-> FALSE]

Init ==
  /\ dir = Nothing /\ images = {Nothing}
  /\ pc = "idle" /\ create = FALSE
  /\ text = NoFile /\ before = NoFile /\ maybe = {NoFile}
  /\ result = "none" /\ removed = FALSE
  /\ faults = 0 /\ crashes = 0

Change(d)  == dir' = d /\ images' = images \cup {d}
Synced     == images' = {dir} /\ UNCHANGED dir       \* _fsync_directory
Untouched  == UNCHANGED <<dir, images>>
Goto(to)   == pc' = to /\ UNCHANGED <<result, removed>> /\ UNCHANGED writeVars
Fault      == faults < MaxFaults /\ faults' = faults + 1 /\ UNCHANGED crashes
End(r)     == pc' = "idle" /\ result' = r /\ UNCHANGED <<removed>> /\ UNCHANGED writeVars

\* write_private_text has got the lock.
Begin(t, c) ==
  /\ pc = "idle"
  /\ pc' = IF c THEN "check" ELSE "recover"
  /\ create' = c /\ text' = t /\ before' = dir.target /\ result' = "none"
  /\ maybe' = {d.target : d \in images}
  /\ UNCHANGED <<dir, images, removed>> /\ UNCHANGED boundVars

\* _recover_stale_rollback: a copy without a target becomes the target.
RestoreStale ==
  /\ pc = "recover" /\ dir.rollback # NoFile /\ dir.target = NoFile
  /\ Change([dir EXCEPT !.target = dir.rollback, !.rollback = NoFile])
  /\ Goto("restored") /\ UNCHANGED boundVars

SyncRestored ==
  /\ pc = "restored"
  /\ \/ Synced /\ Goto("check") /\ UNCHANGED boundVars
     \/ Fault /\ Untouched /\ End("refused")

\* Target and copy must have one name each.
RecoverNothing ==
  /\ pc = "recover" /\ (dir.rollback = NoFile \/ dir.target # NoFile)
  /\ IF dir.linked /\ dir.rollback # NoFile THEN End("refused") ELSE Goto("check")
  /\ Untouched /\ UNCHANGED boundVars

\* A target with a second name is refused.
CheckTarget ==
  /\ pc = "check"
  /\ \/ dir.target # NoFile /\ dir.linked /\ End("refused")
     \/ ~(dir.target # NoFile /\ dir.linked)
        /\ Goto(IF dir.rollback # NoFile /\ ~create THEN "stale" ELSE "temp")
  /\ Untouched /\ UNCHANGED boundVars

DropStale ==
  /\ pc = "stale"
  /\ \/ Change([dir EXCEPT !.rollback = NoFile]) /\ Goto("staleSync") /\ UNCHANGED boundVars
     \/ Fault /\ Untouched /\ End("refused")

SyncStale ==
  /\ pc = "staleSync"
  /\ \/ Synced /\ Goto("temp") /\ UNCHANGED boundVars
     \/ Fault /\ Untouched /\ End("refused")

\* Written and synced as a file.
WriteTemporary ==
  /\ pc = "temp"
  /\ \/ /\ Untouched
        /\ Goto(IF create THEN "link" ELSE IF dir.target # NoFile THEN "copy" ELSE "ready")
        /\ UNCHANGED boundVars
     \/ Fault /\ Untouched /\ Goto("cleanup")

\* _copy_private_file
CopyBegin ==
  /\ pc = "copy"
  /\ \/ Change([dir EXCEPT !.rollback = Torn]) /\ Goto("copying") /\ UNCHANGED boundVars
     \/ Fault /\ Untouched /\ Goto("cleanup")

\* Refused if the file has gone during the copy.
CopyEnd ==
  /\ pc = "copying"
  /\ \/ /\ dir.target # NoFile
        /\ Change([dir EXCEPT !.rollback = dir.target])
        /\ Goto("ready") /\ UNCHANGED boundVars
     \/ dir.target = NoFile /\ Untouched /\ Goto("cleanup") /\ UNCHANGED boundVars
     \/ Fault /\ Untouched /\ Goto("cleanup")

SyncBeforeReplace ==
  /\ pc = "ready"
  /\ \/ Synced /\ Goto("replace") /\ UNCHANGED boundVars
     \/ Fault /\ Untouched /\ Goto("cleanup")

Replace ==
  /\ pc = "replace"
  /\ \/ /\ Change([dir EXCEPT !.target = text])
        /\ Goto("publish") /\ UNCHANGED boundVars
     \/ Fault /\ Untouched /\ Goto("cleanup")

\* Mutant of SyncPublished: the rename is not made durable.
SkipPublishSync ==
  /\ pc = "publish"
  /\ Untouched /\ Goto("drop") /\ UNCHANGED boundVars

SyncPublished ==
  /\ pc = "publish"
  /\ \/ Synced /\ Goto("drop") /\ UNCHANGED boundVars
     \/ Fault /\ Untouched /\ Goto("undo")

DropRollback ==
  /\ pc = "drop"
  /\ \/ dir.rollback = NoFile /\ Untouched /\ UNCHANGED boundVars /\ End("ok")
     \/ dir.rollback # NoFile /\ Change([dir EXCEPT !.rollback = NoFile])
          /\ UNCHANGED boundVars /\ End("ok")
     \/ dir.rollback # NoFile /\ Fault /\ Untouched /\ Goto("undo")

\* The old text is renamed back, or the new file unlinked if there was none.
UndoPublish ==
  /\ pc = "undo"
  /\ \/ /\ Change([dir EXCEPT !.target = dir.rollback, !.rollback = NoFile])
        /\ dir.rollback # NoFile \/ dir.target # NoFile
        /\ Goto("undoSync") /\ UNCHANGED boundVars
     \/ dir.rollback = NoFile /\ dir.target = NoFile /\ Untouched
          /\ Goto("undoFailed") /\ UNCHANGED boundVars
     \/ Fault /\ Untouched /\ Goto("undoFailed")

\* Its error is ignored.
SyncUndone ==
  /\ pc = "undoSync"
  /\ \/ Synced /\ UNCHANGED boundVars
     \/ Fault /\ Untouched
  /\ End("failed")

\* The finally clause unlinks the copy although it could not be put back.
UndoFailed ==
  /\ pc = "undoFailed"
  /\ \/ Change([dir EXCEPT !.rollback = NoFile]) /\ UNCHANGED boundVars
     \/ Fault /\ Untouched
  /\ End("rollback failed")

\* The finally clause of a write that has not replaced anything.
Cleanup ==
  /\ pc = "cleanup"
  /\ \/ Change([dir EXCEPT !.rollback = NoFile]) /\ UNCHANGED boundVars
     \/ Fault /\ Untouched
  /\ End("failed")

Link ==
  /\ pc = "link"
  /\ \/ dir.target = NoFile /\ Change([dir EXCEPT !.target = text, !.linked = TRUE])
          /\ Goto("unlinkTemp") /\ UNCHANGED boundVars
     \/ dir.target # NoFile /\ Untouched /\ Goto("cleanup") /\ UNCHANGED boundVars
     \/ Fault /\ Untouched /\ Goto("cleanup")

UnlinkTemporary ==
  /\ pc = "unlinkTemp"
  /\ \/ Change([dir EXCEPT !.linked = FALSE]) /\ Goto("linkSync")
          /\ UNCHANGED boundVars
     \/ Fault /\ Untouched /\ Goto("unlink")

UndoLink ==
  /\ pc = "unlink"
  /\ \/ dir.target # NoFile /\ Change([dir EXCEPT !.target = NoFile, !.linked = FALSE])
          /\ Goto("cleanup") /\ UNCHANGED boundVars
     \/ dir.target = NoFile /\ Untouched /\ End("rollback failed") /\ UNCHANGED boundVars
     \/ Fault /\ Untouched /\ End("rollback failed")

\* Nothing is undone when this fails: the file is there.
SyncLinked ==
  /\ pc = "linkSync"
  /\ \/ Synced /\ UNCHANGED boundVars /\ End("ok")
     \/ Fault /\ Untouched /\ End("created, not synced")

\* Others remove or move the file without the path lock (reset, account delete).
Remove ==
  /\ dir.target # NoFile
  /\ Change([dir EXCEPT !.target = NoFile, !.linked = FALSE])
  /\ removed' = TRUE
  /\ UNCHANGED <<pc, result>> /\ UNCHANGED writeVars /\ UNCHANGED boundVars

Dies == crashes < MaxCrashes /\ crashes' = crashes + 1 /\ UNCHANGED faults
Forget == pc' = "idle" /\ result' = "none" /\ UNCHANGED removed /\ UNCHANGED writeVars

Crash ==
  /\ pc # "idle" /\ Dies /\ Forget
  /\ UNCHANGED <<dir, images>>

PowerLoss ==
  /\ Dies
  /\ \E d \in images : dir' = d /\ images' = {d}
  /\ pc' = "idle" /\ UNCHANGED <<removed>> /\ UNCHANGED writeVars
  /\ result' = IF pc = "idle" /\ result = "ok" THEN "ok" ELSE "none"

Next ==
  \/ \E t \in Texts, c \in BOOLEAN : Begin(t, c)
  \/ RestoreStale \/ SyncRestored \/ RecoverNothing \/ CheckTarget
  \/ DropStale \/ SyncStale \/ WriteTemporary \/ CopyBegin \/ CopyEnd
  \/ SyncBeforeReplace \/ Replace \/ SyncPublished \/ DropRollback
  \/ UndoPublish \/ SyncUndone \/ UndoFailed \/ Cleanup
  \/ Link \/ UnlinkTemporary \/ UndoLink \/ SyncLinked
  \/ Remove \/ Crash \/ PowerLoss

Spec == Init /\ [][Next]_vars
-----------------------------------------------------------------------------
(* Properties *)

TypeOK ==
  /\ dir \in Directory /\ images \subseteq Directory
  /\ create \in BOOLEAN /\ removed \in BOOLEAN
  /\ text \in Texts \cup {NoFile} /\ before \in Contents /\ maybe \subseteq Contents
  /\ faults \in 0 .. MaxFaults /\ crashes \in 0 .. MaxCrashes

\* While nobody removes the file behind the writer's back, a reader and a power
\* loss find the text from before the present write or the one being written,
\* and never a torn copy.
OldOrNew ==
  ~removed => \A d \in images \cup {dir} : d.target \in (maybe \cup {text}) \ {Torn}

\* What write_private_text reports is true: after a success the new text
\* survives a power loss; after a replacement that failed and could be undone
\* the old text is there.
ReportIsTrue ==
  ~removed /\ pc = "idle" =>
    /\ result = "ok" => \A d \in images : d.target = text
    /\ result = "failed" /\ ~create => dir.target = before
-----------------------------------------------------------------------------
(* What makes the two properties inductive *)

\* Assumption: the file is missing, torn or a text.
WriteConstants == NoFile # Torn /\ NoFile \notin Texts /\ Torn \notin Texts

\* What processes see may survive a power loss.
DirectoryOK == images \subseteq Directory /\ dir \in images

\* A write under way has a text, has found one of the states that a power loss
\* could leave, and reports nothing yet.
Engaged == pc # "idle" => text \in Texts /\ before \in maybe /\ result = "none"

\* A copy stands beside a target: there is never one that a recovery would put
\* in the place of a missing file.
CopyHasTarget == \A d \in images : d.target = NoFile => d.rollback = NoFile

\* Until the new file is in place the target is the old one.
NotYet ==
  /\ pc \in {"recover", "check", "stale", "staleSync", "temp", "copy", "copying",
             "ready", "replace", "link", "undoSync"} => dir.target = before
  /\ pc = "cleanup" /\ ~create => dir.target = before
  /\ pc \in {"copy", "copying"} => before # NoFile
  /\ pc # "idle" => before # Torn
  /\ pc # "restored"

\* From the end of the copy until it is dropped it is the old file, or both are
\* missing.
CopyIsOld == pc \in {"ready", "replace", "publish", "drop", "undo"} => dir.rollback = before

\* The new file is in place, and from some point on a power loss keeps it.
InPlace ==
  /\ pc \in {"publish", "drop", "undo", "undoFailed", "unlinkTemp", "linkSync"} => dir.target = text
  /\ pc = "drop" => \A d \in images : d.target = text
  /\ pc \in {"unlinkTemp", "unlink"} => before = NoFile /\ dir.rollback = NoFile

\* The form with which each step is reached.
Form ==
  /\ pc \in {"recover", "restored", "stale", "staleSync", "copy", "copying", "ready", "replace",
             "publish", "drop", "undo", "undoSync", "undoFailed"} => ~create
  /\ pc \in {"link", "unlinkTemp", "unlink", "linkSync"} => create

WriteInv ==
  /\ DirectoryOK /\ Engaged /\ Form
  /\ ~removed => CopyHasTarget /\ NotYet /\ CopyIsOld /\ InPlace
  /\ OldOrNew /\ ReportIsTrue
=============================================================================
