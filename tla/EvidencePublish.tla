-------------------------- MODULE EvidencePublish --------------------------
(***************************************************************************)
(* The generations of evidence and the pointer current.json                *)
(* (integration_evidence.py).                                              *)
(*                                                                         *)
(* Whoever publishes, rolls back or collects holds the lock set            *)
(* exclusively and begins with a recovery; a reader holds it shared, so it *)
(* sees the files only when no writer is at work, but perhaps after one    *)
(* has died.  The pointer is replaced by a rename, between a marker that   *)
(* names the old and the new pointer and, if a check after the rename      *)
(* fails, a stash that names the new one while current.json is away.       *)
(*                                                                         *)
(* The temporary files of the pointer have no effect and are left out.     *)
(* A generation directory is whole or it is staging; published_at decides  *)
(* which generations are collected first, here any may be.                 *)
(***************************************************************************)
EXTENDS Naturals, FiniteSets

CONSTANTS Nil,          \* no pointer, no generation
          Kept,         \* generations left by a publication (255 in the code)
          MaxIds,       \* bound: generations ever made
          MaxEvidenceFaults  \* bound: failing calls, and deaths of the writer

Ids      == 1 .. MaxIds            \* a name is random and never used again
Pointers == [now : Ids, before : Ids \cup {Nil}]

VARIABLES
  complete, staging,     \* generation directories
  current, commit, stash,\* current.json, .current-commit-*, .current-rollback-*
  at,                    \* where the writer is; "free": the locks are
  task,                  \* what it does
  old, new,              \* the pointer it found and the one it publishes
  outcome,               \* what the last writer reported
  reading,               \* the pointer a reader follows
  made, failures

evidenceVars ==
  <<complete, staging, current, commit, stash, at, task, old, new, outcome, reading, made, failures>>

files == <<complete, staging, current, commit, stash>>

Init ==
  /\ complete = {} /\ staging = {}
  /\ current = Nil /\ commit = Nil /\ stash = Nil
  /\ at = "free" /\ task = "none" /\ old = Nil /\ new = Nil
  /\ outcome = "none" /\ reading = Nil /\ made = 0 /\ failures = 0

Whole(p, generations) == {p.now, p.before} \subseteq generations \cup {Nil}
Valid(p) == Whole(p, complete)                       \* _pointer_bindings_are_valid
Protected(p) == IF p = Nil THEN {} ELSE {p.now, p.before}

\* _acquire_lock: the flock is to be had; evidence_lock_set: also exclusively.
Unlocked  == at = "free"
Exclusive == Unlocked /\ reading = Nil

\* _inspect_complete_generation: a directory that is read as a whole generation,
\* and that the pointer found does not name.
Collectable == complete \ Protected(old)

Goto(a)    == at' = a /\ UNCHANGED <<task, old, new, outcome, reading, made>>
Report(r)  == at' = "free" /\ outcome' = r /\ UNCHANGED <<task, old, new, reading, made>>
Fault      == failures < MaxEvidenceFaults /\ failures' = failures + 1
Fine       == UNCHANGED failures

Generations(c, s) == complete' = c /\ staging' = s /\ UNCHANGED <<current, commit, stash>>
SetCurrent(p) == current' = p /\ UNCHANGED <<complete, staging, commit, stash>>
SetCommit(m)  == commit' = m /\ UNCHANGED <<complete, staging, current, stash>>
SetStash(p)   == stash' = p /\ UNCHANGED <<complete, staging, current, commit>>

\* publish_evidence_generation, rollback_current_evidence, gc_evidence_generations
\* and recover_evidence_staging have the locks and look at what is there.
Begin(t) ==
  /\ Exclusive
  /\ at' = "recover" /\ task' = t /\ outcome' = "none"
  /\ UNCHANGED <<files, old, new, reading, made, failures>>

\* Staging directories go first, in any order.
RecoverStaging ==
  /\ at = "recover"
  /\ \/ \E g \in staging : Generations(complete, staging \ {g}) /\ Goto("recover") /\ Fine
     \/ staging = {} /\ UNCHANGED files /\ Goto("recover marker") /\ Fine
     \/ staging # {} /\ UNCHANGED files /\ Report("stopped") /\ Fault

\* _restore_previous_current_from_marker
RecoverCommit ==
  /\ at = "recover marker" /\ Fine
  /\ LET lost   == current = Nil \/ (current = commit.new /\ ~Valid(current))
         broken == \/ current # Nil /\ current # commit.new /\ ~Valid(current)
                   \/ lost /\ commit.old # Nil /\ ~Valid(commit.old)
     IN CASE commit = Nil -> UNCHANGED files /\ Goto("recover stash")
          [] commit # Nil /\ broken -> UNCHANGED files /\ Report("stopped")
          [] commit # Nil /\ ~broken /\ lost -> SetCurrent(commit.old) /\ Goto("recover unmark")
          [] OTHER -> UNCHANGED files /\ Goto("recover unmark")

RecoverUnmark ==
  /\ at = "recover unmark"
  /\ \/ SetCommit(Nil) /\ Goto("recover stash") /\ Fine
     \/ UNCHANGED files /\ Report("stopped") /\ Fault

\* _recover_current_rollback_stash_artifact
RecoverStash ==
  /\ at = "recover stash" /\ Fine
  /\ CASE stash = Nil -> UNCHANGED files /\ Goto("recovered")
       [] stash # Nil /\ ~Valid(IF current = Nil THEN stash ELSE current) ->
            UNCHANGED files /\ Report("stopped")
       [] OTHER -> SetCurrent(IF current = Nil THEN stash ELSE current) /\ Goto("recover unstash")

RecoverUnstash ==
  /\ at = "recover unstash"
  /\ \/ SetStash(Nil) /\ Goto("recovered") /\ Fine
     \/ UNCHANGED files /\ Report("stopped") /\ Fault

\* rollback_current_evidence: the pointer swaps its two generations, if it has two.
RollBack ==
  /\ task = "rollback" /\ current # Nil /\ current.before # Nil
  /\ new' = [now |-> current.before, before |-> current.now]
  /\ at' = "mark" /\ UNCHANGED outcome

\* gc_evidence_generations: only beside a pointer.
Collect ==
  /\ task = "collect" /\ current # Nil
  /\ new' = current /\ at' = "prune" /\ UNCHANGED outcome

\* The pointer found must be valid.  A rollback without a previous generation
\* is refused, and a collection for another pointer than the caller's.
Refuse ==
  /\ \/ current # Nil /\ ~Valid(current)
     \/ task = "rollback" /\ ~(current # Nil /\ current.before # Nil)
     \/ task = "collect"
  /\ new' = current /\ at' = "free" /\ outcome' = "refused"

Proceed ==
  /\ at = "recovered" /\ UNCHANGED <<files, task, reading, made, failures>>
  /\ old' = current
  /\ \/ Refuse
     \/ /\ current # Nil => Valid(current)
        /\ \/ RollBack
           \/ Collect
           \/ /\ task \in {"publish", "recover"} /\ new' = current /\ UNCHANGED outcome
              /\ at' = (IF task = "recover" THEN "done" ELSE "prune")

Done == at = "done" /\ UNCHANGED files /\ Fine /\ Report("ok")

\* _prune_complete_generations: a generation is renamed to a staging name first.
Limit == IF task = "publish" THEN Kept ELSE Kept + 1
Prune ==
  /\ at = "prune"
  /\ \/ /\ Cardinality(complete) > Limit
        /\ \E g \in Collectable :
             Generations(complete \ {g}, staging \cup {g})
        /\ Goto("pruned") /\ Fine
     \/ /\ Cardinality(complete) <= Limit
        /\ UNCHANGED files /\ Fine /\ Goto(IF task = "publish" THEN "stage" ELSE "done")
     \/ Cardinality(complete) > Limit /\ UNCHANGED files /\ Report("failed") /\ Fault

RemovePruned ==
  /\ at = "pruned"
  /\ \/ \E g \in staging : Generations(complete, staging \ {g}) /\ Goto("prune") /\ Fine
     \/ UNCHANGED files /\ Report("failed") /\ Fault

\* The staging directory and its four files.
Stage ==
  /\ at = "stage" /\ made < MaxIds
  /\ made' = made + 1 /\ Generations(complete, staging \cup {made + 1})
  /\ \/ at' = "whole" /\ Fine /\ UNCHANGED outcome
     \/ at' = "free" /\ outcome' = "failed" /\ Fault
  /\ UNCHANGED <<task, old, new, reading>>

\* _publish_generation_directory_no_replace, and the checks that follow.
PublishDirectory ==
  /\ at = "whole" /\ Generations(complete \cup {made}, staging \ {made})
  /\ new' = [now |-> made, before |-> IF old = Nil THEN Nil ELSE old.now]
  /\ \/ at' = "mark" /\ Fine /\ UNCHANGED outcome
     \/ at' = "free" /\ outcome' = "failed" /\ Fault
  /\ UNCHANGED <<task, old, reading, made>>

\* _atomic_replace_current.  A marker that was written and could not be
\* verified or synced stays.
Mark ==
  /\ at = "mark"
  /\ \/ SetCommit([old |-> old, new |-> new]) /\ Goto("replace") /\ Fine
     \/ SetCommit([old |-> old, new |-> new]) /\ Report("failed") /\ Fault
     \/ UNCHANGED files /\ Report("failed") /\ Fault

\* The check before the rename may fail, or the rename.
Replace ==
  /\ at = "replace"
  /\ \/ SetCurrent(new) /\ Goto("check") /\ Fine
     \/ UNCHANGED files /\ Goto("unmark") /\ Fault

\* Mutant of Check: a check that fails after the rename undoes nothing.
CheckWithoutUndo ==
  /\ at = "check" /\ UNCHANGED files
  /\ \/ Goto("committed") /\ Fine
     \/ task = "publish" /\ Goto("unmark") /\ Fault
     \/ Report("unclear") /\ Fault

\* rebind_publish_parents again: sources may have changed.  Or the new
\* pointer cannot be read back, and everything stays as it is.
Check ==
  /\ at = "check" /\ UNCHANGED files
  /\ \/ Goto("committed") /\ Fine
     \/ task = "publish" /\ Goto("stash") /\ Fault
     \/ Report("unclear") /\ Fault

\* _safe_unlink_owned_file: an error is ignored.
Unmark ==
  /\ at \in {"committed", "unmark"}
  /\ \/ SetCommit(Nil) /\ Fine
     \/ UNCHANGED files /\ Fault
  /\ Report(IF at = "committed" THEN "ok" ELSE "failed")

\* _restore_current_after_failed_commit
Stash ==
  /\ at = "stash"
  /\ \/ SetStash(new) /\ Goto("remove") /\ Fine
     \/ UNCHANGED files /\ Report("unclear") /\ Fault

RemoveCurrent ==
  /\ at = "remove"
  /\ \/ SetCurrent(Nil) /\ Goto(IF old = Nil THEN "unstash" ELSE "restore") /\ Fine
     \/ SetStash(Nil) /\ Report("unclear") /\ Fault

RestoreOld ==
  /\ at = "restore"
  /\ \/ SetCurrent(old) /\ Goto("unstash") /\ Fine
     \/ UNCHANGED files /\ Goto("put back") /\ Fault

PutNewBack ==                       \* _restore_pointer_bytes_if_current_missing
  /\ at = "put back"
  /\ \/ current' = new /\ stash' = Nil /\ UNCHANGED <<complete, staging, commit>> /\ Fine
     \/ UNCHANGED files /\ Fault
  /\ Report("unclear")

Unstash ==
  /\ at = "unstash"
  /\ \/ SetStash(Nil) /\ Fine
     \/ UNCHANGED files /\ Fault
  /\ Goto("unmark")

Crash ==
  /\ at # "free" /\ UNCHANGED files /\ Report("none") /\ Fault

\* read_current_generation_bundle: the pointer, then twice what it names.
ReadPointer ==
  /\ Unlocked /\ reading = Nil /\ current # Nil
  /\ reading' = current
  /\ UNCHANGED <<files, at, task, old, new, outcome, made, failures>>
ReadEnds ==
  /\ reading # Nil /\ reading' = Nil
  /\ UNCHANGED <<files, at, task, old, new, outcome, made, failures>>

Next ==
  \/ \E t \in {"publish", "rollback", "collect", "recover"} : Begin(t)
  \/ RecoverStaging \/ RecoverCommit \/ RecoverUnmark \/ RecoverStash \/ RecoverUnstash
  \/ Proceed \/ Done \/ Prune \/ RemovePruned \/ Stage \/ PublishDirectory
  \/ Mark \/ Replace \/ Check \/ Unmark
  \/ Stash \/ RemoveCurrent \/ RestoreOld \/ PutNewBack \/ Unstash \/ Crash
  \/ ReadPointer \/ ReadEnds
-----------------------------------------------------------------------------
TypeOK ==
  /\ complete \subseteq Ids /\ staging \subseteq Ids
  /\ current \in Pointers \cup {Nil} /\ stash \in Pointers \cup {Nil}
  /\ commit \in {Nil} \cup [old : Pointers \cup {Nil}, new : Pointers]
  /\ made \in 0 .. MaxIds /\ failures \in 0 .. MaxEvidenceFaults

\* What current.json names, what it named and what a recovery may put there is
\* complete, at every moment of every publication, rollback, collection and
\* recovery: a reader never follows the pointer to a generation that is
\* partly written or partly collected, and what it reads is current to the end.
PointerComplete ==
  /\ \A p \in {current, stash} \ {Nil} : Valid(p)
  /\ reading # Nil => reading = current

\* After the deaths and failures of one writer, the recovery leaves the pointer
\* that writer found or the one it was publishing, and never none if there was one.
RecoveryKeepsPointer ==
  at = "recovered" => current \in {old, new}

\* A writer that reports success has its pointer in place; one that reports an
\* ordinary failure has changed nothing.
OutcomeIsTrue ==
  at = "free" => /\ outcome = "ok" => current = new
                 /\ outcome = "failed" => current = old
-----------------------------------------------------------------------------
(* What makes the three properties inductive *)

Markers == [old : Pointers \cup {Nil}, new : Pointers]

\* Assumption: nothing else is called Nil.
EvidenceConstants == MaxIds \in Nat /\ Nil \notin Ids \cup Pointers \cup Markers

ValuesOK ==
  /\ complete \subseteq Ids /\ made \in 0 .. MaxIds
  /\ {current, stash, old, new} \subseteq Pointers \cup {Nil}
  /\ commit \in {Nil} \cup Markers

\* Every pointer in a file names complete generations.
FilesWhole ==
  /\ \A p \in {current, stash} \ {Nil} : Valid(p)
  /\ commit # Nil => Valid(commit.new) /\ (commit.old # Nil => Valid(commit.old))

\* A reader excludes the writers.
ReaderAlone == reading # Nil => at = "free" /\ reading = current

\* The files know no pointers but those of the last writer; if there is none
\* the marker or the stash tells the recovery which to restore.
FilesOfOne ==
  /\ current \in {Nil, old, new} /\ stash \in {Nil, new}
  /\ commit # Nil => commit.old = old /\ commit.new = new
  /\ current = Nil /\ commit = Nil /\ stash = Nil => old = Nil \/ new = Nil

\* A recovery ends without marker and stash, and nothing is written before
\* the marker.
Unmarked ==
  /\ at \in {"recover stash", "recover unstash", "recovered", "prune", "pruned", "stage", "whole",
             "mark", "done"} => commit = Nil
  /\ at \in {"recovered", "prune", "pruned", "stage", "whole", "mark", "done"} => stash = Nil
  /\ at \in {"recover unmark", "recover unstash", "recovered"} => current \in {old, new}

\* What the writer relies on between its steps.
WriterKnows ==
  /\ at \in {"prune", "pruned", "stage", "whole", "mark", "replace", "unmark", "unstash"} =>
       current = old
  /\ at \in {"prune", "pruned", "check", "committed", "stash", "remove", "done"} => current = new
  /\ at \in {"restore", "put back"} => old # Nil /\ current = Nil
  /\ at = "whole" => made \in Ids
  /\ at = "mark" => new # Nil /\ Valid(new)
  /\ at \in {"replace", "check", "committed", "unmark", "stash", "remove", "restore", "put back",
             "unstash"} => commit # Nil

EvidenceInv ==
  /\ ValuesOK /\ FilesWhole /\ ReaderAlone /\ FilesOfOne /\ Unmarked /\ WriterKnows
  /\ OutcomeIsTrue
=============================================================================
