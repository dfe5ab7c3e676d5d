--------------------------- MODULE AuthMigration ---------------------------
(***************************************************************************)
(* The migration of login files into the profiles (profile_migration.py):  *)
(* the plan, its application with the cleanup of a failed one, and the     *)
(* rollback by the manifest.                                               *)
(*                                                                         *)
(* The manifest's lock makes applications and rollbacks of one manifest    *)
(* exclude each other, but not the commands that log an account in: a      *)
(* login may put its own file in the target at any moment.                 *)
(***************************************************************************)
EXTENDS Naturals, FiniteSets

CONSTANTS
    Members,        \* the accounts of the configuration
    MaxIncidents    \* bound: failures, crashes and logins

Nobody == "nobody"  \* no target is being looked at

VARIABLES
    targets,    \* the profile's auth.json: "none", "migrated" or "login"
    homes,      \* the profile: "none", "new" (made by the application) or "old"
    unfit,      \* accounts whose source cannot be taken over (any more)
    ledger,     \* the manifest: "none", "applied" or "rolled_back"
    entries,    \* the accounts whose target the manifest says was applied
    plan,       \* the accounts that the plan takes over
    march,      \* what is under way
    rest,       \* the accounts it still has to deal with
    placed,     \* the accounts whose target this application recorded
    examined,   \* the target that was found to be the migration's own
    complaints, \* accounts for which the cleanup reported an error
    residue,    \* history variable: targets a failed write left behind
    wiped,      \* history variable: accounts whose own login was removed
    raced,      \* history variable: those that logged in while being examined
    incidents   \* history variable: failures, crashes and logins so far

vars == <<targets, homes, unfit, ledger, entries, plan, march, rest, placed,
          examined, complaints, residue, wiped, raced, incidents>>

disk == <<targets, homes, ledger, entries>>
ghosts == <<residue, wiped, raced>>

Init ==
    /\ targets \in [Members -> {"none", "login"}]
    /\ homes \in [Members -> {"none", "old"}]
    /\ \A m \in Members : targets[m] = "login" => homes[m] = "old"
    /\ unfit = {}
    /\ ledger = "none" /\ entries = {}
    /\ plan = {} /\ march = "idle" /\ rest = {} /\ placed = {}
    /\ examined = Nobody
    /\ complaints = {} /\ residue = {} /\ wiped = {} /\ raced = {}
    /\ incidents = 0

Incident == incidents < MaxIncidents /\ incidents' = incidents + 1

-----------------------------------------------------------------------------
\* The others.

\* A login makes the profile and puts its file in place of the target.
Login(m) ==
    /\ Incident
    /\ targets[m] # "login"
    /\ targets' = [targets EXCEPT ![m] = "login"]
    /\ homes' = [homes EXCEPT ![m] = "old"]
    /\ raced' = IF examined = m THEN raced \cup {m} ELSE raced
    /\ UNCHANGED <<unfit, ledger, entries, plan, march, rest, placed, examined,
                   complaints, residue, wiped>>

\* A source disappears, loses its permissions or turns into something else.
SourceSpoils(m) ==
    /\ Incident
    /\ m \notin unfit
    /\ unfit' = unfit \cup {m}
    /\ UNCHANGED <<disk, plan, march, rest, placed, examined, complaints, ghosts>>

-----------------------------------------------------------------------------
\* plan_auth_migration() and apply_auth_migration().

\* An account that has its target is canonical: its configured file is the target
\* (anything else is a conflict, and nothing is applied).  The others are planned
\* while their source is fit.
Planned == {m \in Members : targets[m] = "none"}

Plan ==
    /\ march = "idle"
    /\ Planned \cap unfit = {} /\ Planned # {}
    /\ plan' = Planned
    /\ march' = "check"
    /\ UNCHANGED <<disk, unfit, rest, placed, examined, complaints, ghosts,
                   incidents>>

\* Everything is verified again before the first write.
Check ==
    /\ march = "check"
    /\ IF /\ plan \cap unfit = {}
          /\ \A m \in plan : targets[m] = "none"
          /\ \A m \in Members \ plan : targets[m] # "none"
       THEN march' = "apply" /\ rest' = plan
       ELSE march' = "idle" /\ rest' = {}
    /\ UNCHANGED <<disk, unfit, plan, placed, examined, complaints, ghosts,
                   incidents>>

\* What an exception does: everything created is to be removed again.
Abandon ==
    /\ march' = "clean" /\ rest' = plan

\* ensure_profile_layout(): its directories and its metadata, unless there.
MakeHome(m) ==
    /\ march = "apply" /\ m \in rest /\ homes[m] = "none"
    /\ homes' = [homes EXCEPT ![m] = "new"]
    /\ \/ UNCHANGED <<march, rest, incidents>>
       \/ Incident /\ Abandon
    /\ UNCHANGED <<targets, unfit, ledger, entries, plan, placed, examined,
                   complaints, ghosts>>

\* The target is only ever created.  A write that fails may have created it
\* (its last sync is what failed), and then nobody has recorded it.
Place(m) ==
    /\ march = "apply" /\ m \in rest /\ homes[m] # "none"
    /\ \/ /\ targets[m] = "none"
          /\ targets' = [targets EXCEPT ![m] = "migrated"]
          /\ placed' = placed \cup {m}
          /\ rest' = rest \ {m}
          /\ UNCHANGED <<march, residue, incidents>>
       \/ /\ targets[m] # "none"
          /\ Abandon
          /\ UNCHANGED <<targets, placed, residue, incidents>>
       \/ /\ targets[m] = "none"
          /\ Incident
          /\ \/ UNCHANGED <<targets, residue>>
             \/ /\ targets' = [targets EXCEPT ![m] = "migrated"]
                /\ residue' = residue \cup {m}
          /\ Abandon
          /\ UNCHANGED placed
    /\ UNCHANGED <<homes, unfit, ledger, entries, plan, examined, complaints,
                   wiped, raced>>

\* The manifest is created last, and never in place of another; it too may be
\* there although its write failed.
Publish ==
    /\ march = "apply" /\ rest = {}
    /\ \/ /\ ledger = "none"
          /\ ledger' = "applied" /\ entries' = plan
          /\ march' = "idle" /\ rest' = {} /\ placed' = {}
          /\ UNCHANGED incidents
       \/ /\ ledger # "none"
          /\ Abandon
          /\ UNCHANGED <<ledger, entries, placed, incidents>>
       \/ /\ ledger = "none"
          /\ Incident /\ Abandon
          /\ \/ UNCHANGED <<ledger, entries>>
             \/ ledger' = "applied" /\ entries' = plan
          /\ UNCHANGED placed
    /\ UNCHANGED <<targets, homes, unfit, plan, examined, complaints, ghosts>>

\* A process that dies cleans nothing.
Crash ==
    /\ march \in {"apply", "clean", "undo"}
    /\ Incident
    /\ march' = "idle" /\ rest' = {} /\ placed' = {} /\ examined' = Nobody
    /\ complaints' = {}
    /\ residue' = residue \cup {m \in Members : targets[m] = "migrated" /\ march # "undo"}
    \* what it had made is a profile like any other now
    /\ homes' = [m \in Members |-> IF homes[m] = "new" THEN "old" ELSE homes[m]]
    /\ UNCHANGED <<targets, unfit, ledger, entries, plan, wiped, raced>>

-----------------------------------------------------------------------------
\* _cleanup_created_migration_files() and ..._directories().

\* A plausible bug: the identity of the file is not compared.
IsPlaced(m) == m \in placed

\* A target is removed when it is still the file that was recorded.
OwnTarget(m) == m \in placed /\ targets[m] = "migrated"

CleanLook(m) ==
    /\ march = "clean" /\ m \in rest /\ examined = Nobody
    /\ IF OwnTarget(m)
       THEN examined' = m /\ UNCHANGED rest
       ELSE examined' = Nobody /\ rest' = rest \ {m}
    /\ UNCHANGED <<disk, unfit, plan, march, placed, complaints, ghosts,
                   incidents>>

\* unlink() of the target under its name, whatever it holds by now.
Unlink(m) ==
    /\ targets' = [targets EXCEPT ![m] = "none"]
    /\ wiped' = IF targets[m] = "login" THEN wiped \cup {m} ELSE wiped

CleanUnlink(m) ==
    /\ march = "clean" /\ examined = m
    /\ \/ Unlink(m) /\ UNCHANGED <<complaints, incidents>>
       \/ /\ Incident
          /\ complaints' = complaints \cup {m}
          /\ UNCHANGED <<targets, wiped>>
    /\ examined' = Nobody
    /\ rest' = rest \ {m}
    /\ UNCHANGED <<homes, unfit, ledger, entries, plan, march, placed, residue,
                   raced>>

\* The directories go last, and only when they are empty.
CleanHomes ==
    /\ march = "clean" /\ rest = {}
    /\ LET new == {m \in plan : homes[m] = "new"}
           full == {m \in new : targets[m] # "none"}
       IN  /\ homes' = [m \in Members |-> IF m \in new \ full THEN "none" ELSE homes[m]]
           /\ complaints' = complaints \cup full
    /\ march' = "failed"
    /\ UNCHANGED <<targets, unfit, ledger, entries, plan, rest, placed, examined,
                   ghosts, incidents>>

\* The caller has read the error; the next command may begin.
Again ==
    /\ march = "failed"
    /\ march' = "idle"
    /\ placed' = {} /\ complaints' = {}
    /\ residue' = residue \cup {m \in complaints : targets[m] = "migrated"}
    /\ homes' = [m \in Members |-> IF homes[m] = "new" THEN "old" ELSE homes[m]]
    /\ UNCHANGED <<targets, unfit, ledger, entries, plan, rest, examined, wiped,
                   raced, incidents>>

-----------------------------------------------------------------------------
\* rollback_auth_migration().

RollBack ==
    /\ march = "idle" /\ ledger = "applied"
    /\ march' = "undo" /\ rest' = entries
    /\ UNCHANGED <<disk, unfit, plan, placed, examined, complaints, ghosts,
                   incidents>>

\* A missing target is passed over; one whose digest differs ends the rollback,
\* with what was removed before removed and the manifest as it was.
UndoLook(m) ==
    /\ march = "undo" /\ m \in rest /\ examined = Nobody
    /\ CASE targets[m] = "none" ->
              rest' = rest \ {m} /\ UNCHANGED <<march, examined>>
         [] targets[m] = "migrated" ->
              examined' = m /\ UNCHANGED <<march, rest>>
         [] targets[m] = "login" ->
              march' = "idle" /\ rest' = {} /\ UNCHANGED examined
    /\ UNCHANGED <<disk, unfit, plan, placed, complaints, ghosts, incidents>>

UndoUnlink(m) ==
    /\ march = "undo" /\ examined = m
    /\ \/ Unlink(m) /\ rest' = rest \ {m} /\ UNCHANGED <<march, incidents>>
       \/ /\ Incident
          /\ march' = "idle" /\ rest' = {}
          /\ UNCHANGED <<targets, wiped>>
    /\ examined' = Nobody
    /\ UNCHANGED <<homes, unfit, ledger, entries, plan, placed, complaints,
                   residue, raced>>

UndoEnds ==
    /\ march = "undo" /\ rest = {}
    /\ march' = "idle"
    /\ \/ ledger' = "rolled_back" /\ UNCHANGED incidents
       \/ Incident /\ UNCHANGED ledger
    /\ UNCHANGED <<targets, homes, unfit, entries, plan, rest, placed, examined,
                   complaints, ghosts>>

-----------------------------------------------------------------------------
Next ==
    \/ \E m \in Members :
          \/ Login(m)
          \/ SourceSpoils(m)
          \/ MakeHome(m)
          \/ Place(m)
          \/ CleanLook(m)
          \/ CleanUnlink(m)
          \/ UndoLook(m)
          \/ UndoUnlink(m)
    \/ Plan
    \/ Check
    \/ Publish
    \/ Crash
    \/ CleanHomes
    \/ Again
    \/ RollBack
    \/ UndoEnds

-----------------------------------------------------------------------------
\* Type invariant of the profiles, the manifest and what is under way.
TypeOK ==
    /\ targets \in [Members -> {"none", "migrated", "login"}]
    /\ homes \in [Members -> {"none", "new", "old"}]
    /\ \A m \in Members : targets[m] # "none" => homes[m] # "none"
    /\ ledger \in {"none", "applied", "rolled_back"}
    /\ march \in {"idle", "check", "apply", "clean", "failed", "undo"}
    /\ UNION {unfit, entries, plan, rest, placed, complaints, residue, wiped, raced}
           \subseteq Members
    /\ examined \in Members \cup {Nobody}
    /\ incidents \in 0 .. MaxIncidents

\* Safety.  A migration that failed, or was rolled back, has left no login file
\* and no profile of its making, except what the error names or a write that
\* failed after it had created its file left behind; and neither the cleanup
\* nor the rollback (profile_migration.py:359-380, 259-262) removes the file of
\* a login, except one that came between the look at the file and its removal.
MigrationIsUndone ==
    /\ march = "failed" =>
          \A m \in plan \ (complaints \cup residue) :
              targets[m] # "migrated" /\ homes[m] # "new"
    /\ ledger = "rolled_back" =>
          \A m \in entries \ residue : targets[m] = "migrated" => m \in placed
    /\ wiped \subseteq raced
-----------------------------------------------------------------------------
(* What makes the property inductive *)

\* What the proofs need of the constants.
MigrationConstants == Nobody \notin Members /\ MaxIncidents \in Nat

\* A file that the migration has made, where a plan member had none, is recorded or was
\* left behind by a failed write.
MadeIsKnown ==
    /\ march \in {"idle", "check", "undo"} => placed = {}
    /\ march \in {"idle", "check", "failed"} => rest = {}
    /\ placed \subseteq plan /\ rest \subseteq plan \cup entries
    /\ march \in {"check", "apply", "clean"} =>
          \A m \in plan : targets[m] = "migrated" => m \in placed \cup residue
    /\ march \in {"apply", "clean"} => rest \subseteq plan

\* What the cleanup, and a rollback, has dealt with.
Cleaned ==
    /\ march = "clean" =>
          \A m \in plan \ (rest \cup complaints \cup residue) : targets[m] # "migrated"
    /\ march = "undo" =>
          \A m \in entries \ rest : targets[m] # "migrated"
    /\ march = "undo" => ledger = "applied" /\ rest \subseteq entries

\* The file that is being looked at is the migration's, or a login that came meanwhile.
Examined ==
    examined # Nobody =>
        /\ march \in {"clean", "undo"} /\ examined \in rest
        /\ targets[examined] = "login" => examined \in raced

MigrationInv == TypeOK /\ MadeIsKnown /\ Cleaned /\ Examined /\ MigrationIsUndone
=============================================================================
