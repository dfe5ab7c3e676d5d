--------------------------- MODULE ServiceInstall ---------------------------
(***************************************************************************)
(* The managed systemd units and their runtime (service.py).               *)
(*                                                                         *)
(* A runtime is built aside and exchanged with the current one, two units  *)
(* are staged and renamed over the old ones.  A journal, written first,    *)
(* tells what was there before and which files are this installation's     *)
(* own; every command begins with the recovery it calls for, and the       *)
(* recovery refuses a state it does not know.  One command runs at a time, *)
(* any call may fail, the command may die and the machine restart.         *)
(*                                                                         *)
(* A generation is the runtime of one installation and the text of its     *)
(* units; files are told apart by inode.  Removing a directory is one step.*)
(* Nobody else edits the units, the runtime or the journal.                *)
(***************************************************************************)
EXTENDS Naturals

CONSTANTS Missing,       \* no runtime, no unit, no journal
          MaxInstalls,   \* bound: installations
          MaxSetbacks    \* bound: failing calls, deaths and restarts

Generations == 1 .. MaxInstalls
Units       == 1 .. 2              \* service and timer
UnitFiles   == [text : Generations, ino : Nat]
Off         == [enabled |-> FALSE, active |-> FALSE]
On          == [enabled |-> TRUE, active |-> TRUE]

VARIABLES
  runtime, aside,        \* the current generation and the one beside it
  unit, staged,          \* unit files, and those still to be renamed
  entry,                 \* the journal
  timer,                 \* systemd: enabled and active
  spot, command,         \* where the command is; "idle": the lock is free
  rescue,                \* it recovers from its own error
  amiss,                 \* a unit could not be restored
  was,                   \* what the command found
  answer,
  built, inode, setbacks

serviceVars == <<runtime, aside, unit, staged, entry, timer, spot, command, rescue, amiss, was,
                 answer, built, inode, setbacks>>

Nowhere == [i \in Units |-> Missing]
UnitTexts(u) == [i \in Units |-> IF u[i] = Missing THEN 0 ELSE u[i].text]
Found   == [runtime |-> runtime, timer |-> timer, text |-> UnitTexts(unit)]

Init ==
  /\ runtime = Missing /\ aside = Missing /\ unit = Nowhere /\ staged = Nowhere
  /\ entry = Missing /\ timer = Off
  /\ spot = "idle" /\ command = "none" /\ rescue = FALSE /\ amiss = FALSE
  /\ was = Found /\ answer = "none" /\ built = 0 /\ inode = 0 /\ setbacks = 0

\* A step changes some of the files and systemd, and goes on somewhere.
Files(r, a, u, s, e, t) ==
  /\ runtime' = r /\ aside' = a /\ unit' = u /\ staged' = s /\ entry' = e /\ timer' = t
Same       == Files(runtime, aside, unit, staged, entry, timer)
Runtime(r, a) == Files(r, a, unit, staged, entry, timer)
Unit(u, s) == Files(runtime, aside, u, s, entry, timer)
Entry(e)   == Files(runtime, aside, unit, staged, e, timer)
Timer(t)   == Files(runtime, aside, unit, staged, entry, t)
AsideGone  == Runtime(runtime, Missing)

Rest     == UNCHANGED <<command, was, built>>
Go(s)    == spot' = s /\ UNCHANGED <<rescue, amiss, answer, inode>> /\ Rest
Tell(a)  == spot' = "idle" /\ answer' = a /\ UNCHANGED <<rescue, amiss, inode>> /\ Rest
Fine     == UNCHANGED setbacks
Setback  == setbacks < MaxSetbacks /\ setbacks' = setbacks + 1
\* An error after the journal is complete: the command recovers itself.
Rescue   == spot' = "look" /\ rescue' = TRUE /\ amiss' = FALSE /\ UNCHANGED <<answer, inode>> /\ Rest
\* systemctl start and enable; a timer without its service does not start.
Activated(t) == [t EXCEPT !.active = @ /\ \A i \in Units : unit[i] # Missing]
\* systemctl calls of which some were made before one failed.
Partly(t) == \E p \in {[enabled |-> t.enabled, active |-> timer.active],
                       [enabled |-> timer.enabled, active |-> t.active], timer} : Timer(p)

Call(c) ==
  /\ spot = "idle" /\ Same /\ Fine
  /\ command' = c /\ was' = Found /\ answer' = "none" /\ rescue' = FALSE /\ amiss' = FALSE
  /\ spot' = IF entry = Missing THEN "start" ELSE "look"
  /\ UNCHANGED <<built, inode>>
-----------------------------------------------------------------------------
(* _recover_pending_service_operation *)

OldText(i)   == entry.old[i].text
Restored(i)  == entry.old[i] # Missing /\ entry.restored[i] # 0
                /\ unit[i] = [text |-> OldText(i), ino |-> entry.restored[i]]
NewFile(i)   == [text |-> entry.new, ino |-> entry.bound[i]]
Unchanged(i) == /\ unit[i] = entry.old[i] \/ Restored(i)
                /\ staged[i] # Missing => entry.bound[i] # 0 /\ staged[i] = NewFile(i)
Published(i) == entry.bound[i] # 0 /\ unit[i] = NewFile(i) /\ staged[i] = Missing

\* _pending_unit_recovery_actions, without changing anything.
Look ==
  /\ spot = "look" /\ Same /\ Fine
  /\ IF entry = Missing THEN Tell("unclear")
     ELSE IF \A i \in Units : Unchanged(i) \/ Published(i) THEN Go("quiet") ELSE Tell("stuck")

\* Mutant of Quiet: the timer is left as it is.
QuietNot == spot = "quiet" /\ Go("runtime back") /\ Same /\ Fine
Quiet ==
  /\ spot = "quiet"
  /\ \/ Timer(Off) /\ Go("runtime back") /\ Fine
     \/ Partly(Off) /\ Tell("unrecovered") /\ Setback

\* _rollback_service_runtime: the exchange is undone, then what is aside goes; a
\* first runtime is removed.
RollbackRuntime ==
  \/ entry.runtime # Missing /\ Runtime(entry.runtime, entry.new) /\ Go("runtime back")
  \/ entry.runtime = Missing /\ Runtime(Missing, Missing) /\ Go("unit back")

\* _recover_pending_runtime
RuntimeBack ==
  /\ spot = "runtime back"
  /\ LET new == entry.new  old == entry.runtime
         exchanged == runtime = new /\ aside = old
     IN \/ Fine /\ exchanged /\ RollbackRuntime
        \/ Fine /\ ~exchanged /\ runtime = old /\ aside \in {new, Missing}
             /\ AsideGone /\ Go("unit back")
        \/ Fine /\ ~exchanged /\ ~(runtime = old /\ aside \in {new, Missing}) /\ Same /\ Tell("stuck")
        \/ Setback /\ Same /\ Tell("unrecovered")

Later(i) == IF i = 1 THEN "unit back 2" ELSE "reload back"
OnTo(i)  == spot' = Later(i) /\ UNCHANGED <<rescue, answer>> /\ Rest

\* _restore_pending_unit_snapshots: an error does not keep it from the other unit.
UnitBack(i) ==
  /\ spot = IF i = 1 THEN "unit back" ELSE "unit back 2"
  /\ \/ /\ Unchanged(i) /\ Unit(unit, [staged EXCEPT ![i] = Missing])
        /\ OnTo(i) /\ UNCHANGED <<amiss, inode>> /\ Fine
     \/ /\ Published(i) /\ entry.old[i] = Missing /\ Unit([unit EXCEPT ![i] = Missing], staged)
        /\ OnTo(i) /\ UNCHANGED <<amiss, inode>> /\ Fine
     \/ /\ Published(i) /\ entry.old[i] # Missing /\ inode' = inode + 1
        /\ Unit([unit EXCEPT ![i] = [text |-> OldText(i), ino |-> inode + 1]], staged)
        /\ spot' = (IF i = 1 THEN "bind" ELSE "bind 2")
        /\ UNCHANGED <<rescue, amiss, answer>> /\ Rest /\ Fine
     \/ amiss' = TRUE /\ Same /\ UNCHANGED inode /\ OnTo(i) /\ Setback

\* _bind_pending_restored_old_unit_identity
Bind(i) ==
  /\ spot = IF i = 1 THEN "bind" ELSE "bind 2"
  /\ UNCHANGED inode /\ OnTo(i)
  /\ \/ Entry([entry EXCEPT !.restored[i] = unit[i].ino]) /\ UNCHANGED amiss /\ Fine
     \/ Same /\ amiss' = TRUE /\ Setback

ReloadBack ==
  /\ spot = "reload back" /\ Same
  /\ \/ ~amiss /\ Go("activate back") /\ Fine
     \/ amiss /\ Tell("unrecovered") /\ Fine
     \/ ~amiss /\ Tell("unrecovered") /\ Setback
ActivateBack ==
  /\ spot = "activate back"
  /\ \/ Timer(Activated(entry.timer)) /\ Go("forget back") /\ Fine
     \/ Partly(Activated(entry.timer)) /\ Tell("unrecovered") /\ Setback
ForgetBack ==
  /\ spot = "forget back"
  /\ \/ Entry(Missing) /\ Fine
        /\ IF rescue THEN Tell("failed")
           ELSE /\ spot' = "start" /\ was' = Found
                /\ UNCHANGED <<command, rescue, amiss, answer, built, inode>>
     \/ (Same \/ Entry(Missing)) /\ Tell("unrecovered") /\ Setback
-----------------------------------------------------------------------------
(* service_install, service_enable *)

Installing == command \in {"install", "enable"}

\* _materialize_service_runtime, up to the exchange.
Build ==
  /\ spot = "start" /\ Installing /\ built < MaxInstalls
  /\ \/ /\ Runtime(runtime, built + 1) /\ built' = built + 1 /\ spot' = "write" /\ Fine
        /\ UNCHANGED <<command, was, rescue, amiss, answer, inode>>
     \/ Same /\ Tell("failed") /\ Setback

\* An error while the journal is prepared: the runtime aside is removed and the
\* units are written again, as new files; the journal stays.
GiveUp ==
  /\ runtime' = runtime /\ aside' = Missing /\ timer' = timer
  /\ unit' = [i \in Units |->
                IF unit[i] = Missing THEN Missing ELSE [unit[i] EXCEPT !.ino = inode + i]]
  /\ inode' = inode + 2 /\ spot' = "idle" /\ answer' = "failed"
  /\ UNCHANGED <<rescue, amiss>> /\ Rest /\ Setback

\* _prepare_pending_service_transaction
WriteEntry ==
  /\ spot = "write"
  /\ \/ /\ Entry([old |-> unit, new |-> built, bound |-> [i \in Units |-> 0],
                  restored |-> [i \in Units |-> 0], runtime |-> runtime, timer |-> timer])
        /\ Go("stage") /\ Fine
     \/ GiveUp /\ UNCHANGED <<staged, entry>>
Stage(i) ==
  /\ spot = IF i = 1 THEN "stage" ELSE "stage 2"
  /\ \/ /\ Unit(unit, [staged EXCEPT ![i] = [text |-> built, ino |-> inode + 1]])
        /\ inode' = inode + 1 /\ spot' = (IF i = 1 THEN "own" ELSE "own 2")
        /\ UNCHANGED <<rescue, amiss, answer>> /\ Rest /\ Fine
     \/ GiveUp /\ UNCHANGED <<staged, entry>>
Own(i) ==
  /\ spot = IF i = 1 THEN "own" ELSE "own 2"
  /\ \/ Entry([entry EXCEPT !.bound[i] = staged[i].ino])
          /\ Go(IF i = 1 THEN "stage 2" ELSE "quiesce") /\ Fine
     \/ GiveUp /\ UNCHANGED <<staged, entry>>

\* An error before the exchange removes the runtime aside, too.
Quiesce ==
  /\ spot = "quiesce"
  /\ \/ Timer(Off) /\ Go("cut") /\ Fine
     \/ /\ \E t \in {timer, Off} : Files(runtime, Missing, unit, staged, entry, t)
        /\ Rescue /\ Setback
Cutover ==
  /\ spot = "cut"
  /\ \/ Runtime(aside, runtime) /\ Go("unit") /\ Fine
     \/ AsideGone /\ Rescue /\ Setback
     \/ Runtime(aside, Missing) /\ Rescue /\ Setback   \* what is aside now is removed
PublishUnit(i) ==
  /\ spot = IF i = 1 THEN "unit" ELSE "unit 2"
  /\ LET done == Unit([unit EXCEPT ![i] = staged[i]], [staged EXCEPT ![i] = Missing])
     IN \/ done /\ Go(IF i = 1 THEN "unit 2" ELSE "reload") /\ Fine
        \/ (done \/ Same) /\ Rescue /\ Setback
Reload ==
  /\ spot = "reload" /\ Same
  /\ \/ Go("activate") /\ Fine
     \/ Rescue /\ Setback
Activate ==
  /\ spot = "activate"
  /\ LET t == Activated(IF command = "enable" THEN On ELSE entry.timer)
     IN \/ Timer(t) /\ Go("commit") /\ Fine
        \/ Partly(t) /\ Rescue /\ Setback
CommitRuntime ==                       \* an error is ignored
  /\ spot = "commit" /\ Go("finish")
  /\ \/ AsideGone /\ Fine
     \/ Same /\ Setback
Finish ==
  /\ spot = "finish"
  /\ \/ Files(runtime, Missing, unit, staged, Missing, timer) /\ Tell("ok") /\ Fine
     \/ (Same \/ Entry(Missing)) /\ Setback
        /\ IF command = "install" THEN Rescue ELSE Tell("unclear")
-----------------------------------------------------------------------------
(* service_status, service_disable, service_uninstall *)

Status == spot = "start" /\ command = "status" /\ Same /\ Tell("ok") /\ Fine

Complete == \A i \in Units : unit[i] # Missing
Disable ==
  /\ spot = "start" /\ command \in {"disable", "uninstall"}
  /\ \/ unit = Nowhere /\ Same /\ Tell("ok") /\ Fine
     \/ unit # Nowhere /\ ~Complete /\ Same /\ Tell("failed") /\ Fine
     \/ Complete /\ Timer(Off) /\ Fine
          /\ IF command = "disable" THEN Tell("ok") ELSE Go("unlink")
     \/ Complete /\ Partly(Off) /\ Setback
          /\ IF command = "disable" THEN Tell("unclear") ELSE Go("put back")
Unlink(i) ==
  /\ spot = IF i = 1 THEN "unlink" ELSE "unlink 2"
  /\ \/ Unit([unit EXCEPT ![i] = Missing], staged) /\ Fine
          /\ IF i = 1 THEN Go("unlink 2") ELSE Tell("ok")
     \/ Same /\ Go("put back") /\ Setback
PutBack ==                             \* _restore_unit_snapshot, and all the rest
  /\ spot = "put back" /\ inode' = inode + 2
  /\ spot' = "put on" /\ UNCHANGED <<rescue, answer>> /\ Rest
  /\ \E ok \in SUBSET Units :
       /\ Unit([i \in Units |-> IF i \in ok THEN [text |-> was.text[i], ino |-> inode + i]
                                ELSE unit[i]], staged)
       /\ amiss' = (ok # Units) /\ IF ok = Units THEN Fine ELSE Setback
PutOn ==
  /\ spot = "put on"
  /\ \/ Timer(Activated(was.timer)) /\ Fine /\ Tell(IF amiss THEN "unrecovered" ELSE "failed")
     \/ Partly(Activated(was.timer)) /\ Setback /\ Tell("unrecovered")

Die ==
  /\ spot # "idle" /\ Setback /\ Tell("none")
  /\ IF entry = Missing THEN AsideGone ELSE Same
Restart ==                             \* the machine
  /\ spot = "idle" /\ Setback /\ Tell("none")
  /\ Timer(Activated([timer EXCEPT !.active = timer.enabled]))

Next ==
  \/ \E c \in {"install", "enable", "disable", "uninstall", "status"} : Call(c)
  \/ Look \/ Quiet \/ RuntimeBack \/ ReloadBack \/ ActivateBack \/ ForgetBack
  \/ \E i \in Units : UnitBack(i) \/ Bind(i) \/ Stage(i) \/ Own(i) \/ PublishUnit(i) \/ Unlink(i)
  \/ Build \/ WriteEntry \/ Quiesce \/ Cutover \/ Reload \/ Activate \/ CommitRuntime \/ Finish
  \/ Status \/ Disable \/ PutBack \/ PutOn \/ Die \/ Restart
-----------------------------------------------------------------------------
TypeOK ==
  /\ {runtime, aside} \subseteq Generations \cup {Missing}
  /\ \A i \in Units : {unit[i], staged[i]} \subseteq UnitFiles \cup {Missing}
  /\ timer \in [enabled : BOOLEAN, active : BOOLEAN] /\ setbacks \in 0 .. MaxSetbacks

\* The timer is active only while the runtime and both units are of one
\* installation: through every failure, death, restart and recovery, a job it
\* starts never runs a mixture.
TimerRunsWhole ==
  timer.active => \A i \in Units : unit[i] # Missing /\ unit[i].text = runtime

\* A command that reports an ordinary failure has left the runtime, the units
\* and the timer as it found them.
FailureRestores == spot = "idle" /\ answer = "failed" => Found = was
-----------------------------------------------------------------------------
(* What makes the properties inductive *)

Switches == [enabled : BOOLEAN, active : BOOLEAN]
PerUnit  == [Units -> UnitFiles \cup {Missing}]
Finds    == [runtime : Generations \cup {Missing}, timer : Switches,
             text : [Units -> 0 .. MaxInstalls]]
Journal  == [old : PerUnit, new : Generations, bound : [Units -> Nat],
             restored : [Units -> Nat], runtime : Generations \cup {Missing}, timer : Switches]

\* What the proofs need of the constants.
ServiceConstants ==
  MaxInstalls \in Nat /\ MaxSetbacks \in Nat /\ Missing \notin UnitFiles \cup Journal

ValuesOK ==
  /\ {runtime, aside} \subseteq Generations \cup {Missing}
  /\ unit \in PerUnit /\ staged \in PerUnit /\ entry \in Journal \cup {Missing}
  /\ timer \in Switches
  /\ was \in Finds
  /\ built \in 0 .. MaxInstalls /\ inode \in Nat /\ setbacks \in 0 .. MaxSetbacks

\* What was there when the journal was written.
Before(e)  == [runtime |-> e.runtime, timer |-> e.timer, text |-> UnitTexts(e.old)]

\* An active timer needs all units; one that is enabled starts with the machine
\* as soon as they are there.
IsWhole(f) ==
  /\ f.timer.active => \A i \in Units : f.text[i] # 0
  /\ (f.timer.enabled \/ f.timer.active) /\ (\A i \in Units : f.text[i] # 0)
       => \A i \in Units : f.text[i] = f.runtime

AllWhole == IsWhole(Found) /\ IsWhole(was) /\ (entry # Missing => IsWhole(Before(entry)))

Preparing  == {"write", "stage", "own", "stage 2", "own 2"}
Replacing  == {"unit", "unit 2", "reload", "activate", "commit", "finish"}
Installed  == {"stage", "own", "stage 2", "own 2", "quiesce", "cut"} \cup Replacing
UnitsBack  == {"unit back", "bind", "unit back 2", "bind 2", "reload back", "activate back"}
Recovering == {"quiet", "runtime back", "forget back"} \cup UnitsBack

\* A command that has changed nothing, and the journal of one that has.
Remembered ==
  /\ spot \in {"start"} \cup Preparing => Found = was
  /\ spot \in Installed => entry # Missing /\ Before(entry) = was /\ entry.new = built
  /\ spot \in Recovering => entry # Missing
  /\ spot \in Recovering \cup {"look"} /\ rescue => entry = Missing \/ Before(entry) = was

\* The timer is off while files are exchanged.
Stopped ==
  spot \in {"runtime back", "cut", "unit", "unit 2", "reload", "activate", "unlink", "unlink 2"}
             \cup UnitsBack => timer = Off

\* How far the new files are in place.
Publishing ==
  /\ spot \in {"quiesce", "cut"} \cup Preparing
       => aside = built /\ built # 0
  /\ spot \in {"own", "stage 2", "own 2", "quiesce", "cut", "unit"}
       => staged[1] # Missing /\ staged[1].text = built
  /\ spot \in {"own 2", "quiesce", "cut", "unit", "unit 2"}
       => staged[2] # Missing /\ staged[2].text = built
  /\ spot \in Replacing => runtime = built
  /\ spot \in Replacing \ {"unit"} => unit[1] # Missing /\ unit[1].text = built
  /\ spot \in Replacing \ {"unit", "unit 2"} => unit[2] # Missing /\ unit[2].text = built

\* How far the old files are.
IsBack(i) ==
  IF entry.old[i] = Missing THEN unit[i] = Missing
  ELSE unit[i] # Missing /\ unit[i].text = entry.old[i].text
Restoring ==
  /\ spot \in UnitsBack \cup {"forget back"} => runtime = entry.runtime
  /\ spot = "bind" => unit[1] # Missing /\ IsBack(1)
  /\ spot = "bind 2" => unit[2] # Missing /\ IsBack(2)
  /\ spot \in {"unit back 2", "bind 2", "reload back", "activate back", "forget back"}
       => amiss \/ IsBack(1)
  /\ spot \in {"reload back", "activate back", "forget back"} => amiss \/ IsBack(2)
  /\ spot \in {"activate back", "forget back"} => ~amiss
  /\ spot = "forget back" => timer = entry.timer

\* An uninstallation removes what it found, and puts it back.
Removing ==
  /\ spot \in {"unlink", "unlink 2", "put back", "put on"} =>
       /\ runtime = was.runtime
       /\ \A i \in Units : was.text[i] # 0 /\ (unit[i] = Missing \/ unit[i].text = was.text[i])
  /\ spot = "put back" => timer = Off \/ Complete
  /\ spot = "put on" => amiss \/ \A i \in Units : unit[i] # Missing

ServiceInv ==
  /\ ValuesOK /\ AllWhole /\ Remembered /\ Stopped /\ Publishing /\ Restoring /\ Removing
  /\ FailureRestores
=============================================================================
