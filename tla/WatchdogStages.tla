--------------------------- MODULE WatchdogStages ---------------------------
(***************************************************************************)
(* The integration watchdog (integration_watchdog.py).                     *)
(*                                                                         *)
(* One run has a budget for everything: the general watchdog as a          *)
(* subprocess (in one of its two forms), two attestations of the private   *)
(* runtime it runs in, and the publisher of the active release as a        *)
(* subprocess.  Stages that run in the process are ended by the real-time  *)
(* timer, subprocesses by the timeout of a wait; then the whole process    *)
(* group is terminated, for which a last part of the budget is set aside.  *)
(* systemd kills a unit that takes longer.                                 *)
(*                                                                         *)
(* Time passes in steps of now; a timer that is due fires before the next  *)
(* one.  An installation may change the runtime or the release meanwhile.  *)
(* The descendants a subprocess leaves behind may hold its pipes.          *)
(***************************************************************************)
EXTENDS Naturals

CONSTANTS Generic, Attestation, Self, Publish, Cleanup, Total,  \* the limits
          MaxInstallations                                      \* bound

None == "none"

VARIABLES
  now, deadline,
  form,                  \* "both": execute, "publisher": execute_publisher_only
  stage,
  until,                 \* when the stage must end
  alarmed,               \* the stage is under the real-time timer
  leader,                \* the subprocess: "none", "runs", "exited"
  others,                \* its descendants: "none", "quiet", "piped"
  verdict,               \* what the ending subprocess stage will return
  edition,               \* of the private runtime and the active release
  seen,                  \* the edition of the first attestation
  status,                \* of the last run
  unguarded,             \* the timer fired where nothing cleans up
  installs

vars == <<now, deadline, form, stage, until, alarmed, leader, others, verdict, edition,
          seen, status, unguarded, installs>>

Least(a, b) == IF a < b THEN a ELSE b

Init ==
  /\ now = 0 /\ deadline = 0 /\ form = "publisher" /\ stage = "idle" /\ until = 0
  /\ alarmed = FALSE /\ leader = "none" /\ others = "none" /\ verdict = None
  /\ edition = 0 /\ seen = 0 /\ status = None /\ unguarded = FALSE /\ installs = 0

World    == UNCHANGED <<form, deadline, edition, installs, unguarded>>
Children == UNCHANGED <<leader, others, verdict>>

Finish(s) ==
  /\ stage' = "idle" /\ status' = s /\ alarmed' = FALSE
  /\ UNCHANGED <<now, until, seen>>

\* A stage gets its limit, or what is left of the budget (_stage_timeout_seconds);
\* if nothing is left, the run is over.
Enter(to, limit, reserve) ==
  IF now + reserve < deadline
  THEN /\ stage' = to /\ until' = now + Least(limit, deadline - (now + reserve))
       /\ alarmed' = (to # "publish")
       /\ UNCHANGED <<now, seen, status>>
  ELSE Finish("75")

\* execute and execute_publisher_only; wrong arguments or a wrong environment
\* end the run at once.
Start ==
  /\ stage = "idle" /\ status = None
  /\ deadline' = now + Total
  /\ form' \in {"both", "publisher"}
  /\ stage' = IF form' = "both" THEN "watchdog" ELSE "attest"
  /\ until' = now + IF form' = "both" THEN Least(Generic, Total) ELSE Least(Attestation, Total)
  /\ alarmed' = TRUE
  /\ Children /\ UNCHANGED <<now, edition, seen, status, unguarded, installs>>

StartRefused ==
  /\ stage = "idle" /\ status = None
  /\ \E s \in {"64", "70"} : Finish(s)
  /\ World /\ Children

Tick ==
  /\ stage # "idle" /\ now < until
  /\ now' = now + 1
  /\ World /\ Children /\ UNCHANGED <<stage, until, alarmed, seen, status>>

Installation ==
  /\ stage \in {"attest", "between", "self", "ready", "publish"} /\ installs < MaxInstallations
  /\ installs' = installs + 1 /\ edition' = edition + 1
  /\ Children /\ UNCHANGED <<now, deadline, form, stage, until, alarmed, seen, status, unguarded>>

-----------------------------------------------------------------------------
\* Subprocess stages: "watchdog" and "publish".

Subprocess == stage \in {"watchdog", "publish"}

\* Popen, in a session of its own.
Spawn ==
  /\ Subprocess /\ leader = "none" /\ leader' = "runs"
  /\ World /\ UNCHANGED <<now, stage, until, alarmed, others, verdict, seen, status>>

SpawnFails ==
  /\ Subprocess /\ leader = "none"
  /\ Finish("69")
  /\ World /\ Children

Fork ==
  /\ leader = "runs" /\ others = "none" /\ others' \in {"quiet", "piped"}
  /\ World /\ UNCHANGED <<now, stage, until, alarmed, leader, verdict, seen, status>>

Exit ==
  /\ leader = "runs" /\ leader' = "exited"
  /\ World /\ UNCHANGED <<now, stage, until, alarmed, others, verdict, seen, status>>

OthersExit ==
  /\ others # "none" /\ others' = "none"
  /\ World /\ UNCHANGED <<now, stage, until, alarmed, leader, verdict, seen, status>>

Terminating(v) ==
  /\ stage' = IF stage = "watchdog" THEN "watchdogEnd" ELSE "publishEnd"
  /\ until' = now + Cleanup /\ verdict' = v

\* _wait_with_bounded_output: the publisher's output is read to its end, however
\* long a descendant keeps it open.
Waited ==
  /\ Subprocess /\ leader = "exited"
  /\ stage = "publish" => others # "piped"
  /\ \E v \in {"0", "failed"} : Terminating(v)
  /\ World /\ UNCHANGED <<now, alarmed, leader, others, seen, status>>

WaitExpires ==
  /\ Subprocess /\ leader # "none" /\ now = until
  /\ Terminating("75")
  /\ World /\ UNCHANGED <<now, alarmed, leader, others, seen, status>>

\* The timer fires between the start of the subprocess and the try block, or
\* in a handler before it terminates the group.
AlarmUnguarded ==
  /\ stage = "watchdog" /\ leader # "none" /\ now = until
  /\ unguarded' = TRUE
  /\ Finish("75")
  /\ Children /\ UNCHANGED <<form, deadline, edition, installs>>

Ending == stage \in {"watchdogEnd", "publishEnd"}

\* _terminate_process_group, with the timer disarmed: SIGTERM, then SIGKILL.
GroupEnds ==
  /\ Ending /\ leader # "none"
  /\ leader' = "none" /\ others' = "none"
  /\ World /\ UNCHANGED <<now, stage, until, alarmed, verdict, seen, status>>

\* The group survives SIGKILL for as long as one waits.
CleanupFails ==
  /\ Ending /\ leader # "none" /\ now = until
  /\ Finish("69")
  /\ World /\ Children

WatchdogDone ==
  /\ stage = "watchdogEnd" /\ leader = "none"
  /\ IF verdict = "0" THEN Enter("attest", Attestation, 0) ELSE Finish(verdict)
  /\ verdict' = None
  /\ World /\ UNCHANGED <<leader, others>>

PublisherDone ==
  /\ stage = "publishEnd" /\ leader = "none"
  /\ Finish(verdict) /\ verdict' = None
  /\ World /\ UNCHANGED <<leader, others>>

-----------------------------------------------------------------------------
\* Attestations.

\* verify_active_manifest_against_private_service_runtime
Attest ==
  /\ stage = "attest"
  /\ stage' = "between" /\ seen' = edition
  /\ World /\ Children /\ UNCHANGED <<now, until, alarmed, status>>

\* The runtime does not belong to the active release, or changed while it was read.
AttestRefuses ==
  /\ stage = "attest" /\ Finish("69")
  /\ World /\ Children

\* _call_with_timeout
AlarmFires ==
  /\ stage \in {"attest", "self"} /\ now = until
  /\ Finish("75")
  /\ World /\ Children

SelfBegins ==
  /\ stage = "between" /\ Enter("self", Self, 0)
  /\ World /\ Children

\* verify_private_service_runtime_self_attestation
SelfAttest ==
  /\ stage = "self" /\ edition = seen
  /\ stage' = "ready"
  /\ World /\ Children /\ UNCHANGED <<now, until, alarmed, seen, status>>

SelfRefuses ==
  /\ stage = "self" /\ edition # seen /\ Finish("70")
  /\ World /\ Children

\* Mutant of PublishBegins: nothing is set aside for the cleanup.
PublishBeginsLate ==
  /\ stage = "ready" /\ Enter("publish", Publish, 0)
  /\ World /\ Children

PublishBegins ==
  /\ stage = "ready" /\ Enter("publish", Publish, Cleanup)
  /\ World /\ Children

Next ==
  \/ Start \/ StartRefused \/ Tick \/ Installation
  \/ Spawn \/ SpawnFails \/ Fork \/ Exit \/ OthersExit \/ Waited \/ WaitExpires \/ AlarmUnguarded
  \/ GroupEnds \/ CleanupFails \/ WatchdogDone \/ PublisherDone
  \/ Attest \/ AttestRefuses \/ AlarmFires \/ SelfBegins \/ SelfAttest \/ SelfRefuses
  \/ PublishBegins

Spec == Init /\ [][Next]_vars

-----------------------------------------------------------------------------
FlagsOK == alarmed \in BOOLEAN /\ unguarded \in BOOLEAN

TypeOK ==
  /\ FlagsOK
  /\ now \in Nat /\ deadline \in Nat /\ until \in Nat
  /\ form \in {"both", "publisher"}
  /\ stage \in {"idle", "watchdog", "watchdogEnd", "attest", "between", "self", "ready",
                "publish", "publishEnd"}
  /\ leader \in {"none", "runs", "exited"}
  /\ others \in {"none", "quiet", "piped"} /\ verdict \in {None, "0", "failed", "75"}
  /\ edition \in 0..MaxInstallations /\ seen \in 0..MaxInstallations
  /\ status \in {None, "0", "failed", "64", "69", "70", "75"}
  /\ installs \in 0..MaxInstallations

\* A run always ends within its budget, the last cleanup included, so that
\* systemd never has to kill it; and no process that a stage started, nor any
\* descendant, outlives a run unless the run says so with 69
\* (_stage_timeout_seconds, _terminate_process_group).
RunEndsClean ==
  /\ stage # "idle" \/ status # None => now <= deadline
  /\ stage = "idle" /\ status \notin {"69"} /\ ~unguarded => leader = "none" /\ others = "none"
-----------------------------------------------------------------------------
(* What makes the property inductive *)

\* What the proofs need of the limits (integration_timeout_contract.py): a run of the
\* general watchdog and its cleanup fit in the budget.
WatchdogConstants ==
  /\ Generic \in Nat /\ Attestation \in Nat /\ Self \in Nat /\ Publish \in Nat
  /\ Cleanup \in Nat /\ Total \in Nat /\ MaxInstallations \in Nat
  /\ Generic + Cleanup <= Total

\* Every stage ends within the budget, and so does the cleanup behind it.
InTime ==
  /\ stage # "idle" => now <= until /\ until <= deadline
  /\ stage \in {"watchdog", "publish"} => until + Cleanup <= deadline
  /\ stage = "idle" => now <= deadline

\* Where no subprocess is left.
NoneLeft ==
  /\ leader = "none" => others = "none"
  /\ \/ stage \in {"attest", "between", "self", "ready"}
     \/ stage = "idle" /\ status # "69" /\ ~unguarded
     => leader = "none"
  /\ unguarded => stage = "idle" /\ status = "75"

WatchdogInv == TypeOK /\ edition = installs /\ InTime /\ NoneLeft
=============================================================================
