----------------------------- MODULE ProfileJobs -----------------------------
(***************************************************************************)
(* Persistent device-login jobs (profile_jobs.py), the login their workers *)
(* run (profile_login.py) and account delete, which cancels them first     *)
(* (cli.py).                                                               *)
(*                                                                         *)
(* A job is a manifest file.  Its creator writes it and spawns a worker    *)
(* process; the worker logs one account in; clients (the applet's polls,   *)
(* cancel, account delete) read and change the manifest.  Nobody else      *)
(* coordinates them: a manifest is updated under its own path lock, one    *)
(* update is one action, and the deletion of the job's event file after a  *)
(* terminal update is another, outside that lock.  Account locks take the  *)
(* source lock first, hence one variable, holder.  There is one account:   *)
(* jobs of different accounts share nothing but that lock.                 *)
(*                                                                         *)
(* A process that dies, by a signal, a power loss or an I/O error that     *)
(* ends the command, keeps its files as they are and loses its lock.       *)
(***************************************************************************)
EXTENDS Naturals

CONSTANTS Jobs,          \* job ids; each has one creator and at most one worker
          Clients,       \* processes that poll, cancel or delete
          NoJob,         \* no manifest
          NoOne,         \* nobody holds the source lock
          MaxFaults,     \* bound: failed spawns and manifest writes
          MaxCrashes     \* bound: processes that die by themselves

Live     == {"queued", "running", "cancel_requested"}
Terminal == {"completed", "failed", "cancelled"}
Manifest == [st : Live \cup Terminal, pid : BOOLEAN]   \* pid: worker_pid is set

Creator(j) == <<"creator", j>>
Worker(j)  == <<"worker", j>>
Client(k)  == <<"client", k>>
Procs == {Creator(j) : j \in Jobs} \cup {Worker(j) : j \in Jobs}
           \cup {Client(k) : k \in Clients}

ASSUME RecordsAssumption == NoJob \notin Manifest /\ NoJob \notin Jobs
ASSUME LockAssumption == NoOne \notin Procs
ASSUME BoundsAssumption == {MaxFaults, MaxCrashes} \subseteq Nat

VARIABLES
  job,       \* the manifests
  events,    \* the jobs whose event file exists
  holder,    \* who holds the source lock
  account,   \* "configured" without credentials, "logged_in" or "absent"
  auth,      \* the job whose login published auth.json, NoJob if there is none
  cpc,       \* where each creator is
  wpc,       \* where each worker is: "none" before the spawn, "gone" after it
  handler,   \* workers that have installed handle_termination
  flag,      \* workers whose variable cancellation is set
  ok,        \* workers whose login has returned a result that is ok
  want,      \* the terminal status a worker is about to write
  kpc,       \* where each client is
  target,    \* the job of the call a client is in
  snap,      \* the manifest it has read
  ret,       \* where the call returns to
  todo, pending,   \* account delete: jobs to visit, jobs to wait for
  loaded,    \* account delete: the account as it was loaded at the start
  faults, crashes

files   == <<job, events, account, auth>>
creator == <<cpc>>
worker  == <<wpc, handler, flag, ok, want>>
client  == <<kpc, target, snap, ret, todo, pending, loaded>>
bounds  == <<faults, crashes>>
vars    == <<job, events, holder, account, auth, cpc, wpc, handler, flag, ok,
             want, kpc, target, snap, ret, todo, pending, loaded, faults, crashes>>

Init ==
  /\ job = [j \in Jobs |-> NoJob]
  /\ events = {}
  /\ holder = NoOne
  /\ account = "configured" /\ auth = NoJob
  /\ cpc = [j \in Jobs |-> "new"]
  /\ wpc = [j \in Jobs |-> "none"]
  /\ handler = {} /\ flag = {} /\ ok = {}
  /\ want = [j \in Jobs |-> "failed"]
  /\ kpc = [k \in Clients |-> "idle"]
  /\ target = [k \in Clients |-> NoJob]
  /\ snap = [k \in Clients |-> NoJob]
  /\ ret = [k \in Clients |-> "idle"]
  /\ todo = [k \in Clients |-> {}]
  /\ pending = [k \in Clients |-> {}]
  /\ loaded = [k \in Clients |-> "absent"]
  /\ faults = 0 /\ crashes = 0

Exists(j) == job[j] # NoJob
IsLive(j) == Exists(j) /\ job[j].st \in Live
Alive(j)  == wpc[j] \notin {"none", "gone"}     \* _worker_matches of its pid

\* Lock acquisition within the deadline.  A lock that is held may be waited
\* for in vain: a login holds it for up to a quarter of an hour.
Take(p)     == holder = NoOne /\ holder' = p
TimesOut    == holder # NoOne
Released(p) == IF holder = p THEN NoOne ELSE holder

\* _update_job under the manifest's lock: nothing happens unless the status is
\* one of those expected.  The event file goes later, in a step of its own.
UpdateJob(j, expected, status) ==
  /\ Exists(j)
  /\ job' = IF job[j].st \in expected THEN [job EXCEPT ![j].st = status] ELSE job

DeleteJobEvents(j) == events' = events \ {j}

\* A worker ends; its lock and its memory go with it.
WorkerEnds(j) ==
  /\ wpc' = [wpc EXCEPT ![j] = "gone"]
  /\ holder' = Released(Worker(j))
  /\ handler' = handler \ {j} /\ flag' = flag \ {j} /\ ok' = ok \ {j}
  /\ want' = [want EXCEPT ![j] = "failed"]

\* os.killpg(pid, SIGTERM) to a live worker: fatal unless it has a handler.
Sigterm(j) ==
  IF j \in handler
    THEN /\ flag' = flag \cup {j}
         /\ UNCHANGED <<holder, wpc, handler, ok, want>>
    ELSE WorkerEnds(j)
-----------------------------------------------------------------------------
(* The creator: profile create, cli.py 1609 and create_profile_job.        *)

CGoto(j, to) == cpc' = [cpc EXCEPT ![j] = to]
CEnds(j)     == CGoto(j, "done") /\ holder' = Released(Creator(j))

CreateLock(j) ==
  /\ cpc[j] = "new"
  /\ \/ Take(Creator(j)) /\ CGoto(j, "prune")
     \/ TimesOut /\ CGoto(j, "done") /\ UNCHANGED holder
  /\ UNCHANGED <<files, worker, client, bounds>>

\* Mutant of PruneTerminalJobs: it prunes every job that is not running.
PruneIdleJobs(j) ==
  /\ cpc[j] = "prune"
  /\ LET old == {i \in Jobs : Exists(i) /\ job[i].st # "running"} IN
       /\ job' = [i \in Jobs |-> IF i \in old THEN NoJob ELSE job[i]]
       /\ events' = events \ old
  /\ CGoto(j, "write")
  /\ UNCHANGED <<holder, account, auth, worker, client, bounds>>

PruneTerminalJobs(j) ==
  /\ cpc[j] = "prune"
  /\ LET old == {i \in Jobs : Exists(i) /\ job[i].st \in Terminal} IN
       /\ job' = [i \in Jobs |-> IF i \in old THEN NoJob ELSE job[i]]
       /\ events' = events \ old
  /\ CGoto(j, "write")
  /\ UNCHANGED <<holder, account, auth, worker, client, bounds>>

\* Refused when the directory, which holds the jobs of all accounts and may hold
\* foreign files, has too many entries.
WriteNewJob(j) ==
  /\ cpc[j] = "write"
  /\ \/ CEnds(j) /\ UNCHANGED job
     \/ /\ job' = [job EXCEPT ![j] = [st |-> "queued", pid |-> FALSE]]
        /\ CGoto(j, "spawn") /\ UNCHANGED holder
  /\ UNCHANGED <<events, account, auth, worker, client, bounds>>

Spawn(j) ==
  /\ cpc[j] = "spawn"
  /\ wpc' = [wpc EXCEPT ![j] = "boot"]
  /\ CGoto(j, "track")
  /\ UNCHANGED <<files, holder, handler, flag, ok, want, client, bounds>>

SpawnFails(j) ==
  /\ cpc[j] = "spawn" /\ faults < MaxFaults
  /\ faults' = faults + 1
  /\ CGoto(j, "startFailed")
  /\ UNCHANGED <<files, holder, worker, client, crashes>>

\* Mutant of StartFailed: the error is stored as the status.
StartFailedAsStatus(j) ==
  /\ cpc[j] = "startFailed"
  /\ UpdateJob(j, Live \cup Terminal, "profile_job_start_failed")
  /\ CGoto(j, "purge")
  /\ UNCHANGED <<events, holder, account, auth, worker, client, bounds>>

\* The update has no expected status: it also overwrites "cancelled".
StartFailed(j) ==
  /\ cpc[j] = "startFailed"
  /\ UpdateJob(j, Live \cup Terminal, "failed")
  /\ CGoto(j, "purge")
  /\ UNCHANGED <<events, holder, account, auth, worker, client, bounds>>

\* _update_job(worker_pid=...) with whatever status the job has by now.
TrackWorker(j) ==
  /\ cpc[j] = "track" /\ Exists(j)
  /\ job' = [job EXCEPT ![j].pid = TRUE]
  /\ IF job[j].st \in Terminal
       THEN CGoto(j, "purge") /\ UNCHANGED holder
       ELSE CEnds(j)
  /\ UNCHANGED <<events, account, auth, worker, client, bounds>>

TrackingFails(j) ==
  /\ cpc[j] = "track" /\ faults < MaxFaults
  /\ faults' = faults + 1
  /\ CGoto(j, "kill")
  /\ UNCHANGED <<files, holder, worker, client, crashes>>

KillUntracked(j) ==
  /\ cpc[j] = "kill"
  /\ IF Alive(j) THEN Sigterm(j) ELSE UNCHANGED <<holder, worker>>
  /\ CGoto(j, "reap")
  /\ UNCHANGED <<files, client, bounds>>

\* Waits a second, then kills: afterwards the worker is gone.
ReapUntrackedWorker(j) ==
  /\ cpc[j] = "reap"
  /\ IF Alive(j) THEN WorkerEnds(j) ELSE UNCHANGED <<holder, worker>>
  /\ CGoto(j, "untracked")
  /\ UNCHANGED <<files, client, bounds>>

TrackingFailed(j) ==
  /\ cpc[j] = "untracked"
  /\ UpdateJob(j, {"queued"}, "failed")
  /\ IF job[j].st = "queued"
       THEN CGoto(j, "purge") /\ UNCHANGED holder
       ELSE CEnds(j)
  /\ UNCHANGED <<events, account, auth, worker, client, bounds>>

\* The update fails too: a job that nobody tracks is removed.
UpdateFails(j) ==
  /\ cpc[j] \in {"startFailed", "untracked"} /\ faults < MaxFaults
  /\ faults' = faults + 1
  /\ CGoto(j, "remove")
  /\ UNCHANGED <<files, holder, worker, client, crashes>>

RemoveUntrackedJob(j) ==
  /\ cpc[j] = "remove"
  /\ job' = IF Exists(j) /\ ~job[j].pid /\ job[j].st \in {"queued", "cancel_requested"}
              THEN [job EXCEPT ![j] = NoJob] ELSE job
  /\ CEnds(j)
  /\ UNCHANGED <<events, account, auth, worker, client, bounds>>

CreatorPurges(j) ==
  /\ cpc[j] = "purge"
  /\ DeleteJobEvents(j)
  /\ CEnds(j)
  /\ UNCHANGED <<job, account, auth, worker, client, bounds>>

CreatorCrash(j) ==
  /\ cpc[j] \notin {"new", "done"} /\ crashes < MaxCrashes
  /\ crashes' = crashes + 1
  /\ CEnds(j)
  /\ UNCHANGED <<files, worker, client, faults>>

CreatorStep(j) ==
  \/ CreateLock(j) \/ PruneTerminalJobs(j) \/ WriteNewJob(j) \/ Spawn(j)
  \/ SpawnFails(j) \/ StartFailed(j) \/ TrackWorker(j) \/ TrackingFails(j)
  \/ KillUntracked(j) \/ ReapUntrackedWorker(j) \/ TrackingFailed(j)
  \/ UpdateFails(j) \/ RemoveUntrackedJob(j) \/ CreatorPurges(j)
-----------------------------------------------------------------------------
(* The worker: run_profile_job and profile_login.run_device_login.         *)

WGoto(j, to)   == wpc' = [wpc EXCEPT ![j] = to]
CancelSeen(j)  == j \in flag \/ job[j].st = "cancel_requested"
\* _mark_job_terminal begins; before the finally clause the handler is still on
MarkAs(j, s)   == want' = [want EXCEPT ![j] = s] /\ WGoto(j, "mark")
LocalsOnly     == UNCHANGED <<files, holder, creator, client, bounds>>
ManifestOnly   == UNCHANGED <<events, account, auth, creator, client, bounds>>

Boot(j) ==
  /\ wpc[j] = "boot" /\ Exists(j)
  /\ WGoto(j, IF job[j].st = "cancel_requested" THEN "markCancelled" ELSE "start")
  /\ UNCHANGED <<handler, flag, ok, want>> /\ LocalsOnly

\* Mutant of Start: the update to running does not expect a status.
StartUnexpected(j) ==
  /\ wpc[j] = "start" /\ Exists(j)
  /\ job' = [job EXCEPT ![j] = [st |-> "running", pid |-> TRUE]]
  /\ WGoto(j, "arm") /\ UNCHANGED <<holder, handler, flag, ok, want>>
  /\ ManifestOnly

Start(j) ==
  /\ wpc[j] = "start" /\ Exists(j)
  /\ \/ /\ job[j].st = "queued"
        /\ job' = [job EXCEPT ![j] = [st |-> "running", pid |-> TRUE]]
        /\ WGoto(j, "arm") /\ UNCHANGED <<holder, handler, flag, ok, want>>
     \/ /\ job[j].st = "cancel_requested"
        /\ WGoto(j, "markCancelled")
        /\ UNCHANGED <<job, holder, handler, flag, ok, want>>
     \/ /\ job[j].st \notin {"queued", "cancel_requested"}
        /\ WorkerEnds(j) /\ UNCHANGED job
  /\ ManifestOnly

InstallHandler(j) ==
  /\ wpc[j] = "arm"
  /\ handler' = handler \cup {j} /\ WGoto(j, "precheck")
  /\ UNCHANGED <<flag, ok, want>> /\ LocalsOnly

CancelBeforeLogin(j) ==
  /\ wpc[j] = "precheck" /\ Exists(j)
  /\ IF CancelSeen(j)
       THEN MarkAs(j, "cancelled")
       ELSE WGoto(j, "lock") /\ UNCHANGED want
  /\ UNCHANGED <<handler, flag, ok>> /\ LocalsOnly

LoginLock(j) ==
  /\ wpc[j] = "lock"
  /\ \/ Take(Worker(j)) /\ WGoto(j, "login")
     \/ TimesOut /\ WGoto(j, "raised") /\ UNCHANGED holder
  /\ UNCHANGED <<files, creator, handler, flag, ok, want, client, bounds>>

\* A verification URL or code is passed to the event sink.
LoginEvent(j) ==
  /\ wpc[j] = "login" /\ j \notin events
  /\ events' = events \cup {j}
  /\ UNCHANGED <<job, holder, account, auth, creator, worker, client, bounds>>

\* The user does not log in, the login process is killed, something is wrong
\* with the result or with publishing it: an error result or an exception.
LoginFails(j) ==
  /\ wpc[j] = "login"
  /\ \E to \in {"returned", "raised"} : WGoto(j, to)
  /\ holder' = NoOne
  /\ UNCHANGED <<files, creator, handler, flag, ok, want, client, bounds>>

\* Mutant of LoginPublishes: it replaces credentials that are already there.
LoginOverwrites(j) ==
  /\ wpc[j] = "login"
  /\ auth' = j
  /\ WGoto(j, "finalize")
  /\ holder' = NoOne
  /\ UNCHANGED <<job, events, account, creator, handler, flag, ok, want, client, bounds>>

\* Never over credentials that are already there.
LoginPublishes(j) ==
  /\ wpc[j] = "login" /\ auth = NoJob
  /\ auth' = j
  /\ WGoto(j, "finalize")
  /\ holder' = NoOne
  /\ UNCHANGED <<job, events, account, creator, handler, flag, ok, want, client, bounds>>

\* Enters the credentials into the configuration under the all-accounts lock.
Finalize(j) ==
  /\ wpc[j] = "finalize" /\ holder = NoOne
  /\ IF account = "configured"
       THEN /\ account' = "logged_in"
            /\ ok' = ok \cup {j} /\ WGoto(j, "returned")
       ELSE WGoto(j, "undo") /\ UNCHANGED <<account, ok>>
  /\ UNCHANGED <<job, events, holder, auth, creator, handler, flag, want, client, bounds>>

\* Mutant of FinalizeFails: the credentials are not unlinked.
FinalizeFailsKeepingAuth(j) ==
  /\ wpc[j] = "finalize"
  /\ \/ TimesOut /\ UNCHANGED faults
     \/ faults < MaxFaults /\ faults' = faults + 1
  /\ WGoto(j, "raised")
  /\ UNCHANGED <<files, holder, creator, handler, flag, ok, want, client, crashes>>

FinalizeFails(j) ==
  /\ wpc[j] = "finalize"
  /\ \/ TimesOut /\ UNCHANGED faults
     \/ faults < MaxFaults /\ faults' = faults + 1
  /\ WGoto(j, "undo")
  /\ UNCHANGED <<files, holder, creator, handler, flag, ok, want, client, crashes>>

\* Unlinks the canonical auth.json without a lock, whoever wrote it.
UndoPublish(j) ==
  /\ wpc[j] = "undo"
  /\ auth' = NoJob
  /\ WGoto(j, "raised")
  /\ UNCHANGED <<job, events, holder, account, creator, handler, flag, ok, want, client, bounds>>

Raised(j) ==
  /\ wpc[j] = "raised" /\ Exists(j)
  /\ MarkAs(j, IF CancelSeen(j) THEN "cancelled" ELSE "failed")
  /\ UNCHANGED <<handler, flag, ok>> /\ LocalsOnly

RestoreHandler(j) ==
  /\ wpc[j] = "returned"
  /\ handler' = handler \ {j} /\ WGoto(j, "check")
  /\ UNCHANGED <<flag, ok, want>> /\ LocalsOnly

\* Mutant of CheckResult: the verification alone decides.
CheckResultByVerification(j) ==
  /\ wpc[j] = "check" /\ Exists(j)
  /\ \/ CancelSeen(j) /\ MarkAs(j, "cancelled")
     \/ ~CancelSeen(j) /\ WGoto(j, "verify") /\ UNCHANGED want
  /\ UNCHANGED <<handler, flag, ok>> /\ LocalsOnly

CheckResult(j) ==
  /\ wpc[j] = "check" /\ Exists(j)
  /\ \/ CancelSeen(j) /\ MarkAs(j, "cancelled")
     \/ ~CancelSeen(j) /\ j \in ok /\ WGoto(j, "verify") /\ UNCHANGED want
     \/ ~CancelSeen(j) /\ j \notin ok /\ MarkAs(j, "failed")
  /\ UNCHANGED <<handler, flag, ok>> /\ LocalsOnly

\* The second look and _verify_profile_job_completion, which may also find
\* other credentials than the job expected.
VerifyCompletion(j) ==
  /\ wpc[j] = "verify" /\ Exists(j)
  /\ IF CancelSeen(j)
       THEN MarkAs(j, "cancelled")
       ELSE \/ MarkAs(j, "failed")
            \/ account = "logged_in" /\ auth # NoJob /\ MarkAs(j, "completed")
  /\ UNCHANGED <<handler, flag, ok>> /\ LocalsOnly

MarkJobTerminal(j) ==
  /\ wpc[j] = "mark" /\ UpdateJob(j, {"running"}, want[j])
  /\ IF job[j].st \in {"running", "cancel_requested"}
       THEN /\ WGoto(j, IF job[j].st = "running" THEN "purge" ELSE "markCancelled")
            /\ UNCHANGED <<holder, handler, flag, ok, want>>
       ELSE WorkerEnds(j)
  /\ ManifestOnly

MarkCancelled(j) ==
  /\ wpc[j] = "markCancelled" /\ UpdateJob(j, {"cancel_requested"}, "cancelled")
  /\ IF job[j].st = "cancel_requested"
       THEN WGoto(j, "purge") /\ UNCHANGED <<holder, handler, flag, ok, want>>
       ELSE WorkerEnds(j)
  /\ ManifestOnly

WorkerPurges(j) ==
  /\ wpc[j] = "purge"
  /\ DeleteJobEvents(j)
  /\ WorkerEnds(j)
  /\ UNCHANGED <<job, account, auth, creator, client, bounds>>

\* _read_job raises: the manifest was pruned before the worker looked at it.
WorkerLost(j) ==
  /\ Alive(j) /\ ~Exists(j)
  /\ WorkerEnds(j)
  /\ UNCHANGED <<files, creator, client, bounds>>

WorkerCrash(j) ==
  /\ Alive(j) /\ crashes < MaxCrashes
  /\ crashes' = crashes + 1
  /\ WorkerEnds(j)
  /\ UNCHANGED <<files, creator, client, faults>>

WorkerStep(j) ==
  \/ Boot(j) \/ Start(j) \/ InstallHandler(j) \/ CancelBeforeLogin(j)
  \/ LoginLock(j) \/ LoginEvent(j) \/ LoginFails(j) \/ LoginPublishes(j)
  \/ Finalize(j) \/ FinalizeFails(j) \/ UndoPublish(j) \/ Raised(j)
  \/ RestoreHandler(j) \/ CheckResult(j) \/ VerifyCompletion(j)
  \/ MarkJobTerminal(j) \/ MarkCancelled(j) \/ WorkerPurges(j) \/ WorkerLost(j)
-----------------------------------------------------------------------------
(* Clients: profile job-status, profile cancel and account delete.         *)

KGoto(k, to) == kpc' = [kpc EXCEPT ![k] = to]
\* Mutant of IsLost: only a job that is running can have lost its worker.
IsLostWhileRunning(k) ==
  snap[k].st = "running" /\ (snap[k].pid => ~Alive(target[k]))

IsLost(k)    == LET s == snap[k] IN
  IF s.pid THEN ~Alive(target[k]) ELSE s.st \in {"running", "cancel_requested"}
LostStatus(s) == IF s.st = "cancel_requested" THEN "cancelled" ELSE "failed"

\* Call(k, j, f, r): profile_job_status (f = "status") or cancel_profile_job
\* (f = "cancel") of j begins, and will return to r.
Call(k, j, f, r) ==
  /\ KGoto(k, f)
  /\ target' = [target EXCEPT ![k] = j]
  /\ ret' = [ret EXCEPT ![k] = r]

\* It returns a job that has ended or not.  account delete keeps a job it has
\* listed pending until its status is terminal.
Return(k, ended) ==
  LET j == target[k] IN
  /\ KGoto(k, ret[k])
  /\ target' = [target EXCEPT ![k] = NoJob]
  /\ snap' = [snap EXCEPT ![k] = NoJob]
  /\ ret' = [ret EXCEPT ![k] = "idle"]
  /\ todo' = [todo EXCEPT ![k] = @ \ {j}]
  /\ pending' = [pending EXCEPT ![k] =
       CASE ret[k] = "list" /\ ~ended -> @ \cup {j}
         [] ret[k] = "wait" /\ ended  -> @ \ {j}
         [] OTHER                     -> @]

\* The command ends, by itself or by an exception.
CommandEnds(k) ==
  /\ KGoto(k, "idle")
  /\ holder' = Released(Client(k))
  /\ target' = [target EXCEPT ![k] = NoJob]
  /\ snap' = [snap EXCEPT ![k] = NoJob]
  /\ ret' = [ret EXCEPT ![k] = "idle"]
  /\ todo' = [todo EXCEPT ![k] = {}]
  /\ pending' = [pending EXCEPT ![k] = {}]
  /\ loaded' = [loaded EXCEPT ![k] = "absent"]

ProfileJobStatus(k, j) ==
  /\ kpc[k] = "idle" /\ Exists(j)
  /\ Call(k, j, "status", "idle")
  /\ UNCHANGED <<files, holder, creator, worker, snap, todo, pending, loaded, bounds>>

CancelProfileJob(k, j) ==
  /\ kpc[k] = "idle" /\ IsLive(j)
  /\ Call(k, j, "cancel", "idle")
  /\ UNCHANGED <<files, holder, creator, worker, snap, todo, pending, loaded, bounds>>

ReadJob(k) ==
  /\ kpc[k] \in {"status", "cancel"} /\ Exists(target[k])
  /\ IF job[target[k]].st \in Terminal
       THEN Return(k, TRUE)
       ELSE /\ snap' = [snap EXCEPT ![k] = job[target[k]]]
            /\ KGoto(k, IF kpc[k] = "status" THEN "look" ELSE "request")
            /\ UNCHANGED <<target, ret, todo, pending>>
  /\ UNCHANGED <<files, holder, creator, worker, loaded, bounds>>

LookForWorker(k) ==
  /\ kpc[k] = "look"
  /\ IF IsLost(k)
       THEN KGoto(k, "settle") /\ UNCHANGED <<target, snap, ret, todo, pending>>
       ELSE Return(k, FALSE)
  /\ UNCHANGED <<files, holder, creator, worker, loaded, bounds>>

SettleLostJob(k) ==
  LET j == target[k] IN
  /\ kpc[k] = "settle" /\ UpdateJob(j, {snap[k].st}, LostStatus(snap[k]))
  /\ IF job[j].st = snap[k].st
       THEN KGoto(k, "purge") /\ UNCHANGED <<target, snap, ret, todo, pending>>
       ELSE Return(k, job[j].st \in Terminal)
  /\ UNCHANGED <<events, holder, account, auth, creator, worker, loaded, bounds>>

ClientPurges(k) ==
  /\ kpc[k] = "purge"
  /\ DeleteJobEvents(target[k])
  /\ Return(k, TRUE)
  /\ UNCHANGED <<job, holder, account, auth, creator, worker, loaded, bounds>>

RequestCancel(k) ==
  LET j == target[k]
      expected == IF snap[k].st = "queued" THEN {"queued", "running"} ELSE {snap[k].st} IN
  /\ kpc[k] = "request" /\ UpdateJob(j, expected, "cancel_requested")
  /\ IF job[j].pid
       THEN KGoto(k, "signal") /\ UNCHANGED <<target, snap, ret, todo, pending>>
       ELSE Return(k, FALSE)
  /\ UNCHANGED <<events, holder, account, auth, creator, worker, loaded, bounds>>

SignalWorker(k) ==
  /\ kpc[k] = "signal"
  /\ IF Alive(target[k]) THEN Sigterm(target[k]) ELSE UNCHANGED <<holder, worker>>
  /\ Return(k, FALSE)
  /\ UNCHANGED <<files, creator, loaded, bounds>>

\* The manifest was pruned under the call: FileNotFoundError.
ClientLost(k) ==
  /\ kpc[k] \in {"status", "cancel", "settle", "request"} /\ ~Exists(target[k])
  /\ CommandEnds(k)
  /\ UNCHANGED <<files, creator, worker, bounds>>

(* account delete: _cmd_account_delete, _cancel_account_profile_jobs *)

DeleteAccount(k) ==
  /\ kpc[k] = "idle" /\ account # "absent"
  /\ KGoto(k, "deleteLock")
  /\ loaded' = [loaded EXCEPT ![k] = account]
  /\ UNCHANGED <<files, holder, creator, worker, target, snap, ret, todo, pending, bounds>>

DeleteLock(k) ==
  /\ kpc[k] = "deleteLock" /\ Take(Client(k))
  /\ KGoto(k, "list")
  /\ todo' = [todo EXCEPT ![k] = {j \in Jobs : Exists(j)}]
  /\ UNCHANGED <<files, creator, worker, target, snap, ret, pending, loaded, bounds>>

DeleteLockTimesOut(k) ==
  /\ kpc[k] = "deleteLock" /\ TimesOut
  /\ CommandEnds(k)
  /\ UNCHANGED <<files, creator, worker, bounds>>

\* One job after the other: list those that have not ended, cancel each.
ListJob(k) ==
  /\ kpc[k] = "list"
  /\ IF todo[k] = {}
       THEN /\ KGoto(k, "cancelAll")
            /\ todo' = [todo EXCEPT ![k] = pending[k]]
            /\ UNCHANGED <<target, ret>>
       ELSE /\ \E j \in todo[k] : Call(k, j, "status", "list")
            /\ UNCHANGED todo
  /\ UNCHANGED <<files, holder, creator, worker, snap, pending, loaded, bounds>>

CancelListed(k) ==
  /\ kpc[k] = "cancelAll"
  /\ IF todo[k] = {}
       THEN KGoto(k, "wait") /\ UNCHANGED <<target, ret>>
       ELSE \E j \in todo[k] : Call(k, j, "cancel", "cancelAll")
  /\ UNCHANGED <<files, holder, creator, worker, snap, todo, pending, loaded, bounds>>

\* Mutant of WaitForJobs: account delete goes on once the cancels are sent.
WaitForNoJob(k) ==
  /\ kpc[k] = "wait"
  /\ KGoto(k, "erase")
  /\ UNCHANGED <<files, holder, creator, worker, target, snap, ret, todo, pending, loaded, bounds>>

WaitForJobs(k) ==
  /\ kpc[k] = "wait"
  /\ IF pending[k] = {}
       THEN KGoto(k, "erase") /\ UNCHANGED <<target, ret>>
       ELSE \E j \in pending[k] : Call(k, j, "status", "wait")
  /\ UNCHANGED <<files, holder, creator, worker, snap, todo, pending, loaded, bounds>>

WaitTimesOut(k) ==
  /\ kpc[k] = "wait" /\ pending[k] # {}
  /\ CommandEnds(k)
  /\ UNCHANGED <<files, creator, worker, bounds>>

\* remove_account expects the account it loaded; the profile with its
\* credentials goes only if asked for.
EraseAccount(k) ==
  /\ kpc[k] = "erase"
  /\ IF account = loaded[k]
       THEN account' = "absent" /\ auth' \in {auth, NoJob}
       ELSE UNCHANGED <<account, auth>>
  /\ CommandEnds(k)
  /\ UNCHANGED <<job, events, creator, worker, bounds>>

ClientStep(k) ==
  \/ \E j \in Jobs : ProfileJobStatus(k, j) \/ CancelProfileJob(k, j)
  \/ ReadJob(k) \/ LookForWorker(k) \/ SettleLostJob(k) \/ ClientPurges(k)
  \/ RequestCancel(k) \/ SignalWorker(k) \/ ClientLost(k)
  \/ DeleteAccount(k) \/ DeleteLock(k) \/ DeleteLockTimesOut(k) \/ ListJob(k)
  \/ CancelListed(k) \/ WaitForJobs(k) \/ WaitTimesOut(k) \/ EraseAccount(k)
-----------------------------------------------------------------------------
Next ==
  \/ \E j \in Jobs : CreatorStep(j) \/ WorkerStep(j)
  \/ \E j \in Jobs : CreatorCrash(j) \/ WorkerCrash(j)
  \/ \E k \in Clients : ClientStep(k)

Spec == Init /\ [][Next]_vars

\* A live worker runs, and every wait in it has a deadline.  The applet polls
\* the jobs it lists again and again (applet.js _pollNextProfileJob), with a new
\* process each time, and each such process ends.
Fairness ==
  /\ \A j \in Jobs : WF_vars(WorkerStep(j))
  /\ \A k \in Clients : WF_vars(ClientStep(k))
  /\ \A k \in Clients, j \in Jobs : SF_vars(ProfileJobStatus(k, j))

FairSpec == Spec /\ Fairness
-----------------------------------------------------------------------------
(* Properties *)

\* From its first update on until its last, a worker works for its job.
InJob  == {"arm", "precheck", "lock", "login", "finalize", "undo", "raised",
           "returned", "check", "verify", "mark"}

TypeOK ==
  /\ job \in [Jobs -> Manifest \cup {NoJob}]
  /\ events \subseteq Jobs
  /\ holder \in Procs \cup {NoOne}
  /\ account \in {"configured", "logged_in", "absent"}
  /\ auth \in Jobs \cup {NoJob}
  /\ cpc \in [Jobs -> {"new", "prune", "write", "spawn", "startFailed", "track",
                       "kill", "reap", "untracked", "remove", "purge", "done"}]
  /\ wpc \in [Jobs -> InJob \cup {"none", "boot", "start", "markCancelled", "purge", "gone"}]
  /\ handler \subseteq Jobs /\ flag \subseteq Jobs /\ ok \subseteq Jobs
  /\ want \in [Jobs -> Terminal]
  /\ kpc \in [Clients -> {"idle", "status", "cancel", "look", "settle", "purge",
                          "request", "signal", "deleteLock", "list", "cancelAll",
                          "wait", "erase"}]
  /\ target \in [Clients -> Jobs \cup {NoJob}]
  /\ snap \in [Clients -> Manifest \cup {NoJob}]
  /\ ret \in [Clients -> {"idle", "list", "cancelAll", "wait"}]
  /\ todo \in [Clients -> SUBSET Jobs] /\ pending \in [Clients -> SUBSET Jobs]
  /\ loaded \in [Clients -> {"configured", "logged_in", "absent"}]
  /\ faults \in 0 .. MaxFaults /\ crashes \in 0 .. MaxCrashes

\* While a worker works for a job, its manifest is there, names the worker and
\* is not terminal: no poll that found the worker missing, no cancel, no failed
\* tracking and no pruning by another creation declares the job ended under a
\* login that is still running.
LoginIsTracked ==
  \A j \in Jobs : wpc[j] \in InJob =>
    Exists(j) /\ job[j].pid /\ job[j].st \in {"running", "cancel_requested"}

\* A configured login has its credentials: the undo of one login, which unlinks
\* auth.json without a lock, never removes those of another.
LoggedInHasAuth == account = "logged_in" => auth # NoJob

\* Credentials without a configured login belong to a login that is about to
\* enter them or to remove them.  Only a crash can leave them behind.
NoOrphanCredentials ==
  auth # NoJob /\ account = "configured" /\ crashes = 0 =>
    wpc[auth] \in {"finalize", "undo"}

\* A job becomes completed only while the account is logged in with the very
\* credentials its own worker published, although the worker checked that one
\* step earlier and holds no lock.
CompletedIsLoggedIn ==
  [][\A j \in Jobs :
       job'[j] # NoJob /\ job'[j].st = "completed" /\ job[j].st # "completed"
         => account = "logged_in" /\ auth = j]_vars

\* A job that has ended stays so until its manifest is pruned, and one that has
\* completed is not called failed or cancelled later, whoever still updates it.
TerminalIsFinal ==
  [][\A j \in Jobs :
       Exists(j) /\ job[j].st \in Terminal /\ job'[j] # NoJob
         => /\ job'[j].st \in Terminal
            /\ job[j].st = "completed" => job'[j].st = "completed"]_vars

\* An account is erased only when no job for it is live and no login can still
\* publish credentials or enter them into the configuration.
EraseAfterJobs ==
  [][account' = "absent" /\ account # "absent"
       => \A j \in Jobs : ~IsLive(j) /\ wpc[j] \notin InJob]_vars

\* A job that has a worker on record, or that somebody asked to stop, ends:
\* killed, crashed or cancelled workers are noticed by the polls.
TrackedEnds ==
  \A j \in Jobs :
    (IsLive(j) /\ (job[j].pid \/ job[j].st = "cancel_requested")) ~> ~IsLive(j)

\* account delete is not kept from cancelling a job by that job's own login
\* (CHANGELOG.md 348, tests/test_cli.py 4220: it cancels active jobs first).
DeleteReachesLogin ==
  [][\A k \in Clients, j \in Jobs :
       DeleteLockTimesOut(k) /\ holder = Worker(j) => job[j].st # "running"]_vars
=============================================================================
