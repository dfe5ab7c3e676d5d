-------------------------- MODULE ProfileJobs_proofs --------------------------
(***************************************************************************)
(* What ProfileJobs guarantees for any number of jobs and clients, any     *)
(* number of faults and crashes.                                           *)
(***************************************************************************)
EXTENDS ProfileJobs, TLAPS

-----------------------------------------------------------------------------
(* The inductive invariant *)

Early  == {"new", "prune", "write"}      \* the creator has not written the manifest
InCall == {"status", "cancel", "look", "settle", "purge", "request", "signal"}

\* The creator holds the source lock from its first step to its last, and the
\* manifest and the worker come into being in its order.
CreatorInv ==
  \A j \in Jobs :
    /\ cpc[j] \notin {"new", "done"} => holder = Creator(j)
    /\ cpc[j] \in Early \cup {"spawn", "startFailed"} => wpc[j] = "none"
    /\ cpc[j] \in {"track", "kill", "reap", "untracked"} => wpc[j] # "none"
    /\ cpc[j] \in Early => ~Exists(j)

\* A manifest with a pid has had a worker, a running one has a pid, and only a
\* worker completes it.
ManifestInv ==
  \A j \in Jobs : Exists(j) =>
    /\ job[j].pid => wpc[j] # "none"
    /\ job[j].st = "running" => job[j].pid
    /\ job[j].st = "completed" => wpc[j] # "none"

\* A worker that has got the lock once has outlived its creator, it logs in
\* behind its signal handler, and has an ok result only after the login.
WorkerInv ==
  \A j \in Jobs :
    /\ wpc[j] \in {"login", "finalize", "undo"} => cpc[j] = "done"
    /\ wpc[j] = "login" => holder = Worker(j)
    /\ wpc[j] \in {"precheck", "lock", "login", "finalize", "undo", "raised", "returned"}
         => j \in handler
    /\ j \in ok => wpc[j] \in {"returned", "check", "verify", "mark", "markCancelled", "purge"}
    /\ wpc[j] = "verify" => j \in ok

Succeeded(j) ==
  \/ j \in ok /\ wpc[j] \in {"returned", "check", "verify"}
  \/ wpc[j] = "mark" /\ want[j] = "completed"

\* Whoever is about to enter or to remove credentials owns them, and nobody else
\* relies on them; whoever reports success relies on its own.
AuthInv ==
  /\ LoggedInHasAuth
  /\ NoOrphanCredentials
  /\ \A j \in Jobs :
       /\ wpc[j] \in {"finalize", "undo"} => auth = j /\ account # "logged_in"
       /\ Succeeded(j) => account = "logged_in" /\ auth = j

\* What a client remembers of a manifest is still good enough to act upon: a
\* job it is about to settle has no worker that could be working for it.
SnapInv(k) ==
  LET s == snap[k]  j == target[k] IN
  /\ s \in Manifest /\ s.st \in Live
  /\ s.pid => wpc[j] # "none"
  /\ s.st = "running" => s.pid
  /\ ~s.pid /\ s.st = "cancel_requested"
       => wpc[j] \notin InJob /\ (Exists(j) => job[j].st # "queued")

ClientInv ==
  \A k \in Clients :
    /\ \A j \in todo[k] \cup pending[k] : cpc[j] \notin Early
    /\ kpc[k] \in InCall => target[k] \in Jobs /\ cpc[target[k]] \notin Early
    /\ kpc[k] \in {"look", "settle", "request"} => SnapInv(k)
    /\ kpc[k] = "settle" => IF snap[k].pid THEN wpc[target[k]] = "gone"
                                            ELSE snap[k].st = "cancel_requested"
    /\ kpc[k] = "purge" => ~IsLive(target[k])
    /\ ret[k] # "idle" => kpc[k] \in InCall

\* account delete has the lock, so that no job can be created, and still has in
\* its lists every job that is live.
Phase(k)    == IF ret[k] = "idle" THEN kpc[k] ELSE ret[k]
Deleting(k) == Phase(k) \in {"list", "cancelAll", "wait", "erase"}

DeleteInv ==
  \A k \in Clients : Deleting(k) =>
    /\ holder = Client(k)
    /\ \A j \in Jobs : IsLive(j) =>
         \/ Phase(k) = "list" /\ j \in todo[k] \cup pending[k]
         \/ Phase(k) \in {"cancelAll", "wait"} /\ j \in pending[k]

Inductive ==
  /\ TypeOK
  /\ CreatorInv
  /\ ManifestInv
  /\ WorkerInv
  /\ LoginIsTracked
  /\ AuthInv
  /\ ClientInv
  /\ DeleteInv
-----------------------------------------------------------------------------
(* Two facts about data *)

\* Storing a manifest for a job keeps the type of the directory.
LEMMA StoreType ==
  ASSUME NEW J, NEW M, NEW f \in [J -> M], NEW x \in J, NEW m \in M
  PROVE  [f EXCEPT ![x] = m] \in [J -> M]
OBVIOUS

\* A manifest with its pid set is a manifest.
LEMMA TrackedManifest ==
  ASSUME NEW m \in Manifest
  PROVE  [m EXCEPT !.pid = TRUE] \in Manifest
BY DEF Manifest

-----------------------------------------------------------------------------
(* Every step preserves the invariant *)


\* Every step of a creator preserves the invariant.
LEMMA CreatorPreserves ==
  ASSUME Inductive, NEW j \in Jobs, CreatorStep(j) \/ CreatorCrash(j)
  PROVE  Inductive'
<1> USE RecordsAssumption, LockAssumption, BoundsAssumption DEF Inductive, files, creator, worker, client, bounds, Exists, IsLive, Alive, Live, Terminal,
          Manifest, InJob, Early, InCall, Creator, Worker, Client, Procs
<1>1. CASE CreateLock(j)
  <2> USE <1>1 DEF CreateLock, Take, TimesOut, CGoto
  <2>1. TypeOK' BY DEF TypeOK
  <2>2. CreatorInv' BY DEF TypeOK, CreatorInv
  <2>3. ManifestInv' BY DEF TypeOK, CreatorInv, ManifestInv
  <2>4. WorkerInv' BY DEF TypeOK, CreatorInv, WorkerInv
  <2>5. LoginIsTracked' BY DEF TypeOK, CreatorInv, LoginIsTracked
  <2>6. AuthInv' BY DEF TypeOK, CreatorInv, WorkerInv, LoginIsTracked, AuthInv,
      Succeeded, LoggedInHasAuth, NoOrphanCredentials
  <2>7. ClientInv' BY DEF TypeOK, CreatorInv, ManifestInv, LoginIsTracked, ClientInv,
      SnapInv
  <2>8. DeleteInv' BY DEF TypeOK, CreatorInv, ClientInv, DeleteInv, SnapInv, Phase,
      Deleting
  <2> QED BY <2>1, <2>2, <2>3, <2>4, <2>5, <2>6, <2>7, <2>8
<1>2. CASE PruneTerminalJobs(j)
  <2> USE <1>2 DEF PruneTerminalJobs, CGoto
  <2>1. TypeOK' BY DEF TypeOK
  <2>2. CreatorInv' BY DEF TypeOK, CreatorInv
  <2>3. ManifestInv' BY DEF TypeOK, CreatorInv, ManifestInv
  <2>4. WorkerInv' BY DEF TypeOK, CreatorInv, WorkerInv
  <2>5. LoginIsTracked' BY DEF TypeOK, CreatorInv, LoginIsTracked
  <2>6. AuthInv' BY DEF TypeOK, CreatorInv, WorkerInv, LoginIsTracked, AuthInv,
      Succeeded, LoggedInHasAuth, NoOrphanCredentials
  <2>7. ClientInv' BY DEF TypeOK, CreatorInv, ManifestInv, LoginIsTracked, ClientInv,
      SnapInv
  <2>8. DeleteInv' BY DEF TypeOK, CreatorInv, ClientInv, DeleteInv, SnapInv, Phase,
      Deleting
  <2> QED BY <2>1, <2>2, <2>3, <2>4, <2>5, <2>6, <2>7, <2>8
<1>3. CASE WriteNewJob(j)
  <2> USE <1>3 DEF WriteNewJob, CGoto, CEnds, Released
  <2>1. TypeOK'
    <3>1. [st |-> "queued", pid |-> FALSE] \in Manifest OBVIOUS
    <3>2. job \in [Jobs -> Manifest \cup {NoJob}] BY DEF TypeOK
    <3>3. [job EXCEPT ![j] = [st |-> "queued", pid |-> FALSE]] \in [Jobs -> Manifest \cup {NoJob}]
      BY ONLY <3>1, <3>2, StoreType, j \in Jobs
    <3>4. job' \in [Jobs -> Manifest \cup {NoJob}] BY <3>2, <3>3
    <3> QED BY <3>4 DEF TypeOK
  <2>2. CreatorInv' BY DEF TypeOK, CreatorInv
  <2>3. ManifestInv' BY DEF TypeOK, CreatorInv, ManifestInv
  <2>4. WorkerInv' BY DEF TypeOK, CreatorInv, WorkerInv
  <2>5. LoginIsTracked' BY DEF TypeOK, CreatorInv, LoginIsTracked
  <2>6. AuthInv' BY DEF TypeOK, CreatorInv, WorkerInv, LoginIsTracked, AuthInv,
      Succeeded, LoggedInHasAuth, NoOrphanCredentials
  <2>7. ClientInv' BY DEF TypeOK, CreatorInv, ManifestInv, LoginIsTracked, ClientInv,
      SnapInv
  <2>8. DeleteInv' BY DEF TypeOK, CreatorInv, ClientInv, DeleteInv, SnapInv, Phase,
      Deleting
  <2> QED BY <2>1, <2>2, <2>3, <2>4, <2>5, <2>6, <2>7, <2>8
<1>4. CASE Spawn(j)
  <2> USE <1>4 DEF Spawn, CGoto
  <2>1. TypeOK' BY DEF TypeOK
  <2>2. CreatorInv' BY DEF TypeOK, CreatorInv
  <2>3. ManifestInv' BY DEF TypeOK, CreatorInv, ManifestInv
  <2>4. WorkerInv' BY DEF TypeOK, CreatorInv, WorkerInv
  <2>5. LoginIsTracked' BY DEF TypeOK, CreatorInv, LoginIsTracked
  <2>6. AuthInv' BY DEF TypeOK, CreatorInv, WorkerInv, LoginIsTracked, AuthInv,
      Succeeded, LoggedInHasAuth, NoOrphanCredentials
  <2>7. ClientInv' BY DEF TypeOK, CreatorInv, ManifestInv, LoginIsTracked, ClientInv,
      SnapInv
  <2>8. DeleteInv' BY DEF TypeOK, CreatorInv, ClientInv, DeleteInv, SnapInv, Phase,
      Deleting
  <2> QED BY <2>1, <2>2, <2>3, <2>4, <2>5, <2>6, <2>7, <2>8
<1>5. CASE SpawnFails(j)
  <2> USE <1>5 DEF SpawnFails, CGoto
  <2>1. TypeOK' BY DEF TypeOK
  <2>2. CreatorInv' BY DEF TypeOK, CreatorInv
  <2>3. ManifestInv' BY DEF TypeOK, CreatorInv, ManifestInv
  <2>4. WorkerInv' BY DEF TypeOK, CreatorInv, WorkerInv
  <2>5. LoginIsTracked' BY DEF TypeOK, CreatorInv, LoginIsTracked
  <2>6. AuthInv' BY DEF TypeOK, CreatorInv, WorkerInv, LoginIsTracked, AuthInv,
      Succeeded, LoggedInHasAuth, NoOrphanCredentials
  <2>7. ClientInv' BY DEF TypeOK, CreatorInv, ManifestInv, LoginIsTracked, ClientInv,
      SnapInv
  <2>8. DeleteInv' BY DEF TypeOK, CreatorInv, ClientInv, DeleteInv, SnapInv, Phase,
      Deleting
  <2> QED BY <2>1, <2>2, <2>3, <2>4, <2>5, <2>6, <2>7, <2>8
<1>6. CASE StartFailed(j)
  <2> USE <1>6 DEF StartFailed, UpdateJob, CGoto
  <2>1. TypeOK' BY DEF TypeOK
  <2>2. CreatorInv' BY DEF TypeOK, CreatorInv
  <2>3. ManifestInv' BY DEF TypeOK, CreatorInv, ManifestInv
  <2>4. WorkerInv' BY DEF TypeOK, CreatorInv, WorkerInv
  <2>5. LoginIsTracked' BY DEF TypeOK, CreatorInv, LoginIsTracked
  <2>6. AuthInv' BY DEF TypeOK, CreatorInv, WorkerInv, LoginIsTracked, AuthInv,
      Succeeded, LoggedInHasAuth, NoOrphanCredentials
  <2>7. ClientInv' BY DEF TypeOK, CreatorInv, ManifestInv, LoginIsTracked, ClientInv,
      SnapInv
  <2>8. DeleteInv' BY DEF TypeOK, CreatorInv, ClientInv, DeleteInv, SnapInv, Phase,
      Deleting
  <2> QED BY <2>1, <2>2, <2>3, <2>4, <2>5, <2>6, <2>7, <2>8
<1>7. CASE TrackWorker(j)
  <2> USE <1>7 DEF TrackWorker, CGoto, CEnds, Released
  <2>1. TypeOK'
    <3>1. job[j] \in Manifest BY DEF TypeOK
    <3>2. [job[j] EXCEPT !.pid = TRUE] \in Manifest BY ONLY <3>1, TrackedManifest
    <3>3. job \in [Jobs -> Manifest \cup {NoJob}] BY DEF TypeOK
    <3>4. job' \in [Jobs -> Manifest \cup {NoJob}]
      BY <3>2, <3>3, StoreType
    <3> QED BY <3>4 DEF TypeOK
  <2>2. CreatorInv' BY DEF TypeOK, CreatorInv
  <2>3. ManifestInv' BY DEF TypeOK, CreatorInv, ManifestInv
  <2>4. WorkerInv' BY DEF TypeOK, CreatorInv, WorkerInv
  <2>5. LoginIsTracked'
    <3>1. job[j] \in Manifest BY DEF TypeOK
    <3>2. job'[j] \in Manifest /\ job'[j].pid /\ job'[j].st = job[j].st BY <3>1 DEF TypeOK
    <3>3. \A i \in Jobs \ {j} : job'[i] = job[i] BY DEF TypeOK
    <3> QED BY <3>2, <3>3 DEF LoginIsTracked
  <2>6. AuthInv' BY DEF TypeOK, CreatorInv, WorkerInv, LoginIsTracked, AuthInv,
      Succeeded, LoggedInHasAuth, NoOrphanCredentials
  <2>7. ClientInv' BY DEF TypeOK, CreatorInv, ManifestInv, LoginIsTracked, ClientInv,
      SnapInv
  <2>8. DeleteInv' BY DEF TypeOK, CreatorInv, ClientInv, DeleteInv, SnapInv, Phase,
      Deleting
  <2> QED BY <2>1, <2>2, <2>3, <2>4, <2>5, <2>6, <2>7, <2>8
<1>8. CASE TrackingFails(j)
  <2> USE <1>8 DEF TrackingFails, CGoto
  <2>1. TypeOK' BY DEF TypeOK
  <2>2. CreatorInv' BY DEF TypeOK, CreatorInv
  <2>3. ManifestInv' BY DEF TypeOK, CreatorInv, ManifestInv
  <2>4. WorkerInv' BY DEF TypeOK, CreatorInv, WorkerInv
  <2>5. LoginIsTracked' BY DEF TypeOK, CreatorInv, LoginIsTracked
  <2>6. AuthInv' BY DEF TypeOK, CreatorInv, WorkerInv, LoginIsTracked, AuthInv,
      Succeeded, LoggedInHasAuth, NoOrphanCredentials
  <2>7. ClientInv' BY DEF TypeOK, CreatorInv, ManifestInv, LoginIsTracked, ClientInv,
      SnapInv
  <2>8. DeleteInv' BY DEF TypeOK, CreatorInv, ClientInv, DeleteInv, SnapInv, Phase,
      Deleting
  <2> QED BY <2>1, <2>2, <2>3, <2>4, <2>5, <2>6, <2>7, <2>8
<1>9. CASE KillUntracked(j)
  <2> USE <1>9 DEF KillUntracked, Sigterm, CGoto, WorkerEnds, Released
  <2>1. TypeOK' BY DEF TypeOK
  <2>2. CreatorInv' BY DEF TypeOK, CreatorInv
  <2>3. ManifestInv' BY DEF TypeOK, CreatorInv, ManifestInv
  <2>4. WorkerInv' BY DEF TypeOK, CreatorInv, WorkerInv
  <2>5. LoginIsTracked' BY DEF TypeOK, CreatorInv, LoginIsTracked
  <2>6. AuthInv' BY DEF TypeOK, CreatorInv, WorkerInv, LoginIsTracked, AuthInv,
      Succeeded, LoggedInHasAuth, NoOrphanCredentials
  <2>7. ClientInv' BY DEF TypeOK, CreatorInv, ManifestInv, LoginIsTracked, ClientInv,
      SnapInv
  <2>8. DeleteInv' BY DEF TypeOK, CreatorInv, ClientInv, DeleteInv, SnapInv, Phase,
      Deleting
  <2> QED BY <2>1, <2>2, <2>3, <2>4, <2>5, <2>6, <2>7, <2>8
<1>10. CASE ReapUntrackedWorker(j)
  <2> USE <1>10 DEF ReapUntrackedWorker, WorkerEnds, CGoto, Released
  <2>1. TypeOK' BY DEF TypeOK
  <2>2. CreatorInv' BY DEF TypeOK, CreatorInv
  <2>3. ManifestInv' BY DEF TypeOK, CreatorInv, ManifestInv
  <2>4. WorkerInv' BY DEF TypeOK, CreatorInv, WorkerInv
  <2>5. LoginIsTracked' BY DEF TypeOK, CreatorInv, LoginIsTracked
  <2>6. AuthInv' BY DEF TypeOK, CreatorInv, WorkerInv, LoginIsTracked, AuthInv,
      Succeeded, LoggedInHasAuth, NoOrphanCredentials
  <2>7. ClientInv' BY DEF TypeOK, CreatorInv, ManifestInv, LoginIsTracked, ClientInv,
      SnapInv
  <2>8. DeleteInv' BY DEF TypeOK, CreatorInv, ClientInv, DeleteInv, SnapInv, Phase,
      Deleting
  <2> QED BY <2>1, <2>2, <2>3, <2>4, <2>5, <2>6, <2>7, <2>8
<1>11. CASE TrackingFailed(j)
  <2> USE <1>11 DEF TrackingFailed, UpdateJob, CGoto, CEnds, Released
  <2>1. TypeOK' BY DEF TypeOK
  <2>2. CreatorInv' BY DEF TypeOK, CreatorInv
  <2>3. ManifestInv' BY DEF TypeOK, CreatorInv, ManifestInv
  <2>4. WorkerInv' BY DEF TypeOK, CreatorInv, WorkerInv
  <2>5. LoginIsTracked' BY DEF TypeOK, CreatorInv, LoginIsTracked
  <2>6. AuthInv' BY DEF TypeOK, CreatorInv, WorkerInv, LoginIsTracked, AuthInv,
      Succeeded, LoggedInHasAuth, NoOrphanCredentials
  <2>7. ClientInv' BY DEF TypeOK, CreatorInv, ManifestInv, LoginIsTracked, ClientInv,
      SnapInv
  <2>8. DeleteInv' BY DEF TypeOK, CreatorInv, ClientInv, DeleteInv, SnapInv, Phase,
      Deleting
  <2> QED BY <2>1, <2>2, <2>3, <2>4, <2>5, <2>6, <2>7, <2>8
<1>12. CASE UpdateFails(j)
  <2> USE <1>12 DEF UpdateFails, CGoto
  <2>1. TypeOK' BY DEF TypeOK
  <2>2. CreatorInv' BY DEF TypeOK, CreatorInv
  <2>3. ManifestInv' BY DEF TypeOK, CreatorInv, ManifestInv
  <2>4. WorkerInv' BY DEF TypeOK, CreatorInv, WorkerInv
  <2>5. LoginIsTracked' BY DEF TypeOK, CreatorInv, LoginIsTracked
  <2>6. AuthInv' BY DEF TypeOK, CreatorInv, WorkerInv, LoginIsTracked, AuthInv,
      Succeeded, LoggedInHasAuth, NoOrphanCredentials
  <2>7. ClientInv' BY DEF TypeOK, CreatorInv, ManifestInv, LoginIsTracked, ClientInv,
      SnapInv
  <2>8. DeleteInv' BY DEF TypeOK, CreatorInv, ClientInv, DeleteInv, SnapInv, Phase,
      Deleting
  <2> QED BY <2>1, <2>2, <2>3, <2>4, <2>5, <2>6, <2>7, <2>8
<1>13. CASE RemoveUntrackedJob(j)
  <2> USE <1>13 DEF RemoveUntrackedJob, CEnds, Released, CGoto
  <2>1. TypeOK' BY DEF TypeOK
  <2>2. CreatorInv' BY DEF TypeOK, CreatorInv
  <2>3. ManifestInv' BY DEF TypeOK, CreatorInv, ManifestInv
  <2>4. WorkerInv' BY DEF TypeOK, CreatorInv, WorkerInv
  <2>5. LoginIsTracked' BY DEF TypeOK, CreatorInv, LoginIsTracked
  <2>6. AuthInv' BY DEF TypeOK, CreatorInv, WorkerInv, LoginIsTracked, AuthInv,
      Succeeded, LoggedInHasAuth, NoOrphanCredentials
  <2>7. ClientInv' BY DEF TypeOK, CreatorInv, ManifestInv, LoginIsTracked, ClientInv,
      SnapInv
  <2>8. DeleteInv' BY DEF TypeOK, CreatorInv, ClientInv, DeleteInv, SnapInv, Phase,
      Deleting
  <2> QED BY <2>1, <2>2, <2>3, <2>4, <2>5, <2>6, <2>7, <2>8
<1>14. CASE CreatorPurges(j)
  <2> USE <1>14 DEF CreatorPurges, DeleteJobEvents, CEnds, Released, CGoto
  <2>1. TypeOK' BY DEF TypeOK
  <2>2. CreatorInv' BY DEF TypeOK, CreatorInv
  <2>3. ManifestInv' BY DEF TypeOK, CreatorInv, ManifestInv
  <2>4. WorkerInv' BY DEF TypeOK, CreatorInv, WorkerInv
  <2>5. LoginIsTracked' BY DEF TypeOK, CreatorInv, LoginIsTracked
  <2>6. AuthInv' BY DEF TypeOK, CreatorInv, WorkerInv, LoginIsTracked, AuthInv,
      Succeeded, LoggedInHasAuth, NoOrphanCredentials
  <2>7. ClientInv' BY DEF TypeOK, CreatorInv, ManifestInv, LoginIsTracked, ClientInv,
      SnapInv
  <2>8. DeleteInv' BY DEF TypeOK, CreatorInv, ClientInv, DeleteInv, SnapInv, Phase,
      Deleting
  <2> QED BY <2>1, <2>2, <2>3, <2>4, <2>5, <2>6, <2>7, <2>8
<1>15. CASE CreatorCrash(j)
  <2> USE <1>15 DEF CreatorCrash, CEnds, Released, CGoto
  <2>1. TypeOK' BY DEF TypeOK
  <2>2. CreatorInv' BY DEF TypeOK, CreatorInv
  <2>3. ManifestInv' BY DEF TypeOK, CreatorInv, ManifestInv
  <2>4. WorkerInv' BY DEF TypeOK, CreatorInv, WorkerInv
  <2>5. LoginIsTracked' BY DEF TypeOK, CreatorInv, LoginIsTracked
  <2>6. AuthInv' BY DEF TypeOK, CreatorInv, WorkerInv, LoginIsTracked, AuthInv,
      Succeeded, LoggedInHasAuth, NoOrphanCredentials
  <2>7. ClientInv' BY DEF TypeOK, CreatorInv, ManifestInv, LoginIsTracked, ClientInv,
      SnapInv
  <2>8. DeleteInv' BY DEF TypeOK, CreatorInv, ClientInv, DeleteInv, SnapInv, Phase,
      Deleting
  <2> QED BY <2>1, <2>2, <2>3, <2>4, <2>5, <2>6, <2>7, <2>8
<1> QED BY <1>1, <1>2, <1>3, <1>4, <1>5, <1>6, <1>7, <1>8, <1>9, <1>10, <1>11, <1>12,
      <1>13, <1>14, <1>15 DEF CreatorStep

\* Every step of a worker preserves the invariant.
LEMMA WorkerPreserves ==
  ASSUME Inductive, NEW j \in Jobs, WorkerStep(j) \/ WorkerCrash(j)
  PROVE  Inductive'
<1> USE RecordsAssumption, LockAssumption, BoundsAssumption DEF Inductive, files, creator, worker, client, bounds, Exists, IsLive, Alive, Live, Terminal,
          Manifest, InJob, Early, InCall, Creator, Worker, Client, Procs
<1>1. CASE Boot(j)
  <2> USE <1>1 DEF Boot, WGoto, LocalsOnly
  <2>1. TypeOK' BY DEF TypeOK
  <2>2. CreatorInv' BY DEF TypeOK, CreatorInv
  <2>3. ManifestInv' BY DEF TypeOK, CreatorInv, ManifestInv
  <2>4. WorkerInv' BY DEF TypeOK, CreatorInv, WorkerInv
  <2>5. LoginIsTracked' BY DEF TypeOK, CreatorInv, LoginIsTracked
  <2>6. AuthInv' BY DEF TypeOK, CreatorInv, WorkerInv, LoginIsTracked, AuthInv,
      Succeeded, LoggedInHasAuth, NoOrphanCredentials
  <2>7. ClientInv' BY DEF TypeOK, CreatorInv, ManifestInv, LoginIsTracked, ClientInv,
      SnapInv
  <2>8. DeleteInv' BY DEF TypeOK, CreatorInv, ClientInv, DeleteInv, SnapInv, Phase,
      Deleting
  <2> QED BY <2>1, <2>2, <2>3, <2>4, <2>5, <2>6, <2>7, <2>8
<1>2. CASE Start(j)
  <2> USE <1>2 DEF Start, WorkerEnds, WGoto, ManifestOnly, Released
  <2>1. TypeOK'
    <3>1. [st |-> "running", pid |-> TRUE] \in Manifest OBVIOUS
    <3>2. job \in [Jobs -> Manifest \cup {NoJob}] BY DEF TypeOK
    <3>3. [job EXCEPT ![j] = [st |-> "running", pid |-> TRUE]] \in [Jobs -> Manifest \cup {NoJob}]
      BY ONLY <3>1, <3>2, StoreType, j \in Jobs
    <3>4. job' \in [Jobs -> Manifest \cup {NoJob}] BY <3>2, <3>3
    <3> QED BY <3>4 DEF TypeOK
  <2>2. CreatorInv' BY DEF TypeOK, CreatorInv
  <2>3. ManifestInv' BY DEF TypeOK, CreatorInv, ManifestInv
  <2>4. WorkerInv' BY DEF TypeOK, CreatorInv, WorkerInv
  <2>5. LoginIsTracked'
    <3>1. CASE job[j].st = "queued"
      <4>1. job'[j] = [st |-> "running", pid |-> TRUE] BY <3>1 DEF TypeOK
      <4>2. job'[j] \in Manifest BY ONLY <4>1 DEF Manifest, Live, Terminal
      <4>3. job'[j] # NoJob BY <4>2, RecordsAssumption
      <4>4. \A i \in Jobs \ {j} : job'[i] = job[i] /\ wpc'[i] = wpc[i] BY <3>1 DEF TypeOK
      <4> QED BY <4>1, <4>3, <4>4 DEF LoginIsTracked
    <3>2. CASE job[j].st # "queued" BY <3>2 DEF TypeOK, LoginIsTracked
    <3> QED BY <3>1, <3>2
  <2>6. AuthInv' BY DEF TypeOK, CreatorInv, WorkerInv, LoginIsTracked, AuthInv,
      Succeeded, LoggedInHasAuth, NoOrphanCredentials
  <2>7. ClientInv' BY DEF TypeOK, CreatorInv, ManifestInv, LoginIsTracked, ClientInv,
      SnapInv
  <2>8. DeleteInv' BY DEF TypeOK, CreatorInv, ClientInv, DeleteInv, SnapInv, Phase,
      Deleting
  <2> QED BY <2>1, <2>2, <2>3, <2>4, <2>5, <2>6, <2>7, <2>8
<1>3. CASE InstallHandler(j)
  <2> USE <1>3 DEF InstallHandler, WGoto, LocalsOnly
  <2>1. TypeOK' BY DEF TypeOK
  <2>2. CreatorInv' BY DEF TypeOK, CreatorInv
  <2>3. ManifestInv' BY DEF TypeOK, CreatorInv, ManifestInv
  <2>4. WorkerInv' BY DEF TypeOK, CreatorInv, WorkerInv
  <2>5. LoginIsTracked' BY DEF TypeOK, CreatorInv, LoginIsTracked
  <2>6. AuthInv' BY DEF TypeOK, CreatorInv, WorkerInv, LoginIsTracked, AuthInv,
      Succeeded, LoggedInHasAuth, NoOrphanCredentials
  <2>7. ClientInv' BY DEF TypeOK, CreatorInv, ManifestInv, LoginIsTracked, ClientInv,
      SnapInv
  <2>8. DeleteInv' BY DEF TypeOK, CreatorInv, ClientInv, DeleteInv, SnapInv, Phase,
      Deleting
  <2> QED BY <2>1, <2>2, <2>3, <2>4, <2>5, <2>6, <2>7, <2>8
<1>4. CASE CancelBeforeLogin(j)
  <2> USE <1>4 DEF CancelBeforeLogin, WGoto, CancelSeen, MarkAs, LocalsOnly
  <2>1. TypeOK' BY DEF TypeOK
  <2>2. CreatorInv' BY DEF TypeOK, CreatorInv
  <2>3. ManifestInv' BY DEF TypeOK, CreatorInv, ManifestInv
  <2>4. WorkerInv' BY DEF TypeOK, CreatorInv, WorkerInv
  <2>5. LoginIsTracked' BY DEF TypeOK, CreatorInv, LoginIsTracked
  <2>6. AuthInv' BY DEF TypeOK, CreatorInv, WorkerInv, LoginIsTracked, AuthInv,
      Succeeded, LoggedInHasAuth, NoOrphanCredentials
  <2>7. ClientInv' BY DEF TypeOK, CreatorInv, ManifestInv, LoginIsTracked, ClientInv,
      SnapInv
  <2>8. DeleteInv' BY DEF TypeOK, CreatorInv, ClientInv, DeleteInv, SnapInv, Phase,
      Deleting
  <2> QED BY <2>1, <2>2, <2>3, <2>4, <2>5, <2>6, <2>7, <2>8
<1>5. CASE LoginLock(j)
  <2> USE <1>5 DEF LoginLock, Take, TimesOut, WGoto
  <2>1. TypeOK' BY DEF TypeOK
  <2>2. CreatorInv' BY DEF TypeOK, CreatorInv
  <2>3. ManifestInv' BY DEF TypeOK, CreatorInv, ManifestInv
  <2>4. WorkerInv' BY DEF TypeOK, CreatorInv, WorkerInv
  <2>5. LoginIsTracked' BY DEF TypeOK, CreatorInv, LoginIsTracked
  <2>6. AuthInv' BY DEF TypeOK, CreatorInv, WorkerInv, LoginIsTracked, AuthInv,
      Succeeded, LoggedInHasAuth, NoOrphanCredentials
  <2>7. ClientInv' BY DEF TypeOK, CreatorInv, ManifestInv, LoginIsTracked, ClientInv,
      SnapInv
  <2>8. DeleteInv' BY DEF TypeOK, CreatorInv, ClientInv, DeleteInv, SnapInv, Phase,
      Deleting
  <2> QED BY <2>1, <2>2, <2>3, <2>4, <2>5, <2>6, <2>7, <2>8
<1>6. CASE LoginEvent(j)
  <2> USE <1>6 DEF LoginEvent
  <2>1. TypeOK' BY DEF TypeOK
  <2>2. CreatorInv' BY DEF TypeOK, CreatorInv
  <2>3. ManifestInv' BY DEF TypeOK, CreatorInv, ManifestInv
  <2>4. WorkerInv' BY DEF TypeOK, CreatorInv, WorkerInv
  <2>5. LoginIsTracked' BY DEF TypeOK, CreatorInv, LoginIsTracked
  <2>6. AuthInv' BY DEF TypeOK, CreatorInv, WorkerInv, LoginIsTracked, AuthInv,
      Succeeded, LoggedInHasAuth, NoOrphanCredentials
  <2>7. ClientInv' BY DEF TypeOK, CreatorInv, ManifestInv, LoginIsTracked, ClientInv,
      SnapInv
  <2>8. DeleteInv' BY DEF TypeOK, CreatorInv, ClientInv, DeleteInv, SnapInv, Phase,
      Deleting
  <2> QED BY <2>1, <2>2, <2>3, <2>4, <2>5, <2>6, <2>7, <2>8
<1>7. CASE LoginFails(j)
  <2> USE <1>7 DEF LoginFails, WGoto
  <2>1. TypeOK' BY DEF TypeOK
  <2>2. CreatorInv' BY DEF TypeOK, CreatorInv, WorkerInv
  <2>3. ManifestInv' BY DEF TypeOK, CreatorInv, ManifestInv
  <2>4. WorkerInv' BY DEF TypeOK, CreatorInv, WorkerInv
  <2>5. LoginIsTracked' BY DEF TypeOK, CreatorInv, LoginIsTracked
  <2>6. AuthInv' BY DEF TypeOK, CreatorInv, WorkerInv, LoginIsTracked, AuthInv,
      Succeeded, LoggedInHasAuth, NoOrphanCredentials
  <2>7. ClientInv' BY DEF TypeOK, CreatorInv, ManifestInv, LoginIsTracked, ClientInv,
      SnapInv
  <2>8. DeleteInv' BY DEF TypeOK, CreatorInv, ClientInv, DeleteInv, WorkerInv, SnapInv,
      Phase, Deleting
  <2> QED BY <2>1, <2>2, <2>3, <2>4, <2>5, <2>6, <2>7, <2>8
<1>8. CASE LoginPublishes(j)
  <2> USE <1>8 DEF LoginPublishes, WGoto
  <2>1. TypeOK' BY DEF TypeOK
  <2>2. CreatorInv' BY DEF TypeOK, CreatorInv, WorkerInv
  <2>3. ManifestInv' BY DEF TypeOK, CreatorInv, ManifestInv
  <2>4. WorkerInv' BY DEF TypeOK, CreatorInv, WorkerInv
  <2>5. LoginIsTracked' BY DEF TypeOK, CreatorInv, LoginIsTracked
  <2>6. AuthInv' BY DEF TypeOK, CreatorInv, WorkerInv, LoginIsTracked, AuthInv,
      Succeeded, LoggedInHasAuth, NoOrphanCredentials
  <2>7. ClientInv' BY DEF TypeOK, CreatorInv, ManifestInv, LoginIsTracked, ClientInv,
      SnapInv
  <2>8. DeleteInv' BY DEF TypeOK, CreatorInv, ClientInv, DeleteInv, WorkerInv, SnapInv,
      Phase, Deleting
  <2> QED BY <2>1, <2>2, <2>3, <2>4, <2>5, <2>6, <2>7, <2>8
<1>9. CASE Finalize(j)
  <2> USE <1>9 DEF Finalize, WGoto
  <2>1. TypeOK' BY DEF TypeOK
  <2>2. CreatorInv' BY DEF TypeOK, CreatorInv
  <2>3. ManifestInv' BY DEF TypeOK, CreatorInv, ManifestInv
  <2>4. WorkerInv' BY DEF TypeOK, CreatorInv, WorkerInv
  <2>5. LoginIsTracked' BY DEF TypeOK, CreatorInv, LoginIsTracked
  <2>6. AuthInv' BY DEF TypeOK, CreatorInv, WorkerInv, LoginIsTracked, AuthInv,
      Succeeded, LoggedInHasAuth, NoOrphanCredentials
  <2>7. ClientInv' BY DEF TypeOK, CreatorInv, ManifestInv, LoginIsTracked, ClientInv,
      SnapInv
  <2>8. DeleteInv' BY DEF TypeOK, CreatorInv, ClientInv, DeleteInv, SnapInv, Phase,
      Deleting
  <2> QED BY <2>1, <2>2, <2>3, <2>4, <2>5, <2>6, <2>7, <2>8
<1>10. CASE FinalizeFails(j)
  <2> USE <1>10 DEF FinalizeFails, TimesOut, WGoto
  <2>1. TypeOK' BY DEF TypeOK
  <2>2. CreatorInv' BY DEF TypeOK, CreatorInv
  <2>3. ManifestInv' BY DEF TypeOK, CreatorInv, ManifestInv
  <2>4. WorkerInv' BY DEF TypeOK, CreatorInv, WorkerInv
  <2>5. LoginIsTracked' BY DEF TypeOK, CreatorInv, LoginIsTracked
  <2>6. AuthInv' BY DEF TypeOK, CreatorInv, WorkerInv, LoginIsTracked, AuthInv,
      Succeeded, LoggedInHasAuth, NoOrphanCredentials
  <2>7. ClientInv' BY DEF TypeOK, CreatorInv, ManifestInv, LoginIsTracked, ClientInv,
      SnapInv
  <2>8. DeleteInv' BY DEF TypeOK, CreatorInv, ClientInv, DeleteInv, SnapInv, Phase,
      Deleting
  <2> QED BY <2>1, <2>2, <2>3, <2>4, <2>5, <2>6, <2>7, <2>8
<1>11. CASE UndoPublish(j)
  <2> USE <1>11 DEF UndoPublish, WGoto
  <2>1. TypeOK' BY DEF TypeOK
  <2>2. CreatorInv' BY DEF TypeOK, CreatorInv
  <2>3. ManifestInv' BY DEF TypeOK, CreatorInv, ManifestInv
  <2>4. WorkerInv' BY DEF TypeOK, CreatorInv, WorkerInv
  <2>5. LoginIsTracked' BY DEF TypeOK, CreatorInv, LoginIsTracked
  <2>6. AuthInv' BY DEF TypeOK, CreatorInv, WorkerInv, LoginIsTracked, AuthInv,
      Succeeded, LoggedInHasAuth, NoOrphanCredentials
  <2>7. ClientInv' BY DEF TypeOK, CreatorInv, ManifestInv, LoginIsTracked, ClientInv,
      SnapInv
  <2>8. DeleteInv' BY DEF TypeOK, CreatorInv, ClientInv, DeleteInv, SnapInv, Phase,
      Deleting
  <2> QED BY <2>1, <2>2, <2>3, <2>4, <2>5, <2>6, <2>7, <2>8
<1>12. CASE Raised(j)
  <2> USE <1>12 DEF Raised, CancelSeen, MarkAs, LocalsOnly, WGoto
  <2>1. TypeOK' BY DEF TypeOK
  <2>2. CreatorInv' BY DEF TypeOK, CreatorInv
  <2>3. ManifestInv' BY DEF TypeOK, CreatorInv, ManifestInv
  <2>4. WorkerInv' BY DEF TypeOK, CreatorInv, WorkerInv
  <2>5. LoginIsTracked' BY DEF TypeOK, CreatorInv, LoginIsTracked
  <2>6. AuthInv' BY DEF TypeOK, CreatorInv, WorkerInv, LoginIsTracked, AuthInv,
      Succeeded, LoggedInHasAuth, NoOrphanCredentials
  <2>7. ClientInv' BY DEF TypeOK, CreatorInv, ManifestInv, LoginIsTracked, ClientInv,
      SnapInv
  <2>8. DeleteInv' BY DEF TypeOK, CreatorInv, ClientInv, DeleteInv, SnapInv, Phase,
      Deleting
  <2> QED BY <2>1, <2>2, <2>3, <2>4, <2>5, <2>6, <2>7, <2>8
<1>13. CASE RestoreHandler(j)
  <2> USE <1>13 DEF RestoreHandler, WGoto, LocalsOnly
  <2>1. TypeOK' BY DEF TypeOK
  <2>2. CreatorInv' BY DEF TypeOK, CreatorInv
  <2>3. ManifestInv' BY DEF TypeOK, CreatorInv, ManifestInv
  <2>4. WorkerInv' BY DEF TypeOK, CreatorInv, WorkerInv
  <2>5. LoginIsTracked' BY DEF TypeOK, CreatorInv, LoginIsTracked
  <2>6. AuthInv' BY DEF TypeOK, CreatorInv, WorkerInv, LoginIsTracked, AuthInv,
      Succeeded, LoggedInHasAuth, NoOrphanCredentials
  <2>7. ClientInv' BY DEF TypeOK, CreatorInv, ManifestInv, LoginIsTracked, ClientInv,
      SnapInv
  <2>8. DeleteInv' BY DEF TypeOK, CreatorInv, ClientInv, DeleteInv, SnapInv, Phase,
      Deleting
  <2> QED BY <2>1, <2>2, <2>3, <2>4, <2>5, <2>6, <2>7, <2>8
<1>14. CASE CheckResult(j)
  <2> USE <1>14 DEF CheckResult, WGoto, CancelSeen, MarkAs, LocalsOnly
  <2>1. TypeOK' BY DEF TypeOK
  <2>2. CreatorInv' BY DEF TypeOK, CreatorInv
  <2>3. ManifestInv' BY DEF TypeOK, CreatorInv, ManifestInv
  <2>4. WorkerInv' BY DEF TypeOK, CreatorInv, WorkerInv
  <2>5. LoginIsTracked' BY DEF TypeOK, CreatorInv, LoginIsTracked
  <2>6. AuthInv' BY DEF TypeOK, CreatorInv, WorkerInv, LoginIsTracked, AuthInv,
      Succeeded, LoggedInHasAuth, NoOrphanCredentials
  <2>7. ClientInv' BY DEF TypeOK, CreatorInv, ManifestInv, LoginIsTracked, ClientInv,
      SnapInv
  <2>8. DeleteInv' BY DEF TypeOK, CreatorInv, ClientInv, DeleteInv, SnapInv, Phase,
      Deleting
  <2> QED BY <2>1, <2>2, <2>3, <2>4, <2>5, <2>6, <2>7, <2>8
<1>15. CASE VerifyCompletion(j)
  <2> USE <1>15 DEF VerifyCompletion, CancelSeen, MarkAs, LocalsOnly, WGoto
  <2>1. TypeOK' BY DEF TypeOK
  <2>2. CreatorInv' BY DEF TypeOK, CreatorInv
  <2>3. ManifestInv' BY DEF TypeOK, CreatorInv, ManifestInv
  <2>4. WorkerInv' BY DEF TypeOK, CreatorInv, WorkerInv
  <2>5. LoginIsTracked' BY DEF TypeOK, CreatorInv, LoginIsTracked
  <2>6. AuthInv'
    <3>1. j \in ok /\ account = "logged_in" /\ auth = j BY DEF WorkerInv, AuthInv, Succeeded
    <3>2. LoggedInHasAuth' /\ NoOrphanCredentials'
      BY <3>1 DEF TypeOK, LoggedInHasAuth, NoOrphanCredentials
    <3>3. \A i \in Jobs \ {j} : wpc'[i] = wpc[i] /\ want'[i] = want[i] BY DEF TypeOK
    <3>4. wpc'[j] = "mark" BY DEF TypeOK
    <3> QED BY <3>1, <3>2, <3>3, <3>4 DEF AuthInv, Succeeded
  <2>7. ClientInv' BY DEF TypeOK, CreatorInv, ManifestInv, LoginIsTracked, ClientInv,
      SnapInv
  <2>8. DeleteInv' BY DEF TypeOK, CreatorInv, ClientInv, DeleteInv, SnapInv, Phase,
      Deleting
  <2> QED BY <2>1, <2>2, <2>3, <2>4, <2>5, <2>6, <2>7, <2>8
<1>16. CASE MarkJobTerminal(j)
  <2> USE <1>16 DEF MarkJobTerminal, UpdateJob, WorkerEnds, WGoto, ManifestOnly,
      Released
  <2>1. TypeOK' BY DEF TypeOK
  <2>2. CreatorInv' BY DEF TypeOK, CreatorInv
  <2>3. ManifestInv' BY DEF TypeOK, CreatorInv, ManifestInv
  <2>4. WorkerInv' BY DEF TypeOK, CreatorInv, WorkerInv
  <2>5. LoginIsTracked' BY DEF TypeOK, CreatorInv, LoginIsTracked
  <2>6. AuthInv' BY DEF TypeOK, CreatorInv, WorkerInv, LoginIsTracked, AuthInv,
      Succeeded, LoggedInHasAuth, NoOrphanCredentials
  <2>7. ClientInv' BY DEF TypeOK, CreatorInv, ManifestInv, LoginIsTracked, ClientInv,
      SnapInv
  <2>8. DeleteInv' BY DEF TypeOK, CreatorInv, ClientInv, DeleteInv, SnapInv, Phase,
      Deleting
  <2> QED BY <2>1, <2>2, <2>3, <2>4, <2>5, <2>6, <2>7, <2>8
<1>17. CASE MarkCancelled(j)
  <2> USE <1>17 DEF MarkCancelled, UpdateJob, WorkerEnds, WGoto, ManifestOnly, Released
  <2>1. TypeOK' BY DEF TypeOK
  <2>2. CreatorInv' BY DEF TypeOK, CreatorInv
  <2>3. ManifestInv' BY DEF TypeOK, CreatorInv, ManifestInv
  <2>4. WorkerInv' BY DEF TypeOK, CreatorInv, WorkerInv
  <2>5. LoginIsTracked' BY DEF TypeOK, CreatorInv, LoginIsTracked
  <2>6. AuthInv' BY DEF TypeOK, CreatorInv, WorkerInv, LoginIsTracked, AuthInv,
      Succeeded, LoggedInHasAuth, NoOrphanCredentials
  <2>7. ClientInv' BY DEF TypeOK, CreatorInv, ManifestInv, LoginIsTracked, ClientInv,
      SnapInv
  <2>8. DeleteInv' BY DEF TypeOK, CreatorInv, ClientInv, DeleteInv, SnapInv, Phase,
      Deleting
  <2> QED BY <2>1, <2>2, <2>3, <2>4, <2>5, <2>6, <2>7, <2>8
<1>18. CASE WorkerPurges(j)
  <2> USE <1>18 DEF WorkerPurges, DeleteJobEvents, WorkerEnds, Released
  <2>1. TypeOK' BY DEF TypeOK
  <2>2. CreatorInv' BY DEF TypeOK, CreatorInv
  <2>3. ManifestInv' BY DEF TypeOK, CreatorInv, ManifestInv
  <2>4. WorkerInv' BY DEF TypeOK, CreatorInv, WorkerInv
  <2>5. LoginIsTracked' BY DEF TypeOK, CreatorInv, LoginIsTracked
  <2>6. AuthInv' BY DEF TypeOK, CreatorInv, WorkerInv, LoginIsTracked, AuthInv,
      Succeeded, LoggedInHasAuth, NoOrphanCredentials
  <2>7. ClientInv' BY DEF TypeOK, CreatorInv, ManifestInv, LoginIsTracked, ClientInv,
      SnapInv
  <2>8. DeleteInv' BY DEF TypeOK, CreatorInv, ClientInv, DeleteInv, SnapInv, Phase,
      Deleting
  <2> QED BY <2>1, <2>2, <2>3, <2>4, <2>5, <2>6, <2>7, <2>8
<1>19. CASE WorkerLost(j)
  <2> USE <1>19 DEF WorkerLost, WorkerEnds, Released
  <2>1. TypeOK' BY DEF TypeOK
  <2>2. CreatorInv' BY DEF TypeOK, CreatorInv
  <2>3. ManifestInv' BY DEF TypeOK, CreatorInv, ManifestInv
  <2>4. WorkerInv' BY DEF TypeOK, CreatorInv, WorkerInv
  <2>5. LoginIsTracked' BY DEF TypeOK, CreatorInv, LoginIsTracked
  <2>6. AuthInv' BY DEF TypeOK, CreatorInv, WorkerInv, LoginIsTracked, AuthInv,
      Succeeded, LoggedInHasAuth, NoOrphanCredentials
  <2>7. ClientInv' BY DEF TypeOK, CreatorInv, ManifestInv, LoginIsTracked, ClientInv,
      SnapInv
  <2>8. DeleteInv' BY DEF TypeOK, CreatorInv, ClientInv, DeleteInv, SnapInv, Phase,
      Deleting
  <2> QED BY <2>1, <2>2, <2>3, <2>4, <2>5, <2>6, <2>7, <2>8
<1>20. CASE WorkerCrash(j)
  <2> USE <1>20 DEF WorkerCrash, WorkerEnds, Released
  <2>1. TypeOK' BY DEF TypeOK
  <2>2. CreatorInv' BY DEF TypeOK, CreatorInv
  <2>3. ManifestInv' BY DEF TypeOK, CreatorInv, ManifestInv
  <2>4. WorkerInv' BY DEF TypeOK, CreatorInv, WorkerInv
  <2>5. LoginIsTracked' BY DEF TypeOK, CreatorInv, LoginIsTracked
  <2>6. AuthInv' BY DEF TypeOK, CreatorInv, WorkerInv, LoginIsTracked, AuthInv,
      Succeeded, LoggedInHasAuth, NoOrphanCredentials
  <2>7. ClientInv' BY DEF TypeOK, CreatorInv, ManifestInv, LoginIsTracked, ClientInv,
      SnapInv
  <2>8. DeleteInv' BY DEF TypeOK, CreatorInv, ClientInv, DeleteInv, SnapInv, Phase,
      Deleting
  <2> QED BY <2>1, <2>2, <2>3, <2>4, <2>5, <2>6, <2>7, <2>8
<1> QED BY <1>1, <1>2, <1>3, <1>4, <1>5, <1>6, <1>7, <1>8, <1>9, <1>10, <1>11, <1>12,
      <1>13, <1>14, <1>15, <1>16, <1>17, <1>18, <1>19, <1>20 DEF WorkerStep

\* Every step of a client preserves the invariant.
LEMMA ClientPreserves ==
  ASSUME Inductive, NEW k \in Clients, ClientStep(k)
  PROVE  Inductive'
<1> USE RecordsAssumption, LockAssumption, BoundsAssumption DEF Inductive, files, creator, worker, client, bounds, Exists, IsLive, Alive, Live, Terminal,
          Manifest, InJob, Early, InCall, Creator, Worker, Client, Procs
<1>1. ASSUME NEW j \in Jobs, ProfileJobStatus(k, j) PROVE Inductive'
  <2> USE <1>1 DEF ProfileJobStatus, Call, KGoto
  <2>1. TypeOK' BY DEF TypeOK
  <2>2. CreatorInv' BY DEF TypeOK, CreatorInv
  <2>3. ManifestInv' BY DEF TypeOK, CreatorInv, ManifestInv
  <2>4. WorkerInv' BY DEF TypeOK, CreatorInv, WorkerInv
  <2>5. LoginIsTracked' BY DEF TypeOK, CreatorInv, LoginIsTracked
  <2>6. AuthInv' BY DEF TypeOK, CreatorInv, WorkerInv, LoginIsTracked, AuthInv,
      Succeeded, LoggedInHasAuth, NoOrphanCredentials
  <2>7. ClientInv' BY DEF TypeOK, CreatorInv, ManifestInv, LoginIsTracked, ClientInv,
      SnapInv
  <2>8. DeleteInv' BY DEF TypeOK, CreatorInv, ClientInv, DeleteInv, SnapInv, Phase,
      Deleting
  <2> QED BY <2>1, <2>2, <2>3, <2>4, <2>5, <2>6, <2>7, <2>8
<1>2. ASSUME NEW j \in Jobs, CancelProfileJob(k, j) PROVE Inductive'
  <2> USE <1>2 DEF CancelProfileJob, Call, KGoto
  <2>1. TypeOK' BY DEF TypeOK
  <2>2. CreatorInv' BY DEF TypeOK, CreatorInv
  <2>3. ManifestInv' BY DEF TypeOK, CreatorInv, ManifestInv
  <2>4. WorkerInv' BY DEF TypeOK, CreatorInv, WorkerInv
  <2>5. LoginIsTracked' BY DEF TypeOK, CreatorInv, LoginIsTracked
  <2>6. AuthInv' BY DEF TypeOK, CreatorInv, WorkerInv, LoginIsTracked, AuthInv,
      Succeeded, LoggedInHasAuth, NoOrphanCredentials
  <2>7. ClientInv' BY DEF TypeOK, CreatorInv, ManifestInv, LoginIsTracked, ClientInv,
      SnapInv
  <2>8. DeleteInv' BY DEF TypeOK, CreatorInv, ClientInv, DeleteInv, SnapInv, Phase,
      Deleting
  <2> QED BY <2>1, <2>2, <2>3, <2>4, <2>5, <2>6, <2>7, <2>8
<1>3. CASE ReadJob(k)
  <2> USE <1>3 DEF ReadJob, KGoto, Return
  <2>1. TypeOK'
    <3>1. target[k] \in Jobs BY DEF ClientInv
    <3>2. kpc' \in [Clients -> {"idle", "status", "cancel", "look", "settle", "purge",
            "request", "signal", "deleteLock", "list", "cancelAll", "wait", "erase"}]
      BY DEF TypeOK
    <3>3. target' \in [Clients -> Jobs \cup {NoJob}] BY DEF TypeOK
    <3>4. snap' \in [Clients -> Manifest \cup {NoJob}] BY <3>1 DEF TypeOK
    <3>5. ret' \in [Clients -> {"idle", "list", "cancelAll", "wait"}] BY DEF TypeOK
    <3>6. todo' \in [Clients -> SUBSET Jobs] BY <3>1 DEF TypeOK
    <3>7. pending' \in [Clients -> SUBSET Jobs] BY <3>1 DEF TypeOK
    <3>8. job' \in [Jobs -> Manifest \cup {NoJob}] BY <3>1 DEF TypeOK
    <3> QED BY <3>2, <3>3, <3>4, <3>5, <3>6, <3>7, <3>8 DEF TypeOK
  <2>2. CreatorInv' BY DEF TypeOK, CreatorInv
  <2>3. ManifestInv' BY DEF TypeOK, CreatorInv, ManifestInv
  <2>4. WorkerInv' BY DEF TypeOK, CreatorInv, WorkerInv
  <2>5. LoginIsTracked' BY DEF TypeOK, CreatorInv, LoginIsTracked
  <2>6. AuthInv' BY DEF TypeOK, CreatorInv, WorkerInv, LoginIsTracked, AuthInv,
      Succeeded, LoggedInHasAuth, NoOrphanCredentials
  <2>7. ClientInv' BY DEF TypeOK, CreatorInv, ManifestInv, LoginIsTracked, ClientInv,
      SnapInv
  <2>8. DeleteInv' BY DEF TypeOK, CreatorInv, ClientInv, DeleteInv, SnapInv, Phase,
      Deleting
  <2> QED BY <2>1, <2>2, <2>3, <2>4, <2>5, <2>6, <2>7, <2>8
<1>4. CASE LookForWorker(k)
  <2> USE <1>4 DEF LookForWorker, KGoto, IsLost, Return
  <2>1. TypeOK'
    <3>1. target[k] \in Jobs BY DEF ClientInv
    <3>2. kpc' \in [Clients -> {"idle", "status", "cancel", "look", "settle", "purge",
            "request", "signal", "deleteLock", "list", "cancelAll", "wait", "erase"}]
      BY DEF TypeOK
    <3>3. target' \in [Clients -> Jobs \cup {NoJob}] BY DEF TypeOK
    <3>4. snap' \in [Clients -> Manifest \cup {NoJob}] BY <3>1 DEF TypeOK
    <3>5. ret' \in [Clients -> {"idle", "list", "cancelAll", "wait"}] BY DEF TypeOK
    <3>6. todo' \in [Clients -> SUBSET Jobs] BY <3>1 DEF TypeOK
    <3>7. pending' \in [Clients -> SUBSET Jobs] BY <3>1 DEF TypeOK
    <3>8. job' \in [Jobs -> Manifest \cup {NoJob}] BY <3>1 DEF TypeOK
    <3> QED BY <3>2, <3>3, <3>4, <3>5, <3>6, <3>7, <3>8 DEF TypeOK
  <2>2. CreatorInv' BY DEF TypeOK, CreatorInv
  <2>3. ManifestInv' BY DEF TypeOK, CreatorInv, ManifestInv
  <2>4. WorkerInv' BY DEF TypeOK, CreatorInv, WorkerInv
  <2>5. LoginIsTracked' BY DEF TypeOK, CreatorInv, LoginIsTracked
  <2>6. AuthInv' BY DEF TypeOK, CreatorInv, WorkerInv, LoginIsTracked, AuthInv,
      Succeeded, LoggedInHasAuth, NoOrphanCredentials
  <2>7. ClientInv' BY DEF TypeOK, CreatorInv, ManifestInv, LoginIsTracked, ClientInv,
      SnapInv
  <2>8. DeleteInv' BY DEF TypeOK, CreatorInv, ClientInv, DeleteInv, SnapInv, Phase,
      Deleting
  <2> QED BY <2>1, <2>2, <2>3, <2>4, <2>5, <2>6, <2>7, <2>8
<1>5. CASE SettleLostJob(k)
  <2> USE <1>5 DEF SettleLostJob, UpdateJob, KGoto, LostStatus, Return
  <2>1. TypeOK'
    <3>1. target[k] \in Jobs BY DEF ClientInv
    <3>2. kpc' \in [Clients -> {"idle", "status", "cancel", "look", "settle", "purge",
            "request", "signal", "deleteLock", "list", "cancelAll", "wait", "erase"}]
      BY DEF TypeOK
    <3>3. target' \in [Clients -> Jobs \cup {NoJob}] BY DEF TypeOK
    <3>4. snap' \in [Clients -> Manifest \cup {NoJob}] BY <3>1 DEF TypeOK
    <3>5. ret' \in [Clients -> {"idle", "list", "cancelAll", "wait"}] BY DEF TypeOK
    <3>6. todo' \in [Clients -> SUBSET Jobs] BY <3>1 DEF TypeOK
    <3>7. pending' \in [Clients -> SUBSET Jobs] BY <3>1 DEF TypeOK
    <3>8. job' \in [Jobs -> Manifest \cup {NoJob}] BY <3>1 DEF TypeOK
    <3> QED BY <3>2, <3>3, <3>4, <3>5, <3>6, <3>7, <3>8 DEF TypeOK
  <2>2. CreatorInv' BY DEF TypeOK, CreatorInv
  <2>3. ManifestInv' BY DEF TypeOK, CreatorInv, ManifestInv
  <2>4. WorkerInv' BY DEF TypeOK, CreatorInv, WorkerInv
  <2>5. LoginIsTracked' BY DEF TypeOK, CreatorInv, LoginIsTracked, ClientInv,
      ManifestInv, SnapInv
  <2>6. AuthInv' BY DEF TypeOK, CreatorInv, WorkerInv, LoginIsTracked, AuthInv,
      Succeeded, LoggedInHasAuth, NoOrphanCredentials
  <2>7. ClientInv' BY DEF TypeOK, CreatorInv, ManifestInv, LoginIsTracked, ClientInv,
      SnapInv
  <2>8. DeleteInv' BY DEF TypeOK, CreatorInv, ClientInv, DeleteInv, SnapInv, Phase,
      Deleting
  <2> QED BY <2>1, <2>2, <2>3, <2>4, <2>5, <2>6, <2>7, <2>8
<1>6. CASE ClientPurges(k)
  <2> USE <1>6 DEF ClientPurges, DeleteJobEvents, Return, KGoto
  <2>1. TypeOK' BY DEF TypeOK
  <2>2. CreatorInv' BY DEF TypeOK, CreatorInv
  <2>3. ManifestInv' BY DEF TypeOK, CreatorInv, ManifestInv
  <2>4. WorkerInv' BY DEF TypeOK, CreatorInv, WorkerInv
  <2>5. LoginIsTracked' BY DEF TypeOK, CreatorInv, LoginIsTracked
  <2>6. AuthInv' BY DEF TypeOK, CreatorInv, WorkerInv, LoginIsTracked, AuthInv,
      Succeeded, LoggedInHasAuth, NoOrphanCredentials
  <2>7. ClientInv' BY DEF TypeOK, CreatorInv, ManifestInv, LoginIsTracked, ClientInv,
      SnapInv
  <2>8. DeleteInv' BY DEF TypeOK, CreatorInv, ClientInv, DeleteInv, SnapInv, Phase,
      Deleting
  <2> QED BY <2>1, <2>2, <2>3, <2>4, <2>5, <2>6, <2>7, <2>8
<1>7. CASE RequestCancel(k)
  <2> USE <1>7 DEF RequestCancel, UpdateJob, KGoto, Return
  <2>1. TypeOK'
    <3>1. target[k] \in Jobs BY DEF ClientInv
    <3>2. kpc' \in [Clients -> {"idle", "status", "cancel", "look", "settle", "purge",
            "request", "signal", "deleteLock", "list", "cancelAll", "wait", "erase"}]
      BY DEF TypeOK
    <3>3. target' \in [Clients -> Jobs \cup {NoJob}] BY DEF TypeOK
    <3>4. snap' \in [Clients -> Manifest \cup {NoJob}] BY <3>1 DEF TypeOK
    <3>5. ret' \in [Clients -> {"idle", "list", "cancelAll", "wait"}] BY DEF TypeOK
    <3>6. todo' \in [Clients -> SUBSET Jobs] BY <3>1 DEF TypeOK
    <3>7. pending' \in [Clients -> SUBSET Jobs] BY <3>1 DEF TypeOK
    <3>8. job' \in [Jobs -> Manifest \cup {NoJob}] BY <3>1 DEF TypeOK
    <3> QED BY <3>2, <3>3, <3>4, <3>5, <3>6, <3>7, <3>8 DEF TypeOK
  <2>2. CreatorInv' BY DEF TypeOK, CreatorInv
  <2>3. ManifestInv' BY DEF TypeOK, CreatorInv, ManifestInv
  <2>4. WorkerInv' BY DEF TypeOK, CreatorInv, WorkerInv
  <2>5. LoginIsTracked' BY DEF TypeOK, CreatorInv, LoginIsTracked
  <2>6. AuthInv' BY DEF TypeOK, CreatorInv, WorkerInv, LoginIsTracked, AuthInv,
      Succeeded, LoggedInHasAuth, NoOrphanCredentials
  <2>7. ClientInv' BY DEF TypeOK, CreatorInv, ManifestInv, LoginIsTracked, ClientInv,
      SnapInv
  <2>8. DeleteInv' BY DEF TypeOK, CreatorInv, ClientInv, DeleteInv, SnapInv, Phase,
      Deleting
  <2> QED BY <2>1, <2>2, <2>3, <2>4, <2>5, <2>6, <2>7, <2>8
<1>8. CASE SignalWorker(k)
  <2> USE <1>8 DEF SignalWorker, Sigterm, Return, WorkerEnds, KGoto, Released
  <2>1. TypeOK' BY DEF TypeOK, ClientInv, SnapInv
  <2>2. CreatorInv' BY DEF TypeOK, CreatorInv
  <2>3. ManifestInv' BY DEF TypeOK, CreatorInv, ManifestInv
  <2>4. WorkerInv' BY DEF TypeOK, CreatorInv, WorkerInv
  <2>5. LoginIsTracked' BY DEF TypeOK, CreatorInv, LoginIsTracked
  <2>6. AuthInv' BY DEF TypeOK, CreatorInv, WorkerInv, LoginIsTracked, AuthInv,
      Succeeded, LoggedInHasAuth, NoOrphanCredentials
  <2>7. ClientInv' BY DEF TypeOK, CreatorInv, ManifestInv, LoginIsTracked, ClientInv,
      SnapInv
  <2>8. DeleteInv' BY DEF TypeOK, CreatorInv, ClientInv, DeleteInv, SnapInv, Phase,
      Deleting
  <2> QED BY <2>1, <2>2, <2>3, <2>4, <2>5, <2>6, <2>7, <2>8
<1>9. CASE ClientLost(k)
  <2> USE <1>9 DEF ClientLost, CommandEnds, Released, KGoto
  <2>1. TypeOK' BY DEF TypeOK
  <2>2. CreatorInv' BY DEF TypeOK, CreatorInv
  <2>3. ManifestInv' BY DEF TypeOK, CreatorInv, ManifestInv
  <2>4. WorkerInv' BY DEF TypeOK, CreatorInv, WorkerInv
  <2>5. LoginIsTracked' BY DEF TypeOK, CreatorInv, LoginIsTracked
  <2>6. AuthInv' BY DEF TypeOK, CreatorInv, WorkerInv, LoginIsTracked, AuthInv,
      Succeeded, LoggedInHasAuth, NoOrphanCredentials
  <2>7. ClientInv' BY DEF TypeOK, CreatorInv, ManifestInv, LoginIsTracked, ClientInv,
      SnapInv
  <2>8. DeleteInv' BY DEF TypeOK, CreatorInv, ClientInv, DeleteInv, SnapInv, Phase,
      Deleting
  <2> QED BY <2>1, <2>2, <2>3, <2>4, <2>5, <2>6, <2>7, <2>8
<1>10. CASE DeleteAccount(k)
  <2> USE <1>10 DEF DeleteAccount, KGoto
  <2>1. TypeOK' BY DEF TypeOK
  <2>2. CreatorInv' BY DEF TypeOK, CreatorInv
  <2>3. ManifestInv' BY DEF TypeOK, CreatorInv, ManifestInv
  <2>4. WorkerInv' BY DEF TypeOK, CreatorInv, WorkerInv
  <2>5. LoginIsTracked' BY DEF TypeOK, CreatorInv, LoginIsTracked
  <2>6. AuthInv' BY DEF TypeOK, CreatorInv, WorkerInv, LoginIsTracked, AuthInv,
      Succeeded, LoggedInHasAuth, NoOrphanCredentials
  <2>7. ClientInv' BY DEF TypeOK, CreatorInv, ManifestInv, LoginIsTracked, ClientInv,
      SnapInv
  <2>8. DeleteInv' BY DEF TypeOK, CreatorInv, ClientInv, DeleteInv, SnapInv, Phase,
      Deleting
  <2> QED BY <2>1, <2>2, <2>3, <2>4, <2>5, <2>6, <2>7, <2>8
<1>11. CASE DeleteLock(k)
  <2> USE <1>11 DEF DeleteLock, Take, KGoto
  <2>1. TypeOK' BY DEF TypeOK
  <2>2. CreatorInv' BY DEF TypeOK, CreatorInv
  <2>3. ManifestInv' BY DEF TypeOK, CreatorInv, ManifestInv
  <2>4. WorkerInv' BY DEF TypeOK, CreatorInv, WorkerInv
  <2>5. LoginIsTracked' BY DEF TypeOK, CreatorInv, LoginIsTracked
  <2>6. AuthInv' BY DEF TypeOK, CreatorInv, WorkerInv, LoginIsTracked, AuthInv,
      Succeeded, LoggedInHasAuth, NoOrphanCredentials
  <2>7. ClientInv' BY DEF TypeOK, CreatorInv, ManifestInv, LoginIsTracked, ClientInv,
      SnapInv
  <2>8. DeleteInv' BY DEF TypeOK, CreatorInv, ClientInv, DeleteInv, SnapInv, Phase,
      Deleting
  <2> QED BY <2>1, <2>2, <2>3, <2>4, <2>5, <2>6, <2>7, <2>8
<1>12. CASE DeleteLockTimesOut(k)
  <2> USE <1>12 DEF DeleteLockTimesOut, TimesOut, CommandEnds, Released, KGoto
  <2>1. TypeOK' BY DEF TypeOK
  <2>2. CreatorInv' BY DEF TypeOK, CreatorInv
  <2>3. ManifestInv' BY DEF TypeOK, CreatorInv, ManifestInv
  <2>4. WorkerInv' BY DEF TypeOK, CreatorInv, WorkerInv
  <2>5. LoginIsTracked' BY DEF TypeOK, CreatorInv, LoginIsTracked
  <2>6. AuthInv' BY DEF TypeOK, CreatorInv, WorkerInv, LoginIsTracked, AuthInv,
      Succeeded, LoggedInHasAuth, NoOrphanCredentials
  <2>7. ClientInv' BY DEF TypeOK, CreatorInv, ManifestInv, LoginIsTracked, ClientInv,
      SnapInv
  <2>8. DeleteInv' BY DEF TypeOK, CreatorInv, ClientInv, DeleteInv, SnapInv, Phase,
      Deleting
  <2> QED BY <2>1, <2>2, <2>3, <2>4, <2>5, <2>6, <2>7, <2>8
<1>13. CASE ListJob(k)
  <2> USE <1>13 DEF ListJob, KGoto, Call
  <2>1. TypeOK' BY DEF TypeOK
  <2>2. CreatorInv' BY DEF TypeOK, CreatorInv
  <2>3. ManifestInv' BY DEF TypeOK, CreatorInv, ManifestInv
  <2>4. WorkerInv' BY DEF TypeOK, CreatorInv, WorkerInv
  <2>5. LoginIsTracked' BY DEF TypeOK, CreatorInv, LoginIsTracked
  <2>6. AuthInv' BY DEF TypeOK, CreatorInv, WorkerInv, LoginIsTracked, AuthInv,
      Succeeded, LoggedInHasAuth, NoOrphanCredentials
  <2>7. ClientInv' BY DEF TypeOK, CreatorInv, ManifestInv, LoginIsTracked, ClientInv,
      SnapInv
  <2>8. DeleteInv' BY DEF TypeOK, CreatorInv, ClientInv, DeleteInv, SnapInv, Phase,
      Deleting
  <2> QED BY <2>1, <2>2, <2>3, <2>4, <2>5, <2>6, <2>7, <2>8
<1>14. CASE CancelListed(k)
  <2> USE <1>14 DEF CancelListed, KGoto, Call
  <2>1. TypeOK' BY DEF TypeOK
  <2>2. CreatorInv' BY DEF TypeOK, CreatorInv
  <2>3. ManifestInv' BY DEF TypeOK, CreatorInv, ManifestInv
  <2>4. WorkerInv' BY DEF TypeOK, CreatorInv, WorkerInv
  <2>5. LoginIsTracked' BY DEF TypeOK, CreatorInv, LoginIsTracked
  <2>6. AuthInv' BY DEF TypeOK, CreatorInv, WorkerInv, LoginIsTracked, AuthInv,
      Succeeded, LoggedInHasAuth, NoOrphanCredentials
  <2>7. ClientInv' BY DEF TypeOK, CreatorInv, ManifestInv, LoginIsTracked, ClientInv,
      SnapInv
  <2>8. DeleteInv' BY DEF TypeOK, CreatorInv, ClientInv, DeleteInv, SnapInv, Phase,
      Deleting
  <2> QED BY <2>1, <2>2, <2>3, <2>4, <2>5, <2>6, <2>7, <2>8
<1>15. CASE WaitForJobs(k)
  <2> USE <1>15 DEF WaitForJobs, KGoto, Call
  <2>1. TypeOK'
    <3>1. pending[k] \subseteq Jobs BY DEF TypeOK
    <3>2. target' \in [Clients -> Jobs \cup {NoJob}] BY <3>1 DEF TypeOK
    <3>3. ret' \in [Clients -> {"idle", "list", "cancelAll", "wait"}] BY DEF TypeOK
    <3> QED BY <3>2, <3>3 DEF TypeOK
  <2>2. CreatorInv' BY DEF TypeOK, CreatorInv
  <2>3. ManifestInv' BY DEF TypeOK, CreatorInv, ManifestInv
  <2>4. WorkerInv' BY DEF TypeOK, CreatorInv, WorkerInv
  <2>5. LoginIsTracked' BY DEF TypeOK, CreatorInv, LoginIsTracked
  <2>6. AuthInv' BY DEF TypeOK, CreatorInv, WorkerInv, LoginIsTracked, AuthInv,
      Succeeded, LoggedInHasAuth, NoOrphanCredentials
  <2>7. ClientInv' BY DEF TypeOK, CreatorInv, ManifestInv, LoginIsTracked, ClientInv,
      SnapInv
  <2>8. DeleteInv' BY DEF TypeOK, CreatorInv, ClientInv, DeleteInv, SnapInv, Phase,
      Deleting
  <2> QED BY <2>1, <2>2, <2>3, <2>4, <2>5, <2>6, <2>7, <2>8
<1>16. CASE WaitTimesOut(k)
  <2> USE <1>16 DEF WaitTimesOut, CommandEnds, Released, KGoto
  <2>1. TypeOK' BY DEF TypeOK
  <2>2. CreatorInv' BY DEF TypeOK, CreatorInv
  <2>3. ManifestInv' BY DEF TypeOK, CreatorInv, ManifestInv
  <2>4. WorkerInv' BY DEF TypeOK, CreatorInv, WorkerInv
  <2>5. LoginIsTracked' BY DEF TypeOK, CreatorInv, LoginIsTracked
  <2>6. AuthInv' BY DEF TypeOK, CreatorInv, WorkerInv, LoginIsTracked, AuthInv,
      Succeeded, LoggedInHasAuth, NoOrphanCredentials
  <2>7. ClientInv' BY DEF TypeOK, CreatorInv, ManifestInv, LoginIsTracked, ClientInv,
      SnapInv
  <2>8. DeleteInv' BY DEF TypeOK, CreatorInv, ClientInv, DeleteInv, SnapInv, Phase,
      Deleting
  <2> QED BY <2>1, <2>2, <2>3, <2>4, <2>5, <2>6, <2>7, <2>8
<1>17. CASE EraseAccount(k)
  <2> USE <1>17 DEF EraseAccount, CommandEnds, Released, KGoto
  <2>1. TypeOK' BY DEF TypeOK
  <2>2. CreatorInv' BY DEF TypeOK, CreatorInv
  <2>3. ManifestInv' BY DEF TypeOK, CreatorInv, ManifestInv
  <2>4. WorkerInv' BY DEF TypeOK, CreatorInv, WorkerInv
  <2>5. LoginIsTracked' BY DEF TypeOK, CreatorInv, LoginIsTracked
  <2>6. AuthInv'
    <3>1. \A i \in Jobs : ~IsLive(i) BY DEF DeleteInv, Phase, Deleting, ClientInv
    <3>2. \A i \in Jobs : wpc[i] \notin InJob BY <3>1 DEF LoginIsTracked
    <3> QED BY <3>2 DEF TypeOK, AuthInv, Succeeded, LoggedInHasAuth, NoOrphanCredentials
  <2>7. ClientInv' BY DEF TypeOK, CreatorInv, ManifestInv, LoginIsTracked, ClientInv,
      SnapInv
  <2>8. DeleteInv' BY DEF TypeOK, CreatorInv, ClientInv, DeleteInv, SnapInv, Phase,
      Deleting
  <2> QED BY <2>1, <2>2, <2>3, <2>4, <2>5, <2>6, <2>7, <2>8
<1> QED BY <1>1, <1>2, <1>3, <1>4, <1>5, <1>6, <1>7, <1>8, <1>9, <1>10, <1>11, <1>12,
      <1>13, <1>14, <1>15, <1>16, <1>17 DEF ClientStep

-----------------------------------------------------------------------------
(* Theorems *)

\* The invariant holds initially.
LEMMA InitInductive == Init => Inductive
<1> SUFFICES ASSUME Init PROVE Inductive OBVIOUS
<1> USE RecordsAssumption, LockAssumption, BoundsAssumption
    DEF Init, Exists, IsLive, Live, Terminal, Manifest, InJob, Early, InCall, Procs
<1>1. TypeOK BY DEF TypeOK
<1>2. CreatorInv /\ ManifestInv BY DEF CreatorInv, ManifestInv
<1>3. WorkerInv /\ LoginIsTracked BY DEF WorkerInv, LoginIsTracked
<1>4. AuthInv BY DEF AuthInv, Succeeded, LoggedInHasAuth, NoOrphanCredentials
<1>5. ClientInv /\ DeleteInv BY DEF ClientInv, DeleteInv, Phase, Deleting
<1> QED BY <1>1, <1>2, <1>3, <1>4, <1>5 DEF Inductive

\* So does every step, of any process or of none.
LEMMA NextInductive == Inductive /\ [Next]_vars => Inductive'
<1> SUFFICES ASSUME Inductive, [Next]_vars PROVE Inductive' OBVIOUS
<1>1. ASSUME NEW j \in Jobs, CreatorStep(j) \/ CreatorCrash(j) PROVE Inductive'
  BY <1>1, CreatorPreserves
<1>2. ASSUME NEW j \in Jobs, WorkerStep(j) \/ WorkerCrash(j) PROVE Inductive'
  BY <1>2, WorkerPreserves
<1>3. ASSUME NEW k \in Clients, ClientStep(k) PROVE Inductive'
  BY <1>3, ClientPreserves
<1>4. CASE UNCHANGED vars
  BY <1>4 DEF vars, Inductive, TypeOK, CreatorInv, ManifestInv, WorkerInv, LoginIsTracked,
     AuthInv, Succeeded, LoggedInHasAuth, NoOrphanCredentials, ClientInv, SnapInv,
     DeleteInv, Phase, Deleting, Exists, IsLive
<1> QED BY <1>1, <1>2, <1>3, <1>4 DEF Next

\* The invariant holds in every reachable state, for any number of jobs, clients,
\* faults and crashes.
THEOREM InductiveCorrect == Spec => []Inductive
BY InitInductive, NextInductive, PTL DEF Spec

\* Every variable keeps its type.
THEOREM TypeCorrect == Spec => []TypeOK
<1>1. Inductive => TypeOK BY DEF Inductive
<1> QED BY <1>1, InductiveCorrect, PTL

\* A job whose worker is at work has a manifest that names it and is not terminal.
THEOREM TrackedCorrect == Spec => []LoginIsTracked
<1>1. Inductive => LoginIsTracked BY DEF Inductive
<1> QED BY <1>1, InductiveCorrect, PTL

\* A configured login has its credentials.
THEOREM LoggedInCorrect == Spec => []LoggedInHasAuth
<1>1. Inductive => LoggedInHasAuth BY DEF Inductive, AuthInv
<1> QED BY <1>1, InductiveCorrect, PTL

\* Without a crash no credentials are left behind by a login that failed.
THEOREM NoOrphanCorrect == Spec => []NoOrphanCredentials
<1>1. Inductive => NoOrphanCredentials BY DEF Inductive, AuthInv
<1> QED BY <1>1, InductiveCorrect, PTL

-----------------------------------------------------------------------------
(* What a step never does *)

\* The three action properties, as one formula about one step.
Lawful ==
  /\ \A i \in Jobs : job'[i] # NoJob =>
       /\ Exists(i) /\ job[i].st \in Terminal
            => /\ job'[i].st \in Terminal
               /\ job[i].st = "completed" => job'[i].st = "completed"
       /\ job'[i].st = "completed" /\ job[i].st # "completed"
            => account = "logged_in" /\ auth = i
  /\ account' = "absent" /\ account # "absent"
       => \A i \in Jobs : ~IsLive(i) /\ wpc[i] \notin InJob

\* A step that leaves manifests and account alone is lawful.
LEMMA IdleLawful ==
  ASSUME Inductive, job' = job, account' = account
  PROVE  Lawful
BY DEF Lawful

\* The creator marks only jobs of its own, which never ran.
LEMMA CreatorLawful ==
  ASSUME Inductive, NEW j \in Jobs, CreatorStep(j) \/ CreatorCrash(j)
  PROVE  Lawful
<1> USE RecordsAssumption DEF Inductive, Exists, Live, Terminal, Manifest
<1>1. CASE PruneTerminalJobs(j) BY <1>1 DEF PruneTerminalJobs, Lawful, TypeOK
<1>2. CASE WriteNewJob(j)
  BY <1>2 DEF WriteNewJob, CGoto, CEnds, Lawful, TypeOK, CreatorInv, Early
<1>3. CASE StartFailed(j)
  BY <1>3 DEF StartFailed, UpdateJob, CGoto, Lawful, TypeOK, CreatorInv, ManifestInv
<1>4. CASE TrackWorker(j)
  <2>1. job[j] \in Manifest BY <1>4 DEF TrackWorker, TypeOK
  <2>2. job'[j].st = job[j].st BY <1>4, <2>1 DEF TrackWorker, TypeOK
  <2>3. \A i \in Jobs \ {j} : job'[i] = job[i] BY <1>4 DEF TrackWorker, TypeOK
  <2>4. account' = account BY <1>4 DEF TrackWorker
  <2> QED BY <2>2, <2>3, <2>4, <1>4 DEF Lawful, TrackWorker
<1>5. CASE TrackingFailed(j)
  BY <1>5 DEF TrackingFailed, UpdateJob, CGoto, CEnds, Lawful, TypeOK
<1>6. CASE RemoveUntrackedJob(j)
  BY <1>6 DEF RemoveUntrackedJob, CEnds, Lawful, TypeOK
<1>7. CASE \/ CreateLock(j) \/ Spawn(j) \/ SpawnFails(j) \/ TrackingFails(j)
           \/ KillUntracked(j) \/ ReapUntrackedWorker(j) \/ UpdateFails(j)
           \/ CreatorPurges(j) \/ CreatorCrash(j)
  BY <1>7, IdleLawful DEF CreateLock, Spawn, SpawnFails, TrackingFails, KillUntracked,
     ReapUntrackedWorker, UpdateFails, CreatorPurges, CreatorCrash, files
<1> QED BY <1>1, <1>2, <1>3, <1>4, <1>5, <1>6, <1>7 DEF CreatorStep

\* The worker completes its job only with its own credentials in place.
LEMMA WorkerLawful ==
  ASSUME Inductive, NEW j \in Jobs, WorkerStep(j) \/ WorkerCrash(j)
  PROVE  Lawful
<1> USE RecordsAssumption DEF Inductive, Exists, Live, Terminal, Manifest
<1>1. CASE Start(j) BY <1>1 DEF Start, ManifestOnly, Lawful, TypeOK
<1>2. CASE MarkJobTerminal(j)
  <2>1. want[j] = "completed" => account = "logged_in" /\ auth = j
    BY <1>2 DEF MarkJobTerminal, AuthInv, Succeeded
  <2> QED BY <1>2, <2>1 DEF MarkJobTerminal, UpdateJob, ManifestOnly, Lawful, TypeOK
<1>3. CASE MarkCancelled(j)
  BY <1>3 DEF MarkCancelled, UpdateJob, ManifestOnly, Lawful, TypeOK
<1>4. CASE Finalize(j) BY <1>4 DEF Finalize, Lawful
<1>5. CASE \/ Boot(j) \/ InstallHandler(j) \/ CancelBeforeLogin(j) \/ Raised(j)
           \/ RestoreHandler(j) \/ CheckResult(j) \/ VerifyCompletion(j)
  BY <1>5, IdleLawful DEF Boot, InstallHandler, CancelBeforeLogin, Raised, RestoreHandler,
     CheckResult, VerifyCompletion, LocalsOnly, files
<1>6. CASE \/ LoginLock(j) \/ LoginEvent(j) \/ LoginFails(j) \/ LoginPublishes(j)
           \/ FinalizeFails(j) \/ UndoPublish(j) \/ WorkerPurges(j) \/ WorkerLost(j)
           \/ WorkerCrash(j)
  BY <1>6, IdleLawful DEF LoginLock, LoginEvent, LoginFails, LoginPublishes, FinalizeFails,
     UndoPublish, WorkerPurges, WorkerLost, WorkerCrash, files
<1> QED BY <1>1, <1>2, <1>3, <1>4, <1>5, <1>6 DEF WorkerStep

\* Clients change only live jobs, and erase an account without any.
LEMMA ClientLawful ==
  ASSUME Inductive, NEW k \in Clients, ClientStep(k)
  PROVE  Lawful
<1> USE RecordsAssumption DEF Inductive, Exists, Live, Terminal, Manifest
<1>1. CASE SettleLostJob(k)
  BY <1>1 DEF SettleLostJob, UpdateJob, LostStatus, Lawful, TypeOK, ClientInv, SnapInv, InCall
<1>2. CASE RequestCancel(k)
  BY <1>2 DEF RequestCancel, UpdateJob, Lawful, TypeOK, ClientInv, SnapInv, InCall
<1>3. CASE EraseAccount(k)
  <2>1. \A i \in Jobs : ~IsLive(i)
    BY <1>3 DEF EraseAccount, DeleteInv, Phase, Deleting, ClientInv, InCall
  <2>2. \A i \in Jobs : wpc[i] \notin InJob BY <2>1 DEF LoginIsTracked, IsLive
  <2> QED BY <1>3, <2>1, <2>2 DEF EraseAccount, Lawful
<1>4. ASSUME NEW i \in Jobs, ProfileJobStatus(k, i) \/ CancelProfileJob(k, i) PROVE Lawful
  BY <1>4, IdleLawful DEF ProfileJobStatus, CancelProfileJob, files
<1>5. CASE \/ ReadJob(k) \/ LookForWorker(k) \/ ClientPurges(k) \/ SignalWorker(k)
           \/ ClientLost(k)
  BY <1>5, IdleLawful DEF ReadJob, LookForWorker, ClientPurges, SignalWorker, ClientLost, files
<1>6. CASE \/ DeleteAccount(k) \/ DeleteLock(k) \/ DeleteLockTimesOut(k) \/ ListJob(k)
           \/ CancelListed(k) \/ WaitForJobs(k) \/ WaitTimesOut(k)
  BY <1>6, IdleLawful DEF DeleteAccount, DeleteLock, DeleteLockTimesOut, ListJob,
     CancelListed, WaitForJobs, WaitTimesOut, files
<1> QED BY <1>1, <1>2, <1>3, <1>4, <1>5, <1>6 DEF ClientStep

\* Every step of the system is lawful.
LEMMA NextLawful == Inductive /\ Next => Lawful
BY CreatorLawful, WorkerLawful, ClientLawful DEF Next

\* A job is completed only with the credentials of its own login in place.
THEOREM CompletedCorrect == Spec => CompletedIsLoggedIn
<1>1. Inductive /\ [Next]_vars =>
        [\A j \in Jobs :
          job'[j] # NoJob /\ job'[j].st = "completed" /\ job[j].st # "completed"
            => account = "logged_in" /\ auth = j]_vars
  BY NextLawful DEF Lawful
<1> QED BY <1>1, InductiveCorrect, PTL DEF Spec, CompletedIsLoggedIn

\* A job that has ended stays so.
THEOREM TerminalCorrect == Spec => TerminalIsFinal
<1>1. Inductive /\ [Next]_vars =>
        [\A j \in Jobs :
          Exists(j) /\ job[j].st \in Terminal /\ job'[j] # NoJob
            => /\ job'[j].st \in Terminal
               /\ job[j].st = "completed" => job'[j].st = "completed"]_vars
  BY NextLawful DEF Lawful
<1> QED BY <1>1, InductiveCorrect, PTL DEF Spec, TerminalIsFinal

\* An account is erased only when no job is live and no login is under way.
THEOREM EraseCorrect == Spec => EraseAfterJobs
<1>1. Inductive /\ [Next]_vars =>
        [account' = "absent" /\ account # "absent"
          => \A j \in Jobs : ~IsLive(j) /\ wpc[j] \notin InJob]_vars
  BY NextLawful DEF Lawful
<1> QED BY <1>1, InductiveCorrect, PTL DEF Spec, EraseAfterJobs
=============================================================================
