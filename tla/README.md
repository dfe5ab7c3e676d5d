# codex-usage: a verification project

codex-usage watches the usage limits of several Codex/ChatGPT accounts. Commands,
systemd timers, a browser bridge and a desktop applet fetch or receive usage
records, keep them in private files under one state directory, and show them.
There is no daemon that owns the state: every actor is a short process or a
thread, and everything they agree on is a file, a lock or a rename.

This directory models that agreement. Paths in this file are relative to
`src/codex_usage/` unless they say otherwise.

## 1. The system: components, state, interaction

| Component | Files | State it keeps | Operations | What makes it correct |
|---|---|---|---|---|
| Usage state | `state.py`, `models.py` | per account `snapshots/<id>.json`, `current/<id>.json`, `debug/<id>-last-ingest.json`, `generations/<id>.json` | load, save (ordered, merged with the last success), reset (rename transaction, deferred commit, rollback) | no value survives a reset; captures never go back; a reset happens at once or not at all |
| Scheduler | `scheduler.py` | none between runs but the above | `fetch_all`, `watch` (loop with backoff), `watchdog` (reuses blocked snapshots) | a late result of an old generation is discarded; the loop retries and stops, unless its output is gone; a reused block is current |
| Browser bridge | `bridge.py` | token files, connection slots | authorize, `ingest_and_save`, invalidate, debug dump, `load_latest_usages` | a payload is saved for the account, generation and identity it was authorized for, and not over newer or better state |
| Configuration | `config.py` | `config.toml` | add/update, remove, restore, auth-sync marks | state never outlives the configuration it was fetched with; failed edits are undone |
| CLI | `cli.py` | none | `account delete` is a transaction over configuration, service units, profile, state and token | all or nothing |
| Locks | `account_lock.py`, `source_lock.py` | `flock` files, thread-local depth | source lock (reentrant), maintenance (shared/exclusive), per-account lock, all with deadlines | mutual exclusion, no deadlock, release on every path |
| Private files | `private_io.py` | the files of all others, `.tmp-*`, `.rollback-*`, path locks | atomic replace with rollback copy, recovery, read; quarantine of residues in the lock directory | a reader sees the old or the new text; a crash loses neither |
| State maintenance | `state_maintenance.py` | pending record, quarantine directory | quarantine state of unconfigured accounts, recover | each file exactly once, in place or in quarantine |
| Evidence | `integration_evidence.py`, `_snapshot`, `_entrypoint` | generation directories, `current` pointer, stash, lock inodes | publish, read, roll back, collect | a reader always finds one complete generation |
| Integration watchdog | `integration_watchdog.py` | process groups | staged run under a global deadline | every child is reaped; the deadline holds |
| Installer, attestation | `integration_installer.py`, `integration_attestation.py`, `scripts/` | release directories, active link, provenance | install, publish, roll back, attest | the active release is complete |
| Pool authority | `pool_authority_owner.py`, `integration_pool_authority.py` | pending file, owner file | save, invalidate on account-set change, recover | config and owner agree after recovery |
| Control service | `masterjet_*.py` | snapshot cache, credentials, marks in `config.toml` | requests with resolver processes, cache save and load, auth sync | a load finds the last snapshot saved; no process is lost; a newer auth change is not lost |
| Google accounts | `google_accounts.py`, `google_oauth_loopback.py` | callback listener, timers | login with a callback, single operations | every listener is closed, or everything is refused |
| Ollama fleet | `ollama_fleet.py` | none | single calls of a remote service | the answer is checked field by field |
| Profile jobs, login | `profile_jobs.py`, `profile_login.py`, `profile_layout.py`, `profile_migration.py` | job manifests, worker pids, `auth.json` | create, run, cancel, verify; device login; migration | one worker per job; a failed login leaves no credentials |
| Services | `service.py`, `systemd/` | unit files, pending record | install, update, remove | units match the configuration |
| History, consumption | `history.py`, `consumption.py` | SQLite file | record, prune, estimate | consumption is that of the present cycle |
| Fetch backends | `direct.py`, `app_server.py`, `browser.py`, `extractor.py`, `reactivate.py` | none | one fetch | a response is matched to its request and account |
| Desktop applet | `files/codex-usage@H234598/applet.js` (repository root) | refresh timers, last output | refresh, render | no overlapping refreshes |

How they interact: fetchers, bridge requests, watchdogs and editors share the
account's files. They call `account_lock(...)`, which takes the exclusive source
lock first and keeps it for the body, so two locked sections never overlap in
time; *between* locked sections everything interleaves, and loads
(`load_usage_snapshot`, `load_current_usage`) take no lock at all. That is where
the hard behaviour is:

* a result in flight across a reset, checked with generation numbers read before
  and after the fetch, and again at the save;
* decisions on records read without a lock (bridge, watchdog) used under a later
  lock;
* a reset of three files and a counter by renames, with readers looking in
  between, errors at every step, a rollback that may itself fail, and crashes;
* captures and payloads that land in another order than they were taken.

Around that, every component that keeps more than one file keeps it by a protocol
of its own: a marker, a journal, a stash, a rollback copy, a pending directory.
Each may fail or die between any two steps, and the next command has to tell from
what it finds which side to complete. The browser side and the applet have no
files but callbacks: a page, a content script and a server, or one auxiliary
process with many who want it, where answers come late or never.

`PROJECT.json` lists the hazards at their lines, with the properties that watch
each.

## 2. Modules

| Module | Models | State and actions |
|---|---|---|
| `UsageStore` | the record and the pure decisions about it (`state.py`, `scheduler.py`, `bridge.py`) | no variables; `LoadUsage`, `SaveUsage`, `NewestKnownUsage`, `CoveredBy`, ... |
| `UsageCache` | the abstract specification: two cached records and the reset they live after | `Save`, `Reset`, `Lose` |
| `AccountState` | one account: its files, configuration version, generation, and everybody who touches them | one action per locked section or lock-free read of `fetch_all`, `ingest_and_save`, `watchdog`, and one per file operation of the reset transaction |
| `AccountState_proofs` | type correctness, the inductive invariant, the generation fence and the refinement, for every value of the constants | |
| `ProfileJobs` | the device-login jobs of one account: creators, workers, polls, cancels and `account delete` up to the removal | one action per locked manifest update, lock, signal, publication or removal |
| `ProfileJobs_proofs` | the inductive invariant of the jobs and seven theorems from it | |


The other components are one module each, without a lock or a file in common
with `AccountState` or with each other:

| Module | Models | State and actions |
|---|---|---|
| `UsageValues` | which windows of which age a fetch stores and a reader shows (`scheduler.py` guard against sudden resets, `state.py` merge and expiry, `bridge.py` `load_latest_usages`) | the clock, two overlapping fetches, current and snapshot; fetch, save, switch of the login, ticks |
| `UsageFetch` | one authenticated fetch by app-server, then by the direct route | `auth.json` as read before and after, the server process, the neighbour account; answers, renewals, switches of the login |
| `UsageSamples` | the choice among the samples of a direct answer | samples, windows that move on, an old copy; `Select` with its comparisons |
| `UsageHistory` | samples of a window in SQLite, consumption, coverage, evidence for the projection | database, rows; record, prune, crash while the schema is created |
| `Watching` | the blocks of `watchdog`, while the loop of `watch` and the bridge save too | window times left, stored records; one action per look, fetch, judgement and reuse of a run of the timer |
| `WatchLoop` | the loop of `watch` with its backoff, its stop signal and the handler of its failures | the place in the loop, failures in a row, ticks of the cycle and of the wait; one action per fetch, print, report and wait |
| `PageCapture` | the page hook and the content script of the extension | requests, messages in flight, the send in progress |
| `BridgeServer` | connection slots, tokens, and the exchange of the extension's files | one action per step of a connection, of a token and of the exchange with its undo |
| `Locks` | in which order every command takes source, maintenance, account, configuration, path and evidence locks | a thread's held and wanted locks; enter, re-enter, time out, die |
| `LockQuarantine` | the quarantine of residues in the lock directory | two runs with the same approval, residues that come and go |
| `PrivateWrite` | replacing and create-only writes of a private file | the directory as processes see it and as a power loss may leave it; one action per system call |
| `EvidencePublish` | generations, pointer, commit mark, stash, pruning, collection | one action per rename, removal or recovery step; a reader |
| `StateMaintenance` | the quarantine of unconfigured state | live, held and quarantined artifacts, journal; moves, undo, recovery |
| `PoolAuthority` | marker, source file and configuration | save, account changes, finish, recovery, a reader that publishes |
| `ReleaseInstall` | an installation from the source tree to the active manifest | source, release directories, manifest, transaction file |
| `ServiceInstall` | runtime, two units and timer, with a journal | install, enable, disable, uninstall, status, recovery, death, restart |
| `AccountDelete` | `account delete` and the addition of an account as whole transactions | configuration, profile, state bundle, token |
| `AuthMigration` | the move of credentials into the profile layout and its rollback | targets, manifest, a login meanwhile |
| `AuthSync` | credentials, the service's copy and the `sync_required` mark | logins and their undo, the upload with its expected generation, lost answers |
| `ControlCache` | the snapshot cache | as `PrivateWrite`, with the cache's own protocol |
| `ControlCall` | calls with deadlines and their resolver processes | slots, processes, the reaper thread |
| `GoogleLogin` | a login with its callback listener | lease, transaction, timers, attempts to close |
| `WatchdogStages` | a run of the integration watchdog | deadline, alarm, process groups, installation meanwhile |
| `AppletRefresh` | the applet's primary fetches | requests, retries, circuit breaker, safe mode, the agenda of a callback |
| `AppletAux` | the applet's single auxiliary process | deferred requests, edits, jobs, polls, consumption queries, marks of logins |
| `AuthSync_proofs`, `Locks_proofs` | the inductive invariants of those two modules, and their theorems | |
| `MCStores_proofs`, `MCClients_proofs` | the inductive invariants of the parts that `MCStores` and `MCClients` put side by side, as lemmas | |
| `MCSystem_proofs` | that of `AppletRefresh`, and the properties of the run `system` as theorems about `MCSystem` | |
| `MCUsage_proofs` | the inductive invariants of `UsageValues` and `UsageHistory`, and their properties as theorems about `MCUsage` | |

Four of the five MC modules put parts side by side for TLC. `MCSystem` has 21 of these
modules, `MCUsage` has `UsageValues` and `UsageHistory` beside `AccountState`
itself, `MCAccount` has `AccountState` twice with different actors, and `MCLive`
has `Watching` and `WatchLoop` beside `ProfileJobs`, for liveness; the fifth,
`MCJobs`, bounds `ProfileJobs` and lets TLC take its two jobs as interchangeable,
which is sound there: they differ in nothing but their names, and none of the
properties of that run is a liveness property. A behaviour
belongs to one part, named by the variable `part` that the initial state chooses
and no step changes. The parts share no state, so their variables can share the
*places* `v1`, `v2`, ... of `MCPlaces`: each part is an `INSTANCE` with its
variables substituted in the order of their declaration. `MCSystem` extends
`MCStores` (what is kept in files: private files, evidence, pool, maintenance,
releases, services, deletion, migration, quarantine) and `MCClients` (what runs:
page, bridge, applet, control calls and cache, watchdog, fetch, samples, Google
logins), and has locks and synchronisation itself; it is one run and one module
to the reader, and split so that the proofs about the parts can be checked
apart. A property of such a run is that of its part, guarded by `part`,
and the conjunction of two or three where a component promises several things
(`WriteIsAtomic` is `OldOrNew` and `ReportIsTrue` of `PrivateWrite`, and so on:
the definitions are in `MCSystem` after `TypeOK`). The `ASSUME`s of these modules
say of the constants what the proofs need of them, and TLC evaluates them on the
run.

**What a record is.** A decision looks at its capture time (`cap`), its
generation (`tag`, or none), its backend (`be`), whether it is an error (`ok`)
and whether it was invalidated (`inv`). Values are represented by their
*origins*: the reset epoch they were fetched in (`ep`) and the version of the
account configuration used to fetch them (`cv`); `limits` stands for windows and
pools, `aux` for reset counters, backend identity and auth timestamps. Window
arithmetic (which windows are restored from the last success, which are retained
by the stabilisation) is a choice between keeping and adding the old origins,
which is all the properties of `AccountState` tell apart; `UsageValues` has the
windows, `values_captured_at` and expiry.

**What a payload is.** `BridgeAuthorize`, `BridgeReceive` and the steps after them
are the moments of one request: its token is compared with the account of the
configuration read for it, then the body is read, and only then the generation
(`bridge.py` 1662). A reset, a change or a deletion may come between any two, and
the page captured the payload before all of them. A payload therefore has the
epoch in which its generation was read, because the code compares nothing
earlier, and the version of the configuration that authorized it.

**What an actor is.** A fetcher, bridge request, watchdog or editor is a process
with a program counter. `pc` labels are the points between the file operations
of the code. One locked section that touches one file is one action; the save
phase holds the lock over two saves, the reset over its whole transaction, and
there each file operation is an action of its own because readers do not lock
and a crash may fall between. `holder` is the source lock. A lock attempt on a
held lock may end in a timeout (`TimesOut`); whether it does is a choice.

**What an edit is.** `EditBegin` .. `EditEnd` is `account delete` (target 0) or
`add_or_update_account` of a changed account (target is the next version): save
the configuration, stage the three files into `.<id>.state-delete-*`, bump the
generation, unlink the backups, and on any error undo the generation, the files
in reverse order, then the configuration. Deferred commit and immediate commit
are the same sequence here, because nothing of the account is touched between.

**History variables.** `epoch`/`epochs` count resets, `epochBefore` and
`filesBefore` remember what a transaction began with, `rollbackFailed` that one
reported failure. No guard of a code action reads them except the bound
`epochs < MaxEpoch`.

**What a job is.** A manifest with a status and the mark that a worker's pid is
recorded; the rest of the manifest never changes. Each job has a creator
(`cpc`: `profile create`), at most one worker (`wpc`: `run_profile_job` and in it
`run_device_login`) and any number of clients (`kpc`: the applet's
`profile job-status`, `profile cancel`, `account delete`). `_update_job` is
one action, because it holds the manifest's path lock, with its list of expected
statuses as in the code; the event file goes in a later action, because
`_delete_job_events` runs after that lock. A client's `snap` is the manifest it
read before it looked for the worker; a worker's `handler` and `flag` are its
SIGTERM handler and the variable it sets, so a signal kills a worker before the
handler is installed and after it is restored. `todo`, `pending` and `loaded`
are the local variables of `account delete`. `holder` is the source lock, which
`account_lock` takes first. One failed system call or manifest write that the
code catches is a `fault`; an I/O error it does not catch ends the process as a
`crash` does. The limit on directory entries is a choice in `WriteNewJob`,
because files of other accounts count. The contents of events, the staging
directory, a `device-login` started without a job and adding the account again
after a delete are left out; the last two would add actors, not guards.

**What the other modules have in common.** A `pc` (`at`, `spot`, `stage`,
`step`) is the place between two system calls, or, in a page or the applet,
between two callbacks. A crash may come at every place and drops what is in
memory. Each catchable error is an alternative of the step that raises it. Their
number is bounded (`MaxFaults`, `MaxCrashes`, `MaxSlips`, `MaxSetbacks`,
`MaxMishaps`, `MaxTroubles`, `MaxUpsets`, `MaxIncidents`, `MaxDisturbances`,
`MaxUnrest`, `MaxUpheavals`, `MaxOddities`, `MaxErrors`, `MaxEvidenceFaults`,
`MaxFailures`), as is the number of operations. In `PrivateWrite` and
`ControlCache` a power loss leaves one of the directories since the last sync,
metadata being written in order. Texts, generations and editions are numbers or
model values that are never used twice, except where the code may bring an old
one back.

Mutants. Operators marked "Mutant of ..." or "A plausible bug" are changed versions of the definition
below them, as a plausible bug would leave it. No specification uses them; with
one of them put in place of its definition, the property named in `PROJECT.json`
fails, which shows that the property depends on that line of the code.

## 3. Runs

The actors are model values. `CHECK_DEADLOCK FALSE`, because the system may
really stop: an account that is deleted with no version left, actors whose
bounds are used up, jobs that have all ended with nobody asking.

| Run | Module | What is in it | Checks | Result |
|---|---|---|---|---|
| `usage` | `MCUsage` | a fetcher and an editor with 2 resets, 2 capture times, 2 configurations, 1 I/O error, 1 crash; the two parts below | `TypeOK`, `PartsTypeOK`, `GenerationFence`, `ResetIsAllOrNothing`, `ShownIsDated`, `ConsumptionIsTrue`, `ImplementsUsageCache` | holds (1.24 million states) |
| `account` | `MCAccount` | a fetcher and a bridge request with 2 capture times; or a bridge request, a watchdog and an editor with 1 reset and 1 I/O error | `ResetFence`, `CaptureNeverRegresses` | holds (2.3 million states) |
| `system` | `MCSystem` | the 21 parts below | the properties below | holds (2.8 million states) |
| `logins` | `MCJobs` | 2 jobs with their creators and workers, 1 client, 2 faults or a crash | `TypeOK`, `LoginIsTracked`, `LoggedInHasAuth`, `NoOrphanCredentials`, `CompletedIsLoggedIn`, `TerminalIsFinal`, `EraseAfterJobs` | holds (1.8 million states) |
| `live` | `MCLive` | 1 job, the applet that polls and cancels, a client that also deletes, 1 fault, 1 crash; an account with windows of 1 and 2 ticks; a loop with an interval of 3 ticks; each fair | `TrackedEnds`, `BlockEnds`, `LoopLives` | holds (228 000 states) |
| `recreate` | `AccountState` | fetcher, editor, 1 reset | `NoResultRecreatesState` | violated |
| `oldconfig` | `AccountState` | fetcher, editor, 1 reset | `NoValuesOfOldConfiguration` | violated |
| `block` | `AccountState` | fetcher, watchdog, editor, 1 reset | `ReusedBlockIsCurrent` | violated |
| `replace` | `AccountState` | fetcher, bridge request, 3 capture times | `AuthenticatedStateStands` | violated |
| `dump` | `AccountState` | bridge request, editor, 1 reset | `NoDumpOfDeletedAccount` | violated |
| `delete` | `ProfileJobs` | 1 job, 1 client, no fault, no crash | `DeleteReachesLogin` | violated |
| `query` | `AppletAux` | 1 account, no row changes waiting | `DisplacedQueryIsPutBack` | violated |

The parts of `usage` and `system`, each with its states:

| Part | Property | Says | Bounds | States |
|---|---|---|---|---|
| `UsageValues` | `ShownIsDated` | no value shown is older than its stamp, expired (but for the inferred inactive window), or of another login | 2 fetches, 3 instants, 1 disturbance (a switch, an overlap) | 143 000 |
| `UsageHistory` | `ConsumptionIsTrue` | consumption is what was used in this cycle | 5 instants, cycles of 3, 1 upheaval | 103 000 |
| `PrivateWrite` | `WriteIsAtomic` | a reader and a power loss find the old or the new text; reports are true | 2 texts, 1 fault, 1 crash | 104 000 |
| `PoolAuthority` | `SourceAgrees` | without a marker the source is what the configuration says | 2 account sets, 2 records, 3 markers, 3 errors | 233 000 |
| `EvidencePublish` | `EvidenceStands` | the pointer names a whole generation; reports are true | 4 generations, 3 faults | 28 000 |
| `StateMaintenance` | `MaintenanceIsSafe` | state is in exactly one place; stale state stays away | 3 accounts, 2 versions, 2 slips | 153 000 |
| `ReleaseInstall` | `ReleaseIsWhole` | the active release is whole and of its source; a failure changes nothing | 3 edits, 3 mishaps | 73 000 |
| `ServiceInstall` | `ServiceIsWhole` | the timer never runs a mixture; a failure changes nothing | 3 installs, 3 setbacks | 244 000 |
| `AccountDelete` | `ConfiguredIsWhole` | a configured account has its profile, and its files all or none but while an addition erases them or after a death in that | 3 troubles | 2 000 |
| `AuthMigration` | `MigrationIsUndone` | what is undone removes its own and leaves nothing unnamed | 2 members, 3 incidents | 31 000 |
| `Locks` | `NoCircularWait` | no circle of waiting threads | 2 threads, all commands | 70 000 |
| `LockQuarantine` | `CommittedIsKept` | what is reported moved is there, as approved, once | 2 runs, 3 residues, 1 disturbance | 163 000 |
| `PageCapture` | `PayloadIsFresh` | what is sent was requested after the send began | 2 sends, 3 requests | 104 000 |
| `BridgeServer` | `BridgeIsWhole` | slots come back; the extension is of one build | 2 clients, 1 slot, 2 upsets | 181 000 |
| `AuthSync` | `FlagIsHonest` | an unmarked account is synchronised | 2 synchronisations, 2 logins | 161 000 |
| `AppletRefresh` | `NothingWaitsInVain` | a remembered fetch has somebody who starts it | 6 steps of an agenda | 271 000 |
| `AppletAux` | `ActiveLoginIsReal` | a login shown as active is one, but for two ways to leave its mark behind | 2 accounts, 1 deferred, 1 query | 48 000 |
| `ControlCache` | `LoadIsDue` | a load finds the last snapshot saved, or a later one | 3 saves, 3 failures | 6 000 |
| `ControlCall` | `NothingIsLeftOpen` | each resolver is somebody's | 2 calls, 2 slots, 2 look-ups | 77 000 |
| `GoogleLogin` | `NothingIsLeftOpen` | each listener will be closed, or every change is refused | 3 logins, 3 tries | 5 000 |
| `WatchdogStages` | `RunEndsClean` | within the budget, and no process is left | scaled budget 11, 1 installation | 4 000 |
| `UsageFetch` | `AnswerIsOwn` | values are of the login they are saved under | 3 logins, 2 switches, 1 repeat | 663 000 |
| `UsageSamples` | `ChosenIsCurrent` | an old majority does not outvote the latest sample | 3 samples, 2 batches, 2 moves, 1 oddity | 176 000 |

Why the bounds are enough. The races are between one reader-then-writer and one
reset (two actors); a second reset lets a generation be restored, re-used and
bumped again, and one fault with one crash reaches every rollback path including
a rollback that fails and is followed by another edit. Two capture times, on
either side of a race, give older, equal and newer. Two jobs give two logins for
one `auth.json` and a creation that prunes under another job, two faults a
failed spawn or tracking whose record then fails as well, and a crash without
fault or, in `live`, with one; two clients give a
poll with an old snapshot beside a cancel or a delete; in `live` one of them is
the applet, which deletes nothing. The proofs remove the
bounds for what they cover.

In the other parts the bounds follow the protocols. Two faults or crashes let
the recovery of a failure fail itself, a third lets its repetition fail; three
operations give one that leaves something, one that finds it and one that finds
what that left. Two contending actors give every race of a lock, a slot or an
approval; three residues let two runs overlap in one and differ in another.
`UsageFetch` needs two logins of one user that their plans tell apart, one whose
account is unknown, and two switches, so that a login may come back; with a
fourth login that has another plan of the first account it holds as well (1.56
million states), as the proof says it must. `UsageSamples` has an odd number of samples, so that there is a
majority; its percentages and seconds are scaled to three values each, the jump
to one step. `UsageHistory` sees a whole cycle and the reset before and after
it, and also holds with 7 instants (4.3 million states). The budget of
`WatchdogStages` is that of `integration_timeout_contract.py` (30, 20, 20, 180
and 8 of 258 seconds) scaled so that each stage still has room for the steps
that may overrun it. The real pool of `ControlCall` has 32 places.

What the seven violated runs show (quotes and lines are in `PROJECT.json`):

* `recreate`: a fetch in flight during a reset is recognised, but its error
  record keeps the old reset counters, identity and timestamps, carries no
  generation and is therefore saved under the new one.
* `oldconfig`: the configuration is loaded once per command, the generation once
  per fetch; a change between the two goes unnoticed.
* `block`: the watchdog tags a block with a generation read after the block.
* `replace`: the bridge's "is covered by authenticated state" check is made
  before the locks it saves under.
* `dump`: a request was authorized, the account is deleted with its `auth.json`
  left in place, and only then the generation is read: the dump of its payload
  is written as one of the present generation.
* `delete`: `account delete` asks for the all-accounts lock before it cancels
  the account's jobs, but a running device login holds the source lock under it
  until the user has logged in; the delete times out and cancels nothing. Once
  it has the lock, it does what it says (`EraseAfterJobs`).
* `query`: a command that displaces a running consumption query forgets it:
  the applet goes on waiting for its answer and asks no other one.

Fairness. `AccountState` claims no liveness: a fetch may fail, time out or crash
at any point, so nothing must happen in it. In `Watching` the timer that starts
`watchdog` (systemd's) and the steps of its run are weakly fair; the user, the
provider, the loop and the bridge need not act, and time may stand still:
`BlockEnds` asks instead that the stored block runs out or that a later record of
the free account comes in, again and again. In `WatchLoop` the clock and the loop's
process are weakly fair (each of its fetches and waits has a deadline); fetches
may fail for ever, no signal has to come, and the output may be closed at any
time. That ends the loop, because the handler of a failed cycle prints the
failure itself and nothing catches what it raises (`scheduler.py` 1261-1271);
`LoopLives` says that nothing else does but a signal.
In `ProfileJobs`, `TrackedEnds` assumes weak fairness of a live worker and of a
client process, since every wait in them has a deadline (locks 30 seconds, the
login 15 minutes, the delete its own), and strong fairness of the start of each
poll: the applet polls the jobs it lists again and again with a new process each
time (`_pollNextProfileJob`), so a job that can be polled infinitely often is.
Creators get no fairness; a crashed creator may leave a queued job behind, which
is why `TrackedEnds` is about jobs with a recorded worker or a cancellation.

## 4. Proofs

`AccountState_proofs` proves, for every set of actors and every bound, from the
assumptions named in `AccountState` (nobody is `NoProc`, `NoFile` is no record,
`NoTag` is no number, bounds are naturals, fetch backends are backends):

* `TypeCorrect`: `Spec => []TypeOK`.
* `InductiveCorrect`: `Spec => []Inductive`.
* `GenerationFenceCorrect`: `Spec => []GenerationFence`.
* `AccountStateImplementsUsageCache`: `Spec => ImplementsUsageCache`.
* `ResetIsAllOrNothingCorrect`: a reset that reports success has erased
  everything, one that reports failure has changed nothing, and nobody takes a
  path its rollback may need. It does not speak of the time in between: a reader
  without a lock, and whoever comes after a crash, may find a part of the files
  gone (`AccountState` calls that a loss, as `UsageCache` does).
* `ResetFenceCorrect`: no value that was fetched, or whose generation was read,
  before a reset survives it, in a cached file or in the debug dump. When the page
  captured a payload, or when its request was authorized, is not compared by the
  code and not fenced (`dump`).
* `CaptureNeverRegressesCorrect`: the action property.

The argument. `GenerationFence` is not inductive: what matters is not the file a
reader sees but what the files will be if the running transaction is undone.
Hence `SettledGen`, `SettledEpoch`, `SettledFiles`: the values before the
transaction while one is running, the present ones otherwise. `FileFence` says
that settled files carry no tag ahead of the settled generation, and that those
with exactly that tag have limits of the settled epoch only. `HandFence` says
the same of the record each process has in hand, where before the second look
at the generation the tag-to-be is the one read before the fetch. `LockInv` ties
`holder` to the program counters, `TransactionInv` bounds what a transaction has
changed so far: each file is as before or gone, each backup as before or empty,
and the generation is ahead exactly when the epoch is. A step then either keeps
the settled values, saves a fenced record into one file, or *settles*: the
transaction ends, or its process dies, and the settled values become the present
ones, where files can only be missing and generation and epoch either both stay
or both grow. The third case is a reset or a loss of `UsageCache`, the second a
save, the first a stutter; this gives both the invariant and the refinement.

`ProfileJobs_proofs` proves, for every set of jobs and clients and every bound,
from the assumptions named in `ProfileJobs` (`NoJob` is no manifest and no job,
`NoOne` is no process, bounds are naturals): `InductiveCorrect`, and from it
`TypeCorrect`, `TrackedCorrect` (`LoginIsTracked`), `LoggedInCorrect`
(`LoggedInHasAuth`), `NoOrphanCorrect` (`NoOrphanCredentials`),
`CompletedCorrect` (`CompletedIsLoggedIn`), `TerminalCorrect`
(`TerminalIsFinal`) and `EraseCorrect` (`EraseAfterJobs`).

The argument. `LoginIsTracked` depends on what everybody else knows. `CreatorInv`
ties the creator's place to manifest and worker (no manifest before the write,
no worker before the spawn), `ManifestInv` a manifest to the worker's existence
(a job with a pid has had a worker, a running job has a pid), `WorkerInv` a
worker's local variables to its place. `ClientInv` says why an old snapshot may
be acted upon: when a client settles a job, the worker it looked for is gone,
and a gone worker does not come back, or the job had no pid and was to be
cancelled, and then the worker will find that and not start. `AuthInv` gives
`auth.json` to one login at a time: it is published only where there is none, so
between publication and `Finalize` or `UndoPublish` it is the login's own, and
the unlocked unlink is safe. `DeleteInv` says that every live job is in the
delete's `todo` or `pending` from the moment it holds the lock, which also keeps
creators out, so that with both empty no job is left.

`Locks_proofs` proves `NoCircularWaitCorrect` and `ExclusionCorrect` for any
number of threads. `Order` ranks the lock files (source, maintenance, account, configuration,
path, evidence). `RoutinesOrdered` says of the table of commands that each waits
only for later files than it holds and leaves what it enters; it has no constant
in it, so it is not proved but computed: `MCSystem` assumes it, and TLC evaluates
it on the run. From it `LocksInv` (`ThreadsOK`, `RequestIsNext`, `Exclusion`)
gives a wait that always goes up in the order. The exception is a second share of
maintenance under the source lock, which the `Exclusion` of the source lock keeps
out of any circle.

`AuthSync_proofs` proves `FlagIsHonestCorrect` from `SyncInv`: an account without
the mark has the credentials that the service has, or a login or upload that is
under way will say so (`Vouched`), while `holder` keeps the others out
(`LockHeld`, `InOrder`).

`MCSystem_proofs` states what `system` checks as theorems about `MCSystem`:
`WriteIsAtomicHolds` is `Spec => []WriteIsAtomic`, and so on for `SourceAgrees`,
`EvidenceStands`, `MaintenanceIsSafe`, `ReleaseIsWhole`, `ServiceIsWhole`,
`ConfiguredIsWhole`, `MigrationIsUndone`, `NoCircularWait`, `CommittedIsKept`,
`PayloadIsFresh`, `BridgeIsWhole`, `FlagIsHonest`, `NothingWaitsInVain`,
`ActiveLoginIsReal`, `LoadIsDue`, `NothingIsLeftOpen`, `RunEndsClean`,
`AnswerIsOwn` and `ChosenIsCurrent`, and for `TypeOK`: all properties of the run. A
theorem about a part is a theorem about the component, because the part is its
module with its own `Init` and `Next` and the variables renamed. `PartInits`,
`PartMoves` and `PartStutters` carry the lemmas of the parts over, `PartsHold`
states all of their invariants at once (`StoreParts`, `ClientParts`), and each
theorem is what one of them implies. Each part's
invariant is in its module under "What makes the property inductive", and was
checked by TLC before it was proved; the argument each time is why a record of a
step, on disk or in memory, is enough to go on or back from there:

| Part | Invariant | Why it is needed |
|---|---|---|
| `PrivateWrite` | `WriteInv` | what a power loss may leave is a *set* of directories; the rollback copy is the old file in every one of them from its sync until it is dropped (`CopyIsOld`), and a target is never missing beside a copy (`CopyHasTarget`) |
| `EvidencePublish` | `EvidenceInv` | every pointer in a file names a whole generation (`FilesWhole`), a reader excludes writers (`ReaderAlone`), and when no writer lives, marker and stash tell the recovery which pointer to restore (`FilesOfOne`, `WriterKnows`) |
| `PoolAuthority` | `PoolInv` | a marker covers both configurations it lies between (`MarkerCovers`), so that recovery may choose either |
| `StateMaintenance` | `MaintenanceInv` | the last state of an owner is in one place (`InOnePlace`), and what is held is in the journal (`HeldByJournal`) |
| `ReleaseInstall` | `ReleaseInv` | texts are never used twice, so they have ages: a copy made after a digest with the same result has been of that source throughout (`Ages`, `CopyIsRight`) |
| `ServiceInstall` | `ServiceInv` | while the timer may start, all files are of one generation (`AllWhole`); in a replacement the journal knows how far the new files, and in a recovery how far the old ones, are in place (`Replacing`, `UnitsBack`, `Restoring`) |
| `AccountDelete` | `DeleteInv` | things are aside, or on their way, only between the step that moves them there and the one that puts them back or erases them (`AsideOnlyThere`), the profile stays what a deletion has found (`ProfileStays`), and a part of the files is missing only after a failed rollback or a death between two renames (`PartsOK`) |
| `AuthMigration` | `MigrationInv` | every file of the migration is recorded or a known residue (`MadeIsKnown`), and the file being looked at is its own or a login that came meanwhile (`Examined`) |
| `LockQuarantine` | `QuarantineInv` | a residue is in one place, and each run has the name of what it moved (`OnePlace`, `TakenIsTaken`) |
| `PageCapture` | `PageInv` | calls arrive in the order of their sends (`CallsInOrder`), and until that of the present send has arrived nothing answers it (`Before`) |
| `BridgeServer` | `BridgeInv` | slots taken are those of living connections; files before the n-th are exchanged and the others of one old build (`Progress`, `Exchanging`) |
| `AppletRefresh` | `RefreshInv` | a callback is a row of steps that ends at a guard (`Guards`); an exception cuts the row, but keeps the guard and every step that drains what is remembered (`RefreshThrown`, `RefreshPut`), so that what waits has a request or a drain (`WaitsAreDue`) |
| `AppletAux` | `AuxInv` | each mark of a login is a job's, left behind, or the live login's, and that one is in the queue, in the desk or in the process (`MarksAreKnown`, `LiveIsInFlight`) |
| `ControlCache` | `CacheInv` | every directory that a power loss may leave yields, after its recovery, a snapshot that is due (`ImagesAreDue`) |
| `ControlCall` | `CallInv` | reserved slots are the holders' and the reaper's (`SlotsMatch`), and the reaper does not sleep on a process that pends (`NeverSleepsOn`) |
| `GoogleLogin` | `GoogleInv` | with a lease either a timer of that lease is to fire or cleanup refuses the rest (`WillClose`) |
| `WatchdogStages` | `WatchdogInv` | each stage ends early enough for the cleanup behind it (`InTime`) |
| `UsageFetch` | `FetchInv` | the server's login is one that the fetch has met between its two looks (`ServerKnown`); strictness is that of the files while they are the same |
| `UsageSamples` | `SampleInv` | nothing but types: the property is a theorem about the choice (`Select`) for every row of samples |

`TypeOKHolds` needs all parts. In most of them the types follow from the invariant
above or are kept beside it. Four need more than that, checked by TLC before they
were proved: a path is held or waited for only when its lock
file exists (`PathsExist` of `Locks`); a synchronisation applies its plan once, so that the service's generation and the synchronisations
that have still to apply never exceed them all, and nothing carries a number of
`auth.json` that no login gave (`ApplicationsCounted`, `NumbersOK` of
`AuthSync`); the applet counts a refusal only for a refresh that is under way and
begins none at the limit (`RefusalsOK` of `AppletRefresh`); and an answer that
waits belongs to a request that is no longer worked on, or was sent twice
(`AnswersCounted`, `Named` of `UsageFetch`).

`MCUsage_proofs` does the same for `MCUsage`: `ShownIsDatedHolds` and
`ConsumptionIsTrueHolds`, for every behaviour of `UsageSpec` (`AccountState` is
proved about above), and `PartsTypeOKHolds`.

`ShownIsDated` speaks of what a reader combines from two files, so `ValuesInv`
says what each file and each fetch in progress may hold: values are past and of
the login of their usage (`PastAndOwn`), what a fetch has in hand is what it was
given or retained (`AsFetched`), a usage with an open window is under its own
time (`OpenDated`), a snapshot is not ahead of the current usage
(`SnapshotBehind`), and what a draft retained is of the snapshot until somebody
else saves (`RetainedOfSnapshot`). From that moment on the exception `crossed`
applies. The attempt to prove it found that times also get mixed up in a second
case, which the bounds of the run do not reach and which `Crosses` now names: an
older answer becomes the snapshot beside a usage with retained values whose own
snapshot a crash prevented. The proof holds for any table of offers and any
window lengths.

`ConsumptionIsTrue` compares a loop with the counter itself. `HistoryInv` says
that a cycle lasts at least `Cycle` unless a credit ends it (`WindowInv`), that a
sample was taken in its cycle and names the reset that cycle had, none, or for
one moment the reset that passed (`SampleInv`), that without a credit the reset
which a sample names is over when the next cycle begins (`Apart`), and that
between samples of one cycle the counter only rises (`InOrder`). The loop over
the pairs is a recursive function over the time; that the truth is its only
solution is shown by a least time at which they differ, with the least number
principle for the naturals. `Cycle > Gap + 1` is needed: a cycle that a gap
without samples could hide altogether would be counted as part of another one.
The code's windows last 5 hours and a week (`direct.py`), the gap it tolerates
is shorter (`consumption.py`).

What is assumed of the constants, besides that bounds are naturals
(`StoreBounds`, `ClientBounds` and in the assumptions of the parts): the
markers for "no file", "nobody" and the like are no files, nobody and so on
(`WriteConstants`, `EvidenceConstants`, `ServiceConstants`, `CacheConstants`,
`QuarantineConstants`, ...); there are finitely many users, calls and clients;
`MaintenanceConstants` numbers the accounts; `FetchConstants`: users are known,
and no account has the id of a user; `WatchdogConstants`: general run and cleanup
fit in the budget, as `integration_timeout_contract.py` has it (30 + 8 of 258);
`SampleConstants`: at most four samples. The code takes three (`direct.py` 39).
For five the property is false, because a window that one answer leaves out
can hide what was used between two others. `AccountDelete`, `GoogleLogin` and `AppletRefresh` need nothing.
No proof needs a bound on the number of faults or crashes to be small, and that
of `AppletRefresh` holds for any bound on the agenda.

An instance has its own copy of the standard modules that its module uses, so
lemmas about cardinalities exist once more for the copy (`...!Cardinality`), and
follow there from the definition.

Only model-checked: `TrackedEnds`, `BlockEnds` and `LoopLives` (liveness). The
properties of the violated runs are refuted, not proved. Out of the
prover's reach here: liveness under fairness, `ENABLED`, and what recursive
operators compute. The runs and the proofs use the same definitions: no
configuration replaces one.

## 5. What the models show besides

Behaviour that the models have and no property forbids, because the repository
does not promise otherwise, or that a property excepts by name. A reader of the
properties should know it.

* `AccountState`: a command that loaded the configuration before a change works
  with it to its end (`oldconfig`).
* `ProfileJobs`: a queued job whose creator died stays queued until it is
  cancelled; a cancellation after `Finalize` leaves the account logged in; the
  update after a failed spawn replaces *cancelled* by *failed*; a crash between
  publication and `Finalize` leaves credentials that make every later login of
  the account fail; events of an ended job may stay on disk until it is pruned.
  That another process gets the pid of a worker that has ended is left out.
* `PrivateWrite`: a crash between `os.link` and the unlink of the temporary file
  leaves two names, and later replacing writes are refused; a create-only write
  whose last sync fails reports failure though the file is there; a target that
  was deleted on purpose comes back from a stale rollback copy at the next write.
* `PoolAuthority`: after a crash within an account change, a change of the
  control connection or of a synchronisation mark alters the configuration's
  digest, the marker then matches neither side and later edits are refused.
* `EvidencePublish`: a first publication whose check fails after the rename, and
  whose stash cannot be removed, is put back by the next recovery.
* `StateMaintenance`: a change of the configuration between a crash and the next
  maintenance makes the manifest refused for ever; a crash while a manifest or an
  audit is written leaves litter.
* `ReleaseInstall`: a retained transaction file refuses later installations, a
  first manifest cannot be taken back, and a release directory that stays after a
  failed publication keeps the same release from being installed again.
* `ServiceInstall`: an error while the journal is prepared writes the old units
  again as new files, but the journal knows the old ones by inode: the recovery
  of the next command refuses them. Left out are: a `daemon-reload` of an
  uninstallation that fails after both units were unlinked (`service.py` 1502),
  a failing advance of the journal to "activated" with the timer already on
  (`Partly` has no such outcome), and a job of the service that was started
  before an exchange and outlives it.
* `AccountDelete`: an addition or a change removes the usage files one by one
  after the configuration was saved, so that a reader may find a configured
  account with a part of them, and for good after a death there (`torn`); a death
  before the removal leaves all of them under the new configuration. The token is
  revoked even when the staging of the state fails;
  a failed rollback leaves the profile aside (and says so); an interruption
  leaves the account out of the configuration; the extension of the bridge may
  make a new token during a delete.
* `Locks`: the source lock is the outermost of every account lock, so account
  operations of all commands are serial; workers of a parallel fetch queue for it
  and may time out after 30 seconds. A lock file that another process creates
  between a path lock and its re-entry makes the nested write fail.
* `Watching`: what `health.py` logs is left out. `BlockEnds` is about a block that is
  over or superseded for as long as it takes; a run that has looked before the
  later record came in shows its block once more.
* `WatchLoop`: a closed output ends the loop at the first failure that cannot be
  printed, also when only the printing of a good usage has failed.
* `PageCapture`: the refresh timer is assumed to fire after the messages posted
  before it were delivered.
* `BridgeServer`: an interruption (`KeyboardInterrupt`) or a crash in the exchange of the extension's files leaves two
  builds, and nothing recovers them.
* `AuthSync`: a login that dies between rewriting `auth.json` and marking the
  account leaves it unmarked though the credentials differ (`unmarked`). Whoever else
  writes `auth.json`, and a login process that outlives its parent, are not
  modelled.
* `AppletRefresh`: with a program that resolves but cannot be started, automatic
  polling and an open circuit breaker, status, enable and latest call each other
  until the engine stops the recursion; the bound on the agenda cuts it.
* `AppletAux`: the process of `profile create` is displaced by the reload of the
  backends in the same callback; a forced status poll displaces an account change,
  whose mark then stays. The mark of a device login is left behind by a menu that
  cannot be built between the mark and the spawn (7948-7956), which `_runSafely`
  only logs, and by the safe mode, which drops deferred requests and not their
  marks (`forgotten`): such a mark refuses every later device login until the
  applet is started again or a job of that account ends. A job whose retry timer is taken away by the
  poll of another one is forgotten until the jobs are loaded again; routing is
  started and displaced by the jobs after it.
* `ControlCache`: a rollback file with another text makes the cache unusable; a
  save whose last sync fails is reported as failed though its text stays. The
  command that saves the projection (`cli.py` 1928-1947) loads and saves without
  one lock over both.
* `ControlCall`: a process that does not stop at the end of the program, and a
  child after a fork, are left out.
* `WatchdogStages`: a timer that fires between the start of a process and the
  `try` around it leaves the process group alive (`unguarded`; only in `execute`,
  which `main` does not use). The wait of a publication has its deadline from
  after the start of the process in the code (1073) and from before it in the
  model. A stop signal to the watchdog itself, and children that leave the
  process group, are not modelled.
* `UsageFetch`: strictness is decided before the fetch from both accounts' files
  and is stale when the neighbour's login changes; a login that changes and
  changes back is not noticed on the server route; an answer for an account that
  is not configured, of the same user and plan, is accepted.
* `UsageSamples`: a window that resets and is used beyond its former value
  between two samples can be answered with the old majority.
* `UsageHistory`: a crash or a full disk while the schema is created leaves a
  database that is refused for ever (`history.py` 299-322); a credit that ends a
  cycle early, or samples without a reset time, can make the consumption wrong
  with coverage "complete" (`Regular` excepts them).
* `UsageValues`: the inferred inactive five-hour window without a reset time is
  shown at 100 % until an answer replaces it, however old it is (`state.py`
  1880). A usage with a retained value that is saved after another
  process saved its own is merged with the later one and takes its stamp
  (`crossed`): the lock of all accounts is released between fetch and save. So is
  an older answer that arrives after a crash kept such a usage from the snapshot.
* `AuthMigration`: a login in the moment between the look and the unlink is
  removed (`raced`); an unrecorded target may stay (`residue`) and makes the next
  migration report a conflict; a crash in the application leaves targets without
  a manifest; a rollback that stops half-way cannot be repeated.
* `GoogleLogin`: the guard before a change is read without the lock. A browser
  whose closing fails stays: `browser_lease.close()` may raise (`google_accounts.py`
  470), a kill and a wait may fail silently (`reactivate.py` 275-292), the lease
  counts as closed before, and nobody tries again (`End` leaves `browserOpen` to
  chance). No property speaks of it.

Assumed of the world: `flock`, `rename`, `link` and `fsync` as POSIX has them, one
writer of private files per user but the program, systemd starting its timers,
window messages in order, and Cinnamon running one callback at a time.

## 6. Not modelled, and the plan

Left out for good: parsing, page extraction, rendering and HTTP (formats and
I/O), wheel building and hashing, attestation documents, message contracts, the
forecast, menus and drawing, generated extension code but its protocol, the
Ollama fleet (single calls of a service that keeps the state), identity, routing
and health (pure decisions and logging).

What each partly modelled component leaves out is in its note in `PROJECT.json`.
What is left of it that has state: the creation of private directories, routing
policy writes of the applet, the worker pool of a parallel fetch with several
accounts at once, the other operations on Google accounts.
