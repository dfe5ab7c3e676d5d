---------------------------- MODULE AccountState ----------------------------
(***************************************************************************)
(* The per-account usage state of codex_usage and everybody who touches    *)
(* it: fetchers (scheduler.fetch_all), the browser bridge                  *)
(* (bridge.ingest_and_save), the watchdog that reuses blocked snapshots,   *)
(* and editors (cli account delete, config.add_or_update_account) that     *)
(* reset the state with state.remove_account_state.                        *)
(*                                                                         *)
(* All of them are threads or processes that share only the files of the   *)
(* account, so the module has one account: no operation of state.py        *)
(* touches the files of two.  Every account lock takes the exclusive       *)
(* source lock first and keeps it for its whole body (module Locks),       *)
(* hence one variable, holder.  A locked section that reads or writes one  *)
(* file is one action; the sections with several file operations           *)
(* (the save phase and the reset transaction) are one action per           *)
(* operation, because readers take no lock and a crash may fall between.   *)
(***************************************************************************)
EXTENDS UsageStore

CONSTANTS Fetchers, Bridges, Watchdogs, Editors,  \* the actors, disjoint sets
          NoProc,                                 \* nobody holds the lock
          FetchBackends,      \* backends a fetcher may end up using
          Freshness,          \* interval_seconds plus the bridge grace period
          MaxEpoch,           \* bound: resets of the account
          MaxClock,           \* bound: distinct capture times
          MaxVersion,         \* bound: configurations of the account
          MaxFails,           \* bound: injected I/O errors
          MaxCrashes          \* bound: processes that die

Procs == Fetchers \cup Bridges \cup Watchdogs \cup Editors

ASSUME ProcsAssumption == NoProc \notin Procs
ASSUME BackendsAssumption == FetchBackends \subseteq Backends
ASSUME FilesAssumption == NoFile \notin Usage /\ NoTag \notin Nat
ASSUME BoundsAssumption ==
  {Freshness, MaxEpoch, MaxClock, MaxVersion, MaxFails, MaxCrashes} \subseteq Nat

VARIABLES
  holder,      \* who holds the source lock (and with it any account lock)
  cfg,         \* version of the account in the config file, 0 if absent
  versions,    \* number of configurations the account has had
  gen,         \* generations/<id>.json, 0 if absent
  file,        \* contents of the three files
  clock,       \* the latest capture time
  pc,          \* where each process is
  acct,        \* version of the Account object a process works with
  g0,          \* generation a process read before it started
  usage,       \* the record a process has in hand
  seen,        \* snapshot read without the lock
  seenCur,     \* current record read without the lock
  bak,         \* contents moved to .<id>.state-delete-*
  moved,       \* files moved there by the running transaction
  unlinked,    \* files its commit has already unlinked
  genBefore, cfgBefore,   \* what its rollback restores
  fails, crashes,         \* injected so far
  epoch, epochs, epochBefore,  \* history: the current reset epoch
  filesBefore, rollbackFailed  \* history: to state what rollback restores

store  == <<gen, file, epoch, epochs>>
txn    == <<bak, moved, unlinked, genBefore, cfgBefore, epochBefore,
            filesBefore, rollbackFailed>>
locals == <<acct, g0, usage, seen, seenCur>>
vars   == <<holder, cfg, versions, gen, file, clock, pc, acct, g0, usage,
            seen, seenCur, bak, moved, unlinked, genBefore, cfgBefore, fails,
            crashes, epoch, epochs, epochBefore, filesBefore, rollbackFailed>>

NoFiles == [f \in Files |-> NoFile]

Init ==
  /\ holder = NoProc
  /\ cfg = 1 /\ versions = 1
  /\ gen = 0
  /\ file = NoFiles
  /\ clock = 0
  /\ pc = [p \in Procs |-> "idle"]
  /\ acct = [p \in Procs |-> 0]
  /\ g0 = [p \in Procs |-> 0]
  /\ usage = [p \in Procs |-> NoFile]
  /\ seen = [p \in Procs |-> NoFile]
  /\ seenCur = [p \in Procs |-> NoFile]
  /\ bak = NoFiles /\ moved = {} /\ unlinked = {}
  /\ genBefore = 0 /\ cfgBefore = 0
  /\ fails = 0 /\ crashes = 0
  /\ epoch = 0 /\ epochs = 0 /\ epochBefore = 0
  /\ filesBefore = NoFiles /\ rollbackFailed = FALSE

-----------------------------------------------------------------------------
\* Control

Goto(p, from, to) == pc[p] = from /\ pc' = [pc EXCEPT ![p] = to]

\* A run ends: its local variables are gone.
Return(p, from) ==
  /\ Goto(p, from, "idle")
  /\ acct' = [acct EXCEPT ![p] = 0]
  /\ g0' = [g0 EXCEPT ![p] = 0]
  /\ usage' = [usage EXCEPT ![p] = NoFile]
  /\ seen' = [seen EXCEPT ![p] = NoFile]
  /\ seenCur' = [seenCur EXCEPT ![p] = NoFile]

\* A locked section of one action needs the lock to be free; an attempt on a
\* held lock may also end in AccountLockError, after 30 seconds.
LockFree == holder = NoProc
TimesOut == holder # NoProc

\* An operating system error at this point.
Fault == fails < MaxFails /\ fails' = fails + 1

Set(var, p, value) == [var EXCEPT ![p] = value]

\* The provenance of what is fetched or received now with this account.
Provenance(p) == {[ep |-> epoch, cv |-> acct[p]]}

-----------------------------------------------------------------------------
\* fetch_all: one account's fetch, and the save phase

\* The command loads its configuration once, before anything else.
FetchStart(p) ==
  /\ Goto(p, "idle", "gen")
  /\ cfg # 0
  /\ acct' = Set(acct, p, cfg)
  /\ UNCHANGED <<holder, cfg, versions, store, clock, g0, usage, seen, seenCur,
                 txn, fails, crashes>>

\* load_state_generation before the fetch; an error record without a backend
\* (the lock timed out) fails the provenance check and is never saved.
FetchReadGeneration(p) ==
  \/ /\ Goto(p, "gen", "fetch")
     /\ LockFree
     /\ g0' = Set(g0, p, gen)
     /\ UNCHANGED <<holder, cfg, versions, store, clock, acct, usage, seen,
                    seenCur, txn, fails, crashes>>
  \/ /\ Return(p, "gen")
     /\ TimesOut
     /\ UNCHANGED <<holder, cfg, versions, store, clock, txn, fails, crashes>>

\* _fetch_one, which holds the account locks throughout: the backend answers
\* with limits, answers without (PARTIAL), or raises.
FetchOne(p) ==
  /\ Goto(p, "fetch", "check")
  /\ clock' \in {clock, clock + 1} \cap 0..MaxClock
  /\ \E be \in FetchBackends :
       usage' = Set(usage, p, FailedFetch(be, clock'))
       \/ /\ LockFree
          /\ \E limits \in {{}, Provenance(p)} :
               usage' = Set(usage, p,
                 [cap |-> clock', tag |-> NoTag, limits |-> limits,
                  aux |-> Provenance(p), ok |-> TRUE, inv |-> FALSE,
                  be |-> be])
  /\ UNCHANGED <<holder, cfg, versions, store, acct, g0, seen, seenCur, txn,
                 fails, crashes>>

\* Mutant of FetchCheckGeneration: the record takes the generation of now.
FetchAdoptsGeneration(p) ==
  /\ Goto(p, "check", "stabilize")
  /\ LockFree
  /\ usage' = Set(usage, p, [usage[p] EXCEPT !.tag = gen])
  /\ UNCHANGED <<holder, cfg, versions, store, clock, acct, g0, seen, seenCur,
                 txn, fails, crashes>>

\* The second load_state_generation: a changed (or unreadable) generation
\* empties the record and leaves it without one.
FetchCheckGeneration(p) ==
  /\ \/ /\ Goto(p, "check", "stabilize")
        /\ LockFree
        /\ gen = g0[p]
        /\ usage' = Set(usage, p, [usage[p] EXCEPT !.tag = g0[p]])
     \/ /\ Goto(p, "check", "lock")
        /\ (LockFree /\ gen # g0[p]) \/ TimesOut
        /\ usage' = Set(usage, p, UsageAfterStateGenerationFailure(usage[p]))
  /\ UNCHANGED <<holder, cfg, versions, store, clock, acct, g0, seen, seenCur,
                 txn, fails, crashes>>

\* load_usage_snapshot takes no lock; _stabilize_authenticated_usage may keep
\* windows of the previous success.
FetchStabilize(p) ==
  /\ Goto(p, "stabilize", "lock")
  /\ LET previous == LoadUsage(file["snap"], gen) IN
     \/ UNCHANGED usage
     \/ /\ previous # NoFile
        /\ usage[p].ok /\ usage[p].be \in Authenticated
        /\ previous.ok /\ previous.be \in Authenticated
        /\ usage' = Set(usage, p,
             [usage[p] EXCEPT !.limits = @ \cup previous.limits])
  /\ UNCHANGED <<holder, cfg, versions, store, clock, acct, g0, seen, seenCur,
                 txn, fails, crashes>>

\* The save phase runs under the __all_accounts__ lock; a timeout ends the
\* whole command.
FetchLock(p) ==
  \/ /\ Goto(p, "lock", "save_current")
     /\ LockFree
     /\ holder' = p
     /\ UNCHANGED <<cfg, versions, store, clock, locals, txn, fails, crashes>>
  \/ /\ Return(p, "lock")
     /\ TimesOut
     /\ UNCHANGED <<holder, cfg, versions, store, clock, txn, fails, crashes>>

Write(f, u, preserve) ==
  /\ \E content \in SaveUsage(file[f], u, gen, preserve) :
       file' = [file EXCEPT ![f] = content]
  /\ UNCHANGED <<gen, epoch, epochs>>

\* save_current_usage; an exception skips the snapshot as well.
FetchSaveCurrent(p) ==
  /\ holder = p
  /\ \/ /\ Goto(p, "save_current",
                IF usage[p].ok THEN "save_snapshot" ELSE "unlock")
        /\ Write("cur", usage[p], FALSE)
        /\ UNCHANGED fails
     \/ /\ Goto(p, "save_current", "unlock")
        /\ Fault
        /\ UNCHANGED store
  /\ UNCHANGED <<holder, cfg, versions, clock, locals, txn, crashes>>

\* save_usage_snapshot, for OK, BLOCKED and authenticated PARTIAL records.
FetchSaveSnapshot(p) ==
  /\ holder = p
  /\ Goto(p, "save_snapshot", "unlock")
  /\ \/ /\ usage[p].limits # {} \/ usage[p].be \in Authenticated
        /\ Write("snap", usage[p], TRUE)
        /\ UNCHANGED fails
     \/ /\ usage[p].limits = {} /\ usage[p].be \notin Authenticated
        /\ UNCHANGED <<store, fails>>
     \/ /\ Fault
        /\ UNCHANGED store
  /\ UNCHANGED <<holder, cfg, versions, clock, locals, txn, crashes>>

FetchUnlock(p) ==
  /\ holder = p
  /\ holder' = NoProc
  /\ \/ Return(p, "unlock")                 \* the command ends
     \/ /\ Goto(p, "unlock", "gen")         \* watch: next cycle, same config
        /\ g0' = Set(g0, p, 0)
        /\ usage' = Set(usage, p, NoFile)
        /\ UNCHANGED <<acct, seen, seenCur>>
  /\ UNCHANGED <<cfg, versions, store, clock, txn, fails, crashes>>

-----------------------------------------------------------------------------
\* ingest_and_save: a payload pushed by the browser extension

\* The configuration of this moment has the account, and the request's token is
\* the account's; nothing is held from here on.
BridgeAuthorize(p) ==
  /\ Goto(p, "idle", "receive")
  /\ cfg # 0
  /\ acct' = Set(acct, p, cfg)
  /\ UNCHANGED <<holder, cfg, versions, store, clock, g0, usage, seen, seenCur,
                 txn, fails, crashes>>

\* The body is read; then the generation is, under the lock, and the record is
\* built.  The page captured the payload some time ago, and the account may
\* have been reset, changed or deleted since, or since the authorization: the
\* provenance is the configuration that authorized the request, and the epoch
\* in which the generation was read, because nothing earlier is compared.  A
\* body that cannot be read, or a lock that times out, ends the request.
BridgeReceive(p) ==
  /\ \/ /\ Goto(p, "receive", "load_snapshot")
        /\ LockFree
        /\ g0' = Set(g0, p, gen)
        /\ clock' \in {clock, clock + 1} \cap 0..MaxClock
        /\ \E t \in 0..clock' : \E limits \in {{}, Provenance(p)} :
             usage' = Set(usage, p,
               [cap |-> t, tag |-> gen, limits |-> limits,
                aux |-> Provenance(p), ok |-> TRUE, inv |-> FALSE,
                be |-> "browser"])
        /\ UNCHANGED <<acct, seen, seenCur>>
     \/ Return(p, "receive") /\ UNCHANGED clock
  /\ UNCHANGED <<holder, cfg, versions, store, txn, fails, crashes>>

\* The two known records are read without the lock.
BridgeLoadSnapshot(p) ==
  /\ Goto(p, "load_snapshot", "load_current")
  /\ seen' = Set(seen, p, LoadUsage(file["snap"], gen))
  /\ UNCHANGED <<holder, cfg, versions, store, clock, acct, g0, usage, seenCur,
                 txn, fails, crashes>>

BridgeLoadCurrent(p) ==
  /\ Goto(p, "load_current", "decide")
  /\ seenCur' = Set(seenCur, p, LoadUsage(file["cur"], gen))
  /\ UNCHANGED <<holder, cfg, versions, store, clock, acct, g0, usage, seen,
                 txn, fails, crashes>>

Known(p) == NewestKnownUsage(seen[p], seenCur[p])

Covered(p) == \E known \in {seen[p], seenCur[p]} :
                CoveredBy(known, usage[p], Freshness)

\* Accept, reject, or (the identity differs from the known one) invalidate.
BridgeDecide(p) ==
  /\ \/ /\ Goto(p, "decide", "ingest_snapshot")
        /\ Known(p) # NoFile => Known(p).cap <= usage[p].cap
        /\ ~Covered(p)
        /\ UNCHANGED locals
     \/ Return(p, "decide")
     \/ /\ Goto(p, "decide", "invalidate")
        /\ Known(p) # NoFile
        /\ UNCHANGED locals
  /\ UNCHANGED <<holder, cfg, versions, store, clock, txn, fails, crashes>>

\* _invalidate_rejected_browser_state: the known record is emptied and tagged
\* with the generation of this moment; both files are then saved as usual.
BridgeInvalidate(p) ==
  /\ Goto(p, "invalidate", "ingest_snapshot")
  /\ LockFree
  /\ usage' = Set(usage, p, InvalidateCachedUsage(Known(p), gen))
  /\ UNCHANGED <<holder, cfg, versions, store, clock, acct, g0, seen, seenCur,
                 txn, fails, crashes>>

\* save_usage_snapshot, then save_current_usage, each under its own lock.
BridgeSaveSnapshot(p) ==
  /\ LockFree
  /\ \/ /\ Goto(p, "ingest_snapshot", "ingest_current")
        /\ Write("snap", usage[p], TRUE)
        /\ UNCHANGED <<locals, fails>>
     \/ Return(p, "ingest_snapshot") /\ Fault /\ UNCHANGED store
  /\ UNCHANGED <<holder, cfg, versions, clock, txn, crashes>>

BridgeSaveCurrent(p) ==
  /\ LockFree
  /\ \/ /\ Goto(p, "ingest_current", "debug")
        /\ Write("cur", usage[p], FALSE)
        /\ UNCHANGED <<locals, fails>>
     \/ Return(p, "ingest_current") /\ Fault /\ UNCHANGED store
  /\ UNCHANGED <<holder, cfg, versions, clock, txn, crashes>>

\* Mutant of BridgeDebug: no generation is expected.
BridgeDebugUnfenced(p) ==
  /\ Return(p, "debug")
  /\ LockFree
  /\ file' = [file EXCEPT !["dbg"] = usage[p]]
  /\ UNCHANGED <<gen, epoch, epochs>>
  /\ UNCHANGED <<holder, cfg, versions, clock, txn, fails, crashes>>

\* save_bridge_debug_payload, for a record with a diagnosis, fenced by the
\* generation read at the start.
BridgeDebug(p) ==
  /\ Return(p, "debug")
  /\ \/ UNCHANGED store
     \/ /\ LockFree
        /\ ~usage[p].inv
        /\ usage[p].tag = gen
        /\ file' = [file EXCEPT !["dbg"] = usage[p]]
        /\ UNCHANGED <<gen, epoch, epochs>>
  /\ UNCHANGED <<holder, cfg, versions, clock, txn, fails, crashes>>

-----------------------------------------------------------------------------
\* watchdog: a snapshot that blocks the account spares it a fetch.  Whether
\* the snapshot is a usable block is a choice here (module Watchdog).

WatchdogLoad(p) ==
  /\ Goto(p, "idle", "tag_block")
  /\ cfg # 0
  /\ LoadUsage(file["snap"], gen) # NoFile
  /\ seen' = Set(seen, p, LoadUsage(file["snap"], gen))
  /\ UNCHANGED <<holder, cfg, versions, store, clock, acct, g0, usage, seenCur,
                 txn, fails, crashes>>

\* The block is re-tagged with the generation read now.
WatchdogTag(p) ==
  \/ /\ Goto(p, "tag_block", "check_block")
     /\ LockFree
     /\ g0' = Set(g0, p, gen)
     /\ UNCHANGED <<holder, cfg, versions, store, clock, acct, usage, seen,
                    seenCur, txn, fails, crashes>>
  \/ /\ Return(p, "tag_block")
     /\ TimesOut
     /\ UNCHANGED <<holder, cfg, versions, store, clock, txn, fails, crashes>>

\* _blocked_snapshot_generation_is_current, after the others were fetched.
WatchdogCheck(p) ==
  \/ /\ Goto(p, "check_block", "show_block")
     /\ LockFree
     /\ gen = g0[p]
     /\ UNCHANGED <<holder, cfg, versions, store, clock, locals, txn, fails,
                    crashes>>
  \/ /\ Return(p, "check_block")
     /\ (LockFree /\ gen # g0[p]) \/ TimesOut
     /\ UNCHANGED <<holder, cfg, versions, store, clock, txn, fails, crashes>>

WatchdogShow(p) ==
  /\ Return(p, "show_block")
  /\ UNCHANGED <<holder, cfg, versions, store, clock, txn, fails, crashes>>

-----------------------------------------------------------------------------
\* Editors: cli account delete, and add_or_update_account with a changed
\* account.  The configuration is saved first, then the state is removed.

EditBegin(p) ==
  /\ Goto(p, "idle", "save_config")
  /\ LockFree /\ epochs < MaxEpoch
  /\ holder' = p
  /\ \E target \in {0, versions + 1} \cap 0..MaxVersion :
       /\ target # cfg
       /\ acct' = Set(acct, p, target)
  /\ bak' = NoFiles /\ moved' = {} /\ unlinked' = {}
  /\ genBefore' = gen /\ cfgBefore' = cfg /\ epochBefore' = epoch
  /\ filesBefore' = file
  /\ UNCHANGED <<cfg, versions, store, clock, g0, usage, seen, seenCur,
                 rollbackFailed, fails, crashes>>

EditSaveConfig(p) ==
  /\ Goto(p, "save_config", "stage_snap")
  /\ cfg' = acct[p]
  /\ versions' = IF acct[p] = 0 THEN versions ELSE acct[p]
  /\ UNCHANGED <<holder, store, clock, locals, txn, fails, crashes>>

\* One target is renamed into the transaction directory; an error there, or in
\* the service synchronisation before the first one, starts the rollback.
StageFile(p, f, from, to) ==
  \/ /\ Goto(p, from, to)
     /\ IF file[f] = NoFile
        THEN UNCHANGED <<file, bak, moved>>
        ELSE /\ file' = [file EXCEPT ![f] = NoFile]
             /\ bak' = [bak EXCEPT ![f] = file[f]]
             /\ moved' = moved \cup {f}
     /\ UNCHANGED <<holder, cfg, versions, gen, clock, locals, unlinked,
                    genBefore, cfgBefore, fails, crashes, epoch, epochs,
                    epochBefore, filesBefore, rollbackFailed>>
  \/ /\ Goto(p, from, "undo_gen")
     /\ Fault
     /\ UNCHANGED <<holder, cfg, versions, store, clock, locals, txn, crashes>>

Stage(p) ==
  \/ StageFile(p, "snap", "stage_snap", "stage_cur")
  \/ StageFile(p, "cur", "stage_cur", "stage_dbg")
  \/ StageFile(p, "dbg", "stage_dbg", "bump")

\* _increment_state_generation, after everything is staged.
BumpGeneration(p) ==
  /\ \/ /\ Goto(p, "bump", "commit")
        /\ gen' = gen + 1
        /\ epoch' = epochs + 1 /\ epochs' = epochs + 1
        /\ UNCHANGED <<file, fails>>
     \/ Goto(p, "bump", "undo_gen") /\ Fault /\ UNCHANGED store
  /\ UNCHANGED <<holder, cfg, versions, clock, locals, txn, crashes>>

\* commit: the backups are unlinked in directory order, then the directory is
\* removed.  Revoking the bridge token falls between the two in a deferred
\* commit; its failure, like any other here, rolls back what is left.
CommitUnlink(p) ==
  /\ \/ /\ Goto(p, "commit", "commit")
        /\ \E f \in moved \ unlinked :
             /\ bak' = [bak EXCEPT ![f] = NoFile]
             /\ unlinked' = unlinked \cup {f}
        /\ UNCHANGED <<moved, genBefore, cfgBefore, epochBefore, filesBefore,
                       rollbackFailed, fails>>
     \/ Goto(p, "commit", "undo_gen") /\ Fault /\ UNCHANGED txn
  /\ UNCHANGED <<holder, cfg, versions, store, clock, locals, crashes>>

CommitDone(p) ==
  /\ Goto(p, "commit", "committed")
  /\ moved = unlinked
  /\ UNCHANGED <<holder, cfg, versions, store, clock, locals, txn, fails,
                 crashes>>

\* rollback: the generation first, then the files in reverse order, each even
\* if an earlier step failed; a backup that is gone, or a path that is taken,
\* is one more error.
UndoGeneration(p) ==
  /\ Goto(p, "undo_gen", "undo_dbg")
  /\ \/ /\ gen' = genBefore /\ epoch' = epochBefore
        /\ UNCHANGED <<file, epochs, rollbackFailed, fails>>
     \/ Fault /\ rollbackFailed' = TRUE /\ UNCHANGED store
  /\ UNCHANGED <<holder, cfg, versions, clock, locals, bak, moved, unlinked,
                 genBefore, cfgBefore, epochBefore, filesBefore, crashes>>

UndoFile(p, f, from, to) ==
  /\ Goto(p, from, to)
  /\ \/ /\ f \in moved \ unlinked /\ file[f] = NoFile
        /\ file' = [file EXCEPT ![f] = bak[f]]
        /\ bak' = [bak EXCEPT ![f] = NoFile]
        /\ UNCHANGED <<rollbackFailed, fails>>
     \/ /\ f \notin moved
        /\ UNCHANGED <<file, bak, rollbackFailed, fails>>
     \/ /\ f \in unlinked \/ (f \in moved /\ file[f] # NoFile)
        /\ rollbackFailed' = TRUE
        /\ UNCHANGED <<file, bak, fails>>
     \/ /\ Fault /\ rollbackFailed' = TRUE
        /\ UNCHANGED <<file, bak>>
  /\ UNCHANGED <<holder, cfg, versions, gen, clock, locals, moved, unlinked,
                 genBefore, cfgBefore, epoch, epochs, epochBefore,
                 filesBefore, crashes>>

Undo(p) ==
  \/ UndoFile(p, "dbg", "undo_dbg", "undo_cur")
  \/ UndoFile(p, "cur", "undo_cur", "undo_snap")
  \/ UndoFile(p, "snap", "undo_snap", "undo_config")

\* Mutant of UndoConfig: the configuration stays as it was changed.
UndoWithoutConfig(p) ==
  /\ Goto(p, "undo_config", "rolled_back")
  /\ UNCHANGED <<holder, cfg, versions, store, clock, locals, txn, fails,
                 crashes>>

\* restore_account, or saving the previous configuration again.
UndoConfig(p) ==
  /\ Goto(p, "undo_config", "rolled_back")
  /\ \/ cfg' = cfgBefore /\ UNCHANGED <<rollbackFailed, fails>>
     \/ Fault /\ rollbackFailed' = TRUE /\ UNCHANGED cfg
  /\ UNCHANGED <<holder, versions, store, clock, locals, bak, moved, unlinked,
                 genBefore, cfgBefore, epochBefore, filesBefore, crashes>>

\* Mutant of ForgetTransaction: the list of unlinked backups survives.
ForgetAllButUnlinked ==
  /\ bak' = NoFiles /\ moved' = {}
  /\ genBefore' = 0 /\ cfgBefore' = 0 /\ epochBefore' = 0
  /\ filesBefore' = NoFiles /\ UNCHANGED unlinked

ForgetTransaction ==
  /\ bak' = NoFiles /\ moved' = {} /\ unlinked' = {}
  /\ genBefore' = 0 /\ cfgBefore' = 0 /\ epochBefore' = 0
  /\ filesBefore' = NoFiles

EditEnd(p) ==
  /\ Return(p, "committed") \/ Return(p, "rolled_back")
  /\ holder' = NoProc
  /\ ForgetTransaction
  /\ UNCHANGED <<cfg, versions, store, clock, rollbackFailed, fails, crashes>>

-----------------------------------------------------------------------------
\* A process dies.  The kernel drops its lock; a transaction directory it
\* leaves behind is never looked at again.
Crash(p) ==
  /\ pc[p] # "idle"
  /\ Return(p, pc[p])
  /\ crashes < MaxCrashes /\ crashes' = crashes + 1
  /\ \/ holder = p /\ holder' = NoProc /\ ForgetTransaction
     \/ holder # p /\ UNCHANGED <<holder, bak, moved, unlinked, genBefore,
                                  cfgBefore, epochBefore, filesBefore>>
  /\ UNCHANGED <<cfg, versions, store, clock, rollbackFailed, fails>>

Fetch(p) == \/ FetchStart(p) \/ FetchReadGeneration(p) \/ FetchOne(p)
            \/ FetchCheckGeneration(p) \/ FetchStabilize(p) \/ FetchLock(p)
            \/ FetchSaveCurrent(p) \/ FetchSaveSnapshot(p) \/ FetchUnlock(p)

Ingest(p) == \/ BridgeAuthorize(p) \/ BridgeReceive(p) \/ BridgeLoadSnapshot(p)
             \/ BridgeLoadCurrent(p) \/ BridgeDecide(p) \/ BridgeInvalidate(p)
             \/ BridgeSaveSnapshot(p) \/ BridgeSaveCurrent(p) \/ BridgeDebug(p)

Watch(p) == \/ WatchdogLoad(p) \/ WatchdogTag(p) \/ WatchdogCheck(p)
            \/ WatchdogShow(p)

Edit(p) == \/ EditBegin(p) \/ EditSaveConfig(p) \/ Stage(p)
           \/ BumpGeneration(p) \/ CommitUnlink(p) \/ CommitDone(p)
           \/ UndoGeneration(p) \/ Undo(p) \/ UndoConfig(p) \/ EditEnd(p)

Next == \/ \E p \in Fetchers : Fetch(p)
        \/ \E p \in Bridges : Ingest(p)
        \/ \E p \in Watchdogs : Watch(p)
        \/ \E p \in Editors : Edit(p)
        \/ \E p \in Procs : Crash(p)

Spec == Init /\ [][Next]_vars

-----------------------------------------------------------------------------
\* What the files were before the reset transaction that is running, if one is:
\* this is what a successful rollback leads back to.

TransactionLabels ==
  {"save_config", "stage_snap", "stage_cur", "stage_dbg", "bump", "commit",
   "committed", "undo_gen", "undo_dbg", "undo_cur", "undo_snap",
   "undo_config", "rolled_back"}

HeldLabels ==
  TransactionLabels \cup {"save_current", "save_snapshot", "unlock"}

InTransaction ==
  \E p \in Procs : holder = p /\ pc[p] \in TransactionLabels

SettledGen   == IF InTransaction THEN genBefore ELSE gen
SettledEpoch == IF InTransaction THEN epochBefore ELSE epoch
SettledFiles == IF InTransaction THEN filesBefore ELSE file

View(files, generation) ==
  [f \in Cached |-> LoadUsage(files[f], generation)]

-----------------------------------------------------------------------------
\* Properties

Labels == {"idle", "gen", "fetch", "check", "stabilize", "lock",
           "save_current", "save_snapshot", "unlock",
           "receive", "load_snapshot", "load_current", "decide", "invalidate",
           "ingest_snapshot", "ingest_current", "debug",
           "tag_block", "check_block", "show_block",
           "save_config", "stage_snap", "stage_cur", "stage_dbg", "bump",
           "commit", "committed", "undo_gen", "undo_dbg", "undo_cur",
           "undo_snap", "undo_config", "rolled_back"}

Contents == Usage \cup {NoFile}

\* Every variable has its type.
TypeOK ==
  /\ holder \in Procs \cup {NoProc}
  /\ cfg \in Nat /\ versions \in Nat /\ gen \in Nat /\ clock \in Nat
  /\ file \in [Files -> Contents]
  /\ pc \in [Procs -> Labels]
  /\ acct \in [Procs -> Nat] /\ g0 \in [Procs -> Nat]
  /\ usage \in [Procs -> Contents]
  /\ seen \in [Procs -> Contents] /\ seenCur \in [Procs -> Contents]
  /\ bak \in [Files -> Contents]
  /\ moved \subseteq Files /\ unlinked \subseteq moved
  /\ genBefore \in Nat /\ cfgBefore \in Nat /\ epochBefore \in Nat
  /\ fails \in Nat /\ crashes \in Nat
  /\ epoch \in Nat /\ epochs \in Nat
  /\ filesBefore \in [Files -> Contents]
  /\ rollbackFailed \in BOOLEAN

\* The lock is held exactly by the process inside a section of several
\* operations.
LockInv ==
  \A p \in Procs : holder = p <=> pc[p] \in HeldLabels

\* A process that is past its fetch has a record in hand, and one that
\* invalidates knows a record.
InHand ==
  \A p \in Procs :
    /\ pc[p] \in {"check", "stabilize", "lock", "save_current",
                  "save_snapshot", "load_snapshot", "load_current", "decide",
                  "invalidate", "ingest_snapshot", "ingest_current", "debug"}
         => usage[p] # NoFile
    /\ pc[p] = "invalidate" => Known(p) # NoFile

FromEpoch(u, e) == \A o \in u.limits : o.ep = e

\* Limits tagged with the settled generation are of the settled epoch, and no
\* tag is ahead of it.
Fenced(limits, tag) ==
  /\ tag <= SettledGen
  /\ tag = SettledGen => \A o \in limits : o.ep = SettledEpoch

FileFence ==
  \A f \in Cached : SettledFiles[f] # NoFile =>
    /\ SettledFiles[f].tag \in Nat
    /\ Fenced(SettledFiles[f].limits, SettledFiles[f].tag)

\* The same for the record a process has in hand: before the second look at the
\* generation its tag-to-be is the generation read before the fetch.
HandFenced(p) ==
  /\ pc[p] \in {"fetch", "check"} => g0[p] <= SettledGen
  /\ pc[p] = "stabilize" => usage[p].tag # NoTag
  /\ usage[p] # NoFile =>
       IF pc[p] = "check"
       THEN usage[p].tag = NoTag /\ Fenced(usage[p].limits, g0[p])
       ELSE IF usage[p].tag = NoTag
       THEN usage[p].limits = {}
       ELSE Fenced(usage[p].limits, usage[p].tag)

HandFence == \A p \in Procs : HandFenced(p)

\* A running transaction only moves the files aside and back, and the
\* generation is ahead of the settled one exactly when the epoch is.
TransactionInv ==
  /\ epoch <= epochs
  /\ InTransaction =>
       /\ \/ gen = genBefore /\ epoch = epochBefore
          \/ gen > genBefore /\ epoch > epochBefore
       /\ epochBefore <= epochs
       /\ \A f \in Files : /\ file[f] \in {filesBefore[f], NoFile}
                          /\ bak[f] \in {filesBefore[f], NoFile}

\* The inductive invariant of AccountState_proofs.
Inductive ==
  TypeOK /\ LockInv /\ InHand /\ FileFence /\ HandFence /\ TransactionInv

\* Where a reset can have put a file: not touched, moved aside, erased, or put
\* back.
Untouched(f) == f \notin moved /\ file[f] = filesBefore[f] /\ bak[f] = NoFile
Aside(f) == /\ f \in moved \ unlinked /\ file[f] = NoFile
            /\ bak[f] = filesBefore[f] /\ filesBefore[f] # NoFile
Erased(f) == f \in unlinked /\ file[f] = NoFile /\ bak[f] = NoFile
Back(f) == f \in moved \ unlinked /\ file[f] = filesBefore[f] /\ bak[f] = NoFile

\* The places of a reset from one on; a rollback may begin in each of them.
FromDone     == {"committed"}
FromCommit   == {"commit"} \cup FromDone
FromBump     == {"bump"} \cup FromCommit
FromDebug    == {"stage_dbg"} \cup FromBump
FromCurrent  == {"stage_cur"} \cup FromDebug
FromSnapshot == {"stage_snap"} \cup FromCurrent

\* The places of a rollback from one on.
Restored     == {"rolled_back"}
SnapshotBack == {"undo_config"} \cup Restored
CurrentBack  == {"undo_snap"} \cup SnapshotBack
DebugBack    == {"undo_cur"} \cup CurrentBack
GenBack      == {"undo_dbg"} \cup DebugBack
Undoing      == {"undo_gen"} \cup GenBack

\* What the process in the transaction has done so far.
FilesPlaced(p) ==
  \A f \in Files : \/ Untouched(f) \/ Aside(f) \/ Erased(f)
                   \/ pc[p] \in Undoing /\ Back(f)

Erasing(p) ==
  /\ pc[p] \in FromCurrent => file["snap"] = NoFile
  /\ pc[p] \in FromDebug => file["cur"] = NoFile
  /\ pc[p] \in FromBump => file["dbg"] = NoFile
  /\ pc[p] \in FromDone => moved = unlinked
  /\ pc[p] \in FromSnapshot => cfg = acct[p]
  /\ gen = IF pc[p] \in FromCommit THEN genBefore + 1 ELSE genBefore

Restoring(p) ==
  /\ pc[p] = "undo_gen" /\ gen # genBefore => file["dbg"] = NoFile
  /\ ~rollbackFailed =>
       /\ pc[p] \in GenBack => gen = genBefore
       /\ pc[p] \in DebugBack => file["dbg"] = filesBefore["dbg"]
       /\ pc[p] \in CurrentBack => file["cur"] = filesBefore["cur"]
       /\ pc[p] \in SnapshotBack => file["snap"] = filesBefore["snap"]
       /\ pc[p] \in Restored => cfg = cfgBefore

InPlace(p) ==
  FilesPlaced(p) /\ IF pc[p] \in Undoing THEN Restoring(p) ELSE Erasing(p)

\* The strengthening of ResetIsAllOrNothing and DebugFence.
ResetInv ==
  /\ ~InTransaction => moved = {}
  /\ \A p \in Procs : pc[p] \in TransactionLabels => InPlace(p)

\* The debug dump from before a transaction is of the epoch before it.
DebugSettled ==
  SettledFiles["dbg"] # NoFile /\ ~rollbackFailed =>
    \A o \in SettledFiles["dbg"].limits : o.ep = SettledEpoch

\* The generation fence: limits a reader can see were fetched after the last
\* reset of the account, or came with a payload that took its generation after
\* it, whatever fetches were in flight, whoever crashed and whatever the reset
\* rolled back.
GenerationFence ==
  \A f \in Cached :
    LoadUsage(file[f], gen) # NoFile => FromEpoch(file[f], epoch)

\* The debug dump has no generation tag, so only its removal keeps a dump of
\* the old account from being read after a reset.
DebugFence ==
  file["dbg"] # NoFile /\ ~rollbackFailed => FromEpoch(file["dbg"], epoch)

\* A reset that reports success erased all three files and its backups.
ResetErases ==
  \A p \in Editors : pc[p] = "committed" =>
    /\ file = NoFiles /\ bak = NoFiles
    /\ gen = genBefore + 1
    /\ cfg = acct[p]

\* A reset that fails and reports no failed rollback left the generation, the
\* configuration and all three files as they were.
RollbackRestores ==
  \A p \in Editors : pc[p] = "rolled_back" /\ ~rollbackFailed =>
    /\ gen = genBefore /\ cfg = cfgBefore
    /\ file = filesBefore

\* A backup always has a free path to return to: the rollback never finds
\* that the state path appeared during the reset.
StagedPathStaysFree ==
  \A f \in moved : bak[f] # NoFile => file[f] = NoFile

\* A reset is all or nothing: it has erased everything when it succeeds and
\* changed nothing when it fails, and nobody takes a path it may need again.
ResetIsAllOrNothing == ResetErases /\ RollbackRestores /\ StagedPathStaysFree

\* After a reset neither a cached file nor a debug dump shows what was fetched,
\* or had taken its generation, before it.  When a page captured a payload, and
\* when its request was authorized, is not fenced: NoDumpOfDeletedAccount.
ResetFence == GenerationFence /\ DebugFence

\* Between two loads of the same generation a cached file never goes back to
\* an older capture, nor at the same instant to a less trusted backend,
\* whatever the order in which fetches and payloads land.
CaptureStands ==
  \A f \in Cached :
    LET old == LoadUsage(file[f], gen)
        new == LoadUsage(file'[f], gen')
    IN  old # NoFile /\ new # NoFile =>
          \/ new.cap > old.cap
          \/ /\ new.cap = old.cap
             /\ BackendCapturePriority(new) >= BackendCapturePriority(old)
CaptureNeverRegresses == [][CaptureStands]_vars

\* Under the lock the account behaves like UsageCache: from its first step to
\* its last the reset transaction shows what was there before it began.
Cache == INSTANCE UsageCache WITH view  <- View(SettledFiles, SettledGen),
                                  since <- SettledEpoch

ImplementsUsageCache == Cache!CacheSpec

\* models.py: the generation prevents an in-flight pre-reconfiguration result
\* from recreating state after the account was reset.
NoResultRecreatesState ==
  \A f \in Cached :
    LoadUsage(file[f], gen) # NoFile => \A o \in file[f].aux : o.ep = epoch

\* CHANGELOG 0.6.249: fetches in flight write no old state back after the
\* account was reconfigured, so outside an edit the files show no limits of
\* another configuration than the current one.
NoValuesOfOldConfiguration ==
  \A f \in Cached :
    LoadUsage(file[f], gen) # NoFile /\ LockFree
      => \A o \in file[f].limits : o.cv = cfg

\* CHANGELOG 0.6.252: debug dumps are protected by the lock and the generation,
\* and a late callback brings no old one back after the account was deleted.
NoDumpOfDeletedAccount == cfg = 0 /\ LockFree => file["dbg"] = NoFile

\* CHANGELOG 0.6.249: state of an old generation is discarded after a reset,
\* also when it is a block the watchdog reuses.
ReusedBlockIsCurrent ==
  [][\A p \in Watchdogs : pc[p] = "check_block" /\ pc'[p] = "show_block"
       => seen[p].tag = gen]_vars

\* bridge.py: a browser payload cannot replace current authenticated state.
AuthenticatedStateStands ==
  [][\A p \in Bridges : pc[p] = "ingest_current" /\ pc'[p] = "debug"
        /\ CoveredBy(LoadUsage(file["cur"], gen), usage[p], Freshness)
       => file'["cur"] = file["cur"]]_vars
=============================================================================
