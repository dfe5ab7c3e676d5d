------------------------------ MODULE MCSystem -------------------------------
(***************************************************************************)
(* The parts around the usage of an account, for model checking: the       *)
(* stores and installers (MCStores), the browser side, the control client, *)
(* the applet, the watchdog, one authenticated fetch and the choice among  *)
(* its samples (MCClients), and the parts whose proofs are modules of      *)
(* their own: locks and the synchronisation of logins.                     *)
(*                                                                         *)
(* Each part runs by itself: it shares no state with the others, so that   *)
(* one run can check them side by side. A behaviour belongs to one part,   *)
(* which the initial state chooses; the part's variables take the places   *)
(* of MCPlaces.                                                            *)
(***************************************************************************)
EXTENDS MCStores, MCClients

CONSTANTS
    Threads, MaxSyncs, MaxLogins, LastMark

-----------------------------------------------------------------------------
\* Locks.

Locking == INSTANCE Locks_proofs WITH
    routine <- v1, todo <- v2, stack <- v3, request <- v4, known <- v5

\* What Locks_proofs takes of the commands: TLC computes it.
ASSUME LockingAssumption == Locking!RoutinesOrdered

LockingInit == part = "locks" /\ Locking!Init /\ Spare6
LockingMoves == part = "locks" /\ Locking!Next /\ UNCHANGED part /\ Keep6

-----------------------------------------------------------------------------
\* Synchronisation of logins.

Sync == INSTANCE AuthSync_proofs WITH
    local <- v1, newest <- v2, login <- v3, backup <- v4, unmarked <- v5, flag <- v6,
    holder <- v7, sync <- v8, server <- v9, late <- v10

\* What AuthSync_proofs takes from the bounds.
ASSUME SyncAssumption == Sync!SyncConstants

SyncInit == part = "sync" /\ Sync!Init /\ Spare11
SyncMoves == part = "sync" /\ Sync!Next /\ UNCHANGED part /\ Keep11

-----------------------------------------------------------------------------
Init ==
    \/ WriteInit
    \/ PoolInit
    \/ EvidenceInit
    \/ MaintainInit
    \/ ReleaseInit
    \/ ServiceInit
    \/ DeleteInit
    \/ MigrateInit
    \/ LockingInit
    \/ QuarantineInit
    \/ PageInit
    \/ BridgeInit
    \/ SyncInit
    \/ RefreshInit
    \/ AuxInit
    \/ CacheInit
    \/ CallInit
    \/ WatchdogInit
    \/ FetchInit
    \/ ChoiceInit
    \/ GoogleInit

Next ==
    \/ WriteMoves
    \/ PoolMoves
    \/ EvidenceMoves
    \/ MaintainMoves
    \/ ReleaseMoves
    \/ ServiceMoves
    \/ DeleteMoves
    \/ MigrateMoves
    \/ LockingMoves
    \/ QuarantineMoves
    \/ PageMoves
    \/ BridgeMoves
    \/ SyncMoves
    \/ RefreshMoves
    \/ AuxMoves
    \/ CacheMoves
    \/ CallMoves
    \/ WatchdogMoves
    \/ FetchMoves
    \/ ChoiceMoves
    \/ GoogleMoves

Spec == Init /\ [][Next]_places

-----------------------------------------------------------------------------
\* Type invariant of every part.
TypeOK ==
    /\ part = "write" => Write!TypeOK
    /\ part = "pool" => Pool!TypeOK
    /\ part = "evidence" => Evidence!TypeOK
    /\ part = "maintain" => Maintain!TypeOK
    /\ part = "release" => Release!TypeOK
    /\ part = "service" => Service!TypeOK
    /\ part = "delete" => Delete!TypeOK
    /\ part = "migrate" => Migrate!TypeOK
    /\ part = "locks" => Locking!TypeOK
    /\ part = "quarantine" => Quarantine!TypeOK
    /\ part = "page" => Page!TypeOK
    /\ part = "bridge" => Bridge!TypeOK
    /\ part = "sync" => Sync!TypeOK
    /\ part = "refresh" => Refresh!TypeOK
    /\ part = "aux" => Aux!TypeOK
    /\ part = "cache" => Cache!TypeOK
    /\ part = "call" => Call!TypeOK
    /\ part = "watchdog" => Watchdog!TypeOK
    /\ part = "fetch" => Fetch!TypeOK
    /\ part = "samples" => Choice!TypeOK
    /\ part = "google" => Google!TypeOK

\* private_io.py: a reader, and a power loss, find the old text of a private
\* file or the new one, never a torn one, and what the writer reports of it is
\* true.
WriteIsAtomic == part = "write" => Write!OldOrNew /\ Write!ReportIsTrue

\* pool_authority_owner.py: whenever there is no marker, after any deaths and
\* recoveries, the source file is what the configuration says.
SourceAgrees == part = "pool" => Pool!SourceAgrees

\* integration_evidence.py: the pointer never names a generation that is
\* partly written or partly collected, a recovery puts there the old one or
\* the new one, and a writer that reports success or failure is right.
EvidenceStands ==
    /\ part = "evidence" => Evidence!PointerComplete
    /\ part = "evidence" => Evidence!RecoveryKeepsPointer
    /\ part = "evidence" => Evidence!OutcomeIsTrue

\* integration_installer.py: the active manifest always names a complete
\* release that was built from the source it is named after, and an
\* installation that reports failure has left the manifest it found.
ReleaseIsWhole ==
    /\ part = "release" => Release!ActiveIsWhole
    /\ part = "release" => Release!ReportMatches

\* service.py: a job that the timer starts never runs a mixture of two
\* installations, and a command that reports failure has left what it found.
ServiceIsWhole ==
    /\ part = "service" => Service!TimerRunsWhole
    /\ part = "service" => Service!FailureRestores

\* cli.py, state.py: an account that the configuration names has its profile,
\* and its usage files all or none, but while an addition erases them, after a
\* death in that, or after a failure to put something back.
ConfiguredIsWhole == part = "delete" => Delete!ConfiguredIsWhole

\* profile_migration.py: a migration that failed or was rolled back leaves
\* nothing of its making unnamed, and removes no login but one that came in
\* its very last moment.
MigrationIsUndone == part = "migrate" => Migrate!MigrationIsUndone

\* account_lock.py, source_lock.py, private_io.py: however the commands meet,
\* no threads wait for each other in a circle.
NoCircularWait == part = "locks" => Locking!NoCircularWait

\* private_io.py: what a run reports as moved to the quarantine is there, as
\* it was approved, and is reported by no other run.
CommittedIsKept == part = "quarantine" => Quarantine!CommittedIsKept

\* bridge.py, the page script: the usage that is sent was requested after the
\* sending began, so that its capture time is true.
PayloadIsFresh == part = "page" => Page!PayloadIsFresh

\* bridge.py: every way a connection can end gives its slot back, and outside
\* of an exchange the files of the extension are of one build.
BridgeIsWhole == part = "bridge" => Bridge!SlotsReturn /\ Bridge!OneBuild

\* masterjet_auth_sync.py: an account that is not marked for synchronisation
\* has the credentials that the service has.
FlagIsHonest == part = "sync" => Sync!FlagIsHonest

\* applet.js: a fetch that the applet remembers has a command running whose
\* answer will start it.
NothingWaitsInVain == part = "refresh" => Refresh!NothingWaitsInVain

\* applet.js: a login that is shown as active has a job, a process or a
\* waiting request.
ActiveLoginIsReal == part = "aux" => Aux!ActiveLoginIsReal

\* masterjet_cache.py: a load finds the snapshot whose save succeeded last, or
\* one whose save began later, whole.
LoadIsDue == part = "cache" => Cache!LoadIsDue

\* masterjet_client.py, google_accounts.py: each resolver process belongs to a
\* call or waits for the reaper, and each open callback listener has a timer
\* that will close it, or blocks every change.
NothingIsLeftOpen ==
    /\ part = "call" => Call!NoWorkerIsLost
    /\ part = "google" => Google!NoListenerIsLost

\* integration_watchdog.py: a run always ends within its budget, and no
\* process that it started outlives it unless it says so.
RunEndsClean == part = "watchdog" => Watchdog!RunEndsClean

\* scheduler.py, app_server.py, direct.py: what a successful fetch records
\* under the login of auth.json are the values of that login, as far as the
\* code can tell.
AnswerIsOwn == part = "fetch" => Fetch!AnswerIsOwn

\* direct.py: the answer chosen from the samples is the latest one or one that
\* most of them repeat, and no older value outvotes a reset that the latest
\* shows.
ChosenIsCurrent == part = "samples" => Choice!ChosenIsCurrent

\* state_maintenance.py: the last state saved of an account is always in
\* exactly one place, and what a transaction took away never becomes the state
\* of an account that is configured again.
MaintenanceIsSafe ==
    /\ [](part = "maintain" => Maintain!NothingLost)
    /\ [][part = "maintain" => Maintain!StaleStays]_places

=============================================================================
