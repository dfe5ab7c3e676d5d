------------------------------ MODULE MCStores -------------------------------
(***************************************************************************)
(* The parts of MCSystem that keep files: private files, the pool,         *)
(* evidence, the state of unconfigured accounts, releases, service units,  *)
(* profiles, credentials and quarantined lock files.                       *)
(***************************************************************************)
EXTENDS MCPlaces

CONSTANTS
    Texts, NoText, Torn, MaxFaults, MaxCrashes, AccountSets, Records,
    MaxGeneration, NoSource, MaxMarkers, MaxErrors, Nil, Kept, MaxIds,
    MaxEvidenceFaults, Owners, NoState,
    MaxVersions, MaxEditions, MaxSlips, NoRelease, MaxEdits, MaxMishaps,
    Missing, MaxInstalls, MaxSetbacks, MaxTroubles, Members, MaxIncidents,
    Runs, Names, Free, MaxResidues, MaxDisturbances

\* What MCStores_proofs takes from the bounds.
ASSUME StoreBounds ==
    {MaxFaults, MaxCrashes, MaxEvidenceFaults, MaxVersions, MaxSlips, MaxTroubles} \subseteq Nat

-----------------------------------------------------------------------------
\* Private files.

Write == INSTANCE PrivateWrite WITH
    NoFile <- NoText, dir <- v1, images <- v2, pc <- v3, create <- v4, text <- v5,
    before <- v6, maybe <- v7, result <- v8, removed <- v9, faults <- v10, crashes <- v11

\* What MCStores_proofs takes from the constants.
ASSUME WriteAssumption == Write!WriteConstants

WriteInit == part = "write" /\ Write!Init /\ Spare12
WriteMoves == part = "write" /\ Write!Next /\ UNCHANGED part /\ Keep12

-----------------------------------------------------------------------------
\* Pool authority.

Pool == INSTANCE PoolAuthority WITH
    config <- v1, source <- v2, pending <- v3, step <- v4, op <- v5, marker <- v6,
    capture <- v7, taken <- v8, markers <- v9, errors <- v10

\* What MCStores_proofs takes from the constants.
ASSUME PoolAssumption == Pool!PoolConstants

PoolInit == part = "pool" /\ Pool!Init /\ Spare11
PoolMoves == part = "pool" /\ Pool!Next /\ UNCHANGED part /\ Keep11

-----------------------------------------------------------------------------
\* Evidence.

Evidence == INSTANCE EvidencePublish WITH
    complete <- v1, staging <- v2, current <- v3, commit <- v4, stash <- v5, at <- v6,
    task <- v7, old <- v8, new <- v9, outcome <- v10, reading <- v11, made <- v12,
    failures <- v13

\* What MCStores_proofs takes from the constants.
ASSUME EvidenceAssumption == Evidence!EvidenceConstants

EvidenceInit == part = "evidence" /\ Evidence!Init /\ Spare14
EvidenceMoves == part = "evidence" /\ Evidence!Next /\ UNCHANGED part /\ Keep14

-----------------------------------------------------------------------------
\* State maintenance.

Maintain == INSTANCE StateMaintenance WITH
    Accounts <- Owners, Absent <- NoState, configured <- v1, edition <- v2, live <- v3,
    written <- v4, journal <- v5, hold <- v6, quarantined <- v7, phase <- v8, mode <- v9,
    todo <- v10, spoilt <- v11, slips <- v12

\* What MCStores_proofs takes from the constants.
ASSUME MaintainAssumption == Maintain!MaintenanceConstants

MaintainInit == part = "maintain" /\ Maintain!Init /\ Spare13
MaintainMoves == part = "maintain" /\ Maintain!Next /\ UNCHANGED part /\ Keep13

-----------------------------------------------------------------------------
\* The installer.

Release == INSTANCE ReleaseInstall WITH
    None <- NoRelease, tree <- v1, released <- v2, manifest <- v3, artifact <- v4,
    stage <- v5, digest <- v6, copy <- v7, earlier <- v8, report <- v9, edits <- v10,
    mishaps <- v11

\* What MCStores_proofs takes from the constants.
ASSUME ReleaseAssumption == Release!ReleaseConstants

ReleaseInit == part = "release" /\ Release!Init /\ Spare12
ReleaseMoves == part = "release" /\ Release!Next /\ UNCHANGED part /\ Keep12

-----------------------------------------------------------------------------
\* The service units.

Service == INSTANCE ServiceInstall WITH
    runtime <- v1, aside <- v2, unit <- v3, staged <- v4, entry <- v5, timer <- v6, spot <- v7,
    command <- v8, rescue <- v9, amiss <- v10, was <- v11, answer <- v12, built <- v13,
    inode <- v14, setbacks <- v15

\* What MCStores_proofs takes from the constants.
ASSUME ServiceAssumption == Service!ServiceConstants

ServiceInit == part = "service" /\ Service!Init /\ Spare16
ServiceMoves == part = "service" /\ Service!Next /\ UNCHANGED part /\ Keep16

-----------------------------------------------------------------------------
\* Deleting an account.

Delete == INSTANCE AccountDelete WITH
    listed <- v1, profile <- v2, bundle <- v3, token <- v4, doing <- v5, wanted <- v6,
    cause <- v7, fresh <- v8, mess <- v9, verdict <- v10, troubles <- v11,
    torn <- v12, before <- v13

DeleteInit == part = "delete" /\ Delete!Init /\ Spare14
DeleteMoves == part = "delete" /\ Delete!Next /\ UNCHANGED part /\ Keep14

-----------------------------------------------------------------------------
\* Moving credentials to the new layout.

Migrate == INSTANCE AuthMigration WITH
    targets <- v1, homes <- v2, unfit <- v3, ledger <- v4, entries <- v5, plan <- v6,
    march <- v7, rest <- v8, placed <- v9, examined <- v10, complaints <- v11,
    residue <- v12, wiped <- v13, raced <- v14, incidents <- v15

\* What MCStores_proofs takes from the constants.
ASSUME MigrateAssumption == Migrate!MigrationConstants

MigrateInit == part = "migrate" /\ Migrate!Init /\ Spare16
MigrateMoves == part = "migrate" /\ Migrate!Next /\ UNCHANGED part /\ Keep16

-----------------------------------------------------------------------------
\* Quarantined lock files.

Quarantine == INSTANCE LockQuarantine WITH
    place <- v1, vault <- v2, appeared <- v3, rootTimes <- v4, vaultTimes <- v5,
    aboveTimes <- v6, at <- v7, report <- v8, moving <- v9, moved <- v10, seen <- v11,
    ending <- v12, disturbances <- v13

\* What MCStores_proofs takes from the constants.
ASSUME QuarantineAssumption == Quarantine!QuarantineConstants

QuarantineInit == part = "quarantine" /\ Quarantine!Init /\ Spare14
QuarantineMoves == part = "quarantine" /\ Quarantine!Next /\ UNCHANGED part /\ Keep14

=============================================================================
