CONSTANTS
  Texts = {t1, t2}  NoText = NoText  Torn = Torn  MaxFaults = 1  MaxCrashes = 1
  AccountSets = {a, b}  Records = {r1, r2}  MaxGeneration = 2  NoSource = NoSource  MaxMarkers = 3  MaxErrors = 3
  Nil = Nil  Kept = 2  MaxIds = 4  MaxEvidenceFaults = 3
  Owners = {1, 2, 3}  NoState = NoState  MaxVersions = 2  MaxEditions = 3  MaxSlips = 2
  NoRelease = NoRelease  MaxEdits = 3  MaxMishaps = 3
  Missing = Missing  MaxInstalls = 3  MaxSetbacks = 3
  MaxTroubles = 3
  Members = {m1,m2}  MaxIncidents = 3
  Threads = {t1, t2}
  Runs = {r1, r2}  Names = {a, b}  Free = Free  MaxResidues = 3  MaxDisturbances = 1
  MaxSends = 2  MaxRequests = 3  MaxFlushes = 1
  Clients = {c1, c2}  MaxConnections = 1  MaxTokens = 2  MaxUpsets = 2
  MaxSyncs = 2  MaxLogins = 2  LastMark = 2
  MaxAgenda = 6
  Users = {a1, a2}  NoUser = NoUser  MaxDeferred = 1  MaxQueries = 1  MaxPlan = 3  MaxAsked = 2
  NoSnapshot = NoSnapshot  MaxSaves = 3  MaxFailures = 3
  Callers = {k1, k2}  MaxWorkers = 2  MaxLookups = 2
  Generic = 2  Attestation = 2  Self = 2  PublishTime = 3  CleanupTime = 2  Total = 11  MaxInstallations = 1
  MaxSwitches = 2  MaxRepeats = 1
  Samples = 3  Attempts = 1  Span = 2  Margin = 0  Jump = 1  MaxUsed = 2  MaxMoves = 2  MaxOddities = 1
  MaxTries = 3  MaxRounds = 3
INIT Init
NEXT Next
CHECK_DEADLOCK FALSE
INVARIANTS
  TypeOK WriteIsAtomic SourceAgrees EvidenceStands ReleaseIsWhole
  ServiceIsWhole ConfiguredIsWhole MigrationIsUndone NoCircularWait
  CommittedIsKept PayloadIsFresh BridgeIsWhole FlagIsHonest
  NothingWaitsInVain ActiveLoginIsReal LoadIsDue NothingIsLeftOpen
  RunEndsClean AnswerIsOwn ChosenIsCurrent
PROPERTIES MaintenanceIsSafe
