CONSTANTS
  NoFile = NoFile  NoTag = NoTag  NoProc = NoProc
  Fetchers = {f1}  Bridges = {}  Watchdogs = {}  Editors = {e1}
  FetchBackends = {"direct"}  Freshness = 1
  MaxEpoch = 2  MaxClock = 1  MaxVersion = 2  MaxFails = 1  MaxCrashes = 1
  Readers = {r1, r2}  MaxAge = 2  MaxTime = 2  MaxUnrest = 1
  Horizon = 4  Cycle = 3  Gap = 1  Stale = 1  Lookbacks = {1,3}  MaxSamples = 3  MaxCounter = 2  MaxUpheavals = 1
SPECIFICATION UsageSpec
CHECK_DEADLOCK FALSE
INVARIANTS
  TypeOK PartsTypeOK GenerationFence ResetIsAllOrNothing ShownIsDated
  ConsumptionIsTrue
PROPERTIES ImplementsUsageCache
