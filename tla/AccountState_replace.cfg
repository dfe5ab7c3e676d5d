CONSTANTS
  NoFile = NoFile  NoTag = NoTag  NoProc = NoProc
  Fetchers = {f1}  Bridges = {b1}  Watchdogs = {}  Editors = {}
  FetchBackends = {"direct"}  Freshness = 1
  MaxEpoch = 0  MaxClock = 2  MaxVersion = 1  MaxFails = 0  MaxCrashes = 0
SPECIFICATION Spec
CHECK_DEADLOCK FALSE
PROPERTIES AuthenticatedStateStands
