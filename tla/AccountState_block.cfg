CONSTANTS
  NoFile = NoFile  NoTag = NoTag  NoProc = NoProc
  Fetchers = {f1}  Bridges = {}  Watchdogs = {w1}  Editors = {e1}
  FetchBackends = {"direct"}  Freshness = 1
  MaxEpoch = 1  MaxClock = 1  MaxVersion = 2  MaxFails = 0  MaxCrashes = 0
SPECIFICATION Spec
CHECK_DEADLOCK FALSE
PROPERTIES ReusedBlockIsCurrent
