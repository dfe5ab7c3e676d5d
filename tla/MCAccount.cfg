CONSTANTS
  NoFile = NoFile  NoTag = NoTag  NoProc = NoProc
  Fetchers = {f1}  Bridges = {b1}  Watchdogs = {w1}  Editors = {e1}
  FetchBackends = {"direct"}  Freshness = 1
  MaxEpoch = 1  MaxClock = 1  MaxVersion = 2  MaxFails = 1  MaxCrashes = 0
INIT AccountInit
NEXT AccountNext
CHECK_DEADLOCK FALSE
INVARIANTS ResetFence
PROPERTIES CaptureNeverRegresses
