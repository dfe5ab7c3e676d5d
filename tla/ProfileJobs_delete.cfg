SPECIFICATION Spec
CONSTANTS
  Jobs = {j1}
  Clients = {k1}
  NoJob = NoJob
  NoOne = NoOne
  MaxFaults = 0
  MaxCrashes = 0
PROPERTIES DeleteReachesLogin
CHECK_DEADLOCK FALSE
