SPECIFICATION LiveSpec
CONSTANTS
  Jobs = {j1}
  Clients = {k1, k2}
  NoJob = NoJob
  NoOne = NoOne
  MaxFaults = 1
  MaxCrashes = 1
  Applet = k1
  Interval = 3
  MaxFailures = 3
PROPERTIES TrackedEnds BlockEnds LoopLives
CHECK_DEADLOCK FALSE
