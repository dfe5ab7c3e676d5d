SPECIFICATION Spec
CONSTANTS
  Jobs = {j1, j2}
  Clients = {k1}
  NoJob = NoJob
  NoOne = NoOne
  MaxFaults = 2
  MaxCrashes = 1
INVARIANTS TypeOK LoginIsTracked LoggedInHasAuth NoOrphanCredentials
PROPERTIES CompletedIsLoggedIn TerminalIsFinal EraseAfterJobs
CONSTRAINT FaultsOrCrash
SYMMETRY JobsAreAlike
CHECK_DEADLOCK FALSE
