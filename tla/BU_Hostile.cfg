SPECIFICATION Spec
CONSTANTS
  Procs = {p1}
  MaxSerial = 3
  VersionOf <- MCVersionOf
  MaxFaults = 4
  SelfHosted = FALSE
  StaleFeed = TRUE
  MayVanish = TRUE
  Absent = Absent
  Torn = Torn
INVARIANTS Recoverable RepairedRuns
