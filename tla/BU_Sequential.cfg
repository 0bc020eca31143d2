SPECIFICATION Spec
CONSTANTS
  Procs = {p1}
  MaxSerial = 3
  VersionOf <- MCVersionOf
  MaxFaults = 4
  SelfHosted = FALSE
  StaleFeed = FALSE
  MayVanish = FALSE
  Absent = Absent
  Torn = Torn
INVARIANTS TypeOK FailureKeepsBinary MarkCovered
PROPERTIES AtomicSpec
