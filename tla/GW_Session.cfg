SPECIFICATION FairSessionSpec
CONSTANTS
  Gateways = {g1, g2}
  Commands = {c1}
  Ports = {1, 2}
  Hosts <- MCHosts
  Origins <- MCOrigins
  NoOrigin <- MCNoOrigin
  Nobody = Nobody
  MaxRequests = 1
INVARIANTS
  FilesDescribeGateway
  CleanExitCutsNothing
PROPERTIES
  InterruptEnds
CHECK_DEADLOCK FALSE
