SPECIFICATION Spec
CONSTANTS
  Releases <- MCReleases
  Parsed <- MCParsed
  Radix = 100
  First <- MCFirst
  Paths <- MCPaths
  Life = 1
  MaxTime = 2
  MaxManifests = 2
  MaxRevocations = 2
PROPERTIES
  RevokedStaysOut
  NeverBackwards
