SPECIFICATION Spec
CONSTANTS
  Requests = {r1}
  k = k
  l = l
  m = m
  x = x
  Bodies <- LeakBodies
  Replies <- AllReplies
  Ladder <- MCLadder
  Allowlist <- MCAllowlist
  MaxSessions = 1
  MaxEcho = 1
INVARIANT EveryDetectedByteRedacted
CHECK_DEADLOCK FALSE
