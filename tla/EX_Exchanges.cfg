SPECIFICATION Spec
CONSTANTS
  Requests = {r1, r2}
  k = k
  l = l
  m = m
  x = x
  Bodies <- AllBodies
  Replies <- AllReplies
  Ladder <- MCLadder
  Allowlist <- MCAllowlist
  MaxSessions = 2
  MaxEcho = 1
INVARIANTS SentIsMapped NeverWrongSecret RoundTrip DetectedNeverLeaks RefusedNeverSent StatusAccounts
PROPERTIES EveryRequestAnswered
CHECK_DEADLOCK FALSE
