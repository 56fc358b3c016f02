SPECIFICATION CalmSpec
CONSTANTS
  A = A
  B = B
  P = P
  S1 = S1
  S2 = S2
  NoUser = NoUser
  NoRow = NoRow
  Clean = Clean
  Users <- MCUsers
  Projects <- MCProjects
  Sessions <- TwoSessions
  Requests <- GiveAndClose
  Opening <- MCOpening
  MaxRetries = 1
  MaxNow = 0
  MaxCalls = 2
PROPERTIES
  DeleteTakesOwnProjects
CHECK_DEADLOCK FALSE
