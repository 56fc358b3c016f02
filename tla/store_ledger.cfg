SPECIFICATION Spec
CONSTANTS
  A = A
  B = B
  P = P
  S1 = S1
  S2 = S2
  NoUser = NoUser
  NoRow = NoRow
  Clean = Clean
  Users <- MCUsers
  Projects <- MCProjects
  Sessions <- TwoSessions
  Requests <- ComparedRequests
  Opening <- OpeningWithoutB
  MaxRetries = 1
  MaxNow = 1
  MaxCalls = 3
INVARIANTS
  ProjectIsSumOfRelations
  OwnerIsRelated
PROPERTIES
  ImplementsLedger
CHECK_DEADLOCK FALSE
