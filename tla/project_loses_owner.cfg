SPECIFICATION Spec
CONSTANTS
  A = A
  B = B
  C = C
  P = P
  Q = Q
  T1 = T1
  T2 = T2
  NoUser = NoUser
  NoRow = NoRow
  NoRequest = NoRequest
  Users <- MCUsers
  Projects <- MCProjects
  Threads <- MCThreads
  Admin = A
  Level = 3
  Bonus = 10
  First <- MCFirst
  Registered <- MCRegistered
  Requests <- OnlyPuts
  MaxRequests = 2
  MaxFaults = 0
INVARIANT ProjectKeepsOwner
CHECK_DEADLOCK FALSE
