SPECIFICATION FairSpec
CONSTANTS
  A = A
  B = B
  P = P
  S1 = S1
  S2 = S2
  NoUser = NoUser
  NoRow = NoRow
  Clean = Clean
  Users <- MCUsers
  Projects <- MCProjects
  Sessions <- TwoSessions
  Requests <- AllRequests
  Opening <- MCOpening
  MaxRetries = 1
  MaxNow = 1
  MaxCalls = 3
INVARIANTS
  TypeOK
  ConsumptionAccounted
  BalanceAccounted
  OwedTellsDebt
  PayersHaveAccounts
PROPERTIES
  EveryCallReturns
  UndisturbedTakesEffect
CHECK_DEADLOCK FALSE
