SPECIFICATION Spec
CONSTANTS
  u1 = u1
  u2 = u2
  NoUser = NoUser
  NoRequest = NoRequest
  Calls = {1, 2}
  Users <- MCUsers
  Me = u1
  Requests <- MCRequests
  Lifetime = 2
  Stale = 2
  MaxFaults = 1
INVARIANTS TypeOK AnswerTellsEffect
PROPERTIES FreshTokensPass ImplementsAtMostOnce
