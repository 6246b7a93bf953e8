\* Two tabs of one browser, one user, everything may fail.
SPECIFICATION LiveSpec
CONSTANTS
  Users = {u1}
  New = {u1}
  NoUser = NoUser
  Tokens = {t1, t2, t3, t4}
  NoToken = NoToken
  Calls = {c1, c2}
INVARIANTS
  SessionsTypeOK
PROPERTIES
  RefreshUsesUp
  OnlyFaultsSignOut
  CallsEnd
  DeactivationTakesEffect
