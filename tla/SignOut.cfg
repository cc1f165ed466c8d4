SPECIFICATION Spec
CONSTANTS
  Sessions = {s1, s2}
  Accounts = {a1, a2}
  Owner = a1
  NoSession = none
  Nobody = nobody
  Scenarios <- MCScenarios
  MaxTime = 3
  Calls = {c1, c2}
  OrgSessions = {s1}
  Requests = {r1, r2}
SYMMETRY Symmetric
INVARIANTS TypeOK OldDevicesCutOff
PROPERTIES PreservedKeepsItsApp ConsoleFollowsIdp LogoutSticks
CHECK_DEADLOCK FALSE
