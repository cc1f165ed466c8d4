SPECIFICATION Spec
CONSTANTS
  Sessions = {s1}
  Tokens = {t1, t2}
  DeviceCodes = {t1, t2}
  Calls = {c1, c2}
  Ttls <- MCTtls
  Remember = 2
  Scenarios <- MCScenarios
  MaxTime = 2
  MaxSaves = 2
SYMMETRY Symmetric
CONSTRAINT Bounds
INVARIANTS TypeOK AliasLeadsToEntry
PROPERTIES ImplementsContract ComesBackSpent RevocationComplete RenewalIsHonest
CHECK_DEADLOCK FALSE
