CONSTANTS
  alice = alice  bob = bob  pact1 = pact1  pact2 = pact2
  read = read  write = write
  d1 = d1  d2 = d2  d3 = d3  t1 = t1  t2 = t2  t3 = t3
  p1 = p1  p2 = p2  p3 = p3
  None = None
  Accounts <- OneAccount
  Agents <- OneAgent
  Scopes <- OneScope
  Devices <- TwoDevices
  Grants = {1,2}
  Tokens <- NoToken
  Procs <- TwoProcs
  DeviceTtl = 3
  GrantTtl = 3
  AccessTtl = 3
  MaxTime = 1
  Env <- NoEvent
SPECIFICATION Spec
SYMMETRY Symmetry
INVARIANTS
  ApprovalsConverge
CHECK_DEADLOCK FALSE
