CONSTANTS
  Accounts = {a1, a2}
  Nobody = Nobody
  Scopes = {s1, s2}
  Requests = {q1, q2}
  NoRequest = NoRequest
  Grants = {g1, g2}
  NoGrant = NoGrant
  Tokens = {t1, t2}
  NoToken = NoToken
  Sessions = {e1}
  NoSession = NoSession
  Procs = {p1, p2}
  Scenarios <- MCScenarios
  MaxCodeAttempts = 2
SPECIFICATION Spec
CHECK_DEADLOCK FALSE
SYMMETRY Symmetric
INVARIANTS TypeOK ActsAsConsented EndedStaysOut
