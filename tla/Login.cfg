SPECIFICATION Spec
CONSTANTS
  Replicas = {r1, r2}
  Keys = {ip, e1}
  Values = {v1}
  Jtis = {j1, j2, j3}
  Requests = {p1, p2}
  Attempts = {a1, a2}
  Callbacks = {c1, c2}
  Emails = {e1}
  MaxAttempts = 1
  IpKey = ip
  Budgets <- OneOfEach
  None = None
SYMMETRY Symmetry
INVARIANTS
  AttemptsAreBounded
  OneSessionPerLogin
  SignedOutStaysOut
CHECK_DEADLOCK FALSE
