SPECIFICATION Spec
CONSTANTS
  Users = {alice}
  Pendings = {p1}
  Codes = {c1, c2}
  Tokens = {k1, k2, k3}
  Requests = {q1, q2}
  None = None
  MaxClients = 1
  MaxFaults = 1
CHECK_DEADLOCK FALSE
PROPERTIES
  ImplementsSingleUse
  DecisionIsFinal
  NothingAfterDeletion
