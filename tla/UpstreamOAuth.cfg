SPECIFICATION OAuthSpec
CONSTANTS
  Starts = {s1, s2}
  Callbacks = {k1, k2}
  Connections = {n1, n2}
  Issuers = {"home", "other"}
  Home = "home"
  None = None
  Scenarios <- MCScenarios
INVARIANTS
  CodeSpentAsIssued
  GrantKept
SYMMETRY MCSymmetry
CHECK_DEADLOCK FALSE
