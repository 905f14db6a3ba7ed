SPECIFICATION Spec
CONSTANTS
  c1 = c1
  c2 = c2
  c3 = c3
  Calls = {c1, c2, c3}
  Replicas = {r1, r2}
  Editors = {e1, e2}
  Budget = 2
  Scenarios <- MCScenarios
INVARIANTS
  WritesAsReported
  GateNotBypassed
  TrailVerifies
  BooksBalance
SYMMETRY MCSymmetry
CHECK_DEADLOCK FALSE
