SPECIFICATION Spec
CONSTANTS
  Replicas = {r1, r2}
  Defs = {d1, d2}
  Jobs = {j1, j2}
  None = None
  Mode = "enforce"
  MaxChanges = 1
  MaxEdits = 1
  MaxFaults = 1
CHECK_DEADLOCK FALSE
SYMMETRY Symmetry
INVARIANTS
  AdvertisedWasTrusted
  StatusSettles
  ChainMoves
