SPECIFICATION FairSpec
CONSTANTS
  Users = {alice, bob}
  Designated = {bob}
  Requests = {q1, q2}
  Replicas = {r1}
  Nobody = Nobody
  MaxFaults = 1
  MaxCrashes = 1
CHECK_DEADLOCK FALSE
INVARIANTS
  AdminRemains
  AdminsOnTeam
PROPERTIES
  RequestAnswered
