SPECIFICATION FairSpec
CONSTANTS
  c1 = c1
  alice = alice
  Calls = {c1}
  Decisions = {d1, d2}
  Users = {alice, bob}
  Replicas = {r1, r2}
  Nobody = Nobody
  Requester <- MCRequester
  MatchedBy <- MCMatchedBy
  MaxFaults = 1
  MaxCrashes = 1
CHECK_DEADLOCK FALSE
INVARIANTS
  OnlyApprovedCallsRun
  CallerToldTheVerdict
  VerdictOnTrail
PROPERTIES
  ImplementsMakerChecker
  ApprovedCallRuns
  QueueDrains
