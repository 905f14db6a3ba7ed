SPECIFICATION FairSpec
CONSTANTS
  Replicas = {r1, r2}
  Shared = Shared
  s1 = s1
  s2 = s2
  Schedules = {s1, s2}
  PlansOf <- OneOfEach
  ClaimTTL = 1
  Never = Never
  Nobody = Nobody
  MaxClock = 3
  MaxUpsets = 1
CHECK_DEADLOCK FALSE
INVARIANTS
  FiresAreSpaced
  FiredOnceUnlessLate
PROPERTIES
  DueTaskRuns
