SPECIFICATION FairSpec
CONSTANTS
  alice = alice
  t1 = t1
  q1 = q1
  e1 = e1
  ta = ta
  tb = tb
  x = x
  y = y
  Tasks = {t1}
  Cancels = {k1, k2}
  Subs = {s1}
  Users = {alice, bob}
  Owner <- MCOwner
  NoTask = NoTask
  MaxFaults = 1
  MaxCrashes = 1
  Endpoints = {e1, e2}
  Teams = {ta, tb}
  Tools = {x, y}
  Consumers = {t1, q1}
  Admins = {a1, a2}
  Forms <- MCForms
  Access <- MCAccess
  Skill = e1
CHECK_DEADLOCK FALSE
INVARIANTS
  FinalStatePushed
  ServedAsGranted
PROPERTIES
  FinalStateSticks
  TaskEnds
  SubscriberIsTold
