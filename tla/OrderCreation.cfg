\* One failing call and any number of crashes.
SPECIFICATION Spec
CONSTANTS
  q1 = q1  q2 = q2  q3 = q3  q4 = q4  k1 = k1  k2 = k2
  Requests = {q1, q2, q3, q4}
  Keys = {k1, k2}
  keyOf <- TwoTabs
  MaxFaults = 1
  None = None
INVARIANTS
  RedisNamesTheOrder
  FailedMeansNoOrder
  LockedWhileAtWork
PROPERTY
  OnceOnlySpec
CHECK_DEADLOCK FALSE
