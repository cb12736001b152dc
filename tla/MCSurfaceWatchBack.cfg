SPECIFICATION Spec
CONSTANTS
  t1 = t1
  t2 = t2
  Threads = {t1, t2}
  Nothing = Nothing
  MaxConnects = 2
  LateRequests = FALSE
INVARIANTS LatestTargetIsDelivered
CHECK_DEADLOCK FALSE
