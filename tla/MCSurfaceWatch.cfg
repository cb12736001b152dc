SPECIFICATION Spec
CONSTANTS
  t1 = t1
  t2 = t2
  Threads = {t1, t2}
  Nothing = Nothing
  MaxConnects = 3
  LateRequests = FALSE
INVARIANTS DeclaredOnOpenStreamSticks
PROPERTIES TeardownSparesNewerStreams ClosedTabIsForgotten
CHECK_DEADLOCK FALSE
