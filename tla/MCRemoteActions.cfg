SPECIFICATION Spec
CONSTANTS
  i1 = i1
  i2 = i2
  Intents = {i1}
  Kind <- OneClaimed
  Large = {i1}
  Chunks = 2
  TrainQueue = 1
  ReplyTimeout = 1
  ReplayTTL = 2
  MaxEntries = 1
  FaultKinds = {"session", "restart", "surface", "expiry"}
  MaxFaults = 2
INVARIANTS ReservedMeansRunning ResolvedFromOneResult
PROPERTIES ExecutedAgainOnlyIfForgotten EveryActionSettles
CHECK_DEADLOCK FALSE
