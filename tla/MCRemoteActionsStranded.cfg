SPECIFICATION Spec
CONSTANTS
  i1 = i1
  i2 = i2
  Intents = {i1, i2}
  Kind <- OneChallenge
  Large = {i1}
  Chunks = 2
  TrainQueue = 1
  ReplyTimeout = 1
  ReplayTTL = 2
  MaxEntries = 2
  FaultKinds = {"session"}
  MaxFaults = 1
INVARIANTS AnythingUnansweredIsAskedAgain
CHECK_DEADLOCK FALSE
