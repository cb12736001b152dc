SPECIFICATION WriterSpec
CONSTANTS
  s1 = s1
  PING_QUEUE_CAPACITY = 1
  NOW_QUEUE_CAPACITY = 1
  TRAIN_QUEUE_CAPACITY = 1
  Targets = {s1}
  NoTarget = NoTarget
  MaxPings = 2
  MaxTrains = 2
  MaxChunks = 2
  MaxInterval = 1
INVARIANTS
  RepliesAreContiguous
  PingWaitsForOneFrame
  DoneMeansDrained
PROPERTIES
  ChunksArePaced
  QueuedRepliesComplete
CHECK_DEADLOCK FALSE
