SPECIFICATION FairSpec
CONSTANTS
  Authors = {a1, a2}
  Reviews = {r1}
  Workflows = {w1}
  None = None
  MaxRounds = 2
  MaxEvents = 3
INVARIANTS TypeOK WritesAlone WorkflowEndsQuiet
PROPERTIES ReviewSettlesQuietly JobsSettle
CHECK_DEADLOCK FALSE
