SPECIFICATION Spec
CONSTANTS
  MaxSends = 2
  MaxIncidents = 2
INVARIANTS TypeOK NoResurrection
PROPERTIES RunningTurnsAreKept RequestsAreKept StaleTurnsSettle SlotIsReleased
CHECK_DEADLOCK FALSE
