SPECIFICATION Spec
CONSTANTS
  Users = {u1, u2}
  Drivers = {d1, d2}
  Nobody = Nobody
  MaxEvents = 3
INVARIANTS TypeOK OneDriver
PROPERTIES KeepsThePromise NobodyIsStranded PauseTakesEffect
CHECK_DEADLOCK FALSE
