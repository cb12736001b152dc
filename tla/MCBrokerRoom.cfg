SPECIFICATION Spec
CONSTANTS
  room = room
  relay = relay
  s1 = s1
  s2 = s2
  qr = qr
  dev = dev
  Channels = {room}
  Relays = {relay}
  Surfaces = {s1, s2}
  Pairings = {qr}
  Devices = {dev}
  RelayTicket = RelayTicket
  MaxConnections = 3
  MaxPending = 1
INVARIANTS
  OneSeatPerTicket
  SeatsAreServed
  PresenceAddsUp
PROPERTIES
  SeatLostOnlyToOwnerOrSuccessor
  OrphansEnd
CHECK_DEADLOCK FALSE
