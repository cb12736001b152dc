SPECIFICATION Spec
CONSTANTS
  d1 = d1
  d2 = d2
  p1 = p1
  p2 = p2
  f1 = f1
  f2 = f2
  None = None
  Devices = {d1}
  Tickets = {p1, p2}
  Flows = {f1}
  MaxPeers = 2
  MaxFaults = 1
PROPERTIES OnlyRevocationWithdraws
CHECK_DEADLOCK FALSE
