SPECIFICATION Spec
CONSTANTS
  d1 = d1
  d2 = d2
  p1 = p1
  p2 = p2
  f1 = f1
  f2 = f2
  None = None
  Devices = {d1, d2}
  Tickets = {p1, p2}
  Flows = {f1, f2}
  MaxPeers = 2
  MaxFaults = 1
SYMMETRY PairingSymmetry
INVARIANTS DecidedOnce RequestsAreNotLost NoOrphanGrants RecordsAgree
CHECK_DEADLOCK FALSE
