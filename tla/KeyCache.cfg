CONSTANTS
  Slots = {s1}
  VMs = {w1}
  Admins = {a1, a2}
  Policies = {p1, p2}
  Denied = Denied
  None = None
  Expiries = {1, 4}
  RedisTTL = 1
  WasmTTL = 1
  VerifyTimeout = 0
  VerifyDeadline = 1
  Reserving = FALSE
  MaxTime = 4
  MaxChanges = 2
  MaxFaults = 1
SPECIFICATION Spec
SYMMETRY Symmetry
INVARIANTS
  TypeOK
  StalenessBounded
  RejectionsBounded
  InvalidationHolds
CHECK_DEADLOCK FALSE
