SPECIFICATION Spec
CONSTANTS
  Half = 6
  Window = 1
  ReplayMax = 2
  MaxClock = 3
  Nonces = {n1, n2}
  MaxPushes = 3
INVARIANTS
  AdmittedInTime
  ReplayNeedsSetBack
CHECK_DEADLOCK FALSE
