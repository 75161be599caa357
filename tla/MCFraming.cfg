SPECIFICATION Spec
CONSTANTS
  Base = 4
  Types = {1, 2}
  Payloads <- MCPayloads
  MaxAttrs = 3
INVARIANTS
  RoundTrip
  CutCleanly
CHECK_DEADLOCK FALSE
