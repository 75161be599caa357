SPECIFICATION Spec
CONSTANTS
  MaxPt = 5
  MaxPad = 4
  MaxText = 7
CHECK_DEADLOCK FALSE
INVARIANTS
  TypeOK
  RunsTheScript
  AnswersFit
  ShowsTheOutput
