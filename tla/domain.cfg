CONSTANTS
  Width = 7
  Node = {1, 2, 3}
SPECIFICATION Spec
CHECK_DEADLOCK FALSE
INVARIANTS
  DelayIsCappedPower
  VerdictRight
PROPERTIES
  CheckEnds
