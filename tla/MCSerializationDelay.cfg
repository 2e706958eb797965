CONSTANTS
  None = None
  Width = 5
  Multipliers = {1, 2, 5, 8, 11, 16, 23, 31}
SPECIFICATION Spec
INVARIANTS
  DelayExact
CHECK_DEADLOCK FALSE
