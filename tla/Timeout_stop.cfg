SPECIFICATION Spec
CONSTANTS
  MaxWaits = 1
INVARIANT
  StopTestPasses
CHECK_DEADLOCK FALSE
