SPECIFICATION MCSpec
CONSTANTS
  Cores = {0, 1, 2, 4}
  UnsignedRange = 16
  ThreadLimit = 8
INVARIANTS
  HandedAllOrNothing
  VerdictOnOwnAnswer
  NothingFromStrangers
PROPERTY ProgramsEnd
CHECK_DEADLOCK FALSE
