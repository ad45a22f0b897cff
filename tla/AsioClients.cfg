SPECIFICATION MCSpec
CONSTANTS
  Connections = 3
  MaxParts = 2
  WithCallback = {1, 2}
INVARIANTS
  RunOneHasWork
  AnswersInOrder
  ServedToTheEnd
PROPERTY ProgramsEnd
CHECK_DEADLOCK FALSE
