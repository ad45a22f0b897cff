SPECIFICATION MCSpec
CONSTANTS
  Request = {r1, r2}
  MaxValues = 2
  Values = 3
INVARIANTS
  AnsweredOnce
  NoCallbackAfterEnd
  WaitsForItsOwn
  LateOnlyIfGivenUp
  ClientsTyped
PROPERTIES
  SettlesAndStops
  ProgramsReturn
CHECK_DEADLOCK FALSE
