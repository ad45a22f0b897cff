SPECIFICATION FairSpec
CONSTANTS
  Peer = {p1, p2}
  MaxBytes = 3
  SendBuffer = 2
INVARIANTS
  OneWait
  NothingLost
PROPERTIES
  EveryByteEchoed
  ClosedInTheEnd
CHECK_DEADLOCK FALSE
