SPECIFICATION Spec
CONSTANTS
  MaxNbPackets = 3
  NbFields = 2
  Value = {0, 1}
  BlankPacket <- MCBlankPacket
  Object = {network}
  PutObject = network
  GetObject = network
  PutCall = put
  GetCall = get
  OtherCalls = {other}
  Free = free
INVARIANTS
  StatusTruthful
  PollStaysValid
PROPERTIES
  DeliversInOrder
CHECK_DEADLOCK TRUE
