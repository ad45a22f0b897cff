SPECIFICATION FairSpec
CONSTANTS
  Text <- MCText
  Blank = " "
  Transaction <- ThreeTransactions
  Account <- MCAccount
  InitialBalance <- MCInitialBalance
  MaxNbPackets = 3
  Object <- MCObject
  NetworkOf <- NetworksAsBuilt
INVARIANTS
  OrderlyShutdown
PROPERTIES
  NoReconnect
  ServerStops
  LostOnlyByOverlap
CHECK_DEADLOCK FALSE
