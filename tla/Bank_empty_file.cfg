SPECIFICATION FairSpec
CONSTANTS
  Text <- MCText
  Blank = " "
  Transaction <- NoTransactions
  Account <- MCAccount
  InitialBalance <- MCInitialBalance
  MaxNbPackets = 2
  Object <- MCObject
  NetworkOf <- NetworksAsBuilt
PROPERTIES
  ServerStops
CHECK_DEADLOCK FALSE
