SPECIFICATION FairSpec
CONSTANTS
  Text <- MCText
  Blank = " "
  Transaction <- ThreeTransactions
  Account <- MCAccount
  InitialBalance <- MCInitialBalance
  MaxNbPackets = 2
  Object <- MCObject
  NetworkOf <- NetworksAsBuilt
INVARIANTS
  SessionComplete
CHECK_DEADLOCK FALSE
