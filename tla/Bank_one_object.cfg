SPECIFICATION FairSpec
CONSTANTS
  Text <- MCText
  Blank = " "
  Transaction <- FourTransactions
  Account <- MCAccount
  InitialBalance <- MCInitialBalance
  MaxNbPackets = 2
  Object <- MCObject
  NetworkOf <- OneNetwork
INVARIANTS
  AnswersInOrder
  SessionComplete
PROPERTIES
  Termination
CHECK_DEADLOCK TRUE
