---------------------- MODULE BankNetworkThreadsProofs ----------------------
(***************************************************************************)
(* What holds of BankNetworkThreads for every file of transactions, every  *)
(* number of slots and every assignment of Network objects to threads.     *)
(***************************************************************************)
EXTENDS BankNetworkThreads, SequenceTheorems, WellFoundedInduction, TLAPS

LEMMA NumberIsNat == NumberOfTransactions \in Nat
  BY BankAssumption DEF NumberOfTransactions

LEMMA ThreadsStep ==
  ASSUME ThreadsInStep, CallsInStep, [Next]_vars
  PROVE  ThreadsInStep'
<1> USE DEF controlVars, statusVars, dataVars, inVars, outVars
<1> USE DEF ThreadsInStep, CallsInStep
<1>1. CASE Main
  BY <1>1 DEF Main, MainStartsNetwork, MainStartsServer, MainStartsSender,
     MainStartsReceiver, MainJoins
<1>2. CASE NetworkThread
  BY <1>2 DEF NetworkThread, NetworkSeesClientGone, NetworkPollsServer
<1>3. CASE Sender
  BY <1>3 DEF Sender, SenderConnects, SenderPolls, SenderSends, SenderReturns,
     SenderTerminates, In!PutPoll, In!PutEnter, In!PutCopy, In!PutAdvance,
     In!PutCompare, In!PutReturn, In!ringVars, In!getVars
<1>4. CASE Receiver
  BY <1>4 DEF Receiver, ReceiverConnects, ReceiverPolls, ReceiverReceives,
     ReceiverReturns, ReceiverDisconnects, Out!GetPoll, Out!GetEnter,
     Out!GetCopy, Out!GetAdvance, Out!GetCompare, Out!GetReturn, Out!ringVars,
     Out!putVars
<1>5. CASE \/ ServerConnects \/ ServerWaits \/ ServerFindsNoAccount
          \/ ServerDisconnects
  BY <1>5 DEF ServerConnects, ServerWaits, ServerChecksClient,
     ServerPollsInput, ServerChecksClientWaiting, ServerFindsEmpty,
     ServerFindsNoAccount, ServerDisconnects, ServerGoes
<1>6. CASE \/ ServerFindsPacket \/ ServerTransfersIn
          \/ ServerReturnsFromTransferIn \/ ServerProcesses
  BY <1>6 DEF ServerFindsPacket, ServerTransfersIn,
     ServerReturnsFromTransferIn, ServerProcesses, ServerGoes, In!GetPoll,
     In!GetEnter, In!GetCopy, In!GetAdvance, In!GetCompare, In!GetReturn,
     In!GetterWrites, In!ringVars, In!putVars
<1>7. CASE \/ ServerPollsOutput \/ ServerTransfersOut
          \/ ServerReturnsFromTransferOut
  BY <1>7 DEF ServerPollsOutput, ServerTransfersOut,
     ServerReturnsFromTransferOut, ServerGoes, Out!PutPoll, Out!PutEnter,
     Out!PutCopy, Out!PutAdvance, Out!PutCompare, Out!PutReturn, Out!ringVars,
     Out!getVars
<1>8. CASE UNCHANGED vars
  BY <1>8 DEF vars
<1> QED
  BY <1>1, <1>2, <1>3, <1>4, <1>5, <1>6, <1>7, <1>8 DEF Next, Server

LEMMA CallsStep ==
  ASSUME TypeOK, ThreadsInStep, CallsInStep, [Next]_vars
  PROVE  CallsInStep'
<1> USE DEF controlVars, statusVars, dataVars, inVars, outVars
<1> USE NumberIsNat DEF TypeOK, ThreadsInStep, CallsInStep
<1>1. CASE Main
  BY <1>1 DEF Main, MainStartsNetwork, MainStartsServer, MainStartsSender,
     MainStartsReceiver, MainJoins
<1>2. CASE NetworkThread
  BY <1>2 DEF NetworkThread, NetworkSeesClientGone, NetworkPollsServer
<1>3. CASE Sender
  BY <1>3 DEF Sender, SenderConnects, SenderPolls, SenderSends, SenderReturns,
     SenderTerminates, In!PutPoll, In!PutEnter, In!PutCopy, In!PutAdvance,
     In!PutCompare, In!PutReturn, In!ringVars, In!getVars
<1>4. CASE Receiver
  BY <1>4 DEF Receiver, ReceiverConnects, ReceiverPolls, ReceiverReceives,
     ReceiverReturns, ReceiverDisconnects, Out!GetPoll, Out!GetEnter,
     Out!GetCopy, Out!GetAdvance, Out!GetCompare, Out!GetReturn, Out!ringVars,
     Out!putVars
<1>5. CASE \/ ServerConnects \/ ServerWaits \/ ServerFindsNoAccount
          \/ ServerDisconnects
  BY <1>5 DEF ServerConnects, ServerWaits, ServerChecksClient,
     ServerPollsInput, ServerChecksClientWaiting, ServerFindsEmpty,
     ServerFindsNoAccount, ServerDisconnects, ServerGoes
<1>6. CASE \/ ServerFindsPacket \/ ServerTransfersIn
          \/ ServerReturnsFromTransferIn \/ ServerProcesses
  BY <1>6 DEF ServerFindsPacket, ServerTransfersIn,
     ServerReturnsFromTransferIn, ServerProcesses, ServerGoes, In!GetPoll,
     In!GetEnter, In!GetCopy, In!GetAdvance, In!GetCompare, In!GetReturn,
     In!GetterWrites, In!ringVars, In!putVars
<1>7. CASE \/ ServerPollsOutput \/ ServerTransfersOut
          \/ ServerReturnsFromTransferOut
  BY <1>7 DEF ServerPollsOutput, ServerTransfersOut,
     ServerReturnsFromTransferOut, ServerGoes, Out!PutPoll, Out!PutEnter,
     Out!PutCopy, Out!PutAdvance, Out!PutCompare, Out!PutReturn, Out!ringVars,
     Out!getVars
<1>8. CASE UNCHANGED vars
  BY <1>8 DEF vars
<1> QED
  BY <1>1, <1>2, <1>3, <1>4, <1>5, <1>6, <1>7, <1>8 DEF Next, Server

LEMMA QuietStep ==
  ASSUME ThreadsInStep, CallsInStep, QuietBeforeSending, [Next]_vars
  PROVE  QuietBeforeSending'
<1> USE DEF controlVars, statusVars, dataVars, inVars, outVars
<1> USE DEF ThreadsInStep, CallsInStep, QuietBeforeSending
<1>1. CASE Main
  BY <1>1 DEF Main, MainStartsNetwork, MainStartsServer, MainStartsSender,
     MainStartsReceiver, MainJoins
<1>2. CASE NetworkThread
  BY <1>2 DEF NetworkThread, NetworkSeesClientGone, NetworkPollsServer
<1>3. CASE Sender
  BY <1>3 DEF Sender, SenderConnects, SenderPolls, SenderSends, SenderReturns,
     SenderTerminates, In!PutPoll, In!PutEnter, In!PutCopy, In!PutAdvance,
     In!PutCompare, In!PutReturn, In!ringVars, In!getVars
<1>4. CASE Receiver
  BY <1>4 DEF Receiver, ReceiverConnects, ReceiverPolls, ReceiverReceives,
     ReceiverReturns, ReceiverDisconnects, Out!GetPoll, Out!GetEnter,
     Out!GetCopy, Out!GetAdvance, Out!GetCompare, Out!GetReturn, Out!ringVars,
     Out!putVars
<1>5. CASE \/ ServerConnects \/ ServerWaits \/ ServerFindsNoAccount
          \/ ServerDisconnects
  BY <1>5 DEF ServerConnects, ServerWaits, ServerChecksClient,
     ServerPollsInput, ServerChecksClientWaiting, ServerFindsEmpty,
     ServerFindsNoAccount, ServerDisconnects, ServerGoes
<1>6. CASE \/ ServerFindsPacket \/ ServerTransfersIn
          \/ ServerReturnsFromTransferIn \/ ServerProcesses
  BY <1>6 DEF ServerFindsPacket, ServerTransfersIn,
     ServerReturnsFromTransferIn, ServerProcesses, ServerGoes, In!GetPoll,
     In!GetEnter, In!GetCopy, In!GetAdvance, In!GetCompare, In!GetReturn,
     In!GetterWrites, In!ringVars, In!putVars
<1>7. CASE \/ ServerPollsOutput \/ ServerTransfersOut
          \/ ServerReturnsFromTransferOut
  BY <1>7 DEF ServerPollsOutput, ServerTransfersOut,
     ServerReturnsFromTransferOut, ServerGoes, Out!PutPoll, Out!PutEnter,
     Out!PutCopy, Out!PutAdvance, Out!PutCompare, Out!PutReturn, Out!ringVars,
     Out!getVars
<1>8. CASE UNCHANGED vars
  BY <1>8 DEF vars
<1> QED
  BY <1>1, <1>2, <1>3, <1>4, <1>5, <1>6, <1>7, <1>8 DEF Next, Server

LEMMA FieldCopied ==
  ASSUME NEW p \in TransactionPacket, NEW q \in TransactionPacket,
         NEW f \in 1 .. 4
  PROVE  [p EXCEPT ![f] = q[f]] \in TransactionPacket
  BY DEF TransactionPacket

LEMMA BalanceSet ==
  ASSUME NEW p \in TransactionPacket, NEW balance \in Int
  PROVE  SetBalance(p, balance) \in TransactionPacket
  BY DEF SetBalance, TransactionPacket

LEMMA MonitorTyped ==
  ASSUME NEW o \in Object, NEW c \in Call \cup {"free"},
         monitor \in [Object -> Call \cup {"free"}],
         monitor' = [monitor EXCEPT ![o] = c]
  PROVE  monitor' \in [Object -> Call \cup {"free"}]
  OBVIOUS

LEMMA NextSlot ==
  /\ \A i \in In!Slot : In!NextIndex(i) \in In!Slot
  /\ \A i \in Out!Slot : Out!NextIndex(i) \in Out!Slot
  BY BankAssumption DEF In!Slot, In!NextIndex, Out!Slot, Out!NextIndex

LEMMA RequestIsPacket ==
  ASSUME NEW k \in 1 .. NumberOfTransactions
  PROVE  Request(Transaction[k]) \in TransactionPacket
<1>1. Transaction[k] \in [account : Text, operation : Text, amount : Int]
  BY BankAssumption, ElementOfSeq DEF NumberOfTransactions
<1> QED
  BY <1>1 DEF Request, TransactionPacket

LEMMA TypeStep ==
  ASSUME TypeOK, CallsInStep, [Next]_vars
  PROVE  TypeOK'
<1> USE DEF controlVars, statusVars, dataVars, inVars, outVars
<1> USE BankAssumption DEF TypeOK
<1>1. CASE MainStartsNetwork
  BY <1>1 DEF MainStartsNetwork
<1>2. CASE MainStartsServer
  BY <1>2 DEF MainStartsServer
<1>3. CASE MainStartsSender
  BY <1>3 DEF MainStartsSender
<1>4. CASE MainStartsReceiver
  BY <1>4 DEF MainStartsReceiver
<1>5. CASE MainJoins
  BY <1>5 DEF MainJoins
<1>6. CASE NetworkSeesClientGone
  BY <1>6 DEF NetworkSeesClientGone
<1>7. CASE NetworkPollsServer
  BY <1>7 DEF NetworkPollsServer
<1>8. CASE SenderConnects
  BY <1>8 DEF SenderConnects
<1>9. CASE SenderPolls
  BY <1>9 DEF SenderPolls, In!PutPoll, In!ringVars, In!getVars
<1>10. CASE SenderSends
  <2>1. CASE In!PutEnter(Request(Transaction[sent + 1]))
    <3>1. Request(Transaction[sent + 1]) \in TransactionPacket
      BY NumberIsNat, RequestIsPacket, <2>1 DEF CallsInStep, In!PutEnter
    <3>2. monitor' \in [Object -> Call \cup {"free"}]
      BY <2>1, MonitorTyped DEF In!PutEnter, Call, Thread
    <3> HIDE DEF Request
    <3> QED BY <1>10, <2>1, <3>1, <3>2 DEF SenderSends, In!PutEnter, In!ringVars,
               In!getVars, In!PutCalling
  <2>2. CASE In!PutCopy
    <3>1. inComingPacket' \in [In!Slot -> TransactionPacket]
      BY <2>2, FieldCopied DEF In!PutCopy, In!Slot
    <3> QED BY <1>10, <2>2, <3>1 DEF SenderSends, In!PutCopy, In!getVars,
               In!PutCalling
  <2>3. CASE In!PutAdvance
    BY <1>10, <2>3, NextSlot DEF SenderSends, In!PutAdvance, In!getVars,
       In!PutCalling, In!PutUpdating
  <2>4. CASE In!PutCompare
    BY <1>10, <2>4 DEF SenderSends, In!PutCompare, In!ringVars, In!getVars,
       In!PutCalling, In!PutUpdating
  <2> QED BY <1>10, <2>1, <2>2, <2>3, <2>4 DEF SenderSends
<1>11. CASE SenderReturns
  <2>1. monitor' \in [Object -> Call \cup {"free"}]
    BY <1>11, MonitorTyped DEF SenderReturns, In!PutReturn, Thread
  <2> QED BY <1>11, <2>1 DEF SenderReturns, In!PutReturn, In!getVars, In!Status
<1>12. CASE SenderTerminates
  BY <1>12 DEF SenderTerminates
<1>13. CASE ReceiverConnects
  BY <1>13 DEF ReceiverConnects
<1>14. CASE ReceiverPolls
  BY <1>14 DEF ReceiverPolls, Out!GetPoll, Out!ringVars, Out!putVars
<1>15. CASE ReceiverReceives
  <2>1. CASE Out!GetEnter
    <3>1. monitor' \in [Object -> Call \cup {"free"}]
      BY <2>1, MonitorTyped DEF Out!GetEnter, Call, Thread
    <3> QED BY <1>15, <2>1, <3>1 DEF ReceiverReceives, Out!GetEnter, Out!ringVars, Out!putVars,
               Out!GetCalling
  <2>2. CASE Out!GetCopy
    <3>1. transact' \in TransactionPacket
      BY <2>2, FieldCopied DEF Out!GetCopy, Out!Slot
    <3> QED BY <1>15, <2>2, <3>1 DEF ReceiverReceives, Out!GetCopy, Out!ringVars,
               Out!putVars, Out!GetCalling
  <2>3. CASE Out!GetAdvance
    BY <1>15, <2>3, NextSlot DEF ReceiverReceives, Out!GetAdvance, Out!putVars,
       Out!GetCalling, Out!GetUpdating
  <2>4. CASE Out!GetCompare
    BY <1>15, <2>4 DEF ReceiverReceives, Out!GetCompare, Out!ringVars, Out!putVars,
       Out!GetCalling, Out!GetUpdating
  <2> QED BY <1>15, <2>1, <2>2, <2>3, <2>4 DEF ReceiverReceives
<1>16. CASE ReceiverReturns
  <2>1. displayed' \in Seq(TransactionPacket)
    BY <1>16, AppendProperties DEF ReceiverReturns
  <2>2. monitor' \in [Object -> Call \cup {"free"}]
    BY <1>16, MonitorTyped DEF ReceiverReturns, Out!GetReturn, Thread
  <2> QED BY <1>16, <2>1, <2>2 DEF ReceiverReturns, Out!GetReturn, Out!putVars, Out!Status
<1>17. CASE ReceiverDisconnects
  BY <1>17 DEF ReceiverDisconnects
<1>18. CASE ServerConnects
  BY <1>18 DEF ServerConnects, ServerGoes
<1>19. CASE ServerChecksClient
  BY <1>19 DEF ServerChecksClient, ServerGoes
<1>20. CASE ServerPollsInput
  BY <1>20 DEF ServerPollsInput, ServerGoes
<1>21. CASE ServerChecksClientWaiting
  BY <1>21 DEF ServerChecksClientWaiting, ServerGoes
<1>22. CASE ServerFindsEmpty
  BY <1>22 DEF ServerFindsEmpty, ServerGoes
<1>23. CASE ServerFindsPacket
  BY <1>23 DEF ServerFindsPacket, In!GetPoll, In!ringVars, In!putVars,
     ServerGoes
<1>24. CASE ServerTransfersIn
  <2>1. CASE In!GetEnter
    <3>1. monitor' \in [Object -> Call \cup {"free"}]
      BY <2>1, MonitorTyped DEF In!GetEnter, Call, Thread
    <3> QED BY <1>24, <2>1, <3>1 DEF ServerTransfersIn, In!GetEnter, In!ringVars, In!putVars,
               In!GetCalling
  <2>2. CASE In!GetCopy
    <3>1. trans' \in TransactionPacket
      BY <2>2, FieldCopied DEF In!GetCopy, In!Slot
    <3> QED BY <1>24, <2>2, <3>1 DEF ServerTransfersIn, In!GetCopy, In!ringVars,
               In!putVars, In!GetCalling
  <2>3. CASE In!GetAdvance
    BY <1>24, <2>3, NextSlot DEF ServerTransfersIn, In!GetAdvance, In!putVars,
       In!GetCalling, In!GetUpdating
  <2>4. CASE In!GetCompare
    BY <1>24, <2>4 DEF ServerTransfersIn, In!GetCompare, In!ringVars, In!putVars,
       In!GetCalling, In!GetUpdating
  <2> QED BY <1>24, <2>1, <2>2, <2>3, <2>4 DEF ServerTransfersIn
<1>25. CASE ServerReturnsFromTransferIn
  <2>1. monitor' \in [Object -> Call \cup {"free"}]
    BY <1>25, MonitorTyped DEF ServerReturnsFromTransferIn, In!GetReturn, Thread
  <2> QED BY <1>25, <2>1 DEF ServerReturnsFromTransferIn, ServerGoes,
          In!GetReturn, In!putVars, In!Status
<1>26. CASE ServerFindsNoAccount
  BY <1>26 DEF ServerFindsNoAccount, ServerGoes
<1>27. CASE ServerProcesses
  <2> DEFINE number  == AccountNumber(trans)
             balance == NewBalance(accounts[number], OperationType(trans),
                                   Amount(trans))
  <2>1. balance \in Int
    <3>1. accounts[number] \in Int
      BY <1>27 DEF ServerProcesses
    <3>2. Amount(trans) \in Int
      BY DEF Amount, TransactionPacket
    <3> QED BY <3>1, <3>2 DEF NewBalance
  <2>2. /\ accounts' = [accounts EXCEPT ![number] = balance]
        /\ trans' \in {SetBalance(trans, balance), trans}
    BY <1>27 DEF ServerProcesses, In!GetterWrites
  <2> HIDE DEF balance
  <2>3. accounts' \in [Account -> Int]
    BY <2>1, <2>2
  <2>4. SetBalance(trans, balance) \in TransactionPacket
    BY <2>1, BalanceSet
  <2> QED BY <1>27, <2>2, <2>3, <2>4 DEF ServerProcesses, ServerGoes, In!GetterWrites,
             In!ringVars, In!putVars
<1>28. CASE ServerPollsOutput
  BY <1>28 DEF ServerPollsOutput, Out!PutPoll, Out!ringVars, Out!getVars
<1>29. CASE ServerTransfersOut
  <2>1. CASE Out!PutEnter(trans)
    <3>1. trans \in TransactionPacket
      OBVIOUS
    <3>2. monitor' \in [Object -> Call \cup {"free"}]
      BY <2>1, MonitorTyped DEF Out!PutEnter, Call, Thread
    <3> HIDE DEF Request
    <3> QED BY <1>29, <2>1, <3>1, <3>2 DEF ServerTransfersOut, Out!PutEnter, Out!ringVars,
               Out!getVars, Out!PutCalling
  <2>2. CASE Out!PutCopy
    <3>1. outGoingPacket' \in [Out!Slot -> TransactionPacket]
      BY <2>2, FieldCopied DEF Out!PutCopy, Out!Slot
    <3> QED BY <1>29, <2>2, <3>1 DEF ServerTransfersOut, Out!PutCopy, Out!getVars,
               Out!PutCalling
  <2>3. CASE Out!PutAdvance
    BY <1>29, <2>3, NextSlot DEF ServerTransfersOut, Out!PutAdvance, Out!getVars,
       Out!PutCalling, Out!PutUpdating
  <2>4. CASE Out!PutCompare
    BY <1>29, <2>4 DEF ServerTransfersOut, Out!PutCompare, Out!ringVars, Out!getVars,
       Out!PutCalling, Out!PutUpdating
  <2> QED BY <1>29, <2>1, <2>2, <2>3, <2>4 DEF ServerTransfersOut
<1>30. CASE ServerReturnsFromTransferOut
  <2>1. monitor' \in [Object -> Call \cup {"free"}]
    BY <1>30, MonitorTyped DEF ServerReturnsFromTransferOut, Out!PutReturn, Thread
  <2> QED BY <1>30, <2>1 DEF ServerReturnsFromTransferOut, ServerGoes,
          Out!PutReturn, Out!getVars, Out!Status
<1>31. CASE ServerDisconnects
  BY <1>31 DEF ServerDisconnects, ServerGoes
<1>32. CASE UNCHANGED vars
  BY <1>32 DEF vars
<1> QED
  BY <1>1, <1>2, <1>3, <1>4, <1>5, <1>6, <1>7, <1>8, <1>9, <1>10, <1>11,
     <1>12, <1>13, <1>14, <1>15, <1>16, <1>17, <1>18, <1>19, <1>20, <1>21,
     <1>22, <1>23, <1>24, <1>25, <1>26, <1>27, <1>28, <1>29, <1>30, <1>31,
     <1>32
     DEF Next, Main, NetworkThread, Sender, Receiver, Server, ServerWaits

LEMMA BankInit == Init => BankInv
<1> SUFFICES ASSUME Init PROVE BankInv
  OBVIOUS
<1> USE DEF Init, In!Init, Out!Init
<1>1. BlankPacket \in TransactionPacket
  BY BankAssumption DEF BlankPacket, TransactionPacket
<1>2. TypeOK
  BY <1>1, BankAssumption DEF TypeOK, Call, In!Slot, Out!Slot, In!Status,
     Out!Status
<1>3. ThreadsInStep /\ CallsInStep /\ QuietBeforeSending
  BY NumberIsNat DEF ThreadsInStep, CallsInStep, QuietBeforeSending
<1> QED BY <1>2, <1>3 DEF BankInv

(* In every interleaving the threads start in the order of BankDriver.main *)
(* and end in the order network after server after receiving client; a     *)
(* thread is inside a call only where its code makes it; and before the    *)
(* sending client has connected nothing moves in either buffer.  No        *)
(* assumption is made on the Network objects: the program as it is built   *)
(* is covered.                                                             *)
THEOREM BankInvariant == Spec => []BankInv
<1>1. BankInv /\ [Next]_vars => BankInv'
  BY TypeStep, ThreadsStep, CallsStep, QuietStep DEF BankInv
<1> QED
  BY <1>1, BankInit, PTL DEF Spec

(* Every variable of the bank keeps its type. *)
THEOREM BankTypeCorrect == Spec => []TypeOK
<1>1. BankInv => TypeOK
  BY DEF BankInv
<1> QED BY <1>1, BankInvariant, PTL

(* The network thread, for which main waits, ends after the server has     *)
(* disconnected and the receiving client has printed all its answers.      *)
THEOREM ShutdownIsOrderly == Spec => []OrderlyShutdown
<1>1. BankInv => OrderlyShutdown
  BY DEF BankInv, ThreadsInStep, CallsInStep, OrderlyShutdown
<1> QED BY <1>1, BankInvariant, PTL

(* Unless the transaction file is empty, no thread connects the client     *)
(* again after the receiving client has disconnected it, so the server     *)
(* and the network thread cannot miss the disconnection.                   *)
THEOREM ClientStaysDisconnected ==
  ASSUME NumberOfTransactions > 0
  PROVE  Spec => NoReconnect
<1>1. ASSUME BankInv, [Next]_vars, clientConnectionStatus = "disconnected"
      PROVE  clientConnectionStatus' = "disconnected"
  <2> USE DEF controlVars, statusVars, dataVars, inVars, outVars
  <2> USE <1>1 DEF BankInv
  <2>1. receiverStep = "terminated" /\ displayed # << >>
    BY NumberIsNat DEF ThreadsInStep, CallsInStep
  <2>2. senderStep \notin {"unstarted", "connect"}
    BY <2>1 DEF QuietBeforeSending
  <2>3. mainStep \notin {"startServer", "startSender"}
    BY <2>2 DEF ThreadsInStep
  <2>4. CASE Main \/ NetworkThread
    BY <2>3, <2>4 DEF Main, NetworkThread, MainStartsNetwork, MainStartsServer,
       MainStartsSender, MainStartsReceiver, MainJoins, NetworkSeesClientGone,
       NetworkPollsServer
  <2>5. CASE Sender
    BY <2>2, <2>5 DEF Sender, SenderConnects, SenderPolls, SenderSends,
       SenderReturns, SenderTerminates
  <2>6. CASE Receiver
    BY <2>1, <2>6 DEF Receiver, ReceiverConnects, ReceiverPolls,
       ReceiverReceives, ReceiverReturns, ReceiverDisconnects
  <2>7. CASE Server
    BY <2>7 DEF Server, ServerConnects, ServerWaits, ServerChecksClient,
       ServerPollsInput, ServerChecksClientWaiting, ServerFindsEmpty,
       ServerFindsPacket, ServerTransfersIn, ServerReturnsFromTransferIn,
       ServerFindsNoAccount, ServerProcesses, ServerPollsOutput,
       ServerTransfersOut, ServerReturnsFromTransferOut, ServerDisconnects
  <2>8. CASE UNCHANGED vars
    BY <2>8 DEF vars
  <2> QED BY <1>1, <2>4, <2>5, <2>6, <2>7, <2>8 DEF Next
<1>2. BankInv /\ [Next]_vars =>
        [clientConnectionStatus = "disconnected"
           => clientConnectionStatus' = "disconnected"]_vars
  BY <1>1
<1> QED BY <1>2, BankInvariant, PTL DEF Spec, NoReconnect

-----------------------------------------------------------------------------
(* The theorems about one ring buffer, for each of the two. *)
InP == INSTANCE NetworkBufferProofs WITH
  NbFields <- 4, Value <- Text \cup Int, Free <- "free",
  PutObject <- NetworkOf["sender"], GetObject <- NetworkOf["server"],
  PutCall <- "send", GetCall <- "transferIn",
  OtherCalls <- {"transferOut", "receive"},
  buffer <- inComingPacket, bufferStatus <- inBufferStatus,
  inputIndex <- inputIndexClient, outputIndex <- outputIndexServer,
  putStep <- sendStep, putField <- sendField, putPacket <- sendPacket,
  getStep <- transferInStep, getField <- transferInField, getPacket <- trans

OutP == INSTANCE NetworkBufferProofs WITH
  NbFields <- 4, Value <- Text \cup Int, Free <- "free",
  PutObject <- NetworkOf["server"], GetObject <- NetworkOf["receiver"],
  PutCall <- "transferOut", GetCall <- "receive",
  OtherCalls <- {"send", "transferIn"},
  buffer <- outGoingPacket, bufferStatus <- outBufferStatus,
  inputIndex <- inputIndexServer, outputIndex <- outputIndexClient,
  putStep <- transferOutStep, putField <- transferOutField,
  putPacket <- transferOutPacket,
  getStep <- receiveStep, getField <- receiveField, getPacket <- transact

(* A packet of the bank is a packet of the ring buffers.                   *)
LEMMA PacketIsPacket ==
  ASSUME NEW p \in TransactionPacket
  PROVE  p \in InP!Packet /\ p \in OutP!Packet
  BY DEF TransactionPacket, InP!Packet, InP!Field, OutP!Packet, OutP!Field

LEMMA RingAssumptions == InP!BufferAssumption /\ OutP!BufferAssumption
<1>1. BlankPacket \in TransactionPacket
  BY BankAssumption DEF BlankPacket, TransactionPacket
<1>2. NetworkOf \in [Thread -> Object] /\ MaxNbPackets \in Nat \ {0}
  BY BankAssumption
<1>3. \A t \in Thread : NetworkOf[t] \in Object
  BY <1>2
<1> QED
  BY <1>1, <1>2, <1>3, PacketIsPacket
  DEF InP!BufferAssumption, OutP!BufferAssumption, Thread

(* A step moves one side of one ring, or neither ring.                     *)
LEMMA SidesOfStep ==
  ASSUME TypeOK, CallsInStep, [Next]_vars
  PROVE  \/ UNCHANGED <<inVars, outVars, monitor>>
         \/ (InP!Put \/ InP!Get) /\ UNCHANGED outVars
         \/ (OutP!Put \/ OutP!Get) /\ UNCHANGED inVars
<1>1. CASE Main \/ NetworkThread
  BY <1>1 DEF Main, MainStartsNetwork, MainStartsServer, MainStartsSender,
     MainStartsReceiver, MainJoins, NetworkThread, NetworkSeesClientGone,
     NetworkPollsServer
<1>2. CASE Sender
  <2>1. CASE SenderConnects \/ SenderTerminates
    BY <2>1 DEF SenderConnects, SenderTerminates
  <2>2. CASE SenderPolls \/ SenderReturns
    BY <2>2 DEF SenderPolls, SenderReturns, In!PutPoll, In!PutReturn,
       InP!Put, InP!PutPoll, InP!PutReturn, In!ringVars, In!getVars,
       InP!ringVars, InP!getVars
  <2>3. CASE SenderSends
    <3>1. CASE In!PutEnter(Request(Transaction[sent + 1]))
      <4>1. sent + 1 \in 1 .. NumberOfTransactions
        BY <3>1, NumberIsNat DEF TypeOK, CallsInStep, In!PutEnter
      <4>2. Request(Transaction[sent + 1]) \in InP!Packet
        BY <4>1, RequestIsPacket, PacketIsPacket
      <4>3. InP!PutEnter(Request(Transaction[sent + 1]))
        BY <3>1 DEF In!PutEnter, InP!PutEnter, In!ringVars, In!getVars,
           InP!ringVars, InP!getVars
      <4> QED BY <2>3, <4>2, <4>3 DEF SenderSends, InP!Put
    <3>2. CASE In!PutCopy \/ In!PutAdvance \/ In!PutCompare
      BY <2>3, <3>2 DEF SenderSends, In!PutCopy, In!PutAdvance, In!PutCompare,
         InP!Put, InP!PutCopy, InP!PutAdvance, InP!PutCompare, In!NextIndex,
         InP!NextIndex, In!ringVars, In!getVars, InP!ringVars, InP!getVars
    <3> QED BY <2>3, <3>1, <3>2 DEF SenderSends
  <2> QED BY <1>2, <2>1, <2>2, <2>3 DEF Sender
<1>3. CASE Receiver
  <2>1. CASE ReceiverConnects \/ ReceiverDisconnects
    BY <2>1 DEF ReceiverConnects, ReceiverDisconnects
  <2>2. CASE ReceiverPolls \/ ReceiverReturns
    BY <2>2 DEF ReceiverPolls, ReceiverReturns, Out!GetPoll, Out!GetReturn,
       OutP!Get, OutP!GetPoll, OutP!GetReturn, Out!ringVars, Out!putVars,
       OutP!ringVars, OutP!putVars
  <2>3. CASE ReceiverReceives
    BY <2>3 DEF ReceiverReceives, Out!GetEnter, Out!GetCopy, Out!GetAdvance,
       Out!GetCompare, OutP!Get, OutP!GetEnter, OutP!GetCopy, OutP!GetAdvance,
       OutP!GetCompare, Out!NextIndex, OutP!NextIndex, Out!ringVars,
       Out!putVars, OutP!ringVars, OutP!putVars
  <2> QED BY <1>3, <2>1, <2>2, <2>3 DEF Receiver
<1>4. CASE \/ ServerConnects \/ ServerWaits \/ ServerFindsNoAccount
           \/ ServerDisconnects
  BY <1>4 DEF ServerConnects, ServerWaits, ServerChecksClient,
     ServerPollsInput, ServerChecksClientWaiting, ServerFindsEmpty,
     ServerFindsNoAccount, ServerDisconnects
<1>5. CASE \/ ServerFindsPacket \/ ServerTransfersIn
           \/ ServerReturnsFromTransferIn
  BY <1>5 DEF ServerFindsPacket, ServerTransfersIn,
     ServerReturnsFromTransferIn, In!GetPoll, In!GetEnter, In!GetCopy,
     In!GetAdvance, In!GetCompare, In!GetReturn, InP!Get, InP!GetPoll,
     InP!GetEnter, InP!GetCopy, InP!GetAdvance, InP!GetCompare,
     InP!GetReturn, In!NextIndex, InP!NextIndex, In!ringVars, In!putVars,
     InP!ringVars, InP!putVars
<1>6. CASE ServerProcesses
  <2>1. trans' \in InP!Packet
    BY <1>6, TypeStep, PacketIsPacket DEF TypeOK
  <2>2. InP!GetterWrites(trans') /\ UNCHANGED outVars
    BY <1>6 DEF ServerProcesses, In!GetterWrites, InP!GetterWrites,
       In!ringVars, In!putVars, InP!ringVars, InP!putVars
  <2> QED BY <2>1, <2>2 DEF InP!Get
<1>7. CASE ServerPollsOutput \/ ServerReturnsFromTransferOut
  BY <1>7 DEF ServerPollsOutput, ServerReturnsFromTransferOut, Out!PutPoll,
     Out!PutReturn, OutP!Put, OutP!PutPoll, OutP!PutReturn, Out!ringVars,
     Out!getVars, OutP!ringVars, OutP!getVars
<1>8. CASE ServerTransfersOut
  <2>1. CASE Out!PutEnter(trans)
    <3>1. trans \in OutP!Packet
      BY PacketIsPacket DEF TypeOK
    <3>2. OutP!PutEnter(trans)
      BY <2>1 DEF Out!PutEnter, OutP!PutEnter, Out!ringVars, Out!getVars,
         OutP!ringVars, OutP!getVars
    <3> QED BY <1>8, <3>1, <3>2 DEF ServerTransfersOut, OutP!Put
  <2>2. CASE Out!PutCopy \/ Out!PutAdvance \/ Out!PutCompare
    BY <1>8, <2>2 DEF ServerTransfersOut, Out!PutCopy, Out!PutAdvance,
       Out!PutCompare, OutP!Put, OutP!PutCopy, OutP!PutAdvance,
       OutP!PutCompare, Out!NextIndex, OutP!NextIndex, Out!ringVars,
       Out!getVars, OutP!ringVars, OutP!getVars
  <2> QED BY <1>8, <2>1, <2>2 DEF ServerTransfersOut
<1>9. CASE UNCHANGED vars
  BY <1>9 DEF vars
<1> QED
  BY <1>1, <1>2, <1>3, <1>4, <1>5, <1>6, <1>7, <1>8, <1>9 DEF Next, Server


(* A ring sees a step of the other ring as a call that takes or releases a *)
(* monitor.                                                                *)
LEMMA RingSteps ==
  ASSUME TypeOK, CallsInStep, InP!MonitorHeld, OutP!MonitorHeld, [Next]_vars
  PROVE  [InP!Next]_(InP!vars) /\ [OutP!Next]_(OutP!vars)
<1> USE RingAssumptions
<1> DEFINE takes(o, c) ==
             /\ monitor[o] = "free" /\ monitor' = [monitor EXCEPT ![o] = c]
           gives(o, c) ==
             /\ monitor[o] = c /\ monitor' = [monitor EXCEPT ![o] = "free"]
<1>1. NetworkOf \in [Thread -> Object]
  BY BankAssumption
<1>2. /\ NetworkOf["sender"] \in Object /\ NetworkOf["server"] \in Object
      /\ NetworkOf["receiver"] \in Object
  BY <1>1 DEF Thread
<1>3. CASE UNCHANGED <<inVars, outVars, monitor>>
  BY <1>3 DEF inVars, outVars, InP!vars, InP!ringVars, InP!putVars, InP!getVars,
     OutP!vars, OutP!ringVars, OutP!putVars, OutP!getVars
<1>4. CASE (InP!Put \/ InP!Get) /\ UNCHANGED outVars
  <2>1. \/ UNCHANGED monitor
        \/ \E o \in Object, c \in {"send", "transferIn"} : takes(o, c) \/ gives(o, c)
    BY <1>2, <1>4, InP!PutHolds, InP!GetHolds
  <2>2. UNCHANGED <<OutP!ringVars, OutP!putVars, OutP!getVars>>
    BY <1>4 DEF outVars, OutP!ringVars, OutP!putVars, OutP!getVars
  <2>3. OutP!Other \/ UNCHANGED OutP!vars
    BY <2>1, <2>2 DEF OutP!Other, OutP!OtherEnter, OutP!OtherReturn, OutP!vars
  <2> QED BY <1>4, <2>3 DEF InP!Next, OutP!Next
<1>5. CASE (OutP!Put \/ OutP!Get) /\ UNCHANGED inVars
  <2>1. \/ UNCHANGED monitor
        \/ \E o \in Object, c \in {"transferOut", "receive"} :
             takes(o, c) \/ gives(o, c)
    BY <1>2, <1>5, OutP!PutHolds, OutP!GetHolds
  <2>2. UNCHANGED <<InP!ringVars, InP!putVars, InP!getVars>>
    BY <1>5 DEF inVars, InP!ringVars, InP!putVars, InP!getVars
  <2>3. InP!Other \/ UNCHANGED InP!vars
    BY <2>1, <2>2 DEF InP!Other, InP!OtherEnter, InP!OtherReturn, InP!vars
  <2> QED BY <1>5, <2>3 DEF InP!Next, OutP!Next
<1> QED
  BY <1>3, <1>4, <1>5, SidesOfStep

LEMMA RingTypes ==
  ASSUME TypeOK
  PROVE  InP!TypeOK /\ OutP!TypeOK
<1>1. /\ \A p \in TransactionPacket : p \in InP!Packet /\ p \in OutP!Packet
      /\ inComingPacket \in [InP!Slot -> TransactionPacket]
      /\ outGoingPacket \in [OutP!Slot -> TransactionPacket]
  BY PacketIsPacket DEF TypeOK, In!Slot, Out!Slot, InP!Slot, OutP!Slot
<1>2. /\ inComingPacket \in [InP!Slot -> InP!Packet]
      /\ outGoingPacket \in [OutP!Slot -> OutP!Packet]
  BY <1>1
<1>3. InP!TypeOK
  BY <1>1, <1>2 DEF TypeOK, InP!TypeOK, In!Slot, InP!Slot, In!Status, InP!Status,
     In!PutCalling, InP!PutCalling, In!GetCalling, InP!GetCalling,
     In!PutUpdating, InP!PutUpdating, In!GetUpdating, InP!GetUpdating,
     InP!Field, Call
<1>4. OutP!TypeOK
  BY <1>1, <1>2 DEF TypeOK, OutP!TypeOK, Out!Slot, OutP!Slot, Out!Status, OutP!Status,
     Out!PutCalling, OutP!PutCalling, Out!GetCalling, OutP!GetCalling,
     Out!PutUpdating, OutP!PutUpdating, Out!GetUpdating, OutP!GetUpdating,
     OutP!Field, Call
<1> QED BY <1>3, <1>4

LEMMA RingInits ==
  Init => InP!Init /\ OutP!Init
  BY DEF Init, In!Init, Out!Init, InP!Init, OutP!Init, In!Slot, InP!Slot, Out!Slot, OutP!Slot

LEMMA HeldKept ==
  ASSUME TypeOK, CallsInStep, InP!MonitorHeld, OutP!MonitorHeld, [Next]_vars
  PROVE  InP!MonitorHeld' /\ OutP!MonitorHeld'
<1>1. [InP!Next]_(InP!vars) /\ [OutP!Next]_(OutP!vars)
  BY RingSteps
<1> QED BY <1>1, RingTypes, RingAssumptions, InP!HeldStep, OutP!HeldStep

(* Whatever Network objects the threads use, the bank does to either ring  *)
(* only what module NetworkBuffer allows: the transfers of a ring, by one  *)
(* producer and one consumer, and calls on the other ring.                 *)
THEOREM RingsAreNetworkBuffers == Spec => InP!Spec /\ OutP!Spec
<1>1. Init => InP!Init /\ OutP!Init /\ InP!MonitorHeld /\ OutP!MonitorHeld
  BY RingInits, RingAssumptions, InP!HeldInit, OutP!HeldInit
<1>2. BankInv => TypeOK /\ CallsInStep
  BY DEF BankInv
<1>3. /\ TypeOK /\ CallsInStep /\ InP!MonitorHeld /\ OutP!MonitorHeld /\ [Next]_vars
         => /\ InP!MonitorHeld' /\ OutP!MonitorHeld'
            /\ [InP!Next]_(InP!vars) /\ [OutP!Next]_(OutP!vars)
  BY RingSteps, HeldKept
<1> QED
  BY <1>1, <1>2, <1>3, BankInvariant, PTL DEF Spec, InP!Spec, OutP!Spec

(* The rings of the bank and of the theorems are apart together. *)
LEMMA SameApart ==
  UpdatesApart <=> InP!UpdatesApart /\ OutP!UpdatesApart
  BY DEF UpdatesApart, In!UpdatesApart, InP!UpdatesApart, Out!UpdatesApart,
     OutP!UpdatesApart, In!PutUpdating, InP!PutUpdating, In!GetUpdating,
     InP!GetUpdating, Out!PutUpdating, OutP!PutUpdating, Out!GetUpdating,
     OutP!GetUpdating

LEMMA SameApartAfter ==
  UpdatesApart' <=> InP!UpdatesApart' /\ OutP!UpdatesApart'
<1>1. (UpdatesApart <=> InP!UpdatesApart /\ OutP!UpdatesApart)'
  BY SameApart, PTL
<1> QED BY <1>1

(* One Network object for the whole program keeps all updates apart. *)
THEOREM SharedNetworkKeepsApart ==
  ASSUME SharedNetwork
  PROVE  Spec => []UpdatesApart
<1>1. InP!OneObject /\ OutP!OneObject
  BY SharedNetwork DEF SharedNetwork, Thread, InP!OneObject, OutP!OneObject
<1>2. /\ InP!Spec => []InP!UpdatesApart
      /\ OutP!Spec => []OutP!UpdatesApart
  BY <1>1, RingAssumptions, InP!OneObjectKeepsApart, OutP!OneObjectKeepsApart
<1> QED
  BY <1>2, RingsAreNetworkBuffers, SameApart, PTL

(* Whatever objects the threads use: as long as no ring has two calls      *)
(* between their index and their status at once, requests and answers each *)
(* pass through a bounded queue, whole, once and in order.                 *)
THEOREM RingsDeliverInOrder ==
  Spec /\ []UpdatesApart => InP!DeliversInOrder /\ OutP!DeliversInOrder
<1>1. /\ InP!Spec /\ []InP!UpdatesApart => InP!DeliversInOrder
      /\ OutP!Spec /\ []OutP!UpdatesApart => OutP!DeliversInOrder
  BY RingAssumptions, InP!NetworkIsFifo, OutP!NetworkIsFifo
<1>2. []UpdatesApart => []InP!UpdatesApart /\ []OutP!UpdatesApart
  BY SameApart, PTL
<1> QED
  BY <1>1, <1>2, RingsAreNetworkBuffers

-----------------------------------------------------------------------------
(* Induction on the numbers, in the form the definition below needs.       *)

LEMMA SmallestMember ==
  ASSUME NEW T \in SUBSET Nat, T # {}
  PROVE  \E x \in T : \A y \in T : ~(y < x)
<1>1. IsWellFoundedOn(OpToRel(<, Nat), Nat)
  BY NatLessThanWellFounded
<1>2. PICK x \in T : \A y \in T : ~ (<<y, x>> \in OpToRel(<, Nat))
  <2> DEFINE R == OpToRel(<, Nat)
  <2> HIDE DEF R
  <2>1. IsWellFoundedOn(R, Nat)
    BY <1>1 DEF R
  <2>2. \E x \in T : \A y \in T : ~ (<<y, x>> \in R)
    BY <2>1, WFMin
  <2> QED BY <2>2 DEF R
<1> QED
  BY <1>2 DEF OpToRel

LEMMA SetInduction ==
  ASSUME NEW S, 0 \in S, \A n \in Nat : n \in S => n + 1 \in S
  PROVE  Nat \subseteq S
<1>1. SUFFICES ASSUME Nat \ S # {} PROVE FALSE
  OBVIOUS
<1>2. PICK x \in Nat \ S : \A y \in Nat \ S : ~ (y < x)
  BY <1>1, SmallestMember
<1>3. x # 0 /\ x - 1 \in Nat /\ x - 1 < x
  OBVIOUS
<1>4. x - 1 \in S
  BY <1>2, <1>3
<1>5. (x - 1) + 1 \in S
  BY <1>3, <1>4
<1> QED
  BY <1>5

(* The balances after k transactions are well defined for every k ...      *)
LEMMA BalancesExist ==
  ASSUME NEW n \in Nat
  PROVE  \E f : f = [k \in 0 .. n |->
                       IF k = 0 THEN InitialBalance ELSE Execute(f[k - 1], k)]
<1> HIDE DEF Execute
<1> DEFINE Table(f, m) ==
      f = [k \in 0 .. m |->
             IF k = 0 THEN InitialBalance ELSE Execute(f[k - 1], k)]
           S == {m \in Nat : \E f : Table(f, m)}
<1>1. 0 \in S
  <2>1. Table([k \in 0 .. 0 |-> InitialBalance], 0)
    OBVIOUS
  <2> QED BY <2>1
<1>2. ASSUME NEW m \in Nat, m \in S PROVE m + 1 \in S
  <2>1. PICK f : Table(f, m)
    BY <1>2
  <2> DEFINE g == [k \in 0 .. (m + 1) |->
                     IF k <= m THEN f[k] ELSE Execute(f[m], m + 1)]
  <2>2. ASSUME NEW k \in 0 .. (m + 1)
        PROVE  g[k] = IF k = 0 THEN InitialBalance ELSE Execute(g[k - 1], k)
    <3>1. CASE k = 0
      BY <2>1, <3>1
    <3>2. CASE k \in 1 .. m
      <4>1. f[k] = Execute(f[k - 1], k)
        BY <2>1, <3>2
      <4>2. g[k] = f[k] /\ g[k - 1] = f[k - 1]
        BY <3>2
      <4> QED BY <3>2, <4>1, <4>2
    <3>3. CASE k = m + 1
      <4>1. g[k] = Execute(f[m], m + 1) /\ g[k - 1] = f[m]
        BY <3>3
      <4> QED BY <3>3, <4>1
    <3> QED BY <3>1, <3>2, <3>3
  <2>3. Table(g, m + 1)
    <3> HIDE DEF g
    <3>1. g = [k \in 0 .. (m + 1) |-> g[k]]
      BY DEF g
    <3> QED BY <2>2, <3>1
  <2> HIDE DEF g, Table
  <2>4. \E h : Table(h, m + 1)
    BY <2>3
  <2> QED BY <2>4
<1> HIDE DEF S
<1>3. n \in S
  BY <1>1, <1>2, SetInduction
<1> QED
  BY <1>3 DEF S

(* ... and each follows from the one before by its transaction.            *)
LEMMA BalanceStep ==
  /\ BalanceAfter[0] = InitialBalance
  /\ \A k \in 1 .. NumberOfTransactions :
       BalanceAfter[k] = Execute(BalanceAfter[k - 1], k)
<1>1. PICK f : f = [k \in 0 .. NumberOfTransactions |->
                 IF k = 0 THEN InitialBalance ELSE Execute(f[k - 1], k)]
  BY NumberIsNat, BalancesExist
<1>2. BalanceAfter = [k \in 0 .. NumberOfTransactions |->
        IF k = 0 THEN InitialBalance ELSE Execute(BalanceAfter[k - 1], k)]
  BY <1>1, Zenon DEF BalanceAfter, Execute
<1> QED
  BY <1>2, NumberIsNat

-----------------------------------------------------------------------------
(* What a step does to the requests and the answers in transit.            *)

(* The packets between the indices, as In, Out and the theorems name them. *)
LEMMA SameTransit ==
  In!InTransit = InP!InTransit /\ Out!InTransit = OutP!InTransit
<1>1. In!InTransit = InP!InTransit
  BY DEF In!InTransit, InP!InTransit, In!Occupancy, InP!Occupancy, In!RingFull,
     InP!RingFull, In!SlotAt, InP!SlotAt, In!PutUpdating, InP!PutUpdating,
     In!GetUpdating, InP!GetUpdating
<1>2. Out!InTransit = OutP!InTransit
  BY DEF Out!InTransit, OutP!InTransit, Out!Occupancy, OutP!Occupancy,
     Out!RingFull, OutP!RingFull, Out!SlotAt, OutP!SlotAt, Out!PutUpdating,
     OutP!PutUpdating, Out!GetUpdating, OutP!GetUpdating
<1> QED BY <1>1, <1>2

LEMMA SameTransitAfter ==
  In!InTransit' = InP!InTransit' /\ Out!InTransit' = OutP!InTransit'
<1>1. (In!InTransit = InP!InTransit /\ Out!InTransit = OutP!InTransit)'
  BY SameTransit, PTL
<1> QED BY <1>1

LEMMA TransitIsSequence ==
  ASSUME InP!RingInv, OutP!RingInv
  PROVE  In!InTransit \in Seq(InP!Packet) /\ Out!InTransit \in Seq(OutP!Packet)
  BY SameTransit, RingAssumptions, InP!InTransitIsSequence,
     OutP!InTransitIsSequence DEF InP!RingInv, OutP!RingInv

LEMMA InQueue ==
  ASSUME UpdatesApart, UpdatesApart', InP!RingInv, InP!RingInv',
         [InP!Next]_(InP!vars)
  PROVE  /\ In!InTransit \in Seq(InP!Packet)
         /\ In!PutAdvance => In!InTransit' = Append(In!InTransit, sendPacket)
         /\ In!GetAdvance =>
              /\ In!InTransit # << >> /\ trans = Head(In!InTransit)
              /\ In!InTransit' = Tail(In!InTransit)
         /\ ~In!PutAdvance /\ ~In!GetAdvance => In!InTransit' = In!InTransit
<1> USE RingAssumptions, SameApart, SameApartAfter
<1>1. /\ In!PutAdvance <=> InP!PutAdvance
      /\ In!GetAdvance <=> InP!GetAdvance
  BY DEF In!PutAdvance, InP!PutAdvance, In!GetAdvance, InP!GetAdvance,
     In!NextIndex, InP!NextIndex, In!getVars, InP!getVars, In!putVars,
     InP!putVars
<1>2. In!InTransit = InP!InTransit /\ In!InTransit' = InP!InTransit'
  BY SameTransit, SameTransitAfter
<1>3. InP!TypeOK /\ InP!TypeOK'
  BY DEF InP!RingInv
<1>4. InP!InTransit \in Seq(InP!Packet)
  BY <1>3, InP!InTransitIsSequence
<1>5. CASE InP!PutAdvance
  <2>1. InP!Fifo!Put
    BY <1>3, <1>5, InP!AdvanceAppends
  <2> QED
    BY <1>1, <1>2, <1>4, <1>5, <2>1 DEF InP!Fifo!Put, In!GetAdvance,
       In!PutAdvance, In!putVars
<1>6. CASE InP!GetAdvance
  <2>1. InP!Fifo!Take
    BY <1>3, <1>6, InP!AdvanceTakes
  <2> QED
    BY <1>1, <1>2, <1>4, <1>6, <2>1 DEF InP!Fifo!Take, In!PutAdvance,
       In!GetAdvance, In!putVars
<1>7. CASE ~InP!PutAdvance /\ ~InP!GetAdvance
  BY <1>1, <1>2, <1>4, <1>7, InP!OnlyAdvancesMove
<1> QED BY <1>5, <1>6, <1>7

LEMMA OutQueue ==
  ASSUME UpdatesApart, UpdatesApart', OutP!RingInv, OutP!RingInv',
         [OutP!Next]_(OutP!vars)
  PROVE  /\ Out!InTransit \in Seq(OutP!Packet)
         /\ Out!PutAdvance =>
              Out!InTransit' = Append(Out!InTransit, transferOutPacket)
         /\ Out!GetAdvance =>
              /\ Out!InTransit # << >> /\ transact = Head(Out!InTransit)
              /\ Out!InTransit' = Tail(Out!InTransit)
         /\ ~Out!PutAdvance /\ ~Out!GetAdvance => Out!InTransit' = Out!InTransit
<1> USE RingAssumptions, SameApart, SameApartAfter
<1>1. /\ Out!PutAdvance <=> OutP!PutAdvance
      /\ Out!GetAdvance <=> OutP!GetAdvance
  BY DEF Out!PutAdvance, OutP!PutAdvance, Out!GetAdvance, OutP!GetAdvance,
     Out!NextIndex, OutP!NextIndex, Out!getVars, OutP!getVars, Out!putVars,
     OutP!putVars
<1>2. Out!InTransit = OutP!InTransit /\ Out!InTransit' = OutP!InTransit'
  BY SameTransit, SameTransitAfter
<1>3. OutP!TypeOK /\ OutP!TypeOK'
  BY DEF OutP!RingInv
<1>4. OutP!InTransit \in Seq(OutP!Packet)
  BY <1>3, OutP!InTransitIsSequence
<1>5. CASE OutP!PutAdvance
  <2>1. OutP!Fifo!Put
    BY <1>3, <1>5, OutP!AdvanceAppends
  <2> QED
    BY <1>1, <1>2, <1>4, <1>5, <2>1 DEF OutP!Fifo!Put, Out!GetAdvance,
       Out!PutAdvance, Out!putVars
<1>6. CASE OutP!GetAdvance
  <2>1. OutP!Fifo!Take
    BY <1>3, <1>6, OutP!AdvanceTakes
  <2> QED
    BY <1>1, <1>2, <1>4, <1>6, <2>1 DEF OutP!Fifo!Take, Out!PutAdvance,
       Out!GetAdvance, Out!putVars
<1>7. CASE ~OutP!PutAdvance /\ ~OutP!GetAdvance
  BY <1>1, <1>2, <1>4, <1>7, OutP!OnlyAdvancesMove
<1> QED BY <1>5, <1>6, <1>7

-----------------------------------------------------------------------------
(* What a step does to the counters: a call counts when it moves its       *)
(* index, a transaction is applied when the server has processed it.       *)
LEMMA CountersMove ==
  ASSUME TypeOK, ThreadsInStep, CallsInStep, [Next]_vars
  PROVE  /\ Sent'     = IF In!PutAdvance THEN Sent + 1 ELSE Sent
         /\ Taken'    = IF In!GetAdvance THEN Taken + 1 ELSE Taken
         /\ Answered' = IF Out!PutAdvance THEN Answered + 1 ELSE Answered
         /\ Received' = IF Out!GetAdvance THEN Received + 1 ELSE Received
         /\ Applied'  = IF ServerProcesses THEN Applied + 1 ELSE Applied
<1> USE DEF TypeOK, CallsInStep, controlVars, statusVars, dataVars, inVars,
        outVars
<1>0. ServerProcesses => serverStep = "process" /\ serverStep' = "transferOut"
  BY DEF ServerProcesses, ServerGoes
<1> USE <1>0 DEF Sent, Taken, Answered, Received, Applied, In!PutUpdating,
        In!GetUpdating, Out!PutUpdating, Out!GetUpdating, In!PutAdvance,
        In!GetAdvance, Out!PutAdvance, Out!GetAdvance
<1>1. CASE Main
  BY <1>1 DEF ThreadsInStep, Main, MainStartsNetwork, MainStartsServer, MainStartsSender,
     MainStartsReceiver, MainJoins
<1>2. CASE NetworkThread
  BY <1>2 DEF NetworkThread, NetworkSeesClientGone, NetworkPollsServer
<1>3. CASE Sender
  BY <1>3 DEF Sender, SenderConnects, SenderPolls, SenderSends, SenderReturns,
     SenderTerminates, In!PutPoll, In!PutEnter, In!PutCopy,
     In!PutCompare, In!PutReturn, In!ringVars, In!getVars
<1>4. CASE Receiver
  BY <1>4, LenProperties, AppendProperties DEF Receiver, ReceiverConnects,
     ReceiverPolls, ReceiverReceives,
     ReceiverReturns, ReceiverDisconnects, Out!GetPoll, Out!GetEnter,
     Out!GetCopy, Out!GetCompare, Out!GetReturn, Out!ringVars,
     Out!putVars
<1>5. CASE \/ ServerConnects \/ ServerWaits \/ ServerFindsNoAccount
          \/ ServerDisconnects
  BY <1>5 DEF ServerConnects, ServerWaits, ServerChecksClient,
     ServerPollsInput, ServerChecksClientWaiting, ServerFindsEmpty,
     ServerFindsNoAccount, ServerDisconnects, ServerGoes
<1>6. CASE \/ ServerFindsPacket \/ ServerTransfersIn
          \/ ServerReturnsFromTransferIn \/ ServerProcesses
  BY <1>6 DEF ServerFindsPacket, ServerTransfersIn,
     ServerReturnsFromTransferIn, ServerProcesses, ServerGoes, In!GetPoll,
     In!GetEnter, In!GetCopy, In!GetCompare, In!GetReturn,
     In!GetterWrites, In!ringVars, In!putVars
<1>7. CASE \/ ServerPollsOutput \/ ServerTransfersOut
          \/ ServerReturnsFromTransferOut
  BY <1>7 DEF ServerPollsOutput, ServerTransfersOut,
     ServerReturnsFromTransferOut, ServerGoes, Out!PutPoll, Out!PutEnter,
     Out!PutCopy, Out!PutCompare, Out!PutReturn, Out!ringVars,
     Out!getVars
<1>8. CASE UNCHANGED vars
  BY <1>8 DEF vars
<1> QED
  BY <1>1, <1>2, <1>3, <1>4, <1>5, <1>6, <1>7, <1>8 DEF Next, Server

LEMMA CountersAreNat ==
  ASSUME TypeOK
  PROVE  /\ Sent \in Nat /\ Taken \in Nat /\ Applied \in Nat
         /\ Answered \in Nat /\ Received \in Nat
  BY LenProperties DEF TypeOK, Sent, Taken, Applied, Answered, Received

(* No more is taken, applied or received than was sent or answered.        *)
LEMMA CountersOrdered ==
  ASSUME TypeOK, CallsInStep, InRing, OutRing,
         In!InTransit \in Seq(InP!Packet), Out!InTransit \in Seq(OutP!Packet)
  PROVE  /\ Received <= Answered /\ Answered <= Applied /\ Applied <= Taken
         /\ Taken <= Sent /\ Sent <= NumberOfTransactions
<1>1. Len(In!InTransit) \in Nat /\ Len(Out!InTransit) \in Nat
  BY LenProperties
<1>2. Received <= Answered /\ Taken <= Sent
  BY <1>1, CountersAreNat DEF InRing, OutRing
<1>3. Answered <= Applied /\ Applied <= Taken /\ Sent <= NumberOfTransactions
  BY NumberIsNat DEF TypeOK, CallsInStep, Answered, Applied, Taken, Sent,
     In!PutUpdating, Out!PutUpdating
<1> QED BY <1>2, <1>3

-----------------------------------------------------------------------------
(* Each part of the ledger is kept.                                        *)

LEMMA InRingStep ==
  ASSUME UpdatesApart, UpdatesApart', TypeOK, ThreadsInStep, CallsInStep, InRing, SenderHolds,
         InP!RingInv, InP!RingInv', [InP!Next]_(InP!vars), [Next]_vars
  PROVE  InRing'
<1> DEFINE q == In!InTransit
<1>0. Sent \in Nat /\ Taken \in Nat
  BY CountersAreNat
<1>1. q \in Seq(InP!Packet)
  BY InQueue
<1>2. CASE In!PutAdvance
  <2>1. ~In!GetAdvance
    BY <1>2 DEF In!PutAdvance, In!GetAdvance, In!getVars
  <2>2. Sent' = Sent + 1 /\ Taken' = Taken
    BY <1>2, <2>1, CountersMove
  <2>3. q' = Append(q, sendPacket) /\ sendPacket \in InP!Packet
    BY <1>2, InQueue DEF InP!RingInv, InP!TypeOK
  <2>4. sendPacket = Request(Transaction[Sent + 1])
    BY <1>2 DEF SenderHolds, In!PutAdvance, Sent, In!PutUpdating, TypeOK
  <2>5. /\ Len(q) \in Nat /\ Len(q') = Len(q) + 1 /\ q'[Len(q) + 1] = sendPacket
        /\ \A k \in 1 .. Len(q) : q'[k] = q[k]
    BY <1>1, <2>3, AppendProperties, LenProperties
  <2>6. /\ Sent = Taken + Len(q)
        /\ \A k \in 1 .. Len(q) : q[k] = Request(Transaction[Taken + k])
    BY DEF InRing
  <2> HIDE DEF q, Request
  <2>7. /\ Sent' = Taken' + Len(q')
        /\ \A k \in 1 .. Len(q') : q'[k] = Request(Transaction[Taken' + k])
    BY <1>0, <2>2, <2>4, <2>5, <2>6
  <2> QED BY <2>7 DEF InRing, q
<1>3. CASE In!GetAdvance
  <2>1. ~In!PutAdvance
    BY <1>3 DEF In!PutAdvance, In!GetAdvance, In!putVars
  <2>2. Sent' = Sent /\ Taken' = Taken + 1
    BY <1>3, <2>1, CountersMove
  <2>3. q # << >> /\ q' = Tail(q)
    BY <1>3, InQueue
  <2>5. /\ Len(q) \in Nat \ {0} /\ Len(q') = Len(q) - 1
        /\ \A k \in 1 .. (Len(q) - 1) : q'[k] = q[k + 1]
    BY <1>1, <2>3, HeadTailProperties, LenProperties, EmptySeq
  <2>6. /\ Sent = Taken + Len(q)
        /\ \A k \in 1 .. Len(q) : q[k] = Request(Transaction[Taken + k])
    BY DEF InRing
  <2> HIDE DEF q, Request
  <2>7. /\ Sent' = Taken' + Len(q')
        /\ \A k \in 1 .. Len(q') : q'[k] = Request(Transaction[Taken' + k])
    BY <1>0, <2>2, <2>5, <2>6
  <2> QED BY <2>7 DEF InRing, q
<1>4. CASE ~In!PutAdvance /\ ~In!GetAdvance
  <2>1. q' = q /\ Sent' = Sent /\ Taken' = Taken
    BY <1>4, InQueue, CountersMove
  <2> QED BY <2>1 DEF InRing
<1> QED BY <1>2, <1>3, <1>4

LEMMA OutRingStep ==
  ASSUME UpdatesApart, UpdatesApart', TypeOK, ThreadsInStep, CallsInStep, OutRing, ServerHolds,
         OutP!RingInv, OutP!RingInv', [OutP!Next]_(OutP!vars), [Next]_vars
  PROVE  OutRing'
<1> DEFINE q == Out!InTransit
<1>0. Answered \in Nat /\ Received \in Nat
  BY CountersAreNat
<1>1. q \in Seq(OutP!Packet)
  BY OutQueue
<1>2. CASE Out!PutAdvance
  <2>1. ~Out!GetAdvance
    BY <1>2 DEF Out!PutAdvance, Out!GetAdvance, Out!getVars
  <2>2. Answered' = Answered + 1 /\ Received' = Received
    BY <1>2, <2>1, CountersMove
  <2>3. q' = Append(q, transferOutPacket) /\ transferOutPacket \in OutP!Packet
    BY <1>2, OutQueue DEF OutP!RingInv, OutP!TypeOK
  <2>4. transferOutPacket = Answer(Answered + 1)
    BY <1>2 DEF ServerHolds, CallsInStep, Out!PutAdvance, Answered, Out!PutUpdating, TypeOK
  <2>5. /\ Len(q) \in Nat /\ Len(q') = Len(q) + 1
        /\ q'[Len(q) + 1] = transferOutPacket
        /\ \A k \in 1 .. Len(q) : q'[k] = q[k]
    BY <1>1, <2>3, AppendProperties, LenProperties
  <2>6. /\ Answered = Received + Len(q)
        /\ \A k \in 1 .. Len(q) : q[k] = Answer(Received + k)
    BY DEF OutRing
  <2> HIDE DEF q
  <2>7. /\ Answered' = Received' + Len(q')
        /\ \A k \in 1 .. Len(q') : q'[k] = Answer(Received' + k)
    BY <1>0, <2>2, <2>4, <2>5, <2>6
  <2> QED BY <2>7 DEF OutRing, q
<1>3. CASE Out!GetAdvance
  <2>1. ~Out!PutAdvance
    BY <1>3 DEF Out!PutAdvance, Out!GetAdvance, Out!putVars
  <2>2. Answered' = Answered /\ Received' = Received + 1
    BY <1>3, <2>1, CountersMove
  <2>3. q # << >> /\ q' = Tail(q)
    BY <1>3, OutQueue
  <2>5. /\ Len(q) \in Nat \ {0} /\ Len(q') = Len(q) - 1
        /\ \A k \in 1 .. (Len(q) - 1) : q'[k] = q[k + 1]
    BY <1>1, <2>3, HeadTailProperties, LenProperties, EmptySeq
  <2>6. /\ Answered = Received + Len(q)
        /\ \A k \in 1 .. Len(q) : q[k] = Answer(Received + k)
    BY DEF OutRing
  <2> HIDE DEF q
  <2>7. /\ Answered' = Received' + Len(q')
        /\ \A k \in 1 .. Len(q') : q'[k] = Answer(Received' + k)
    BY <1>0, <2>2, <2>5, <2>6
  <2> QED BY <2>7 DEF OutRing, q
<1>4. CASE ~Out!PutAdvance /\ ~Out!GetAdvance
  <2>1. q' = q /\ Answered' = Answered /\ Received' = Received
    BY <1>4, OutQueue, CountersMove
  <2> QED BY <2>1 DEF OutRing
<1> QED BY <1>2, <1>3, <1>4

LEMMA SenderHoldsStep ==
  ASSUME TypeOK, ThreadsInStep, CallsInStep, SenderHolds, [Next]_vars
  PROVE  SenderHolds'
<1> USE DEF controlVars, statusVars, dataVars, inVars, outVars
<1> USE DEF SenderHolds
<1>1. CASE Main \/ NetworkThread
  BY <1>1 DEF Main, MainStartsNetwork, MainStartsServer, MainStartsSender,
     MainStartsReceiver, MainJoins, NetworkThread, NetworkSeesClientGone,
     NetworkPollsServer
<1>2. CASE Sender
  BY <1>2 DEF Sender, SenderConnects, SenderPolls, SenderSends, SenderReturns,
     SenderTerminates, In!PutPoll, In!PutEnter, In!PutCopy, In!PutAdvance,
     In!PutCompare, In!PutReturn
<1>3. CASE Receiver
  BY <1>3 DEF Receiver, ReceiverConnects, ReceiverPolls, ReceiverReceives,
     ReceiverReturns, ReceiverDisconnects
<1>4. CASE \/ ServerConnects \/ ServerWaits \/ ServerFindsNoAccount
          \/ ServerDisconnects
  BY <1>4 DEF ServerConnects, ServerWaits, ServerChecksClient,
     ServerPollsInput, ServerChecksClientWaiting, ServerFindsEmpty,
     ServerFindsNoAccount, ServerDisconnects
<1>5. CASE \/ ServerFindsPacket \/ ServerTransfersIn
          \/ ServerReturnsFromTransferIn \/ ServerProcesses
  BY <1>5 DEF ServerFindsPacket, ServerTransfersIn,
     ServerReturnsFromTransferIn, ServerProcesses, In!GetPoll,
     In!GetEnter, In!GetCopy, In!GetAdvance, In!GetCompare, In!GetReturn,
     In!GetterWrites, In!putVars
<1>6. CASE \/ ServerPollsOutput \/ ServerTransfersOut
          \/ ServerReturnsFromTransferOut
  BY <1>6 DEF ServerPollsOutput, ServerTransfersOut,
     ServerReturnsFromTransferOut
<1>7. CASE UNCHANGED vars
  BY <1>7 DEF vars
<1> QED
  BY <1>1, <1>2, <1>3, <1>4, <1>5, <1>6, <1>7 DEF Next, Server

LEMMA ReceiverHoldsStep ==
  ASSUME UpdatesApart, UpdatesApart', TypeOK, ThreadsInStep, CallsInStep, OutRing,
         ReceiverHolds, AnswersInOrder,
         OutP!RingInv, OutP!RingInv', [OutP!Next]_(OutP!vars), [Next]_vars
  PROVE  ReceiverHolds' /\ AnswersInOrder'
<1> USE DEF controlVars, statusVars, dataVars, inVars, outVars
<1> USE DEF ReceiverHolds, AnswersInOrder, Out!GetUpdating
<1>1. CASE Main \/ NetworkThread
  BY <1>1 DEF Main, MainStartsNetwork, MainStartsServer, MainStartsSender,
     MainStartsReceiver, MainJoins, NetworkThread, NetworkSeesClientGone,
     NetworkPollsServer
<1>2. CASE Sender
  BY <1>2 DEF Sender, SenderConnects, SenderPolls, SenderSends, SenderReturns,
     SenderTerminates
<1>3. CASE Receiver
  <2>1. CASE ReceiverConnects \/ ReceiverPolls \/ ReceiverDisconnects
    BY <2>1 DEF ReceiverConnects, ReceiverPolls, ReceiverDisconnects, Out!GetPoll
  <2>2. CASE ReceiverReceives /\ ~Out!GetAdvance
    BY <2>2 DEF ReceiverReceives, Out!GetEnter, Out!GetCopy, Out!GetCompare
  <2>3. CASE ReceiverReceives /\ Out!GetAdvance
    <3>1. /\ Out!InTransit # << >> /\ transact = Head(Out!InTransit)
          /\ Out!InTransit \in Seq(OutP!Packet)
      BY <2>3, OutQueue
    <3>2. Len(Out!InTransit) > 0 /\ transact = Out!InTransit[1]
      BY <3>1, HeadTailProperties, LenProperties, EmptySeq
    <3>3. Received = Len(displayed)
      BY <2>3 DEF Received, Out!GetAdvance, TypeOK
    <3>4. transact = Answer(Len(displayed) + 1)
      BY <3>1, <3>2, <3>3, LenProperties DEF OutRing
    <3> QED BY <2>3, <3>4 DEF ReceiverReceives, Out!GetAdvance
  <2>4. CASE ReceiverReturns
    <3>1. displayed \in Seq(TransactionPacket) /\ transact \in TransactionPacket
      BY DEF TypeOK
    <3>2. /\ transact = Answer(Len(displayed) + 1)
          /\ displayed' = Append(displayed, transact)
          /\ receiveStep' = "outside"
      BY <2>4 DEF ReceiverReturns, Out!GetReturn
    <3>3. /\ Len(displayed) \in Nat /\ Len(displayed') = Len(displayed) + 1
          /\ displayed'[Len(displayed) + 1] = transact
          /\ \A k \in 1 .. Len(displayed) : displayed'[k] = displayed[k]
      BY <3>1, <3>2, AppendProperties, LenProperties
    <3>4. \A k \in 1 .. Len(displayed') : displayed'[k] = Answer(k)
      BY <3>2, <3>3
    <3> QED BY <3>2, <3>4
  <2> QED BY <1>3, <2>1, <2>2, <2>3, <2>4 DEF Receiver
<1>4. CASE \/ ServerConnects \/ ServerWaits \/ ServerFindsNoAccount
          \/ ServerDisconnects
  BY <1>4 DEF ServerConnects, ServerWaits, ServerChecksClient,
     ServerPollsInput, ServerChecksClientWaiting, ServerFindsEmpty,
     ServerFindsNoAccount, ServerDisconnects
<1>5. CASE \/ ServerFindsPacket \/ ServerTransfersIn
          \/ ServerReturnsFromTransferIn \/ ServerProcesses
  BY <1>5 DEF ServerFindsPacket, ServerTransfersIn,
     ServerReturnsFromTransferIn, ServerProcesses
<1>6. CASE \/ ServerPollsOutput \/ ServerTransfersOut
          \/ ServerReturnsFromTransferOut
  BY <1>6 DEF ServerPollsOutput, ServerTransfersOut,
     ServerReturnsFromTransferOut, Out!PutPoll, Out!PutEnter, Out!PutCopy,
     Out!PutAdvance, Out!PutCompare, Out!PutReturn, Out!getVars
<1>7. CASE UNCHANGED vars
  BY <1>7 DEF vars
<1> QED
  BY <1>1, <1>2, <1>3, <1>4, <1>5, <1>6, <1>7 DEF Next, Server

(* What the server does to one request: the balance it stores and answers  *)
(* is that of the file executed in order.                                  *)
LEMMA ProcessingExecutes ==
  ASSUME TypeOK, CallsInStep, InRing, OutRing, ServerHolds, Books,
         In!InTransit \in Seq(InP!Packet), Out!InTransit \in Seq(OutP!Packet),
         ServerProcesses
  PROVE  /\ accounts' = BalanceAfter[numberOfTransactions + 1]
         /\ trans' = Answer(numberOfTransactions + 1)
<1> DEFINE n       == numberOfTransactions + 1
           number  == AccountNumber(trans)
           balance == NewBalance(accounts[number], OperationType(trans),
                                 Amount(trans))
<1>1. n \in 1 .. NumberOfTransactions /\ Applied = n - 1
  <2>1. Taken = n /\ Applied = n - 1
    BY DEF ServerProcesses, Taken, Applied, TypeOK
  <2> QED BY <2>1, CountersOrdered, CountersAreNat, NumberIsNat DEF TypeOK
<1>2. trans = Request(Transaction[n])
  BY DEF ServerProcesses, ServerHolds
<1>3. /\ number = Transaction[n].account
      /\ OperationType(trans) = Transaction[n].operation
      /\ Amount(trans) = Transaction[n].amount
  BY <1>2 DEF Request, AccountNumber, OperationType, Amount
<1>4. accounts' = [accounts EXCEPT ![number] = balance] /\ number \in Account
  BY DEF ServerProcesses
<1>5. trans' = IF OperationType(trans) \in Operation
               THEN SetBalance(trans, balance) ELSE trans
  BY DEF ServerProcesses, In!GetterWrites
<1>6. accounts = BalanceAfter[n - 1]
  BY <1>1 DEF Books
<1> HIDE DEF n, number, balance
<1>7. accounts' = BalanceAfter[n]
  <2>1. BalanceAfter[n] = Execute(accounts, n)
    BY <1>1, <1>6, BalanceStep
  <2>2. Execute(accounts, n) = [accounts EXCEPT ![number] = balance]
    BY <1>3 DEF Execute, balance
  <2> QED BY <1>4, <2>1, <2>2
<1>8. BalanceAfter[n][Transaction[n].account] = balance
  BY <1>3, <1>4, <1>7 DEF TypeOK
<1>9. trans' = Answer(n)
  BY <1>2, <1>3, <1>5, <1>8 DEF Answer
<1> QED BY <1>7, <1>9 DEF n

LEMMA ServerHoldsStep ==
  ASSUME UpdatesApart, UpdatesApart', TypeOK, ThreadsInStep, CallsInStep, InRing, OutRing,
         ServerHolds, Books, InP!RingInv, InP!RingInv', [InP!Next]_(InP!vars),
         Out!InTransit \in Seq(OutP!Packet), [Next]_vars
  PROVE  ServerHolds'
<1> USE DEF controlVars, statusVars, dataVars, inVars, outVars
<1> USE DEF ThreadsInStep, CallsInStep, ServerHolds, In!GetUpdating
<1>1. CASE Main \/ NetworkThread
  BY <1>1 DEF Main, MainStartsNetwork, MainStartsServer, MainStartsSender,
     MainStartsReceiver, MainJoins, NetworkThread, NetworkSeesClientGone,
     NetworkPollsServer
<1>2. CASE Sender
  BY <1>2 DEF Sender, SenderConnects, SenderPolls, SenderSends, SenderReturns,
     SenderTerminates, In!PutPoll, In!PutEnter, In!PutCopy, In!PutAdvance,
     In!PutCompare, In!PutReturn, In!getVars
<1>3. CASE Receiver
  BY <1>3 DEF Receiver, ReceiverConnects, ReceiverPolls, ReceiverReceives,
     ReceiverReturns, ReceiverDisconnects, Out!GetPoll, Out!GetEnter,
     Out!GetCopy, Out!GetAdvance, Out!GetCompare, Out!GetReturn, Out!putVars
<1>4. CASE \/ ServerConnects \/ ServerWaits \/ ServerFindsNoAccount
          \/ ServerDisconnects
  BY <1>4 DEF ServerConnects, ServerWaits, ServerChecksClient,
     ServerPollsInput, ServerChecksClientWaiting, ServerFindsEmpty,
     ServerFindsNoAccount, ServerDisconnects, ServerGoes
<1>5. CASE ServerFindsPacket \/ ServerReturnsFromTransferIn
  BY <1>5 DEF ServerFindsPacket, ServerReturnsFromTransferIn, ServerGoes,
     In!GetPoll, In!GetReturn
<1>6. CASE ServerTransfersIn /\ ~In!GetAdvance
  BY <1>6 DEF ServerTransfersIn, In!GetEnter, In!GetCopy, In!GetCompare
<1>7. CASE ServerTransfersIn /\ In!GetAdvance
  <2>1. /\ In!InTransit # << >> /\ trans = Head(In!InTransit)
        /\ In!InTransit \in Seq(InP!Packet)
    BY <1>7, InQueue
  <2>2. Len(In!InTransit) > 0 /\ trans = In!InTransit[1]
    BY <2>1, HeadTailProperties, LenProperties, EmptySeq
  <2>3. Taken = numberOfTransactions
    BY <1>7 DEF Taken, In!GetAdvance, TypeOK
  <2>4. trans = Request(Transaction[numberOfTransactions + 1])
    BY <2>1, <2>2, <2>3, LenProperties DEF InRing
  <2> QED BY <1>7, <2>4 DEF ServerTransfersIn, In!GetAdvance
<1>8. CASE ServerProcesses
  <2>1. trans' = Answer(numberOfTransactions + 1)
    BY <1>8, InQueue, ProcessingExecutes
  <2>2. transferInStep' = "outside" /\ transferOutStep' = "outside"
    BY <1>8 DEF ServerProcesses, In!GetterWrites
  <2> QED BY <1>8, <2>1, <2>2 DEF ServerProcesses, ServerGoes
<1>9. CASE ServerPollsOutput \/ ServerTransfersOut
  BY <1>9 DEF ServerPollsOutput, ServerTransfersOut, Out!PutPoll,
     Out!PutEnter, Out!PutCopy, Out!PutAdvance, Out!PutCompare
<1>10. CASE ServerReturnsFromTransferOut
  BY <1>10 DEF ServerReturnsFromTransferOut, ServerGoes, Out!PutReturn
<1>11. CASE UNCHANGED vars
  BY <1>11 DEF vars
<1> QED
  BY <1>1, <1>2, <1>3, <1>4, <1>5, <1>6, <1>7, <1>8, <1>9, <1>10, <1>11
     DEF Next, Server

LEMMA BooksStep ==
  ASSUME TypeOK, ThreadsInStep, CallsInStep, InRing, OutRing, ServerHolds,
         Books, In!InTransit \in Seq(InP!Packet),
         Out!InTransit \in Seq(OutP!Packet), [Next]_vars
  PROVE  Books'
<1>1. CASE ServerProcesses
  <2>1. Applied' = numberOfTransactions + 1
    BY <1>1 DEF ServerProcesses, ServerGoes, Applied, dataVars
  <2> QED BY <1>1, <2>1, ProcessingExecutes DEF Books
<1>2. CASE ~ServerProcesses
  <2>1. Applied' = Applied
    BY <1>2, CountersMove
  <2>2. accounts' = accounts
    BY <1>2 DEF Next, Main, NetworkThread, Sender, Receiver, Server,
       MainStartsNetwork, MainStartsServer, MainStartsSender,
       MainStartsReceiver, MainJoins, NetworkSeesClientGone,
       NetworkPollsServer, SenderConnects, SenderPolls, SenderSends,
       SenderReturns, SenderTerminates, ReceiverConnects, ReceiverPolls,
       ReceiverReceives, ReceiverReturns, ReceiverDisconnects, ServerConnects,
       ServerWaits, ServerChecksClient, ServerPollsInput,
       ServerChecksClientWaiting, ServerFindsEmpty, ServerFindsPacket,
       ServerTransfersIn, ServerReturnsFromTransferIn, ServerFindsNoAccount,
       ServerPollsOutput, ServerTransfersOut, ServerReturnsFromTransferOut,
       ServerDisconnects, dataVars, vars
  <2> QED BY <2>1, <2>2 DEF Books
<1> QED BY <1>1, <1>2

(* What a send has put in the ring is there until its call is through with *)
(* the status.                                                             *)
LEMMA SendingIsInTransit ==
  ASSUME UpdatesApart, InP!TypeOK, sendStep \in In!PutUpdating
  PROVE  Len(In!InTransit) > 0
<1>1. InP!Occupancy > 0
  BY RingAssumptions DEF InP!BufferAssumption, InP!TypeOK, InP!Occupancy,
     InP!RingFull, InP!Slot, InP!PutUpdating, In!PutUpdating
<1> QED
  BY <1>1, SameTransit, RingAssumptions, InP!InTransitIsSequence

(* With all its answers received the client knows that all its             *)
(* transactions were sent: the last request was taken, so its send had     *)
(* written the status, and only the return of the call is between that and *)
(* the sender's count.                                                     *)
LEMMA AllSentStep ==
  ASSUME UpdatesApart, TypeOK, ThreadsInStep, CallsInStep, InRing, OutRing,
         AllSent, InP!TypeOK,
         In!InTransit \in Seq(InP!Packet), Out!InTransit \in Seq(OutP!Packet),
         [Next]_vars
  PROVE  AllSent'
<1> USE DEF controlVars, statusVars, dataVars, inVars, outVars
<1>1. CASE ReceiverDisconnects
  <2>1. Received >= NumberOfTransactions
    BY <1>1, NumberIsNat DEF Received, TypeOK, ReceiverDisconnects
  <2>2. Sent = Taken /\ Sent = NumberOfTransactions
    BY <2>1, CountersOrdered, CountersAreNat, NumberIsNat
  <2>3. Len(In!InTransit) = 0
    BY <2>2, CountersAreNat, LenProperties DEF InRing
  <2>4. sendStep \notin In!PutUpdating
    BY <2>3, SendingIsInTransit
  <2>5. sent = NumberOfTransactions
    BY <2>2, <2>4 DEF Sent, TypeOK
  <2> QED BY <1>1, <2>5 DEF ReceiverDisconnects, AllSent
<1>2. CASE \/ clientConnectionStatus # "disconnected"
           \/ clientConnectionStatus' # "disconnected"
  BY <1>1, <1>2 DEF Next, Main, NetworkThread, Sender, Receiver, Server,
       MainStartsNetwork, MainStartsServer, MainStartsSender,
       MainStartsReceiver, MainJoins, NetworkSeesClientGone,
       NetworkPollsServer, SenderConnects, SenderPolls, SenderSends,
       SenderReturns, SenderTerminates, ReceiverConnects, ReceiverPolls,
       ReceiverReceives, ReceiverReturns, ServerConnects,
       ServerWaits, ServerChecksClient, ServerPollsInput,
       ServerChecksClientWaiting, ServerFindsEmpty, ServerFindsPacket,
       ServerTransfersIn, ServerReturnsFromTransferIn, ServerFindsNoAccount,
       ServerProcesses, ServerPollsOutput, ServerTransfersOut,
       ServerReturnsFromTransferOut, ServerDisconnects, vars, AllSent
<1>3. CASE clientConnectionStatus = "disconnected"
  <2>1. sendStep = "outside" /\ sent = NumberOfTransactions
    BY <1>3, NumberIsNat DEF AllSent, CallsInStep
  <2>2. sent' = sent
    BY <2>1 DEF Next, Main, NetworkThread, Sender, Receiver, Server,
       MainStartsNetwork, MainStartsServer, MainStartsSender,
       MainStartsReceiver, MainJoins, NetworkSeesClientGone,
       NetworkPollsServer, SenderConnects, SenderPolls, SenderSends,
       SenderReturns, SenderTerminates, ReceiverConnects, ReceiverPolls,
       ReceiverReceives, ReceiverReturns, ReceiverDisconnects, ServerConnects,
       ServerWaits, ServerChecksClient, ServerPollsInput,
       ServerChecksClientWaiting, ServerFindsEmpty, ServerFindsPacket,
       ServerTransfersIn, ServerReturnsFromTransferIn, ServerFindsNoAccount,
       ServerProcesses, ServerPollsOutput, ServerTransfersOut,
       ServerReturnsFromTransferOut, ServerDisconnects, vars, In!PutReturn
  <2> QED BY <2>1, <2>2 DEF AllSent
<1> QED BY <1>1, <1>2, <1>3

LEMMA LedgerInit == Init => Ledger
<1> SUFFICES ASSUME Init PROVE Ledger
  OBVIOUS
<1>1. In!InTransit = << >> /\ Out!InTransit = << >>
  BY DEF Init, In!Init, Out!Init, In!InTransit, Out!InTransit, In!Occupancy,
     Out!Occupancy, In!RingFull, Out!RingFull, In!PutUpdating, Out!PutUpdating
<1>2. /\ Sent = 0 /\ Taken = 0 /\ Applied = 0 /\ Answered = 0 /\ Received = 0
  BY DEF Init, In!Init, Out!Init, Sent, Taken, Applied, Answered, Received,
     In!PutUpdating, In!GetUpdating, Out!PutUpdating, Out!GetUpdating
<1>3. InRing /\ OutRing
  BY <1>1, <1>2 DEF InRing, OutRing
<1>4. Books
  BY <1>2, BalanceStep DEF Init, Books
<1> QED
  BY <1>3, <1>4 DEF Init, In!Init, Out!Init, Ledger, SenderHolds, ServerHolds,
     ReceiverHolds, AllSent, AnswersInOrder, In!GetUpdating, Out!GetUpdating

LEMMA LedgerStep ==
  ASSUME UpdatesApart, UpdatesApart', BankInv, Ledger, InP!RingInv, OutP!RingInv,
         InP!RingInv', OutP!RingInv', [Next]_vars
  PROVE  Ledger'
<1> USE DEF BankInv, Ledger
<1>1. InP!MonitorHeld /\ OutP!MonitorHeld
  BY DEF InP!RingInv, OutP!RingInv
<1>2. [InP!Next]_(InP!vars) /\ [OutP!Next]_(OutP!vars)
  BY <1>1, RingSteps
<1>3. In!InTransit \in Seq(InP!Packet) /\ Out!InTransit \in Seq(OutP!Packet)
  BY <1>2, InQueue, OutQueue
<1>4. InRing' /\ OutRing'
  BY <1>2, InRingStep, OutRingStep
<1>5. SenderHolds' /\ ServerHolds'
  BY <1>2, <1>3, SenderHoldsStep, ServerHoldsStep
<1>6. ReceiverHolds' /\ AnswersInOrder'
  BY <1>2, ReceiverHoldsStep
<1>7. Books' /\ AllSent'
  BY <1>3, BooksStep, AllSentStep DEF InP!RingInv
<1> QED BY <1>4, <1>5, <1>6, <1>7

(* Whatever Network objects the threads use, as long as no ring has had    *)
(* two calls between their index and their status at once: every           *)
(* transaction of the file is in one place between the file and the screen *)
(* - with the sender, in the first ring, with the server, in the second    *)
(* ring, with the receiver, or printed - in the order of the file, and the *)
(* accounts are those after the transactions the server has applied.       *)
THEOREM LedgerInvariant ==
  Spec /\ []UpdatesApart => [](Ledger /\ InP!RingInv /\ OutP!RingInv)
<1>1. Spec => InP!Spec /\ OutP!Spec
  BY RingsAreNetworkBuffers
<1>2. /\ InP!Spec /\ []InP!UpdatesApart => []InP!RingInv
      /\ OutP!Spec /\ []OutP!UpdatesApart => []OutP!RingInv
  BY RingAssumptions, InP!RingInvariant, OutP!RingInvariant
<1>3. BankInv /\ Ledger /\ InP!RingInv /\ OutP!RingInv /\ InP!RingInv'
        /\ OutP!RingInv' /\ UpdatesApart /\ UpdatesApart' /\ [Next]_vars
        => Ledger'
  BY LedgerStep
<1>4. UpdatesApart => InP!UpdatesApart /\ OutP!UpdatesApart
  BY SameApart
<1> QED
  BY <1>1, <1>2, <1>3, <1>4, LedgerInit, BankInvariant, PTL DEF Spec

(* The client prints the answers of the file executed in order, none lost, *)
(* repeated or torn, for every file, every number of slots, every          *)
(* assignment of Network objects and every interleaving in which no ring   *)
(* has two calls between their index and their status at once.             *)
THEOREM AnswersStayInOrder == Spec /\ []UpdatesApart => []AnswersInOrder
<1>1. Ledger => AnswersInOrder
  BY DEF Ledger
<1> QED BY <1>1, LedgerInvariant, PTL

(* Likewise the client has it all when it disconnects: every transaction   *)
(* was sent, applied to the accounts once and answered.  So of the program *)
(* as it is built: a session that goes wrong had an overlap.               *)
THEOREM SessionIsComplete == Spec => LostOnlyByOverlap
<1>1. ASSUME BankInv, Ledger, InP!RingInv, OutP!RingInv
      PROVE  SessionComplete
  <2> SUFFICES ASSUME clientConnectionStatus = "disconnected"
               PROVE  /\ sent = NumberOfTransactions
                      /\ Len(displayed) = NumberOfTransactions
                      /\ accounts = BalanceAfter[NumberOfTransactions]
    BY DEF SessionComplete
  <2> USE <1>1 DEF BankInv, Ledger
  <2>1. sent = NumberOfTransactions
    BY DEF AllSent
  <2>2. Len(displayed) = NumberOfTransactions /\ receiveStep = "outside"
    BY NumberIsNat DEF ThreadsInStep, CallsInStep
  <2>3. Received = NumberOfTransactions
    BY <2>2, NumberIsNat DEF Received, Out!GetUpdating
  <2>4. In!InTransit \in Seq(InP!Packet) /\ Out!InTransit \in Seq(OutP!Packet)
    BY TransitIsSequence
  <2>5. Applied = NumberOfTransactions
    BY <2>3, <2>4, CountersOrdered, CountersAreNat, NumberIsNat
  <2> QED BY <2>1, <2>2, <2>5 DEF Books
<1>2. BankInv /\ Ledger /\ InP!RingInv /\ OutP!RingInv => SessionComplete
  BY <1>1
<1> QED
  BY <1>2, LedgerInvariant, BankInvariant, AnswersStayInOrder, PTL
  DEF LostOnlyByOverlap

=============================================================================
