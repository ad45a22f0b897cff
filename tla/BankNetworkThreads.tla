------------------------- MODULE BankNetworkThreads -------------------------
(***************************************************************************)
(* The bank of java/banknetworkthreads: BankDriver starts a network        *)
(* thread, a server thread and two client threads, one sending the         *)
(* transactions of transaction.txt, one receiving and printing the         *)
(* answers.  The threads meet in the static fields of class Network: two   *)
(* ring buffers (two instances of NetworkBuffer) and two connection        *)
(* statuses.                                                               *)
(*                                                                         *)
(* NetworkOf says which Network object each thread calls.  The program     *)
(* creates one in BankDriver.main, one in Server() and one in              *)
(* Client("sending"), which both client threads use.                       *)
(***************************************************************************)
EXTENDS Integers, Sequences

CONSTANTS
  Text,             \* the strings that occur in the files
  Blank,            \* the string of the fields of a new Transactions object
  Transaction,      \* the file: a sequence of [account, operation, amount]
  Account,          \* the account numbers of account.txt
  InitialBalance,   \* and their balances
  MaxNbPackets,     \* slots of a ring buffer (10 in Network("network"))
  Object,           \* the Network objects
  NetworkOf         \* the object each thread calls

Thread    == {"network", "server", "sender", "receiver"}
Call      == {"send", "transferIn", "transferOut", "receive"}
Operation == {"DEPOSIT", "WITHDRAW", "QUERY"}

ASSUME BankAssumption ==
  /\ Blank \in Text
  /\ Transaction \in Seq([account : Text, operation : Text, amount : Int])
  /\ Account \subseteq Text
  /\ InitialBalance \in [Account -> Int]
  /\ MaxNbPackets \in Nat \ {0}
  /\ NetworkOf \in [Thread -> Object]

NumberOfTransactions == Len(Transaction)

(* The fields of class Transactions that the transfers copy, in order:     *)
(* account number, operation type, amount and balance.                     *)
TransactionPacket == Text \X Text \X Int \X Int

BlankPacket      == <<Blank, Blank, 0, 0>>
Request(t)       == <<t.account, t.operation, t.amount, 0>>
AccountNumber(p) == p[1]
OperationType(p) == p[2]
Amount(p)        == p[3]

SetBalance(p, balance) == [p EXCEPT ![4] = balance]

VARIABLES
  mainStep, networkStep, serverStep, senderStep, receiverStep,
  clientConnectionStatus, serverConnectionStatus,
  monitor,
  accounts,               \* Server: the balance of each account
  numberOfTransactions,   \* Server: transactions processed
  sent,                   \* i of Client.sendTransactions
  displayed,              \* the answers Client.receiveTransactions prints
  inComingPacket, inputIndexClient, outputIndexServer, inBufferStatus,
  sendStep, sendField, sendPacket,
  transferInStep, transferInField, trans,
  outGoingPacket, inputIndexServer, outputIndexClient, outBufferStatus,
  transferOutStep, transferOutField, transferOutPacket,
  receiveStep, receiveField, transact

controlVars == <<mainStep, networkStep, serverStep, senderStep, receiverStep>>
statusVars  == <<clientConnectionStatus, serverConnectionStatus>>
inVars      == <<inComingPacket, inputIndexClient, outputIndexServer,
                 inBufferStatus, sendStep, sendField, sendPacket,
                 transferInStep, transferInField, trans>>
outVars     == <<outGoingPacket, inputIndexServer, outputIndexClient,
                 outBufferStatus, transferOutStep, transferOutField,
                 transferOutPacket, receiveStep, receiveField, transact>>
dataVars    == <<accounts, numberOfTransactions, sent, displayed>>
vars        == <<controlVars, statusVars, monitor, dataVars, inVars, outVars>>

(* send and transferIn on inComingPacket. *)
In == INSTANCE NetworkBuffer WITH
  NbFields <- 4, Value <- Text \cup Int, Free <- "free",
  PutObject <- NetworkOf["sender"], GetObject <- NetworkOf["server"],
  PutCall <- "send", GetCall <- "transferIn",
  OtherCalls <- {"transferOut", "receive"},
  buffer <- inComingPacket, bufferStatus <- inBufferStatus,
  inputIndex <- inputIndexClient, outputIndex <- outputIndexServer,
  putStep <- sendStep, putField <- sendField, putPacket <- sendPacket,
  getStep <- transferInStep, getField <- transferInField, getPacket <- trans

(* transferOut and receive on outGoingPacket. *)
Out == INSTANCE NetworkBuffer WITH
  NbFields <- 4, Value <- Text \cup Int, Free <- "free",
  PutObject <- NetworkOf["server"], GetObject <- NetworkOf["receiver"],
  PutCall <- "transferOut", GetCall <- "receive",
  OtherCalls <- {"send", "transferIn"},
  buffer <- outGoingPacket, bufferStatus <- outBufferStatus,
  inputIndex <- inputIndexServer, outputIndex <- outputIndexClient,
  putStep <- transferOutStep, putField <- transferOutField,
  putPacket <- transferOutPacket,
  getStep <- receiveStep, getField <- receiveField, getPacket <- transact

(* A synchronized getter or setter of thread t runs when no other thread   *)
(* is inside a call on t's Network object.                                 *)
CanCall(t) == monitor[NetworkOf[t]] = "free"

Init ==
  /\ In!Init /\ Out!Init
  /\ mainStep = "startNetwork"
  /\ networkStep = "unstarted" /\ serverStep = "unstarted"
  /\ senderStep = "unstarted" /\ receiverStep = "unstarted"
  /\ clientConnectionStatus = "idle" /\ serverConnectionStatus = "idle"
  /\ accounts = InitialBalance
  /\ numberOfTransactions = 0
  /\ sent = 0
  /\ displayed = << >>

-----------------------------------------------------------------------------
(* Plausible mistakes, which the properties below must catch.              *)

NetworkIgnoresServer ==
  /\ networkStep = "pollServer" /\ CanCall("network")
  /\ networkStep' = "terminated"
  /\ UNCHANGED <<mainStep, serverStep, senderStep, receiverStep, statusVars,
                 monitor, dataVars, inVars, outVars>>

ReceiverDisconnectsEarly ==
  /\ receiverStep = "receiving" /\ CanCall("receiver")
  /\ clientConnectionStatus' = "disconnected"
  /\ receiverStep' = "terminated"
  /\ UNCHANGED <<mainStep, networkStep, serverStep, senderStep,
                 serverConnectionStatus, monitor, dataVars, inVars, outVars>>

ServerWaitsForPacketsOnly ==
  /\ serverStep = "innerCheck" /\ CanCall("server")
  /\ serverStep' = "inner"
  /\ UNCHANGED <<mainStep, networkStep, senderStep, receiverStep, statusVars,
                 monitor, dataVars, inVars, outVars>>

-----------------------------------------------------------------------------
(* BankDriver.main: construct and start the threads in turn, then join the *)
(* network thread.  Network("network") has initialised the static fields.  *)

MainStartsNetwork ==
  /\ mainStep = "startNetwork"
  /\ mainStep' = "startServer"
  /\ networkStep' = "pollClient"
  /\ UNCHANGED <<serverStep, senderStep, receiverStep, statusVars, monitor,
                 dataVars, inVars, outVars>>

MainStartsServer ==
  /\ mainStep = "startServer" /\ CanCall("server")
  /\ mainStep' = "startSender"
  /\ serverConnectionStatus' = "connected"
  /\ serverStep' = "connect"
  /\ UNCHANGED <<networkStep, senderStep, receiverStep, clientConnectionStatus,
                 monitor, dataVars, inVars, outVars>>

MainStartsSender ==
  /\ mainStep = "startSender" /\ CanCall("sender")
  /\ mainStep' = "startReceiver"
  /\ clientConnectionStatus' = "connected"
  /\ senderStep' = "connect"
  /\ UNCHANGED <<networkStep, serverStep, receiverStep, serverConnectionStatus,
                 monitor, dataVars, inVars, outVars>>

MainStartsReceiver ==
  /\ mainStep = "startReceiver"
  /\ mainStep' = "join"
  /\ receiverStep' = "connect"
  /\ UNCHANGED <<networkStep, serverStep, senderStep, statusVars, monitor,
                 dataVars, inVars, outVars>>

MainJoins ==
  /\ mainStep = "join" /\ networkStep = "terminated"
  /\ mainStep' = "done"
  /\ UNCHANGED <<networkStep, serverStep, senderStep, receiverStep, statusVars,
                 monitor, dataVars, inVars, outVars>>

-----------------------------------------------------------------------------
(* Network.run: until the client and then the server read "disconnected".  *)

NetworkSeesClientGone ==
  /\ networkStep = "pollClient" /\ CanCall("network")
  /\ clientConnectionStatus = "disconnected"
  /\ networkStep' = "pollServer"
  /\ UNCHANGED <<mainStep, serverStep, senderStep, receiverStep, statusVars,
                 monitor, dataVars, inVars, outVars>>

NetworkPollsServer ==
  /\ networkStep = "pollServer" /\ CanCall("network")
  /\ networkStep' = IF serverConnectionStatus = "disconnected"
                    THEN "terminated" ELSE "pollClient"
  /\ UNCHANGED <<mainStep, serverStep, senderStep, receiverStep, statusVars,
                 monitor, dataVars, inVars, outVars>>

-----------------------------------------------------------------------------
(* Client("sending").run and sendTransactions.                             *)

SenderConnects ==
  /\ senderStep = "connect" /\ CanCall("sender")
  /\ clientConnectionStatus' = "connected"
  /\ senderStep' = "sending"
  /\ UNCHANGED <<mainStep, networkStep, serverStep, receiverStep,
                 serverConnectionStatus, monitor, dataVars, inVars, outVars>>

SenderPolls ==
  /\ senderStep = "sending" /\ sent < NumberOfTransactions
  /\ In!PutPoll
  /\ UNCHANGED <<controlVars, statusVars, dataVars, outVars>>

SenderSends ==
  /\ \/ In!PutEnter(Request(Transaction[sent + 1]))
     \/ In!PutCopy \/ In!PutAdvance \/ In!PutCompare
  /\ UNCHANGED <<controlVars, statusVars, dataVars, outVars>>

SenderReturns ==
  /\ In!PutReturn
  /\ sent' = sent + 1
  /\ UNCHANGED <<controlVars, statusVars, accounts, numberOfTransactions,
                 displayed, outVars>>

SenderTerminates ==
  /\ senderStep = "sending" /\ sent = NumberOfTransactions
  /\ senderStep' = "terminated"
  /\ UNCHANGED <<mainStep, networkStep, serverStep, receiverStep, statusVars,
                 monitor, dataVars, inVars, outVars>>

-----------------------------------------------------------------------------
(* Client("receiving").run and receiveTransactions.                        *)

ReceiverConnects ==
  /\ receiverStep = "connect" /\ CanCall("receiver")
  /\ clientConnectionStatus' = "connected"
  /\ receiverStep' = "receiving"
  /\ UNCHANGED <<mainStep, networkStep, serverStep, senderStep,
                 serverConnectionStatus, monitor, dataVars, inVars, outVars>>

ReceiverPolls ==
  /\ receiverStep = "receiving" /\ Len(displayed) < NumberOfTransactions
  /\ Out!GetPoll
  /\ UNCHANGED <<controlVars, statusVars, dataVars, inVars>>

ReceiverReceives ==
  /\ Out!GetEnter \/ Out!GetCopy \/ Out!GetAdvance \/ Out!GetCompare
  /\ UNCHANGED <<controlVars, statusVars, dataVars, inVars>>

ReceiverReturns ==
  /\ Out!GetReturn
  /\ displayed' = Append(displayed, transact)
  /\ UNCHANGED <<controlVars, statusVars, accounts, numberOfTransactions, sent,
                 inVars>>

ReceiverDisconnects ==
  /\ receiverStep = "receiving" /\ Len(displayed) = NumberOfTransactions
  /\ CanCall("receiver")
  /\ clientConnectionStatus' = "disconnected"
  /\ receiverStep' = "terminated"
  /\ UNCHANGED <<mainStep, networkStep, serverStep, senderStep,
                 serverConnectionStatus, monitor, dataVars, inVars, outVars>>

-----------------------------------------------------------------------------
(* Server.run and processTransactions.                                     *)

ServerGoes(to) ==
  /\ serverStep' = to
  /\ UNCHANGED <<mainStep, networkStep, senderStep, receiverStep>>

ServerConnects ==
  /\ serverStep = "connect" /\ CanCall("server")
  /\ serverConnectionStatus' = "connected"
  /\ ServerGoes("outer")
  /\ UNCHANGED <<clientConnectionStatus, monitor, dataVars, inVars, outVars>>

(* The outer while. *)
ServerChecksClient ==
  /\ serverStep = "outer" /\ CanCall("server")
  /\ ServerGoes(IF clientConnectionStatus = "disconnected"
                THEN "disconnect" ELSE "inner")
  /\ UNCHANGED <<statusVars, monitor, dataVars, inVars, outVars>>

(* The inner busy-wait and the test after it each read the status anew. *)
ServerPollsInput ==
  /\ serverStep = "inner" /\ CanCall("server")
  /\ ServerGoes(IF inBufferStatus = "empty" THEN "innerCheck" ELSE "recheck")
  /\ UNCHANGED <<statusVars, monitor, dataVars, inVars, outVars>>

ServerChecksClientWaiting ==
  /\ serverStep = "innerCheck" /\ CanCall("server")
  /\ ServerGoes(IF clientConnectionStatus = "disconnected"
                THEN "recheck" ELSE "inner")
  /\ UNCHANGED <<statusVars, monitor, dataVars, inVars, outVars>>

ServerFindsEmpty ==
  /\ serverStep = "recheck" /\ CanCall("server")
  /\ inBufferStatus = "empty"
  /\ ServerGoes("outer")
  /\ UNCHANGED <<statusVars, monitor, dataVars, inVars, outVars>>

ServerFindsPacket ==
  /\ serverStep = "recheck"
  /\ In!GetPoll
  /\ ServerGoes("transferIn")
  /\ UNCHANGED <<statusVars, dataVars, outVars>>

ServerTransfersIn ==
  /\ In!GetEnter \/ In!GetCopy \/ In!GetAdvance \/ In!GetCompare
  /\ UNCHANGED <<controlVars, statusVars, dataVars, outVars>>

ServerReturnsFromTransferIn ==
  /\ In!GetReturn
  /\ ServerGoes("process")
  /\ UNCHANGED <<statusVars, dataVars, outVars>>

(* deposit, withdraw and query: the balance an operation leaves. *)
NewBalance(balance, operation, amount) ==
  CASE operation = "DEPOSIT"  -> balance + amount
    [] operation = "WITHDRAW" -> balance - amount
    [] OTHER                  -> balance

(* findAccount runs off the accounts it has when the number is not among   *)
(* them, and the exception ends the server thread.                         *)
ServerFindsNoAccount ==
  /\ serverStep = "process"
  /\ AccountNumber(trans) \notin Account
  /\ ServerGoes("dead")
  /\ UNCHANGED <<statusVars, monitor, dataVars, inVars, outVars>>

ServerProcesses ==
  /\ serverStep = "process"
  /\ AccountNumber(trans) \in Account
  /\ LET number  == AccountNumber(trans)
         balance == NewBalance(accounts[number], OperationType(trans),
                               Amount(trans))
     IN /\ accounts' = [accounts EXCEPT ![number] = balance]
        /\ In!GetterWrites(IF OperationType(trans) \in Operation
                           THEN SetBalance(trans, balance) ELSE trans)
  /\ ServerGoes("transferOut")
  /\ UNCHANGED <<statusVars, numberOfTransactions, sent, displayed, outVars>>

ServerPollsOutput ==
  /\ serverStep = "transferOut"
  /\ Out!PutPoll
  /\ UNCHANGED <<controlVars, statusVars, dataVars, inVars>>

ServerTransfersOut ==
  /\ Out!PutEnter(trans) \/ Out!PutCopy \/ Out!PutAdvance \/ Out!PutCompare
  /\ UNCHANGED <<controlVars, statusVars, dataVars, inVars>>

ServerReturnsFromTransferOut ==
  /\ Out!PutReturn
  /\ numberOfTransactions' = numberOfTransactions + 1
  /\ ServerGoes("outer")
  /\ UNCHANGED <<statusVars, accounts, sent, displayed, inVars>>

ServerDisconnects ==
  /\ serverStep = "disconnect" /\ CanCall("server")
  /\ serverConnectionStatus' = "disconnected"
  /\ ServerGoes("terminated")
  /\ UNCHANGED <<clientConnectionStatus, monitor, dataVars, inVars, outVars>>

-----------------------------------------------------------------------------
Main ==
  \/ MainStartsNetwork \/ MainStartsServer \/ MainStartsSender
  \/ MainStartsReceiver \/ MainJoins

NetworkThread == NetworkSeesClientGone \/ NetworkPollsServer

Sender ==
  \/ SenderConnects \/ SenderPolls \/ SenderSends \/ SenderReturns
  \/ SenderTerminates

Receiver ==
  \/ ReceiverConnects \/ ReceiverPolls \/ ReceiverReceives \/ ReceiverReturns
  \/ ReceiverDisconnects

ServerWaits ==
  \/ ServerChecksClient \/ ServerPollsInput \/ ServerChecksClientWaiting
  \/ ServerFindsEmpty

Server ==
  \/ ServerConnects \/ ServerWaits \/ ServerFindsPacket \/ ServerTransfersIn
  \/ ServerReturnsFromTransferIn \/ ServerFindsNoAccount \/ ServerProcesses
  \/ ServerPollsOutput \/ ServerTransfersOut \/ ServerReturnsFromTransferOut
  \/ ServerDisconnects

(* The program has ended. *)
Ended ==
  /\ mainStep = "done" /\ networkStep = "terminated"
  /\ serverStep = "terminated" /\ senderStep = "terminated"
  /\ receiverStep = "terminated"

Next ==
  \/ Main \/ NetworkThread \/ Sender \/ Receiver \/ Server
  \/ Ended /\ UNCHANGED vars

Spec == Init /\ [][Next]_vars

(* Every busy-wait yields or is preempted, so a thread that can go on does. *)
Fairness ==
  /\ WF_vars(Main) /\ WF_vars(NetworkThread)
  /\ WF_vars(Sender) /\ WF_vars(Receiver) /\ WF_vars(Server)

FairSpec == Spec /\ Fairness

-----------------------------------------------------------------------------
TypeOK ==
  /\ mainStep \in {"startNetwork", "startServer", "startSender",
                   "startReceiver", "join", "done"}
  /\ networkStep \in {"unstarted", "pollClient", "pollServer", "terminated"}
  /\ serverStep \in {"unstarted", "connect", "outer", "inner", "innerCheck",
                     "recheck", "transferIn", "process", "transferOut",
                     "disconnect", "terminated", "dead"}
  /\ senderStep \in {"unstarted", "connect", "sending", "terminated"}
  /\ receiverStep \in {"unstarted", "connect", "receiving", "terminated"}
  /\ clientConnectionStatus \in {"idle", "connected", "disconnected"}
  /\ serverConnectionStatus \in {"idle", "connected", "disconnected"}
  /\ monitor \in [Object -> Call \cup {"free"}]
  /\ accounts \in [Account -> Int]
  /\ numberOfTransactions \in Nat
  /\ sent \in Nat
  /\ displayed \in Seq(TransactionPacket)
  /\ sendPacket \in TransactionPacket /\ trans \in TransactionPacket
  /\ transferOutPacket \in TransactionPacket /\ transact \in TransactionPacket
  /\ inComingPacket \in [In!Slot -> TransactionPacket]
  /\ outGoingPacket \in [Out!Slot -> TransactionPacket]
  /\ inputIndexClient \in In!Slot /\ outputIndexServer \in In!Slot
  /\ inputIndexServer \in Out!Slot /\ outputIndexClient \in Out!Slot
  /\ inBufferStatus \in In!Status /\ outBufferStatus \in Out!Status
  /\ sendStep \in {"outside", "ready"} \cup In!PutCalling
  /\ transferOutStep \in {"outside", "ready"} \cup Out!PutCalling
  /\ transferInStep \in {"outside", "ready"} \cup In!GetCalling
  /\ receiveStep \in {"outside", "ready"} \cup Out!GetCalling
  /\ sendField \in 1 .. 4 /\ transferInField \in 1 .. 4
  /\ transferOutField \in 1 .. 4 /\ receiveField \in 1 .. 4

(* The transactions of the file executed one after the other.              *)
Execute(balances, k) ==
  [balances EXCEPT ![Transaction[k].account] =
     NewBalance(@, Transaction[k].operation, Transaction[k].amount)]

BalanceAfter[k \in 0 .. NumberOfTransactions] ==
  IF k = 0 THEN InitialBalance ELSE Execute(BalanceAfter[k - 1], k)

(* An operation the server does not know is answered as it came.           *)
Answer(k) ==
  IF Transaction[k].operation \in Operation
  THEN SetBalance(Request(Transaction[k]),
                  BalanceAfter[k][Transaction[k].account])
  ELSE Request(Transaction[k])

(* The answers printed are those of the file executed in order: none lost, *)
(* none repeated, none torn, whatever the threads interleave.              *)
AnswersInOrder ==
  \A k \in 1 .. Len(displayed) : displayed[k] = Answer(k)

(* "we only disconnect after we got it all": when the client disconnects   *)
(* both client threads are through and every transaction of the file has   *)
(* been applied to the accounts exactly once (Client.run lines 233-239).   *)
SessionComplete ==
  clientConnectionStatus = "disconnected" =>
    /\ sent = NumberOfTransactions
    /\ Len(displayed) = NumberOfTransactions
    /\ accounts = BalanceAfter[NumberOfTransactions]

(* No ring has two calls at once between their index and their status.     *)
UpdatesApart == In!UpdatesApart /\ Out!UpdatesApart

(* The Network objects of the program lock nothing against one another;    *)
(* yet a run that loses, repeats or tears a transaction or an answer, or   *)
(* disconnects early, has had two calls on one ring at once between the    *)
(* move of an index and the write of the status (Network.java 357-370 with *)
(* 387-401, and 419-434 with 453-467).  No other overlap does harm.        *)
LostOnlyByOverlap ==
  []UpdatesApart => [](AnswersInOrder /\ SessionComplete)

(* The network thread, and with it main, ends only after the server has    *)
(* disconnected and the receiving client has printed all its answers.      *)
OrderlyShutdown ==
  networkStep = "terminated" =>
    /\ serverStep = "terminated"
    /\ receiverStep = "terminated"
    /\ Len(displayed) = NumberOfTransactions

(* The sending client's connect never comes after the receiving client's   *)
(* disconnect and never undoes it.                                         *)
NoReconnect ==
  [][clientConnectionStatus = "disconnected"
       => clientConnectionStatus' = "disconnected"]_vars

(* The program ends. *)
Termination == <>Ended

(* Once the client is gone the server stops, dies on an unknown account,   *)
(* or waits for ever for room in the output buffer: nothing else holds it. *)
ServerStuckOnFull ==
  /\ serverStep = "transferOut"
  /\ transferOutStep = "outside"
  /\ outBufferStatus = "full"

ServerStops ==
  clientConnectionStatus = "disconnected"
    ~> (serverStep \in {"terminated", "dead"} \/ ServerStuckOnFull)

-----------------------------------------------------------------------------
(* The invariants behind the two properties that hold whatever objects the *)
(* threads call.                                                           *)

(* main starts the threads in order and the status of a connection is      *)
(* "disconnected" only through the thread that has ended.                  *)
ThreadsInStep ==
  /\ networkStep = "unstarted" <=> mainStep = "startNetwork"
  /\ serverStep = "unstarted" <=> mainStep \in {"startNetwork", "startServer"}
  /\ senderStep = "unstarted" <=>
       mainStep \in {"startNetwork", "startServer", "startSender"}
  /\ receiverStep = "unstarted" <=> mainStep \notin {"join", "done"}
  /\ clientConnectionStatus = "disconnected" => receiverStep = "terminated"
  /\ serverConnectionStatus = "disconnected" => serverStep = "terminated"
  /\ networkStep = "pollServer" => receiverStep = "terminated"
  /\ networkStep = "terminated" =>
       receiverStep = "terminated" /\ serverStep = "terminated"

(* A thread is inside a call only where its code makes the call; a client  *)
(* thread only while transactions are left.                                *)
CallsInStep ==
  /\ transferInStep # "outside" => serverStep = "transferIn"
  /\ transferOutStep # "outside" => serverStep = "transferOut"
  /\ sent <= NumberOfTransactions
  /\ sendStep # "outside" =>
       senderStep = "sending" /\ sent < NumberOfTransactions
  /\ Len(displayed) <= NumberOfTransactions
  /\ receiveStep # "outside" =>
       receiverStep = "receiving" /\ Len(displayed) < NumberOfTransactions
  /\ receiverStep = "terminated" => Len(displayed) = NumberOfTransactions

(* Until the sending client has connected nothing moves in either buffer.  *)
QuietBeforeSending ==
  senderStep \in {"unstarted", "connect"} =>
    /\ sendStep = "outside" /\ inBufferStatus = "empty"
    /\ serverStep \notin {"transferIn", "process", "transferOut"}
    /\ outBufferStatus = "empty"
    /\ receiveStep = "outside" /\ displayed = << >>

(* BankDriver.java 9-24, Client.java 212-241, Server.java 178-242 and      *)
(* 301-321, Network.java 534-549: in which order the threads get where     *)
(* they are, whichever Network objects they use.                           *)
BankInv ==
  TypeOK /\ ThreadsInStep /\ CallsInStep /\ QuietBeforeSending

-----------------------------------------------------------------------------
(* The invariant behind the answers.  It holds whatever objects the        *)
(* threads use, for as long as UpdatesApart has held of both rings.        *)

SharedNetwork == \A t, u \in Thread : NetworkOf[t] = NetworkOf[u]

(* A call counts from the moment it has moved the index of its ring.       *)
Sent     == sent + (IF sendStep \in In!PutUpdating THEN 1 ELSE 0)
Taken    == numberOfTransactions
              + (IF \/ transferInStep \in In!GetUpdating
                    \/ serverStep \in {"process", "dead", "transferOut"}
                 THEN 1 ELSE 0)
Applied  == numberOfTransactions
              + (IF serverStep = "transferOut" THEN 1 ELSE 0)
Answered == numberOfTransactions
              + (IF transferOutStep \in Out!PutUpdating THEN 1 ELSE 0)
Received == Len(displayed)
              + (IF receiveStep \in Out!GetUpdating THEN 1 ELSE 0)

(* What is in a ring is what was sent and not taken yet, in order.         *)
InRing ==
  /\ Sent = Taken + Len(In!InTransit)
  /\ \A k \in 1 .. Len(In!InTransit) :
       In!InTransit[k] = Request(Transaction[Taken + k])

OutRing ==
  /\ Answered = Received + Len(Out!InTransit)
  /\ \A k \in 1 .. Len(Out!InTransit) :
       Out!InTransit[k] = Answer(Received + k)

(* What each thread has in hand.                                           *)
SenderHolds ==
  sendStep \in {"copy", "advance"} =>
    sendPacket = Request(Transaction[sent + 1])

ServerHolds ==
  /\ transferInStep \in In!GetUpdating \/ serverStep = "process" =>
       trans = Request(Transaction[numberOfTransactions + 1])
  /\ serverStep = "transferOut" => trans = Answer(numberOfTransactions + 1)
  /\ transferOutStep \in {"copy", "advance"} => transferOutPacket = trans

ReceiverHolds ==
  receiveStep \in Out!GetUpdating => transact = Answer(Len(displayed) + 1)

(* The accounts are those after the transactions applied so far.           *)
Books == accounts = BalanceAfter[Applied]

AllSent == clientConnectionStatus = "disconnected" => sent = NumberOfTransactions

(* Client.java 150-164 and 176-190, Server.java 182-236, Network.java      *)
(* 349-470: every transaction is somewhere between the file and the        *)
(* screen, in one place, as the place says.                                *)
Ledger ==
  /\ InRing /\ OutRing
  /\ SenderHolds /\ ServerHolds /\ ReceiverHolds
  /\ Books /\ AllSent /\ AnswersInOrder

=============================================================================
