------------------------ MODULE MCBankNetworkThreads ------------------------
(* Instances of BankNetworkThreads small enough for TLC.                   *)
EXTENDS BankNetworkThreads

MCText == {" ", "A", "B", "DEPOSIT", "WITHDRAW", "QUERY", "OPEN"}
MCAccount == {"A", "B"}
MCInitialBalance == [a \in MCAccount |-> 10]

Deposit(a, n)  == [account |-> a, operation |-> "DEPOSIT", amount |-> n]
Withdraw(a, n) == [account |-> a, operation |-> "WITHDRAW", amount |-> n]
Unknown(a, n)  == [account |-> a, operation |-> "OPEN", amount |-> n]
Query(a)       == [account |-> a, operation |-> "QUERY", amount |-> 0]

NoTransactions    == << >>
ThreeTransactions == <<Deposit("A", 1), Withdraw("A", 3), Query("B")>>
FourTransactions  == <<Deposit("A", 1), Withdraw("B", 3), Unknown("B", 2), Deposit("A", 2)>>

(* One Network object for the whole program. *)
OneNetwork == [t \in Thread |-> "n"]

(* The objects the program creates. *)
NetworksAsBuilt ==
  [t \in Thread |-> CASE t = "network"  -> "main's"
                      [] t = "server"   -> "server's"
                      [] OTHER          -> "client's"]

MCObject == {"n", "main's", "server's", "client's"}
=============================================================================
