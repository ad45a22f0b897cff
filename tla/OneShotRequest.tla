--------------------------- MODULE OneShotRequest ---------------------------
(***************************************************************************)
(* The programs that send one request with OpenDHT's HTTP client and run   *)
(* an io_context until it is done: http.cpp, http_errors.cpp ("errors")    *)
(* and https_2waystls.cpp ("2way") of cpp/opendht, and                     *)
(* cpp/crypto/gnutls/ocsp.cpp, which alone limits the time and goes on to  *)
(* judge the answer.                                                       *)
(*                                                                         *)
(* The library takes the request through its states and calls back in      *)
(* each, on main's thread.  An answer is what ocsp.cpp can tell apart of   *)
(* it.  Who has signed what is kept beside it, in answered: ocsp.cpp sees  *)
(* only the answer.                                                        *)
(***************************************************************************)
EXTENDS Integers, Sequences

VARIABLES
  program,      \* which program runs
  main,         \* start, running, stopped, or how it ended
  request,      \* none, created, sending, receiving, done
  timer,        \* ocsp: off, armed, fired
  http_resp,    \* the response of the callback that saw it done
  verdict,      \* ocsp: none, verified or refuted
  answered      \* questions the signer has put its name to an answer of

vars == <<program, main, request, timer, http_resp, verdict, answered>>

Programs == {"http", "errors", "2way", "ocsp"}
Ended    == {"returned", "usage", "threw", "exited"}

(* A question is about a certificate, with a nonce, or without in a        *)
(* prepared answer.  Mine is the one that generate_request makes: of the   *)
(* certificate given, with a nonce just drawn.                             *)
Question == [cert : {"mine", "other"}, nonce : {"new", "old", "none"}]
Mine     == [cert |-> "mine", nonce |-> "new"]

(* Whether the answer has a Content-Length, whether its body is an OCSP    *)
(* response, to what question, and by whom it is signed.                   *)
Responses ==
  [length : BOOLEAN, body : {"empty", "garbage", "response"},
   to : Question, by : {"signer", "another"}]
NoAnswer ==
  [length |-> FALSE, body |-> "empty",
   to |-> [cert |-> "other", nonce |-> "none"], by |-> "another"]

(* A signature is the signer's only on an answer the signer gave.  All     *)
(* else on the way may be made up.                                         *)
Possible(resp) == resp.by = "signer" => resp.to \in answered

Init ==
  /\ program \in Programs
  /\ main = "start" /\ request = "none" /\ timer = "off"
  /\ http_resp = NoAnswer /\ verdict = "none"
  /\ answered = Question \ {Mine}

-----------------------------------------------------------------------------
(* Plausible mistakes, which the properties below must catch.              *)

NonceNotCompared(resp) == resp.to.nonce # "none"

ArmWhenReceiving(state) ==
  timer' = IF program = "ocsp" /\ state = "receiving" THEN "armed" ELSE timer

-----------------------------------------------------------------------------
Ends(how) ==
  /\ main' = how
  /\ UNCHANGED <<program, request, timer, http_resp, answered>>

(* Too few arguments: http_errors.cpp does not ask.                        *)
Usage ==
  /\ main = "start"
  /\ Ends(IF program = "errors" THEN "threw" ELSE "usage")
  /\ UNCHANGED verdict

(* A key or a certificate that cannot be loaded.                           *)
loadFile ==
  main = "start" /\ program = "2way" /\ Ends("threw") /\ UNCHANGED verdict

load_cert ==
  main = "start" /\ program = "ocsp" /\ Ends("exited") /\ UNCHANGED verdict

(* The first responder named, if only unknown methods come before it.      *)
AccessLists == {<< >>, <<"uri">>, <<"unknown", "uri">>, <<"error", "uri">>}

HasUri(list) ==
  \E i \in DOMAIN list : list[i] = "uri" /\ \A j \in 1 .. i - 1 :
                                              list[j] = "unknown"

(* The request is sent.  ocsp.cpp gives up if there is nobody to ask or no *)
(* question to put (generate_request).                                     *)
Send ==
  /\ main = "start"
  /\ \E list \in AccessLists, generated \in BOOLEAN :
       IF program = "ocsp" => HasUri(list) /\ generated
       THEN main' = "running" /\ request' = "created"
       ELSE main' = "exited" /\ UNCHANGED request
  /\ UNCHANGED <<program, timer, http_resp, verdict, answered>>

(* The callback of a change of state, before it is done: ocsp.cpp limits   *)
(* the time to one second.                                                 *)
Arm(state) ==
  timer' = IF program = "ocsp" /\ state = "sending" THEN "armed" ELSE timer

Moves(from, to) ==
  /\ main = "running" /\ request = from
  /\ request' = to
  /\ Arm(to)
  /\ UNCHANGED <<program, main, http_resp, verdict, answered>>

(* The callback when it is done, with the answer or, after a failure or a  *)
(* cancelling, without, stops the context; ocsp.cpp copies the response.   *)
Stop ==
  /\ main = "running" /\ request' = "done" /\ main' = "stopped"
  /\ UNCHANGED <<program, timer, verdict, answered>>

DoneAndPrinted == program # "ocsp" /\ Stop /\ UNCHANGED http_resp

DoneAndCopied ==
  /\ program = "ocsp" /\ Stop
  /\ \/ request = "receiving" /\ http_resp' \in {r \in Responses : Possible(r)}
     \/ http_resp' = NoAnswer

(* The signer answers the question, once it is on its way.                 *)
SignerAnswers ==
  /\ main = "running" /\ request \in {"sending", "receiving"}
  /\ program = "ocsp"
  /\ answered' = answered \cup {Mine}
  /\ UNCHANGED <<program, main, request, timer, http_resp, verdict>>

(* The time is up: the request is cancelled, which will make it done.      *)
TimerFires ==
  /\ main = "running" /\ timer = "armed"
  /\ timer' = "fired"
  /\ UNCHANGED <<program, main, request, http_resp, verdict, answered>>

(* run returns.                                                            *)
Returns ==
  /\ main = "stopped" /\ program # "ocsp"
  /\ Ends("returned") /\ UNCHANGED verdict

(* stoul of a Content-Length that is not there.                            *)
NoLength ==
  /\ main = "stopped" /\ program = "ocsp" /\ ~http_resp.length
  /\ Ends("threw") /\ UNCHANGED verdict

(* The checks of ocsp_response, in their order.  The length that the       *)
(* header told and the status of the answer are not among them.            *)
Imports(resp)   == resp.body = "response"
check_crt(resp) == resp.to.cert = Mine.cert
SameNonce(resp) == resp.to.nonce = Mine.nonce

(* One that fails, or a call of the library that does, ends the program.   *)
(* The signer's own certificate may be out of order (verify_direct).       *)
ocsp_response ==
  /\ main = "stopped" /\ program = "ocsp" /\ http_resp.length
  /\ \/ Ends("exited") /\ UNCHANGED verdict
     \/ /\ Imports(http_resp) /\ check_crt(http_resp) /\ SameNonce(http_resp)
        /\ Ends("returned")
        /\ \E inOrder \in BOOLEAN :
             verdict' = IF http_resp.by = "signer" /\ inOrder
                        THEN "verified" ELSE "refuted"

Main ==
  \/ Usage \/ loadFile \/ load_cert \/ Send
  \/ Returns \/ NoLength \/ ocsp_response

Library ==
  Moves("created", "sending") \/ Moves("sending", "receiving")
  \/ DoneAndPrinted \/ DoneAndCopied \/ TimerFires \/ SignerAnswers

Next == Main \/ Library

(* Main goes on; a timer comes and a cancelled request is done; of the     *)
(* network nothing is assumed.                                             *)
Fairness ==
  /\ WF_vars(Main)
  /\ WF_vars(TimerFires)
  /\ WF_vars(timer = "fired" /\ DoneAndCopied)

-----------------------------------------------------------------------------
(* ocsp.cpp calls a certificate verified only if the signer answered the   *)
(* question of this run, about this certificate and with this nonce: no    *)
(* answer to an earlier question or to another, and none that was made up  *)
(* on the way, passes lines 90-131.                                        *)
VerdictOnOwnAnswer == verdict = "verified" => Mine \in answered

(* Once it is sending, ocsp.cpp ends whatever the responder does, because  *)
(* the limit is set in the state SENDING and not in a later one.           *)
GivesUp ==
  (program = "ocsp" /\ request = "sending") ~> (main \in Ended)

=============================================================================
