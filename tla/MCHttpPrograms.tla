--------------------------- MODULE MCHttpPrograms ---------------------------
(***************************************************************************)
(* The programs that make one request, each in behaviours of its own: a    *)
(* program that is not run has its control at "not run" and never moves.   *)
(***************************************************************************)
EXTENDS HttpExchange

VARIABLES
  oneShot, main, request, timer, http_resp, verdict, answered,
  pc, peer, secure, data

exchangeVars == vars
oneShotVars  ==
  <<oneShot, main, request, timer, http_resp, verdict, answered>>
tlsVars      == <<pc, peer, secure, data>>

O == INSTANCE OneShotRequest WITH program <- oneShot
T == INSTANCE TlsClient

NotExchanging ==
  /\ program = "client" /\ kind = "lib" /\ method = "few"
  /\ client = "not run" /\ server = "failed" /\ lines = << >>
  /\ flushed = 0 /\ written = 0 /\ stream = "none"
  /\ response_stream = 0 /\ handed = 0 /\ parsed = 0
NoOneShot ==
  /\ oneShot = "http" /\ main = "not run" /\ request = "none"
  /\ timer = "off" /\ http_resp = O!NoAnswer /\ verdict = "none"
  /\ answered = {}
NoTls ==
  /\ pc = "not run" /\ peer = "silent" /\ secure = FALSE /\ data = FALSE

MCInit ==
  \/ Init /\ NoOneShot /\ NoTls
  \/ NotExchanging /\ O!Init /\ NoTls
  \/ NotExchanging /\ NoOneShot /\ T!Init

RunExchange == Next /\ UNCHANGED <<oneShotVars, tlsVars>>
RunOneShot  == O!Next /\ UNCHANGED <<exchangeVars, tlsVars>>
RunTls      == T!Next /\ UNCHANGED <<exchangeVars, oneShotVars>>

MCSpec ==
  /\ MCInit
  /\ [][RunExchange \/ RunOneShot \/ RunTls]_<<exchangeVars, oneShotVars,
                                               tlsVars>>
  /\ Fairness /\ O!Fairness

-----------------------------------------------------------------------------
(* cpp/crypto/gnutls/ocsp.cpp: see OneShotRequest.                         *)
VerdictOnOwnAnswer == O!VerdictOnOwnAnswer

(* cpp/crypto/gnutls/valid_ca.cpp: see TlsClient.                          *)
NothingFromStrangers == T!NothingFromStrangers

(* The clients of the servers that end their streams end, and so does      *)
(* ocsp.cpp once it is sending.                                            *)
ProgramsEnd == (client # "not run" => ClientEnds) /\ O!GivesUp

=============================================================================
