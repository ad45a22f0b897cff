------------------------------ MODULE TlsClient -----------------------------
(***************************************************************************)
(* cpp/crypto/gnutls/valid_ca.cpp: connects to a server, whose certificate *)
(* the handshake verifies under a given name, sends a request and prints   *)
(* what one read brings.  The program goes on after a handshake that       *)
(* failed; the library then refuses to send, and the assertion of          *)
(* LOOP_CHECK ends the program.                                            *)
(***************************************************************************)

VARIABLES
  pc,         \* start, handshake, talk, sent, received, or how it ended
  peer,       \* what the server has to show: good or bad, silent if nothing
  secure,     \* the handshake is complete
  data        \* bytes of the server were printed

vars == <<pc, peer, secure, data>>

Ended == {"usage", "error", "aborted", "success"}

Init ==
  /\ pc = "start"
  /\ peer \in {"good", "bad", "silent"}
  /\ secure = FALSE /\ data = FALSE

-----------------------------------------------------------------------------
Goes(to) == pc' = to /\ UNCHANGED peer

(* A plausible mistake, which the property below must catch.               *)
HandshakeUnverified ==
  /\ pc = "handshake"
  /\ secure' = (peer # "silent")
  /\ Goes("talk") /\ UNCHANGED data

-----------------------------------------------------------------------------
(* Too few arguments, no socket, a bad address, a failed connect.          *)
Refused ==
  pc = "start" /\ Goes("error") /\ UNCHANGED <<secure, data>>

Usage == pc = "start" /\ Goes("usage") /\ UNCHANGED <<secure, data>>

(* CHECK of the set-up calls: a trust file that cannot be read.            *)
CheckFails == pc = "start" /\ Goes("aborted") /\ UNCHANGED <<secure, data>>

Connect == pc = "start" /\ Goes("handshake") /\ UNCHANGED <<secure, data>>

(* The loop repeats what is not fatal; it ends with the session secure, or *)
(* with an error (a certificate refused, the time limit), which is only    *)
(* printed.                                                                *)
Handshake ==
  /\ pc = "handshake"
  /\ \/ peer = "good" /\ secure' = TRUE
     \/ secure' = FALSE
  /\ Goes("talk") /\ UNCHANGED data

(* The print of the reason why a certificate is refused is asserted too.   *)
StatusPrintFails ==
  /\ pc = "handshake" /\ peer = "bad"
  /\ Goes("aborted") /\ UNCHANGED <<secure, data>>

(* The library serves a session only after its handshake.                  *)
Serves(cmd) == secure

(* LOOP_CHECK: again while interrupted, and no error is survived.          *)
LoopCheck(cmd, next) ==
  \/ Serves(cmd) /\ Goes(next)
  \/ Goes("aborted")

SendRequest ==
  /\ pc = "talk" /\ LoopCheck("send", "sent") /\ UNCHANGED <<secure, data>>

(* Bytes, or the end of the stream.                                        *)
Receive ==
  /\ pc = "sent" /\ LoopCheck("recv", "received")
  /\ data' \in IF pc' = "received" THEN BOOLEAN ELSE {FALSE}
  /\ UNCHANGED secure

(* bye, and everything is freed.                                           *)
Finish == pc = "received" /\ Goes("success") /\ UNCHANGED <<secure, data>>

Next ==
  \/ Refused \/ Usage \/ CheckFails \/ Connect
  \/ Handshake \/ StatusPrintFails \/ SendRequest \/ Receive \/ Finish

-----------------------------------------------------------------------------
(* Although main goes on after a handshake that failed (lines 84-103),     *)
(* nothing is printed from, and no success reported of, a server that did  *)
(* not show a certificate of the given name.                               *)
NothingFromStrangers == data \/ pc = "success" => secure /\ peer = "good"

=============================================================================
