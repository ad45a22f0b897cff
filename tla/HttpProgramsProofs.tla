------------------------- MODULE HttpProgramsProofs --------------------------
(***************************************************************************)
(* What holds of the programs that make one request.                       *)
(*                                                                         *)
(* HttpExchange, for every number of cores, width of an unsigned and limit *)
(* on threads: the types, and that a client that finishes has handed the   *)
(* whole answer to its parser or nothing of it.                            *)
(*                                                                         *)
(* OneShotRequest (here O) and TlsClient (T): on whose answer ocsp.cpp     *)
(* calls a certificate verified, and from whom valid_ca.cpp takes data.    *)
(***************************************************************************)
EXTENDS MCHttpPrograms, TLAPS

(* Nothing is given to the library before the lines of a request that is   *)
(* answered whole: without it, answering could take parts back.            *)
Whole ==
  \/ kind \in {"lib", "restinio"}
  \/ kind = "parts" /\ Head(lines) # "get"

Unanswered == lines # << >> /\ Whole => flushed = 0

(* How far the client is, what it has read and whether more can come.      *)
Progress ==
  /\ client = "start" =>
       stream = "none" /\ lines = << >> /\ flushed = 0
  /\ client \in {"start", "header"} => handed = 0 /\ response_stream = 0
  /\ handed = 0 \/ response_stream = 0
  /\ client = "finished" =>
       stream = "shut" /\ handed + response_stream = written

Inv == TypeOK /\ Unanswered /\ Progress

LEMMA EmptySeq == \A S : << >> \in Seq(S)
  OBVIOUS

LEMMA OneSeq == ASSUME NEW S, NEW e \in S PROVE <<e>> \in Seq(S)
  OBVIOUS

LEMMA TailSeq == ASSUME NEW S, NEW s \in Seq(S), s # << >>
                 PROVE Tail(s) \in Seq(S)
  OBVIOUS

LEMMA InitInv == Init => Inv
  BY EmptySeq DEF Init, Inv, TypeOK, Unanswered, Progress, Ended

(* The servers only add to what is written, and only to an open stream.    *)
LEMMA ServerInv ==
  ASSUME Inv, Server PROVE Inv'
<1> USE DEF Inv, TypeOK, Unanswered, Progress, Whole, asked, reader, answer
<1>1. CASE ServerStarts
  BY <1>1 DEF ServerStarts
<1>2. CASE Get
  <2>1. /\ flushed' = flushed + 1 /\ written' = written
        /\ lines' \in {lines, << >>} /\ lines # << >>
        /\ kind = "parts" /\ Head(lines) = "get"
        /\ client' = client /\ stream' = stream
        /\ UNCHANGED <<asked, server, reader>>
    BY <1>2 DEF Get
  <2>2. TypeOK'
    <3>1. CASE lines' = lines
      BY <2>1, <3>1
    <3>2. CASE lines' = << >>
      BY <2>1, <3>2, EmptySeq
    <3> QED BY <2>1, <3>1, <3>2
  <2>3. Unanswered'
    BY <2>1
  <2>4. Progress'
    BY <2>1
  <2> QED BY <2>2, <2>3, <2>4
<1>3. CASE LibraryWrites
  BY <1>3 DEF LibraryWrites
<1>4. CASE AnswerWhole /\ Whole
  BY <1>4, EmptySeq DEF AnswerWhole
<1>5. CASE onLine
  <2>1. /\ flushed' \in Nat /\ flushed' >= flushed /\ written' = flushed'
        /\ kind = "dyad" /\ stream = "open" /\ lines # << >>
        /\ lines' = Tail(lines)
        /\ client' = client /\ stream' = stream
        /\ UNCHANGED <<asked, server, reader>>
    BY <1>5 DEF onLine
  <2>2. lines' \in Seq(Lines)
    BY <2>1, TailSeq
  <2>3. TypeOK'
    BY <2>1, <2>2
  <2>4. Unanswered' /\ Progress'
    BY <2>1
  <2> QED BY <2>3, <2>4
<1> QED BY <1>1, <1>2, <1>3, <1>4, <1>5 DEF Server, NoRoute, render, Hello

(* An end of the stream leaves everything as it is.                        *)
LEMMA EndInv ==
  ASSUME Inv, Close \/ LinkBreaks PROVE Inv'
  BY DEF Inv, TypeOK, Unanswered, Progress, Whole, asked, reader, answer,
         Close, LinkBreaks

(* A step that only reads keeps the types if it reads what is there.       *)
LEMMA ReadTypes ==
  ASSUME TypeOK, client' = "body",
         UNCHANGED <<asked, server, lines, answer, stream>>,
         handed' \in Nat, parsed' \in 0 .. handed', response_stream' \in Nat,
         handed' + response_stream' <= written
  PROVE  TypeOK'
<1>1. /\ program' \in Programs /\ kind' \in Kinds /\ method' \in Methods
      /\ server' \in {"starting", "open", "failed"}
      /\ lines' \in Seq(Lines)
      /\ stream' \in {"none", "open", "shut", "reset"}
  BY DEF TypeOK, asked
<1>2. /\ flushed' \in Nat /\ written' \in 0 .. flushed'
      /\ written' = written
  BY DEF TypeOK, answer
<1>3. client' \in {"start", "header", "body"} \cup Ended
  OBVIOUS
<1> QED BY <1>1, <1>2, <1>3 DEF TypeOK

LEMMA ReadSums ==
  ASSUME NEW p \in Nat, NEW r \in Nat, NEW w \in Int,
         NEW n \in 1 .. w - (p + r)
  PROVE  p + r + n \in Nat /\ p + r + n <= w /\ p <= p + r + n
  OBVIOUS

LEMMA ZeroPlus == ASSUME NEW h, h = 0, NEW r \in Nat PROVE h + r = r
  OBVIOUS

LEMMA ClientInv ==
  ASSUME Inv, Client PROVE Inv'
<1> USE DEF Inv, TypeOK, Unanswered, Progress, Whole, asked, reader, answer,
            Exits, Ended
<1>1. CASE Usage \/ BadMethod \/ BadParser \/ Refused
  BY <1>1 DEF Usage, BadMethod, BadParser, Refused
<1>2. CASE Request
  <2>1. PICK body \in {<< >>, <<"get">>, <<"put">>} :
          lines' = <<method>> \o body
    BY <1>2 DEF Request, create_http_request
  <2>2. <<method>> \in Seq(Lines) /\ body \in Seq(Lines)
    <3>1. method \in Lines /\ "get" \in Lines /\ "put" \in Lines
      BY DEF Lines, Methods
    <3> QED BY <3>1, EmptySeq, OneSeq
  <2>3. lines' \in Seq(Lines)
    BY <2>1, <2>2
  <2>4. /\ client' = "header" /\ stream' = "open"
        /\ client = "start"
        /\ UNCHANGED <<asked, server, answer, reader>>
    BY <1>2 DEF Request
  <2>5. TypeOK'
    BY <2>3, <2>4
  <2>6. Unanswered' /\ Progress'
    BY <2>4
  <2> QED BY <2>5, <2>6
<1>3. CASE ReadHeader
  <2>1. response_stream' \in 1 .. written
    BY <1>3 DEF ReadHeader
  <2>2. response_stream' \in Nat /\ response_stream' <= written
    BY <2>1
  <2>3. /\ client' = "body" /\ client = "header"
        /\ handed' = handed /\ parsed' = parsed
        /\ UNCHANGED <<asked, server, lines, answer, stream>>
    BY <1>3 DEF ReadHeader
  <2>4. handed' = 0 /\ parsed' \in 0 .. handed'
    BY <2>3
  <2>5. handed' + response_stream' = response_stream'
    BY <2>2, <2>4, ZeroPlus
  <2>6. TypeOK'
    <3>1. TypeOK
      OBVIOUS
    <3>2. handed' \in Nat /\ handed' + response_stream' <= written
      BY <2>2, <2>4, <2>5
    <3> QED BY <2>2, <2>3, <2>4, <3>1, <3>2, ReadTypes
  <2>7. Unanswered' /\ Progress'
    BY <2>2, <2>3, <2>4
  <2> QED BY <2>6, <2>7
<1>4. CASE ReadMore
  <2>1. PICK n \in 1 .. written - (handed + response_stream) : Execute(n)
    BY <1>4 DEF ReadMore
  <2>2. /\ handed \in Nat /\ parsed \in 0 .. handed
        /\ response_stream \in Nat /\ written \in Int
    OBVIOUS
  <2>3. /\ handed' = handed + response_stream + n
        /\ response_stream' = 0
        /\ parsed' \in {handed'} \cup (parsed .. handed' - 1) \cup {parsed}
    BY <2>1 DEF Execute
  <2>4. /\ handed' \in Nat /\ handed' <= written /\ handed <= handed'
        /\ handed' + response_stream' = handed'
    BY <2>2, <2>3, ReadSums
  <2>5. parsed' \in 0 .. handed'
    BY <2>2, <2>3, <2>4
  <2>6. /\ client = "body"
        /\ UNCHANGED <<asked, client, server, lines, answer, stream>>
    BY <1>4 DEF ReadMore
  <2>7. TypeOK'
    BY <2>3, <2>4, <2>5, <2>6, ReadTypes
  <2>8. Unanswered' /\ Progress'
    BY <2>3, <2>4, <2>6
  <2> QED BY <2>7, <2>8
<1>5. CASE AtEnd \/ EndsEarly
  BY <1>5 DEF AtEnd, EndsEarly
<1> QED BY <1>1, <1>2, <1>3, <1>4, <1>5 DEF Client

LEMMA StutterInv ==
  ASSUME Inv, UNCHANGED vars PROVE Inv'
  BY DEF Inv, TypeOK, Unanswered, Progress, Whole, asked, reader, answer, vars

THEOREM InvAlways == Spec => []Inv
<1>1. Inv /\ [Next]_vars => Inv'
  BY ServerInv, EndInv, ClientInv, StutterInv DEF Next
<1> QED BY InitInv, <1>1, PTL DEF Spec

(* The variables keep their types, and no more is read than was written.   *)
THEOREM ExchangeTypeCorrect == Spec => []TypeOK
<1>1. Inv => TypeOK
  BY DEF Inv
<1> QED BY InvAlways, <1>1, PTL

(* A client that finishes has the whole answer handed to its parser, or,   *)
(* when all of it came with the header, none: the loop of do_request never *)
(* skips a piece.                                                          *)
THEOREM AlwaysAllOrNothing == Spec => []HandedAllOrNothing
<1>1. Inv => HandedAllOrNothing
  BY DEF Inv, TypeOK, Progress, HandedAllOrNothing
<1> QED BY InvAlways, <1>1, PTL

-----------------------------------------------------------------------------
(* The type of the answer, which the checks look into.                     *)
OneShotTypes == http_resp \in O!Responses

(* ocsp.cpp: what the signer signed it answered, before or since, and what *)
(* is called verified the signer answered.                                 *)
OwnAnswer == O!Possible(http_resp) /\ VerdictOnOwnAnswer

(* An answer passes the checks of ocsp_response only if it is to the       *)
(* question of this run: of this certificate, with this nonce.             *)
LEMMA ChecksFit ==
  ASSUME NEW q \in O!Question, q.cert = O!Mine.cert, q.nonce = O!Mine.nonce
  PROVE  q = O!Mine
  BY DEF O!Question, O!Mine

LEMMA OneShotStep ==
  OneShotTypes /\ OwnAnswer /\ [O!Next]_oneShotVars
    => OneShotTypes' /\ OwnAnswer'
<1>. SUFFICES ASSUME OneShotTypes, OwnAnswer, [O!Next]_oneShotVars
              PROVE  OneShotTypes' /\ OwnAnswer'
  OBVIOUS
<1>. USE DEF OneShotTypes, OwnAnswer, VerdictOnOwnAnswer,
             O!VerdictOnOwnAnswer, O!Possible
<1>1. CASE UNCHANGED <<http_resp, verdict>> /\ answered \subseteq answered'
  BY <1>1
<1>2. CASE UNCHANGED oneShotVars
  BY <1>1, <1>2 DEF oneShotVars
<1>3. CASE O!Usage \/ O!loadFile \/ O!load_cert \/ O!Returns \/ O!NoLength
  BY <1>1, <1>3 DEF O!Usage, O!loadFile, O!load_cert, O!Returns, O!NoLength,
     O!Ends
<1>4. CASE O!Send
  BY <1>1, <1>4 DEF O!Send
<1>5. CASE O!Moves("created", "sending") \/ O!Moves("sending", "receiving")
  BY <1>1, <1>5 DEF O!Moves
<1>6. CASE O!TimerFires \/ O!SignerAnswers
  BY <1>1, <1>6 DEF O!TimerFires, O!SignerAnswers
<1>7. CASE O!DoneAndPrinted
  BY <1>1, <1>7 DEF O!DoneAndPrinted, O!Stop
<1>8. CASE O!DoneAndCopied
  <2>1. UNCHANGED <<verdict, answered>>
        /\ (http_resp' \in {r \in O!Responses : O!Possible(r)}
            \/ http_resp' = O!NoAnswer)
    BY <1>8 DEF O!DoneAndCopied, O!Stop
  <2>2. O!NoAnswer \in O!Responses /\ O!NoAnswer.by # "signer"
    BY DEF O!NoAnswer, O!Responses, O!Question
  <2>. QED  BY <2>1, <2>2
<1>9. CASE O!ocsp_response
  <2>1. UNCHANGED <<http_resp, answered>>
    BY <1>9 DEF O!ocsp_response, O!Ends
  <2>2. CASE verdict' = "verified" /\ verdict # "verified"
    <3>1. /\ http_resp.by = "signer"
          /\ http_resp.to.cert = O!Mine.cert
          /\ http_resp.to.nonce = O!Mine.nonce
      BY <1>9, <2>2 DEF O!ocsp_response, O!check_crt, O!SameNonce
    <3>2. http_resp.to \in O!Question
      BY DEF O!Responses
    <3>3. http_resp.to = O!Mine
      BY <3>1, <3>2, ChecksFit
    <3>. QED  BY <2>1, <3>1, <3>3
  <2>. QED  BY <2>1, <2>2
<1>. QED  BY <1>2, <1>3, <1>4, <1>5, <1>6, <1>7, <1>8, <1>9
          DEF O!Next, O!Main, O!Library

(* valid_ca.cpp: only a verified server makes the session secure, without  *)
(* which LOOP_CHECK lets neither a send nor a read pass.                   *)
Verified ==
  /\ secure => peer = "good"
  /\ pc \in {"sent", "received", "success"} => secure
  /\ data => pc \in {"received", "success"}

LEMMA TlsStep ==
  Verified /\ [T!Next]_tlsVars => Verified'
<1>. SUFFICES ASSUME Verified, [T!Next]_tlsVars PROVE Verified'
  OBVIOUS
<1>. USE DEF Verified, T!Goes
<1>1. CASE UNCHANGED tlsVars
  BY <1>1 DEF tlsVars
<1>2. CASE T!Refused \/ T!Usage \/ T!CheckFails \/ T!Connect
           \/ T!StatusPrintFails \/ T!Finish
  BY <1>2 DEF T!Refused, T!Usage, T!CheckFails, T!Connect,
     T!StatusPrintFails, T!Finish
<1>3. CASE T!Handshake
  <2>1. pc = "handshake" /\ pc' = "talk" /\ UNCHANGED <<peer, data>>
        /\ (secure' => peer = "good")
    BY <1>3 DEF T!Handshake
  <2>. QED  BY <2>1
<1>4. CASE T!SendRequest
  BY <1>4 DEF T!SendRequest, T!LoopCheck, T!Serves
<1>5. CASE T!Receive
  <2>1. /\ pc = "sent" /\ UNCHANGED <<secure, peer>>
        /\ pc' \in {"received", "aborted"} /\ (data' => pc' = "received")
    BY <1>5 DEF T!Receive, T!LoopCheck
  <2>. QED  BY <2>1
<1>. QED  BY <1>1, <1>2, <1>3, <1>4, <1>5 DEF T!Next

LEMMA RequestsInit ==
  MCInit => OneShotTypes /\ OwnAnswer /\ Verified
<1>1. NoOneShot \/ O!Init => http_resp = O!NoAnswer /\ verdict = "none"
  BY DEF NoOneShot, O!Init
<1>2. O!NoAnswer \in O!Responses /\ O!NoAnswer.by # "signer"
  BY DEF O!NoAnswer, O!Responses, O!Question
<1>3. NoOneShot \/ O!Init => OneShotTypes /\ OwnAnswer
  BY <1>1, <1>2 DEF OneShotTypes, OwnAnswer, VerdictOnOwnAnswer,
     O!VerdictOnOwnAnswer, O!Possible
<1>4. NoTls \/ T!Init => Verified
  BY DEF NoTls, T!Init, Verified
<1>5. MCInit => (NoOneShot \/ O!Init) /\ (NoTls \/ T!Init)
  BY DEF MCInit
<1>. QED  BY <1>3, <1>4, <1>5

LEMMA RequestsInvariant ==
  MCSpec => [](OneShotTypes /\ OwnAnswer /\ Verified)
<1>1. [RunExchange \/ RunOneShot \/ RunTls]_<<exchangeVars, oneShotVars, tlsVars>>
        => [O!Next]_oneShotVars /\ [T!Next]_tlsVars
  BY DEF RunExchange, RunOneShot, RunTls
<1>. QED  BY <1>1, RequestsInit, OneShotStep, TlsStep, PTL DEF MCSpec

(* ocsp.cpp calls a certificate verified only if the signer answered the   *)
(* question of this run, whatever is made up or replayed on the way.       *)
THEOREM VerdictIsOnOwnAnswer ==
  MCSpec => []VerdictOnOwnAnswer
<1>1. OwnAnswer => VerdictOnOwnAnswer
  BY DEF OwnAnswer
<1>. QED  BY <1>1, RequestsInvariant, PTL

(* valid_ca.cpp prints nothing from a server that did not show a           *)
(* certificate of the name, and reports no success of it (lines 84-103).   *)
THEOREM StrangersAreNotHeard ==
  MCSpec => []NothingFromStrangers
<1>1. Verified => NothingFromStrangers
  BY DEF Verified, NothingFromStrangers, T!NothingFromStrangers
<1>. QED  BY <1>1, RequestsInvariant, PTL

=============================================================================
