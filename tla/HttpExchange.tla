---------------------------- MODULE HttpExchange ----------------------------
(***************************************************************************)
(* One request of the blocking clients of cpp/restinio (client.cpp, and    *)
(* client_custom_http_methods.cpp for "custom") and its answer, by         *)
(* server_reply_by_parts.cpp ("parts") or one of cpp/server: the line      *)
(* server httpserver_dyad.cpp ("dyad"), and libhttpserver.cpp ("lib") and  *)
(* httpserver_restinio.cpp ("restinio"), which answer in one piece.        *)
(*                                                                         *)
(* An answer is a number of parts, of which the first holds the header;    *)
(* the client keeps what it has read in a buffer, and then hands all of it *)
(* to its parser.                                                          *)
(***************************************************************************)
EXTENDS Integers, Sequences

CONSTANTS
  Cores,          \* what hardware_concurrency may return
  UnsignedRange,  \* number of values of an unsigned (bound)
  ThreadLimit     \* threads a process may have

ASSUME ExchangeAssumption ==
  /\ Cores \subseteq Nat
  /\ UnsignedRange \in Nat \ {0} /\ ThreadLimit \in Nat

VARIABLES
  program,    \* the client: client or custom
  client,     \* start, header, body, finished, usage, threw, crashed
  kind,       \* the server: parts, dyad, lib or restinio
  server,     \* starting, open, failed
  lines,      \* request lines the server has yet to see
  method,     \* what the client is asked to send, "few" if too little
  flushed,    \* parts the handler has given to the library
  written,    \* parts on the stream
  stream,     \* none, open, shut (in order) or reset
  response_stream,  \* parts read and still in the buffer
  handed,     \* parts handed to the parser (custom: printed)
  parsed      \* those of them before the first in error

asked   == <<program, kind, method>>
reader  == <<response_stream, handed, parsed>>
answer  == <<flushed, written>>
vars    == <<asked, client, server, lines, answer, stream, reader>>

Programs == {"client", "custom"}
Kinds    == {"parts", "dyad", "lib", "restinio"}
Methods  == {"few", "get", "post", "listen", "unknown"}
Lines    == Methods \cup {"put"}
Ended    == {"finished", "usage", "threw", "crashed"}

Init ==
  /\ program \in Programs /\ kind \in Kinds /\ method \in Methods
  /\ client = "start" /\ server = "starting"
  /\ lines = << >>
  /\ flushed = 0 /\ written = 0
  /\ stream = "none"
  /\ response_stream = 0 /\ handed = 0 /\ parsed = 0

-----------------------------------------------------------------------------
(* Plausible mistakes, which the properties below must catch.              *)

HeaderKept(n) ==
  /\ handed' = handed + n /\ parsed' = parsed + n
  /\ UNCHANGED response_stream

-----------------------------------------------------------------------------
(* The servers.                                                            *)

(* maxThreads is unsigned: without a known number of cores it wraps round. *)
RestThreads(cores) ==
  LET maxThreads == (cores - 1) % UnsignedRange
  IN  IF maxThreads > 1 THEN maxThreads ELSE 1

(* The port may be taken, or the pool too large to be made.  The server by *)
(* parts reports it and main sleeps on; the others end.                    *)
ServerStarts ==
  /\ server = "starting"
  /\ \/ server' = "failed"
     \/ /\ kind = "parts" =>
             \E cores \in Cores : RestThreads(cores) <= ThreadLimit
        /\ server' = "open"
  /\ UNCHANGED <<asked, client, lines, answer, stream, reader>>

(* Parts: the header, "i like", " waffles!" and the end, with two seconds  *)
(* before the next; the library writes them when it can.                   *)
Parts == 4

Get ==
  /\ kind = "parts" /\ lines # << >> /\ Head(lines) = "get"
  /\ flushed < Parts
  /\ flushed' = flushed + 1
  /\ lines' = IF flushed' = Parts THEN << >> ELSE lines
  /\ UNCHANGED <<asked, client, server, written, stream, reader>>

LibraryWrites ==
  /\ kind = "parts" /\ stream = "open" /\ written < flushed
  /\ written' \in written + 1 .. flushed
  /\ UNCHANGED <<asked, client, server, lines, flushed, stream, reader>>

(* Header and body at once: what no route asks for, and all that the two   *)
(* other servers answer.                                                   *)
AnswerWhole ==
  /\ lines # << >> /\ stream = "open"
  /\ lines' = << >>
  /\ flushed' = 2 /\ written' = 2
  /\ UNCHANGED <<asked, client, server, stream, reader>>

NoRoute == kind = "parts" /\ AnswerWhole /\ Head(lines) # "get"
render  == kind = "lib" /\ AnswerWhole
Hello   == kind = "restinio" /\ AnswerWhole

(* dyad: each line that asks is answered, be it in the body, and the       *)
(* stream is left open.                                                    *)
onLine ==
  /\ kind = "dyad" /\ lines # << >> /\ stream = "open"
  /\ lines' = Tail(lines)
  /\ flushed' = flushed + (CASE Head(lines) = "get" -> 2
                             [] Head(lines) = "put" -> 1
                             [] OTHER -> 0)
  /\ written' = flushed'
  /\ UNCHANGED <<asked, client, server, stream, reader>>

(* The library ends a connection when a time limit passes (one second to   *)
(* answer, ten to ask again) or it refuses the request.                    *)
Close ==
  /\ kind # "dyad" /\ stream = "open"
  /\ stream' = "shut"
  /\ UNCHANGED <<asked, client, server, lines, answer, reader>>

(* The limit that must come: nothing is left to answer.                    *)
IdleLimit == lines = << >> /\ written = flushed /\ Close

LinkBreaks ==
  /\ stream = "open"
  /\ stream' = "reset"
  /\ UNCHANGED <<asked, client, server, lines, answer, reader>>

Server ==
  ServerStarts \/ Get \/ LibraryWrites \/ NoRoute \/ render \/ Hello \/ onLine

-----------------------------------------------------------------------------
(* The client.                                                             *)

Exits(how) ==
  /\ client' = how
  /\ UNCHANGED <<asked, server, lines, answer, stream, reader>>

(* main: too few arguments, or a method it does not have.                  *)
Usage == client = "start" /\ method = "few" /\ Exits("usage")

Has(m) == m \in IF program = "custom" THEN {"get", "post", "listen"}
                                      ELSE {"get", "post"}

BadMethod ==
  client = "start" /\ method # "few" /\ ~Has(method) /\ Exits("threw")

(* client.cpp: the parser is a pointer to nowhere, and writing through it  *)
(* may end the program.                                                    *)
BadParser ==
  client = "start" /\ program = "client" /\ Has(method) /\ Exits("crashed")

(* The body is a line of its own.                                          *)
create_http_request(body) == <<method>> \o body

(* do_with_socket connects, and the request is written.                    *)
Request ==
  /\ client = "start" /\ Has(method) /\ server = "open"
  /\ client' = "header"
  /\ stream' = "open"
  /\ \E body \in {<< >>, <<"get">>, <<"put">>} : 
       lines' = create_http_request(body)
  /\ UNCHANGED <<asked, server, answer, reader>>

Refused ==
  client = "start" /\ Has(method) /\ server # "open" /\ Exits("threw")

(* read_until: what comes with the header stays in the buffer.             *)
ReadHeader ==
  /\ client = "header" /\ written > 0
  /\ client' = "body"
  /\ response_stream' \in 1 .. written
  /\ UNCHANGED <<asked, server, lines, answer, stream, handed, parsed>>

(* read: at least one more part, and all the buffer is handed on.  A parse *)
(* error is printed, and the loop goes on with a parser that takes nothing *)
(* any more; the custom client has none and prints.                        *)
Execute(n) ==
  /\ handed' = handed + response_stream + n
  /\ response_stream' = 0
  /\ \/ parsed = handed /\ parsed' = handed'
     \/ /\ parsed = handed /\ program = "client"
        /\ parsed' \in parsed .. handed' - 1
     \/ parsed # handed /\ UNCHANGED parsed

ReadMore ==
  /\ client = "body"
  /\ \E n \in 1 .. written - (handed + response_stream) : Execute(n)
  /\ UNCHANGED <<asked, client, server, lines, answer, stream>>

(* The end of the stream is the end of the answer, if there was a header;  *)
(* any other error is thrown.                                              *)
AtEnd ==
  /\ client = "body" /\ stream = "shut"
  /\ handed + response_stream = written
  /\ Exits("finished")

EndsEarly ==
  /\ client \in {"header", "body"}
  /\ stream = "reset" \/ (client = "header" /\ stream = "shut" /\ written = 0)
  /\ Exits("threw")

Client ==
  \/ Usage \/ BadMethod \/ BadParser \/ Request \/ Refused
  \/ ReadHeader \/ ReadMore \/ AtEnd \/ EndsEarly

Next == Server \/ Close \/ LinkBreaks \/ Client

Spec == Init /\ [][Next]_vars

(* Each thread goes on, and the libraries (not dyad) end an idle           *)
(* connection.                                                             *)
Fairness == WF_vars(Client) /\ WF_vars(Server) /\ WF_vars(IdleLimit)

-----------------------------------------------------------------------------
TypeOK ==
  /\ program \in Programs /\ kind \in Kinds /\ method \in Methods
  /\ client \in {"start", "header", "body"} \cup Ended
  /\ server \in {"starting", "open", "failed"}
  /\ lines \in Seq(Lines)
  /\ flushed \in Nat /\ written \in 0 .. flushed
  /\ stream \in {"none", "open", "shut", "reset"}
  /\ response_stream \in Nat /\ handed \in Nat /\ parsed \in 0 .. handed
  /\ handed + response_stream <= written

(* A client that finishes has read the whole answer, and never hands its  *)
(* parser two pieces of which one is lost: either the loop of lines 44-53  *)
(* ran and handed on all, header included, or everything had come with the *)
(* header and none of it was handed on.                                    *)
HandedAllOrNothing ==
  client = "finished" =>
    \/ handed = written /\ response_stream = 0
    \/ handed = 0 /\ response_stream = written

(* A client ends, unless its server is the one that never ends a stream.   *)
ClientEnds == kind # "dyad" => <>(client \in Ended)

=============================================================================
