# A TLA+ verification of smoll

`smoll` is a collection of small programs. Most are demonstrations of a library
or a language; some are concurrent programs with state of their own, and those
are what this project models, checks and proves things about. Paths below are
relative to the repository (`src/` in `PROJECT.json`).

The modules:

| module | models | kind |
| --- | --- | --- |
| `PacketFifo` | what one direction of the bank's network promises | abstract specification |
| `NetworkBuffer` | one ring buffer of class `Network`, its producer and its consumer | refines `PacketFifo` |
| `BankNetworkThreads` | the whole bank program: five threads, two ring buffers | composes two `NetworkBuffer`s |
| `BoundedBuffer` | the Python semaphore demo | detailed specification |
| `NonblockingServer` | the C++ echo server on readiness callbacks | detailed specification |
| `StreamServer` | the other end of a client's connection | external part of the next two |
| `NonblockingClient` | the C++ client on readiness callbacks | detailed specification |
| `PostedRequests` | the C++ client whose handlers run the context themselves | detailed specification |
| `ChatServer` | the WebSocket server: tasks on one event loop, and a thread | detailed specification |
| `DhtProxyServer` | a DHT node behind a web server, in two variants | detailed specification |
| `DhtClients` | five programs that wait for the callbacks of a DHT node or of the Jami daemon | one specification, a list of steps per program |
| `HttpExchange` | a request of the RESTinio clients, and four servers that answer it | composition of client and server |
| `OneShotRequest` | four programs that run a context until one request is done | detailed specification |
| `TlsClient` | a TLS client that goes on after a failed handshake | detailed specification |
| `Timeout` | a wait with a time limit, stopped by another thread | detailed specification |
| `NetworkBufferProofs`, ... | | theorems about the module of that name, or about the programs the MC module of that name composes |
| `MC...` | | instances for TLC |

## 1. Inventory

### 1.1 The bank (`java/banknetworkthreads`)

One process simulates a bank server, a network and two client threads.

* **Network** (`Network.java`). State, all of it `static`: two arrays of
  `Transactions` (`inComingPacket` from client to server, `outGoingPacket`
  back), for each the producer's and the consumer's index and a status string
  (`empty`, `normal`, `full`), the connection status of client and server.
  Operations: `send`, `transferIn`, `transferOut`, `receive` copy one packet
  field by field, move an index modulo the number of slots, compare the two
  indices and write the status; `connect`, `disconnect`; a thread that spins
  until both sides are disconnected. All methods are `synchronized`, on the
  instance.
* **Server** (`Server.java`, `Accounts.java`). State: the accounts, a count of
  transactions. One thread: connect; until the client disconnects, wait for a
  packet, take it, find the account, apply the operation, wait for room, send
  the answer; disconnect.
* **Client** (`Client.java`). Two threads made from one class: the sending one
  puts every transaction of the file in the network, the receiving one takes
  and prints as many answers, then disconnects.
* **Transactions** (`Transactions.java`): the packet.
* **BankDriver** starts the network thread, the server thread and the two
  client threads, in that order, and joins the network thread.

They interact only through `Network`'s static fields. Threads wait by spinning
on a status with `Thread.yield()`; there is no `wait` or `notify`.

What is hard: equal indices mean both *full* and *empty*, and only a string
written after the index moved tells which; a caller tests the status before the
call and the call does not test again; a packet is copied field by field; and
the `synchronized` methods exclude each other only on the same object, while
the program makes three `Network` objects (`BankDriver.java:10`,
`Server.java:37`, `Client.java:29`), so the client's calls and the server's
calls do not exclude each other at all. Threads start in turn while earlier
ones already run, and the client's status is written by both client threads.

What makes it correct: each direction is a first-in first-out queue of whole
packets; the answers printed are those of the file executed in order; the
client disconnects only when everything is through; the network thread is the
last to end; the server notices a client that is gone wherever it waits.

### 1.2 The bounded buffer (`python/boundedbuffer_semaphore.py`)

Between ten and twenty producers and as many consumers share a list of ten
slots, two indices and a counter under `Semaphore(1)`. A thread that finds the
buffer full (or empty) leaves the `with` block by `continue` and tries again at
once; the others sleep a second. Hard: three shared integers that must agree
whenever the semaphore is free; the message printed after the index has moved.

### 1.3 The echo server (`cpp/async/nonblocking/server.cpp`, `nonblocking.cpp`)

Both files are the same program. One thread runs the handlers. A `Session` is
reading or writing and keeps the bytes it has to echo; a `Connection` waits for
its socket to become readable or writable (`read_in_progress_`,
`write_in_progress_`), and only the handlers of these waits keep it alive. Hard:
a path that starts no wait drops a client silently; a read while bytes wait to
be written replaces them; the kernel takes part of a write; data arrives
together with the end of the stream. Correct: one wait per open connection, no
byte lost or repeated, every byte echoed, every connection closed in the end.

### 1.4 The chat server (`python/websockets/thread-asyncio/server.py`)

One event loop runs a `serve` task per socket, which adds the socket to a list,
sends a welcome and looks once a minute whether the socket is still in the list,
and one `notify` task, which takes a message from a queue and sends it to every
socket of the list, removing those whose connection is closed. A thread posts
the messages through the loop. Hard: the list is iterated over an `await` while
it grows and shrinks. Correct: messages in order and once; a live socket is
never dropped; every message is taken; a removed socket is let go.

### 1.5 The timeout (`python/timeout.py`)

An object with two flags (`active`, `expired`) and an event made inside `wait`;
a thread that waits on it, started and stopped by a `with` statement. Hard: a
stop before the event exists, a stop that races the time limit, two flags
written one after the other. Correct: once inactive, `expired` tells how the
wait ended; every wait ends.

### 1.6 The asio clients (`cpp/async/nonblocking/client.cpp`, `client2.cpp`)

`client.cpp` has the server's classes turned round: a `Session` writes its
request, then reads; a `Connection` per request waits for its socket. But the
read lasts until the server ends the stream, and the thread with it. `client2.cpp`
posts every request to an `io_context`; the handler of a posted request asks the
resolver and then calls `run_one` itself, so handlers nest, and the handler of
the resolved address does everything else, blocking. Hard: what a nested
`run_one` waits for, the order in which nested requests end, an exception that
unwinds all of them, a connection forgotten between its write and its read.
Correct: nested calls never wait for nothing; answers whole and in the order of
the requests; every connection made is attended to its end; the program ends if
its servers do.

### 1.7 The DHT proxy (`cpp/opendht/dhtproxyserver`)

A `DhtProxyServer` owns a node, a thread for the web server, and the node info it
remembers. The RESTinio variant answers `get` and `put` from the node's callbacks,
on the node's thread; the Pistache variant blocks its only thread for a `get`.
Hard: callbacks that come after the client, the time limit or the server; a body
that is not JSON, for which no answer is ever made; a stop before the thread has
opened the server; the order of joins and destruction. Correct: one answer per
request, header first and end last; no callback on a destroyed server and no
handler on a joined node; every request settled or its connection closed; a server
that is stopped ends.

### 1.8 The DHT and Jami clients (`putget.cpp`, `dhtclient*.cpp`, `future-get.cpp`, `namedir.cpp`)

Each `main` starts operations whose callbacks set flags of `main` and notify a
condition variable, without its mutex; `main` waits with a limit of ten or
twenty seconds, or on a future without one. Hard: a notification between the test
and the sleep, a flag that is never lowered, callbacks after `main` has returned.
Correct: `main` goes on for a reason; only an operation that was given up, or
whose flag was stale, can call back late; `main` returns.

### 1.9 One request: `cpp/restinio`, `cpp/server`, `http*.cpp`, `ocsp.cpp`, `valid_ca.cpp`

The RESTinio clients connect, write, read a header and then read until the end of
the stream; the servers answer in four parts over six seconds, in one piece, or
per line. Four programs run OpenDHT's HTTP client until its request is done; of
these `ocsp.cpp` limits the time and judges a certificate by the answer.
`valid_ca.cpp` makes a TLS session. Hard: what arrives together with the header,
a server that ends the stream early, a time limit that races the answer, a
failed handshake that does not end the program, an unsigned subtraction that
wraps. Correct: an answer is handed to the parser whole or not at all; a certificate is
called verified only if the signer answered this run's question; nothing comes from
a server that was not verified; the program ends.

### 1.10 What else there is

Everything else in the repository is listed in `PROJECT.json` with the reason it
is not modelled: see section 14.

## 2. How the project is built

The most concurrent program comes first (the bank), then the buffer, the echo
server, the chat server and the timeout, then the programs of one family
together: asio, the distributed hash table, single requests. Programs of one
family share a run, because the run asks one question of all of them: an MC
module starts *one* of them (its initial states are those of one program, with
the others at "not run", from where no action leads), so behaviours are those of
the single programs and the state space is the sum and not the product.

The modules avoid `RECURSIVE` operators so that they can be proved about, and
declare what a proof assumes of a constant as a named `ASSUME`.

## 3. The ring buffer: `NetworkBuffer` and `PacketFifo`

State: `buffer`, `inputIndex`, `outputIndex`, `bufferStatus` are one direction
of the network; `monitor[o]` says which call holds the monitor of Network
object `o`; `putStep`, `putField`, `putPacket` and `getStep`, `getField`,
`getPacket` are the program counters and locals of the thread that calls
`send`/`transferOut` and of the one that calls `transferIn`/`receive`.

| action | code |
| --- | --- |
| `PutPoll`, `GetPoll` | the caller's busy-wait ends (`Client.java:150-155`, `178-183`; `Server.java:193`, `230`) |
| `PutEnter`, `GetEnter` | the `synchronized` method is entered |
| `PutCopy`, `GetCopy` | one field is copied |
| `PutAdvance`, `GetAdvance` | the index moves modulo `maxNbPackets` |
| `PutCompare`, `GetCompare` | the two indices are compared |
| `PutReturn`, `GetReturn` | the status is written and the monitor released |
| `GetterWrites` | the consumer writes to its own object between calls (the server's new balance) |
| `OtherEnter`, `OtherReturn` | a call on the other ring buffer takes the same monitors |

Every access to a shared field is a step of its own and steps interleave in any
order. The Java memory model allows more (a thread that shares no monitor with
another may see its writes late); the model assumes the fields are read from
memory, so what it finds wrong is wrong whatever the memory does, and what it
shows right for one object is right because every access is then under one
monitor. A `synchronized` getter is one step that needs its object's monitor
free. The IP, port and network-status fields only select branches that are
always taken, and the error and status-stamp fields of a packet are not read
by the transfer; all are left out.

Runs:

* `network_buffer_one_object`: three slots, packets of two fields with two
  values, both threads on one object (66 592 states). Three slots let the ring
  be empty, partly filled, full and wrapped; two fields are what a torn packet
  takes, two values tell packets apart. It checks that the status never contradicts the indices outside a call's last steps
  (`StatusTruthful`), that a status read before the call still holds inside it
  (`PollStaysValid`), that the ring is a FIFO of whole packets
  (`DeliversInOrder`, a refinement of `PacketFifo`: the queue is the slots from
  `outputIndex` on).

Two threads on two objects, as in the program, are part of the bank's runs. What
one object gives them is that the two calls are never both between the move of
their index and the write of the status (`UpdatesApart`). The theorems of section
13 need no more than that and hold for any objects; two objects leave
`UpdatesApart` to chance.

## 4. The bank: `BankNetworkThreads`

Two instances of `NetworkBuffer` (`In`, `Out`) over shared monitors, the two
connection statuses, the server's accounts, the two clients' counters and a
program counter per thread. `NetworkOf` gives each thread the Network object it
calls: `OneNetwork` for a program with one object, `NetworksAsBuilt` for the
three the program makes. The files are constants: `Transaction` is a sequence
of records, `Account` and `InitialBalance` the account file. Files that cannot
be opened or parsed end the process before any thread runs and are not
modelled.

`Main...` are `BankDriver.main` with the constructors it runs (their
`connect`-like status writes included); `Network...` is `Network.run`;
`Sender...`, `Receiver...` and `Server...` are the three `run` methods. Each
read of a status in a loop condition is a step of its own, in the order the code
evaluates them: the server reads the client's status in the outer loop, the
buffer status and the client's status in the inner one, and the buffer status
once more after it. `ServerFindsNoAccount` is `findAccount` on a number the file
does not have: its loop has no bound, runs into an unused element and the
exception ends the thread.

Fairness (`Fairness`): weak fairness of each thread. Java threads on the
platforms the program runs on are preempted, every busy-wait calls
`Thread.yield()` or reads afresh, and a monitor is held for a bounded number of
steps; but whether a monitor is *fair* is not promised, and nothing here needs
strong fairness, because a thread that waits for a monitor waits on one that its
holder takes again only a bounded number of times before it must wait itself.

Runs:

* `bank_one_object`: four transactions over two accounts through two slots, so
  both rings fill up and wrap. All answers right and in order
  (`AnswersInOrder`, against the file executed sequentially); nothing lost when
  the client disconnects (`SessionComplete`); the program ends (`Termination`).
  Deadlock is checked here.
* `bank_as_built`: three objects, three transactions, three slots (73 544
  states), so that the rings fill up and the indices wrap, the status gets out of
  step with the indices
  and the server may take a slot that was never filled, whose account number is
  blank, and die. What survives: the network thread and `main` end last
  (`OrderlyShutdown`), nothing reconnects the client (`NoReconnect`), the server
  stops, dies or waits for room when the client is gone (`ServerStops`). And what
  goes wrong has one cause: a behaviour that prints a wrong answer, or disconnects
  before all is done, has had two calls on one ring at once between the move of an
  index and the write of the status (`LostOnlyByOverlap`). Copies of packets that
  overlap do no harm.
* `bank_as_built_session` (a violation): with the objects the program makes, the
  client disconnects although a transaction was lost or applied twice.
* `bank_empty_file` (a violation): with no transactions the receiving client may
  disconnect before the sending one connects; the status is `connected` again
  and the server never stops.

`CHECK_DEADLOCK FALSE` is set in the as-built runs
because there the program really can stop making progress: a status that reads
`full` for ever or a dead server leaves every other thread spinning on a
condition that no thread will change. (A failed poll changes nothing, so the
model has no step for it, except where the next poll reads something else.)
Balances and counters need no bound: the file bounds them.

## 5. The bounded buffer: `BoundedBuffer`

State: the semaphore's permits, the list, the two indices, the counter, the last
line printed, and a program counter per thread. Every statement of `produce` and
`consume` that touches one of them is an action: `Acquire` and `Release` (entering
and leaving the `with` block, the latter also by `continue`), `TestFull` and
`TestEmpty`, `Fill` and `Clear`, `AdvanceProducer` and `AdvanceConsumer`,
`PrintProduced` and `PrintConsumed`, `CountUp` and `CountDown`. The sleep after a
round touches nothing and is left out. The number of threads, random in the
program, is the size of two constant sets.

* `bounded_buffer`: three producers, three consumers, four slots, so that the
  buffer is empty, partly filled, full and wrapped and several threads of each
  kind compete; the threads of a kind are symmetric. It checks that
  the shared variables agree whenever nobody is inside (`SharedStateAgrees`), that
  nothing is overwritten and nothing taken from an empty slot (`NoOverwrite`), and
  the inductive invariant of the proof (`BufferInv`). Deadlock is checked.

No liveness is claimed: a thread that finds nothing to do asks for the semaphore
again at once, and `threading.Semaphore` does not promise the others a turn.

## 6. The echo server: `NonblockingServer`

`state_`, `write_buffer_`, `read_in_progress_` and `write_in_progress_` are the
fields of the code, for each peer; `connection` says whether its `Connection`
object is open. The kernel holds `toServer` and `toPeer` for each connection.
Byte number k of a peer is the number k, so that a byte lost, repeated or out of
order shows.

| action | code |
| --- | --- |
| `Accept` | the handler of `async_accept`, with `start` and `operations` |
| `ReadSome`, `ReadFails` | the handler of `wait_read`, with `Session::read` and `operations` or `close` |
| `WriteSome`, `WriteFails` | the handler of `wait_write`, with `Session::write` and `operations` or `close` |
| `PeerConnects`, `PeerSends`, `PeerReceives`, `PeerShuts`, `LinkBreaks` | the clients and the network (external) |

A handler with everything it calls is one step, because one thread runs them. A
wait that ends for nothing gets `would_block` and is started again: a stutter.

* `echo_server`: two peers, three bytes each, a kernel buffer of two bytes, so
  that writes are taken in part and a peer may send while an echo is pending
  (57 600 states). `OneWait`, `NothingLost`, and under fairness `EveryByteEchoed`
  and `ClosedInTheEnd`.

Fairness: weak fairness of the handlers of each connection (`io_context::run`
takes ready handlers in turn) and of the peer's receiving; a client that never
reads leaves its own connection waiting, and is not promised anything. A peer
need not send, end its stream or connect, so the system may stop and
`CHECK_DEADLOCK` is off. `EveryByteEchoed` excepts peers that have ended their
stream: bytes that arrive together with the end are stored and then the socket
is closed, so they are never echoed, and nothing in the repository promises it.

## 7. The chat server: `ChatServer`

`websockets`, `messages` and the local variables of `notify` are those of the
code; `position` is the position Python's list iterator keeps, which moves on
before the body of the loop runs and does not follow the list when an element is
removed. A task runs from one `await` to the next as one step: `Serve`,
`ServeWelcomed`, `ServeWakes` are the parts of `serve`; `NotifyGets`,
`NotifyWaits`, `NotifySends`, `NotifySent`, `NotifyEnds` those of `notify`; `Post`
is the thread, `Put` the call the loop makes for it. `ConnectionCloses` is
external. `removals` is a history variable.

* `python_programs` (with section 8's program, 430 461 states): three sockets and two
  messages: three sockets let one be removed, one be skipped for it and one be
  served; two messages let the first round's removals show in the second. `InOrderOnce`; `LiveStaysServed`;
  `MissedOnlyByRemoval`, which says exactly what the iteration over a shrinking
  list costs: each socket removed while a message is sent makes the loop skip at
  most one open socket; under fairness `PostedIsTaken` and `RemovedIsReleased`.

Fairness: the loop takes its ready tasks in turn, and a send ends (the library
closes a connection that does not answer its pings). The thread posts at most
`MaxMessages` messages, so the model stops and `CHECK_DEADLOCK` is off.

## 8. The timeout: `Timeout`

Each statement of `wait` is an action (`MakeEvent`, `Activate`, `Woken` or
`TimesUp`, `Check`, `SetExpired`, `Deactivate`), because the other thread may look
at the flags between any two. An object is used in one of two ways. In the `with`
statement its thread waits once, on an object that never raises (`timeout.py:37`),
and the body makes its calls in any order: `Enter`, `Stop`, `AskActive`,
`AskExpired`, `Exit`. Without it (`user` is `"direct"`), a thread waits on it
itself, again perhaps, with the exception or without (`WaitDirectly`, `WaitAgain`),
while another may stop it. `TimesUp` is enabled whenever the event is clear: any
limit and any speed. `inTime` is a history variable.

* `python_programs`: up to two waits on one object, with and without the exception:
  `SettledWhenInactive`, and `WaitEnds` under weak fairness of the waiting thread.
  One wait more adds nothing: a wait depends on earlier ones only through the
  flags, which one of them can leave in every combination.
* `timeout_stop` (a violation): the two assertions of `test_with_run_stop`
  (`timeout_tests.py:13` and `15`) do not hold in every schedule.

`TimeoutThread.expired` calls a Boolean and always raises a `TypeError`
(`AskExpired`), so `timeout_tests.py:22` compares nothing. `__exit__` returns
`True`, which swallows this error and every `AssertionError`: the tests pass all
the same.

The program ends, so `CHECK_DEADLOCK` is off.

## 9. The asio clients: `StreamServer`, `NonblockingClient`, `PostedRequests`

`StreamServer` is the other end of a connection, external to both: it sends parts
of an answer, ends the stream or loses it, at any moment. An answer is the number
of its parts. Connections are numbered in the order `main` makes them.

| action | code |
| --- | --- |
| `Resolved` (client.cpp) | the handler of `async_resolve`, with the connect |
| `WriteReady`, `ReadReady` | the handlers of `wait_write` and `wait_read` |
| `ReadEnds` | the blocking read returns: until then no handler runs |
| `RunPosted` (client2.cpp) | the handler of a posted request, up to its `run_one` |
| `RunResolved` | the handler of a resolved address, up to its read |
| `ReadEnds` | the read returns, the callback is made, every nested `run_one` ends |
| `Returns` | `io_context::run` has no work left |

`nested` counts the handlers on the stack that wait in `run_one`. That all of them
end when one handler does is the code: the inner one is the work the outer ones
were waiting for. A connect that fails throws through all of them to `main`
(`main = "failed"`), in both programs.

* `asio_clients`: three requests, two of them with a callback, answers of up to two
  parts (29 151 states). Three requests nest two deep and still leave one waiting.
  `RunOneHasWork`, `AnswersInOrder`, `ServedToTheEnd`, `ProgramsEnd`.

Fairness: the thread runs ready handlers and the resolver answers. Of the servers
nothing is assumed; `ProgramsEnd` is conditional on their streams ending, since a
server that keeps one open holds up the program for ever (`client.cpp:19`).

## 10. The DHT proxy: `DhtProxyServer`

`front` chooses the RESTinio or the Pistache variant. `phase` and `answer` follow
each request, `owner`, `server` and `nodeRuns` the life cycle. A handler is one
step of the server's thread (`Options`, `GetNodeInfo`, `Get`, `Put`,
`PistacheGet`, `PistachePut`); `Callback` runs on the node's thread, between any
two of them. `Stop` is the call of `stop` up to its join, at any moment, before the
thread has opened the server too (closing it does nothing then); `Joined`,
`JoinNode` and `Destroyed` are the joins of the server's thread and of the node and
the end of the members, a step each, with the other threads between them. `CloseByLimit` stands for the library's time limits, which end the
connection of a request that is never answered: the `"bad put"`, for which
`proxy_restinio.cpp:165` falls through to `accepted`.

* `dht_programs` (with section 11's): two requests of any kind on either variant,
  up to two values per key. Two requests are what it takes for one to block or
  overtake the other. `AnsweredOnce`, `NoCallbackAfterEnd`, `SettlesAndStops`.

`NoCallbackAfterEnd` says two things of the order of the joins: no callback runs
once the members are destroyed, and no handler can run once the node was joined.
`SettlesAndStops` excepts a Pistache server whose thread is blocked by a `get`, and
a server that was stopped before it opened (`StoppedTooEarly`), which never ends:
see section 14.

Fairness: the server's thread, the opening included, and the owner go on and the
time limits pass. The node need never call back, and the clients do what they like.

## 11. The DHT clients: `DhtClients`

A program is a sequence of steps (`Steps`): start an operation, listen, wait for a
flag, take a future, `periodic` and so on. The main thread takes them in turn;
the library finishes operations (`Finish`) and calls back in two steps, the flag
(`CallbackSets`) and the notification (`CallbackNotifies`), which is lost unless
`main` is asleep by then (`TestFlag`, `Sleep`). `Return` destroys the locals
first and the library's thread after them; `late` collects callbacks that come in
between.

* `dht_programs`: all five programs, `putget` with three values, callbacks on the
  library's thread or only in `periodic`. Three puts show a flag that was raised
  by the first of them. Main passes a wait only if the operation it waits for
  has called back (`CalledBack`), the time was up or the flag was stale
  (`WaitsForItsOwn`); `LateOnlyIfGivenUp`, `ClientsTyped`, `ProgramsReturn`
  (26 204 states with the proxy).

Fairness: `main` runs and a call the library began ends. `TimeOut` has strong
fairness, because `wait_for` counts its time from the beginning, however often it
is woken. No operation need finish; `putget` alone waits without a limit, for its
last `get`, and is promised an end only if that is called back.

## 12. One request: `HttpExchange`, `OneShotRequest`, `TlsClient`

`HttpExchange` composes a client (`client.cpp`, or `client_custom_http_methods.cpp`)
and a server (`server_reply_by_parts.cpp`, `httpserver_dyad.cpp`, `libhttpserver.cpp`
or `httpserver_restinio.cpp`) over one stream of parts, the first of which holds
the header. `flushed` is what a handler gave to the library and `written` what the
library put on the stream; RESTinio writes when it likes and may end a connection
at any moment, because its limits (one second to handle and to write, against six
seconds of sleeping in the handler) do: both are left free. A server may fail to start, whatever its kind: its port is taken or its threads
cannot be made. `Execute` is the body of the client's loop, which hands all it has
to the parser; `parsed` is what came before the first parse error, which the loop
prints and goes on (`client.cpp:49-52`). What came with the header and was never
followed by more is never handed over (`client.cpp:43`), and the size of the answer
is not compared with its `Content-Length`, so `HandedAllOrNothing` says what is
true of an answer that ended in order: all of it or nothing, never a piece. `BadParser`
is the uninitialised pointer of `client.cpp:168`. `RestThreads` subtracts in
unsigned arithmetic, of 16 values in the run, with a limit of eight threads.
Line 52 of the custom client hands a `std::string` to `printf`; it is taken for
the print that was meant.

`OneShotRequest`: the library's request goes through its states and calls back in
each; the callback that sees `DONE` stops the context. In `ocsp.cpp` the callback
of `SENDING` sets a limit of a second, which cancels the request, so that the
answer and the limit race. The answer it judges may be anything: it has a length or
not, a body that is a response or not, about this or another certificate, with the
nonce of this run, an old one or none, signed by the signer or not; only the
signer's signature cannot be made up, so that an answer that bears it is one the
signer gave (`Possible`), to an earlier question or, once it is on its way
(`SignerAnswers`), to this one. `Imports`, `check_crt`, `SameNonce` and the
signature are the checks of `ocsp_response` in their order; the status of the HTTP
answer is not among them. `TlsClient` is `valid_ca.cpp` from its arguments to its
end; after a handshake that failed it goes on, and what stops it is that the
library refuses to send and an assertion ends the program.

* `http_programs` (2 752 states): every program with every method, server, answer
  and failure. `HandedAllOrNothing`, `VerdictOnOwnAnswer`, `NothingFromStrangers`,
  `ProgramsEnd`. The last excepts the dyad server, which never ends a stream, and
  of the one-shot programs promises an end only for `ocsp.cpp` once it is sending.

Fairness: each side goes on, and the libraries end an idle connection (dyad does
not); a timer fires and a cancelled request becomes done.

## 13. Proofs

`NetworkBufferProofs` (for every number of slots, fields, values and objects):

* `TypeCorrect`: `Spec => []TypeOK`, whatever objects the threads use.
* `RingInvariant`: `Spec /\ []UpdatesApart => []RingInv`, whatever objects the
  threads use: for as long as the two calls are not both between their index and
  their status, and copies may overlap as they like. `RingInv` strengthens `StatusTruthful` by what each step of a call has already
  established: the monitor is held exactly by the thread inside a call
  (`MonitorHeld`, of the
  object each call locks); a comparison already made is still true (`ComparisonHolds`);
  the status that ended the busy-wait still stands (`PollRemembered`); the
  fields copied so far are those of the slot (`CopiedSoFar`). None of these is
  inductive alone: the truth of the status after `PutReturn` rests on the
  comparison, and that on nobody having moved an index since. A copy is safe
  without any lock, since the other call is at another slot or the ring would have
  been full or empty.
* `StatusAlwaysTruthful`, `PollAlwaysValid`: consequences.
* `OneObjectKeepsApart`: threads that call one object, as `synchronized` was meant,
  have `[]UpdatesApart`, and so all the others.
* `NetworkIsFifo`: `Spec /\ []UpdatesApart => Fifo!Spec`. The queue is `InTransit`; an advance of
  an index is the step that puts or takes, all other steps are stutters or
  private to one side. The lemmas about `Occupancy` and `SlotAt` are index
  arithmetic without division.

`BankNetworkThreadsProofs` (for every file, every account file, every number of
slots).  Whatever Network objects the threads call, the program as it is built
included:

* `BankInvariant`: `Spec => []BankInv`: the order in which threads start, connect
  and end (`ThreadsInStep`), where each may be inside a call (`CallsInStep`), and
  that nothing moves before the sending client connects (`QuietBeforeSending`).
* `BankTypeCorrect`, `ShutdownIsOrderly`, `ClientStaysDisconnected` (the last for
  files with at least one transaction; the run `bank_empty_file` shows the assumption is
  needed).
* `RingsAreNetworkBuffers`: `Spec => InP!Spec /\ OutP!Spec`. Seen from either ring,
  every step of the bank is a step of `NetworkBuffer` or a stutter. `InP` and `OutP`
  are instances of `NetworkBufferProofs`, so its theorems hold of both rings
  without being proved again.

For every behaviour of the program, as it is built or with any other objects, in
which `UpdatesApart` holds of both rings throughout:

* `RingsDeliverInOrder`: both rings implement `PacketFifo`.
* `LedgerInvariant`: `Ledger` and both rings' `RingInv`. `AnswersInOrder` speaks of
  the screen only and is far from inductive: what is printed next depends on what
  the receiver holds, that on the second ring, that on what the server holds, and
  so on back to the file. `Ledger` says it of every place: `InRing` and `OutRing` of
  the rings (as many packets as the counters differ by, and which), `SenderHolds`,
  `ServerHolds` and `ReceiverHolds` of what a thread has in hand, `Books` of the
  accounts. A step moves one packet from one place to the next.
* `AnswersStayInOrder`: a consequence. `SessionIsComplete` is
  `Spec => LostOnlyByOverlap`, the property the run `bank_as_built` checks; it also
  needs that the client disconnects only when all is sent (`AllSent`) and, by
  `BankInv`, after the last answer was received.
* `SharedNetworkKeepsApart`: threads that all call one object have
  `[]UpdatesApart`.

The program as it is built makes three objects and so may leave `UpdatesApart`;
`bank_as_built_session` shows what comes of it. The theorems say of that program
that nothing else can go wrong with its answers.

The expected answers are a recursive function over the file (`BalanceAfter`).
The library's induction theorem cannot be used, because it takes an operator as a
parameter; but `SmallestMember` (from the library's fact that `<` is well-founded
on `Nat`) gives induction over a *set* of numbers (`SetInduction`), and with it
`BalancesExist` shows that the function is what its equation says.

`BoundedBufferProofs` (for any sets of producers and consumers, any size):

* `BufferInvariant`: `Spec => []BufferInv`. The agreement of counter, indices and
  list is not inductive, since it is broken inside the `with` block. `BufferInv`
  says what holds there: at most one thread is inside (`MutualExclusion`), what it
  tested is still true until it counts (`TestHolds`), and the filled slots are
  consecutive once the step the thread inside has not yet made is accounted for
  (`StockContiguous`).
* `TypeCorrect`, `SharedStateAlwaysAgrees`, `NothingOverwritten`: consequences.

`NonblockingServerProofs` (for any peers, any stream, any kernel buffer):

* `EchoTypeCorrect`, `OneWaitAlways`, `NothingLostEver`, from their conjunction
  `EchoInv` (of which `TypeOK` is a consequence), which is inductive: a read may
  replace the write buffer only because `OneWait` says it is empty. The rest is
  that concatenation is associative and that a sequence cut in two is the sequence.

`AsioClientsProofs`, first of `PostedRequests` (for any number of requests, parts
and callbacks):

* `PostedTypeCorrect`, `RunOneAlwaysHasWork`. That a handler that waits has work is
  not inductive, since the ready handler may be a posted request, which will wait
  in its turn. `AddressDue` strengthens it: an address is asked for, found or in
  use.
* `AnswersAlwaysInOrder`, by `Order`: the resolved requests come before those asked
  for, and those before the ones still posted, each group in order (`Waiting`); a
  request that waits has no stream and comes after what is read and what was called
  back (`WaitingUntouched`); only the stream that is read is live (`OneLive`), so
  that the server cannot change an answer that was handed over.

then of `NonblockingClient` (for any number of connections and parts):

* `ClientTypeCorrect`, `ServedToTheEndAlways`, by `Attended`: a connection that was
  made is waited for, read from, broken, or ended with all of its answer printed.
  `ClientAlwaysServesToTheEnd` is the same of the specification the run checks,
  where one of the two clients is started and the other does nothing.

`PythonProgramsProofs`, first of `ChatServer` (for any finite number of sockets, any
number of messages):

* `MessagesInOrderOnce`, `OpenSocketsAreServed` and `RemovalsBoundMisses`, by
  `ChatInv`. All three rest on `Listed`: the list holds no socket twice. Then
  `list.remove` takes out the one place where the socket is, and what is behind it
  moves one place (the lemmas about `RemovedFrom`); that is how the iterator of
  `notify`, which keeps its position, comes to skip a socket. `Pipeline` says that
  the messages posted, scheduled, queued and taken are consecutive numbers;
  `SentBefore` that who is still to come in a round was sent only earlier ones.
* `RemovalsBoundMisses` counts. The number of open sockets that were passed without
  the message is at most the number of removals, but that alone is not inductive:
  when the list is shorter than the iterator's position, sockets that connect now
  fill the places it has passed, and are missed although nothing is removed at that
  moment. `Misses` bounds both sums: the missed, and the missed with the empty places
  before the position.

then of `Timeout` (for any number of waits):

* `InactiveIsSettled`, by `Knows`: what the waiting thread may rely on at each
  statement of `wait`, of the event, of `success`, and of `expired`.
* `PythonTypes`: both programs keep their types.

`DhtProgramsProofs`, first of `DhtProxyServer` (for any requests, any number of
values):

* `ProxyTypeCorrect`; `NeverDangling`, by `NodeFirst` (what each step of the
  owner leaves behind: the server's thread has ended before the node is joined, and
  the node's before the members are destroyed); `AlwaysAnsweredOnce`, by `Good`, which adds what was written *when*:
  nothing before a request is taken up, and the header before the table calls back.

then of `DhtClients` (for any number of values given to `putget`):

* `ProgramsFit`: each of the five lists of steps is `WellFormed`. An operation is
  begun once (`BegunOnce`); what a wait awaits was begun before it, and nothing else
  raises its flag, unless an earlier wait has the same one (`WaitsFit`); a flag is
  waited for, or its operation repeats (`FlagsAwaited`); a program that leaves steps
  out has no waits (`JumpsFit`). The list of `putget` grows with its values, the
  others are fixed.
* `WaitsEndForAReason`, `LateCallbacksAreExplained` and `ClientsStayTyped`, by
  `ClientInv`, from nothing of the lists but `WellFormed`: a flag that is set was
  set by an operation that has called back (`Raised`), and main has passed no wait
  whose operation has not, unless the time was up or the flag stale (`Passed`). When
  main's locals are destroyed it has passed every wait; so a callback that comes
  then was not waited for any more, which is `LateOnlyIfGivenUp`.

`HttpProgramsProofs`, first of `HttpExchange` (for any numbers of cores, width of an
unsigned, thread limit):

* `ExchangeTypeCorrect`, `AlwaysAllOrNothing`, by `InvAlways`: the client has
  never both a part handed over and a part in its buffer (`Progress`), and a request
  that is answered whole was not answered before (`Unanswered`), without which
  answering could take written parts back.

then of `OneShotRequest` and `TlsClient`, which have no parameters:

* `VerdictIsOnOwnAnswer`, by `OwnAnswer` (the response that was copied is one the
  network may give: if it bears the signer's signature, the signer has answered its
  question) and `ChecksFit` (what passes the checks answers the question of this
  run); `StrangersAreNotHeard`, by `Verified` (from the send on the session is
  secure). TLC sees all there is of these two; the proofs say why it holds.

Where a run starts one of several programs, its theorem has the program that is
not run "at rest": a state from which none of its actions is enabled (`OneRuns`,
`ChatRests` and `TimeoutRests`, `Rests`).

Every invariant, action property and refinement the passing runs check is stated by
a theorem. Only model-checked are `Termination`, `ServerStops`, `EveryByteEchoed`,
`ClosedInTheEnd`, `PostedIsTaken`, `RemovedIsReleased`, `WaitEnds`, `ProgramsEnd`,
`ProgramsReturn` and `SettlesAndStops`: liveness under fairness, which is out of the
prover's reach. `RunOneHasWork`, `AnswersInOrder` of `client2.cpp`, `HandedAllOrNothing`
and the proxy's properties are proved of the component's own `Spec`; the run checks them
beside the other programs, which leave their variables alone.

The only assumptions are the named `ASSUME`s on constants (`BufferAssumption`,
`BankAssumption`, `ChatAssumption`, `ServerAssumption`, `StreamAssumption`,
`CallbackAssumption`, `ProxyAssumption`, `ExchangeAssumption`, and in the MC modules
`WaitsAssumption` and `ValuesAssumption`: the bounds are natural numbers), which the
runs evaluate; that the objects are one (`OneObject`, `SharedNetwork`) is assumed by
the two theorems called `...KeepsApart`, and by no other.

## 14. Not modelled, and what was met on the way

Not modelled: the aspects of the space-forensics program, the LMC merge, the Lisp
and the Prolog exercises and the language demonstrations are sequential programs
over fixed inputs, which a test shows in full; `barrier.py` has no state but the
library's `Barrier`; the Python servers keep nothing between requests;
`proxy_cpr.cpp` does not compile; `proxy_runner.cpp` and the AES programs are
sequences of library calls; scripts, pages and documents are input and output.
Of the modelled programs, what is printed is left out unless a property is about
it, and so is the splitting of a body into JSON lines in `http.cpp`.

Disagreements between the code and what is written about it:

* The runs `bank_as_built_session`, `bank_empty_file` and `timeout_stop` show
  theirs and are listed as findings.
* `findAccount` (`Server.java:164`) has no bound: an unknown number ends the server
  thread by an exception, while `Server.java:156` promises -1. The model has it as
  `ServerFindsNoAccount`; one call shows it, so no run is spent on it.
* The producer's message (`boundedbuffer_semaphore.py:29`) names the slot after the
  one it filled, since line 28 has moved the index; likewise the consumer's.
* `TimeoutThread.expired` (`timeout.py:50`) calls a Boolean.
* `setTransactionStatus` (`Transactions.java:156`) writes the error field.

Other behaviour that a reader of the code may not expect, which the models have:

* `DhtProxyServer::stop` before the thread has run the posted `open_sync`
  (`proxy_restinio.cpp:27-34`) closes a server that is not open; the thread opens it
  afterwards and `join` (line 59) never returns. The thread also assigns
  `httpServer_` (lines 23-26) while `running` and `stop` may read it, a data race
  whose outcomes are not modelled. `main` itself calls `stop` only by the
  destructor, since line 209 is commented out.
* `putget.cpp` does not lower its flag between two puts, so that later waits end at
  once, and callbacks of its puts may come while `main` returns.
* A client of `cpp/restinio` whose whole answer comes with the header prints none of
  it, and one whose answer is cut short in order ends as if it were complete.
* Both server programs subtract one from a number of cores that may be unknown
  (zero), and then ask for as many threads as an unsigned can count.

## 15. Mutants

Each property of each passing run has a mutant in `PROJECT.json`: a plausible
mistake in the code that breaks it. They are the definitions under "Plausible
mistakes" in each module, and no specification uses them.
