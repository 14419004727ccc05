# A verification of SocketSample

SocketSample is a small HTTP server (and client) for Windows Sockets in C++.
This directory holds TLA+ models of the server, of its client and of the texts
between them, TLC configurations that check them on small instances, and TLAPS
proofs of the results that hold for every instance. Paths below are relative to the
repository; `cpp` is `http_server/http_server.cpp` and `h` is
`http_server/http_server.h`.

## The system

| Component | State | Operations | Talks to |
|---|---|---|---|
| socket queue (`h:37-83`) | a vector of accepted clients, a mutex | `push`, `pop`, `size` | accept threads, consumer, `clear()` |
| queue server (`cpp:72-133, 205-292, 333-384`) | listening socket, queue, `websocket_clients`, `shutdown_server`, `clients_consumed` | `run_queue(false/true)`, the detached accept threads, `consume_queue()`, `clear()`, the destructor | queue, controller, peers, owner |
| select server (`cpp:140-203`) | an `fd_set` and its copy | `run()` | controller, peers |
| send loops (`cpp:225-241`, `http_client/http_client.cpp:99-110`) | sent, left, offset | `send_all()`, the loop of `send_request()` | Winsock |
| websocket clients (`cpp:387-444`) | `websocket_clients` (no lock) | `receive_messages_from_all_clients()`, `send_message_to_all_client()` | consumer (appends), owner (iterates) |
| server owner (`http_server_tests_etc/Source.cpp`) | the server object | polls websocket clients every 100 ms; F2 sets `shutdown_server`; `main` returns and destroys the server | queue server |
| endpoint routing (`cpp:294-331`) | endpoints copied at construction | `is_endpoint_available()` | request, controller |
| controller (`http_server/default_controller.cpp`) | two maps of handlers, a mutex locked by hand | `handle_request`, `get_endpoints`, `add_get/post` | server, handlers |
| request parser, responses (`request.cpp`, `response.cpp`, `default_response.cpp`) | none | text to request, answer to text | controller |
| `http_utils` | tables | status texts, base64 | controller, handlers |
| HTTP client (`http_client/`) | one `SOCKET` | `send_request()` | server |
| client programs, Python client, benchmark, resource manager | | callers, timing, static files | client, server |

The server runs in one of two ways. `run()` is one thread that serves what
`select()` finds readable. `run_queue()` is a loop that, each time round,
starts a detached thread which accepts at most one client and pushes it on the
queue, pops one client, reads its request without blocking, and answers.
`run_queue(true)` runs that loop on a detached thread and returns, so the owner
goes on to poll the websocket clients and finally destroys the server; nothing
joins the threads.

### What is hard here

* three kinds of thread share one object; only the queue has a lock;
* the system gives a closed handle out again, while the server keeps handles in
  places nobody updates: duplicates in the queue, `websocket_clients`;
* `pop()` copies one end of the vector and erases the other (`h:73-74`);
* would-block is read as the end of a request (`cpp:216`), and a client with
  nothing to read yet is dropped without being closed (`cpp:259`);
* handlers may throw with nothing to catch it: the process ends;
* the destructor runs beside threads that still accept, push and serve;
* arithmetic at a boundary: half-sent answers (`cpp:240`), a full `fd_set`,
  lengths of paths that decide a match (`cpp:301, 318`);
* texts are taken apart with `strtok_s`, so what a request says depends on
  colons, carriage returns and zero bytes in it; frames depend on how `recv()`
  cuts them;
* the controller's mutex is locked and unlocked by hand, while the endpoints are
  added without it and copied by the server once;
* the client's one socket is closed and kept, and its threads wait for a server
  that need not close.

`PROJECT.json` lists these and the others as hazards, each at its line, with
the properties that cover it or the reason none does yet.

### What makes each component correct

* Queue: an erase only ever meets the vector its copy was made from; no empty
  slot is queued; concurrent callers see a sequential behaviour.
* Queue server: an answer goes to the asker; every accepted connection is
  accounted for; the front of the queue is served; the ways to lose an open
  socket are known; `clear()` closes whom it keeps; shutdown ends.
* Select server: its array names open sockets, once each, and misses an open
  client only if it was full; one answer per connection; ready clients are served; shutdown is noticed.
* Send loops: what goes out is a prefix, and how short it may be.
* Routing: a path reaches the endpoint that it names, and which one if there are
  several; only endpoints the server knows are served.
* Controller: the lock is held during a lookup only, and released on every path.
* Texts: exactly which requests and answers arrive as they were meant.
* Websocket clients: which frames are decoded, which connections are closed;
  base64 agrees with its definition and decodes what it encoded.
* Client: one open socket at a time, closed; a status means an answer to this
  request; every thread gets its turn.

## Modules

| Module | Models |
|---|---|
| `SocketQueueOps` | the vector operations of `push` and `pop`, as operators |
| `SocketQueue` | `socket_queue_t` with its mutex; steps are lock, body (copy and erase apart), unlock |
| `BusyPeriodQueue` | abstract: what the queue promises. It is two cells: the item that opened the busy period, and how many pops it still has |
| `Winsock` | external: backlog, handle table, streams, `accept/recv/send/closesocket/WSACleanup` as the code uses them |
| `QueueServer` | `server_t` under `run_queue()`, its accept threads, consumer, owner and peers |
| `HttpService` | abstract: what plain HTTP peers are promised (admitted once, answered at most once, closed only after the answer was sent or lost, or with the process) |
| `SelectServer` | `server_t::run()` |
| `SendLoop` | `send_all()` and the client's loop, with partial sends |
| `Texts` | external: strings and `strtok_s` as the code uses them, on sequences of symbols |
| `Routing` | `is_endpoint_available()`, and a reference definition of what an endpoint names |
| `HttpText` | `request_t` of the server, `build_request()` and `response_t` of the client, `to_string()` and the default responses of the server |
| `Controller` | `default_controller_t` with its mutex, its handlers, and the copy of the endpoints in the server |
| `HttpClient` | `request_sender_t` and the program `http_client_tests`, its threads and its end |
| `Base64` | `base64_encode`, `b64decode` (which nothing in the repository calls), and a reference definition on bits |
| `Websocket` | the handshake, frames byte by byte through `recv_all()`, and messages to all clients |
| `MCController`, `MCHttpClient`, `MCWebsocket`, `MCSelect` | instances: endpoints, messages, frames, what each peer asks |
| `MCBytes` | `MCWebsocket` and `SendLoop` in one run, one after the other |
| `SequenceLemmas` | lemmas about sequences and about the operators of `SocketQueueOps` |
| `SocketQueueProofs`, `QueueServerProofs`, `SelectServerProofs`, `SendLoopProofs`, `ControllerProofs`, `HttpClientProofs`, `WebsocketProofs` | the theorems |

`QueueServer` uses the queue's operations as atomic steps, which `SocketQueue`
and its refinement justify, and shares `Winsock` with `SelectServer`.
`Controller` puts `Routing` before the controller's own lookup and parses what
it is sent with `HttpText`. `HttpClient` runs against `HttpService`, the promise
that `QueueServer` is shown to keep towards plain HTTP peers, so what it says
holds of this server; the texts go through both parsers of `HttpText`.

### How state and actions correspond to the code

`QueueServer` keeps the members `socket_queue`, `websocket_clients`,
`shutdown_server` and `clients_consumed` under their names. `worker[w]` and
`held[w]` are an accept thread's position and its `new_client`; `cpc`, `client`
and `rx` are the consumer's position and the locals of `consume_queue()` and
`recv_all()`; `mpc`, `mi`, `mend`, `mclient` and `frame` are the owner's. A step
is what one thread does up to the next call or shared variable another thread
can see. Each definition's lines are in the `map` of `PROJECT.json`.

* The range-for of the owner takes its bounds once. `torn` says that the
  consumer's `push_back` reallocated the vector meanwhile; then what the iterator
  points at is any handle or none, chosen freely.
* `clear()` is step by step: `size()`, `pop()`, `closesocket()` of the drain, the
  websocket clients, the listening socket, `WSACleanup()`.
* A handler that throws (`json::parse` of a missing body) ends the process:
  `aborted`, and every socket is released.

`SelectServer` keeps `temp_set`, `fd_set_read` and `currentSocket`; a round takes
the readable members of `temp_set`, in any order, and serves them from the
head. `FD_SET` of a full array does nothing; `FD_CLR` removes the first match.

`Controller` keeps the two maps as one function `end_points` from endpoints to
handlers, with `Nobody` for absent ones, and the members `server_endpoints` and
`controller_mutex`. A thread is a server's thread with one request: `idle`,
`lock`, `lookup` (inside the mutex), `handler`, `done`. `asked` is the request as
parsed and `request` the one that routing may have rewritten. `Receive` is
everything before the mutex: parsing and, in mode `queue`,
`is_endpoint_available()`. An endpoint that is added while a thread looks up in
the same map makes that lookup `torn`: it may miss, and it may end the process.
Adding is the owner's, before or after the server is constructed, which takes
its copy in any order of the unordered maps.

`HttpClient` keeps `mutex_`, `_socket` and `initialized` under their names.
`peer[h]` says for whom an open handle was made; a closed one may be given out
again. Each call of `create_connection()` and `send_request()` succeeds or
fails; once `main()` has returned and Winsock is cleaned up it fails. `received`
and `answer` are what the server parses of the request and what the client
parses of the answer, computed with `HttpText` when the server answers.

`Websocket` keeps for each client the frames it has sent as bytes, how many of
them `recv()` has returned (`taken`), and the last read with what became of it.
`Reads` is `recv_all()`: one or two `recv()` of any size among `Cuts` or all
there is, each appended as a C string.

### Abstractions

* A request is a first piece with its request line and headers and, for a POST,
  a second with the body; one `recv()` takes one piece. A piece stands for all
  ways to cut a request that the server tells apart: nothing yet, headers only,
  everything.
* The answer is decided by the kind of request: `page` (200), `unknown` and
  `blank` (400), `form` and `json` (a POST; `json` throws when its body is
  missing), `upgrade` (101), `badupgrade` (an upgrade no endpoint matches); a
  `silent` peer connects and sends nothing. Bytes without a request line are a
  request no endpoint matches.
* In the server modules a reply is what `send_all()` is given, whole; how `send()`
  cuts it is in `SendLoop`. In `QueueServer` `taken` says whether `send()` took it: the
  code does not look (`cpp:236-240`) and goes on the same, so `ReplyToAsker` and
  `AnsweredOnce` speak of what was given to `send()`, and `HttpService` has an
  `AnswerLost` beside `AnswerOnce`.
* A string made of a null pointer ends the process that parses: a header of colons
  only (`request.cpp:102`, `http_client/response.cpp:71-72`) or a query key without
  a value (`request.cpp:72-74`). It is `Malformed` in `Controller`, `ServerEnds` and a
  disjunct of `Receive` in `HttpClient`. A request whose first line has no word leaves
  `_http_method` uninitialised: it is then any value in `HttpClient`, while `Controller`
  and `Websocket` are given requests that begin with a word (`PathsAssumption`).
* `run_queue()`'s `recv()` cannot tell a closed peer from a silent one (both are
  `<= 0`), so peers do not close there. In `SelectServer` they do (`fin`), since
  `select()` reports it.
* In `QueueServer` the owner sees of a frame whether it is masked; its bytes are
  in `Websocket`, where handles are not reused.
* A text is a sequence of symbols: separators, the characters of a path, and
  whole words where the code never looks inside. Lengths of paths are the code's,
  since routing compares them. Bytes of frames and digests are numbers.
* A client's `send()` takes a third of the request first, or all, or fails; the
  third is followed by the whole loop's second round from the start of the text
  (`http_client.cpp:105`). An answer is cut where the server's own loop may stop.
* The digest that `SHA1()` leaves, and what stands behind it in memory, are
  inputs.
* Logging, timing, `initialized` and the WSAStartup/bind errors of construction
  are left out. So is what happens after the destructor has finished or the
  process has ended: the first is undefined in the code, the second is nothing.
* An HTTP peer connects once per connection name; a retry is another name.

## What is checked

Passing runs:

| Run | Instance | Shows |
|---|---|---|
| `socket_queue` | 2 threads, 2 clients, at most 3 queued | `TypeOK`, `TmpIsFront` (mutual exclusion, and pop()'s copy is the front at its erase), `ImplementsPromise` (refinement of `BusyPeriodQueue`) |
| `queue_http` | 3 connections, 2 handles, 2 accept threads, JSON POSTs, `run_queue(false)` | `ReplyToAsker`, `QueueAccounting`, `HeadOfQueueServed`, `ImplementsService` (refinement of `HttpService`) |
| `queue_background` | 2 connections, 2 handles, 1 accept thread, pages and refused upgrades with one frame, `run_queue(true)` and its owner | `TypeOK`, `LeakCauses`, `ClearClosesClients`, `ShutdownCompletes` |
| `select_server` | 4 connections, two of them silent, 3 handles, a JSON POST and a page, room for 3 sockets | `TypeOK`, `ArrayIsOpen`, `LostToAFullArray`, `AnsweredOnce`, `ReadyIsServed`, `ShutdownReturns` |
| `controller` | 2 threads, 4 endpoints around `/a/{f}`, 15 requests | `TypeOK`, `MutexIsTheLookup`, `LateEndpointsUnserved`, `AcceptedIsServed`, `ShadowedByEarlierParam`, `RunServesLiterally`, `MutexIsReleased` |
| `http_client` | 2 threads in 2 iterations of `main()`, 2 handles, some 30 messages, some 16 answers | `TypeOK`, `OneOpenSocket`, `RequestSurvives`, `AnswerSurvives`, `StatusMeansAnswered`, `EverySenderReturns` |
| `websocket` | 2 clients, 2 frames of 8 kinds, 3 reads, a buffer of 270 bytes; both send loops, payloads up to 8 bytes | `TypeOK`, `WholeFrameDecoded`, `ClosedForTheMask`, `KeyIsText`, `DecodesBack`; `LoopTypeOK`, `StopsPastHalf`, `ServerSendsPrefix` |

Runs that show a disagreement between the code and what the repository says of
it; each is a finding in `PROJECT.json`, with the line it quotes:

| Run | Property | What happens |
|---|---|---|
| `every_client` | `EveryClientAnswered` | two clients queued: the first is served, the second is erased unserved and stays open |
| `whole_request` | `WholeRequestAnswered` | a POST is answered from its headers because its body comes later |
| `stale_websocket` | `OnlyUpgradedAreRead` | a handle kept after its close is read although it is now a plain HTTP connection |
| `named_file` | `EveryNameIsServed` | a path that names `/resource/{file}` and is exactly as long as that text is refused: a file name of six characters |
| `accept_key` | `AcceptIsTheDigest` | a digest with a zero byte, or with none behind it, gives a key that is not its text (`http_server_tests_etc/Source.cpp:51`) |

Several properties that hold are the other side of these: `LeakCauses` says
that the two known ways are the *only* ways to lose an open socket,
`LostToAFullArray` that under `run()` a full array is the only one,
`ClearClosesClients` which kept clients `clear()` may miss,
`StopsPastHalf` that the short send is never shorter than half,
`QueueAccounting` that `pop()`'s mismatch neither loses nor invents a count, and
`ReplyToAsker` that, without websockets, it never sends an answer to another
connection although duplicates of a closed handle are popped later.

Others are exact, so that they fail on either side: `RequestSurvives` says that
the server reads a request as the client was given it *just when* no value has a
colon, no body a CR or a zero byte, and the endpoint is a word;
`WholeFrameDecoded` that a frame read whole is decoded *just when* none of its
bytes is zero (which excludes every frame of 126 to 255 bytes);
`ClosedForTheMask` that a connection is closed *just when* the frame has no mask
or its first byte came alone. `KeyIsText` says of the handshake's key that it is the
base64 text of what `strlen()` finds, of any length. `AcceptedIsServed`
states what routing promises - a listed path, or one that names an endpoint with
a parameter and differs from it in length, reaches a handler, with its last
segment as the parameter, unless an earlier endpoint of the copy takes the path
and leaves it as it is: `/a/b/{g}` before `/a/{f}` makes `/a/b` a 404 -
`LateEndpointsUnserved` and `ShadowedByEarlierParam`
the limits of what it may do otherwise, and `RunServesLiterally` that `run()`,
which does not ask `is_endpoint_available()`, knows no parameters.

### Bounds

* Three connections over two handles is the smallest instance in which a handle
  is reused while a duplicate of it is still queued, and in which handles run
  out by leaking. Two accept threads are enough to have one push while another
  holds an accepted client; the loop of the model waits for a free one
  (`Workers`), where the code starts another thread.
* With the owner present two connections, two handles, one accept thread and one
  frame (`MaxFrames`) already give a closed and reused websocket handle, a torn
  iteration, a drain that races a push, a client that is kept while `clear()` goes
  through the kept ones, and leaks of both kinds. The upgrades of this instance are
  the refused ones: the consumer keeps their client as it keeps a granted one's
  (`cpp:274`). No handler throws there.
* `MaxLen = 3` is the shortest queue in which a pop leaves two elements, neither
  of which it returned. It bounds the callers, not the code.
* `websocket` runs `SendLoop` before anything has happened to the clients
  (`MCBytes`): the two do not look at each other's state. `MaxSize = 8` lets a
  payload be cut in every way up to eight sends; the theorems cover all sizes.
* `FdSetSize` is 64 in the build. `select_server` has room for two clients beside the
  listener, three handles and four connections, two of them silent: the third that is
  accepted meets a full array, unless another was closed first, and then may be given
  its handle; the fourth may meet no handle at all. Of the peers only the one that
  posts ends its stream, at any time (`MCNext`). The theorems hold for every size and
  for peers that all do.
* `controller`: of the four endpoints one has a parameter, one has it a segment
  further down (its text is accepted by the first one's, and it accepts a path that
  names the first one), one is shorter than the parameter's position (which makes
  `cpp:318` wrap, modulo `SizeModulus`), and one is a POST.
  The requests name them with another and with the same length, hold `/a`
  elsewhere, are unknown, carry a query, and a query without a value. The second
  thread comes by way of `run()` and as text.
* `http_client`: one thread sends many messages, of which each spoils one thing
  the parsers look at, the other the POST of `sendpost()`. Two iterations of
  `main()` let a thread run between them; two handles let `_socket` be stale.
* `websocket`: `MaxFrames = 2` and `MaxReads = 3` allow a frame read in pieces
  and two read at once. `Cuts = {1, 7}` are the first byte alone and a short frame
  less its last bytes; `BufferSize = 270` is longer than any frame and shorter than
  two, so that the buffer can be full (5120 in the build). A `recv()` is given the
  buffer's size, so no cut is larger (`BoundsAssumption`). `recv_all()` goes on as
  long as there is something; a read of the model is one or two rounds, which is
  where a zero or a full buffer can stand between the first bytes and the rest.

No symmetry is used: the runs check liveness or are small. Deadlock checking is
off where the system may stop: after a shutdown, an abort, or a finished send.

### Fairness

`FairSpec` assumes that the operating system goes on scheduling each runnable
thread: weak fairness of the consumer, of each accept thread, of the owner
inside a poll or the destructor, and in `SelectServer` of the thread of `run()`.
These threads never block: the listening socket and the clients are
non-blocking, `select()` has a timeout of one second, and the queue's mutex is
held for a few instructions. Nothing is assumed of peers, of F2 or of whoever
sets `shutdown_server`. `HeadOfQueueServed` and `ReadyIsServed` are conditional
on bytes having arrived for that reason.

In `Controller` a thread inside the mutex is scheduled (`Lookup`); it calls
nothing that blocks there. In `HttpClient` the threads are scheduled, and
`main()` starts them all; each locks once, so weak fairness of a waiter is enough
with finitely many of them. Nothing is assumed of the server: that it closes a
connection on which a thread waits is the premise of `EverySenderReturns`, which
fails without it, as `send_request()` has no timeout.

## What is proved

For every value of the constants (any number of threads, connections, handles,
any sizes), from the named assumptions of the modules:

| Theorem | Statement | Argument |
|---|---|---|
| `SocketQueueProofs!TypeCorrect`, `CopyStaysFront` | `Spec => []TypeOK`, `[]TmpIsFront` | the inductive `IInv` adds `PushHasItem`: a thread between the call of `push` and its body carries a client; without it a body step might queue an empty slot |
| `SocketQueueProofs!Refinement` | `Spec => ImplementsPromise` | the three bodies inside the lock map to steps of `BusyPeriodQueue`, everything else stutters; `TmpIsFront` gives that what `pop` returns is the cell `first` |
| `QueueServerProofs!TypeCorrect` | `Spec => []TypeOK` | the inductive `TInv` adds `LocalsOK`: what each program counter says of its thread's locals (an accept thread that pushes holds a handle, a client in service is a handle, the iteration stays within a vector that only grows) |
| `QueueServerProofs!RepliesReachTheAsker` | `RunOnThread = FALSE => (Spec => []ReplyToAsker)`, as ASSUME/PROVE | `ReaderInv`: once bytes were read the client's handle is still open and still the connection they came from, since only the consumer closes, and accepting takes a free handle; with an owner it fails, because the owner closes handles too |
| `QueueServerProofs!KeptAreClosed` | `Spec => ClearClosesClients` | `KInv`: an open socket that was answered is in the consumer's hands or in `websocket_clients` at or behind the element the loop comes to next (`KeptInv`), and only accepted connections are answered (`AnsweredInv`); it rests on a connection being at one place (`PlacesInv`). Each step that closes a handle leaves no open socket under it; each that appends goes behind the element the loop has reached |
| `QueueServerProofs!ConnectionsAddUp` | `Spec => []QueueAccounting` | `CountInv` adds that the sets counted are finite; each action moves one connection from one term of the sum to the next |
| `QueueServerProofs!LeaksHaveTwoCauses` | `Spec => LeakCauses` | `RefsInv` adds that a reference nobody uses is empty; each action that overwrites a reference hands the handle on or closes it, except `pop()` for the last element and `consume_queue()` when it reads nothing |
| `QueueServerProofs!ServiceRefinement` | `RunOnThread = FALSE /\ Kinds \cap UpgradeKinds = {} => (Spec => ImplementsService)`, as ASSUME/PROVE | `PlacesInv`: a connection is at one place of the backlog, or open under one handle, or ended; `ServedInv`: an open connection has an answer only between `send_all()` and `closesocket()`. Connecting, `accept()`, the answer, the close and a throwing handler are the five steps of `HttpService`; all others stutter |
| `SendLoopProofs!HalfIsSent`, `ServerKeepsItsPlace` | `LoopSpec => []StopsPastHalf`, `[]ServerSendsPrefix` | `Counts`: left plus sent is the size, the offset is what is sent, and the server's last chunk ends at the offset |
| `SendLoopProofs!TypeCorrect` | `LoopSpec => []LoopTypeOK` | from `Counts` |
| `SelectServerProofs!TypeCorrect` | `Spec => []TypeOK` | `TInv` adds `LocalsOK`: `currentSocket` is a client's handle in the steps that serve one and nothing else, and bytes have been read when an answer is made |
| `SelectServerProofs!ArrayStaysOpen` | `Spec => []ArrayIsOpen` | inductive with `TInv`; it rests on lemmas about `FD_SET` (which a full array ignores) and `FD_CLR` (which removes the one occurrence), and on a handle that `accept()` gives out being free, hence in no array |
| `SelectServerProofs!LostAtTheLimit` | `Spec => LostToAFullArray` | action property from `AInv`, the invariant of `ArrayStaysOpen`: only `accept()` opens a socket, which `FD_SET` of an array with room takes in (`FdSetAdds`), and the one `FD_CLR` takes out has been closed |
| `SelectServerProofs!OneAnswerEach` | `Spec => []AnsweredOnce` | `OInv` adds that a connection is in the backlog, or under one handle, or at its end (`OwnedOK`), that an answered one is at its end or about to be closed (`AnsweredOK`), and that what was read came from the connection under the current socket (`ReadOK`) |
| `ControllerProofs!TypeCorrect`, `MutexExcludes`, `RunIsLiteral` | `Spec => []TypeOK`, `[]MutexIsTheLookup`, `[]RunServesLiterally` | `TInv` is `TypeOK` with the mutex; `CInv` adds that the copy lists registered endpoints, that nothing is known of an idle thread, and that only `consume_queue()` rewrites a request (`KnownOK`, `PlainOK`); a handler stays registered |
| `ControllerProofs!LateEndpoints`, `ShadowedOnlyByEarlier` | `Spec => []LateEndpointsUnserved`, `[]ShadowedByEarlierParam` | `CInv` adds what routing left of a request, against a copy that no longer changes (`ListedOK`, `ShadowOK`); that `Route` and `WithParam` leave just that, for any endpoints and paths, are the lemmas `RoutedIsListed` and `RoutedIsShadowed` |
| `ControllerProofs!AcceptedAreServed` | `Spec => []AcceptedIsServed` | `ServedOK` in `CInv` says the same of a request on its way: what it asks for now is in the copy, hence registered when it is looked up. An endpoint accepts what it names and rewrites it (`NamedIsAccepted`), `Route` stops there or before (`RouteIsFirst`), and what it stops at either renames the request or leaves it (`RoutedIsServed`) |
| `HttpClientProofs!OneSocketAtATime` | `Spec => []OneOpenSocket` | `HInv` adds the types of what it mentions and that nothing is open after `WSACleanup()`; a thread inside is alone, so closing `_socket` leaves nothing open |
| `HttpClientProofs!ClientType` | `Spec => []TypeOK` | the inductive `SInv` says of each thread what it has built, sent and been answered, and what its `build_request()` and its response are made of: an answer is one for its own message, from a server that met no null pointer in the request |
| `WebsocketProofs!WebsocketType` | `Spec => []TypeOK` | the inductive `WInv` adds where the frames of a client lie in its stream (`FramesLaid`), that a read goes forward (`ReadForward`), what an answer was made of (`AnswerMade`), and the two properties of the last read |
| `WebsocketProofs!FrameIsDecoded`, `ClosedIsTheMask` | `Spec => []WholeFrameDecoded`, `[]ClosedForTheMask` | a read establishes both (`ReadEstablishes`): what is unread begins with the frame (`FrameAhead`), the frame's bytes are header, length, key and payload under the key (`FrameLayout`), the text of a read is its bytes as far as the first zero (`ReadText`), and unmasking twice is nothing (`XorProperties`); a frame that is sent later begins behind what was read (`SentLater`) |
| `WebsocketProofs!KeyText`, `AcceptIsText`, `EncodedDecodes` | `Spec => []KeyIsText`, `[]AcceptIsWhole`, `[]DecodesBack` | `WInv` again; the rest is about base64 for every sequence of bytes: `EncodeIsText` (the shifts and masks give the bits six by six), `DecodeEncoded` and, from it, that two texts of different digests differ. `AcceptIsWhole`, stated beside its theorem, bounds what the run `accept_key` shows: the key is the digest's text just when the digest has no zero byte and one behind it |
| `HttpClientProofs!AnswersAreOwn` | `Spec => []StatusMeansAnswered` | `SInv` again: once its thread has read to the end, `response` is what was read of the server's one answer to this connection, and nothing when there was none; of an answer at least half arrives, and any such prefix holds the first line, hence the status (`AnswerBegins`, `StatusIsParsed`, `ParserStays`) |
| `HttpClientProofs!RequestsSurvive` | `Spec => []RequestSurvives` | the inductive `RInv` says that what arrived whole was parsed from the text of the thread's message; what that gives is `RequestReadBack`, for every text: the request is a sequence of lines (`RequestShape`), a parser goes from line to line (`ParseAppend`, from `StrTokConcat`), in whatever order the map is iterated each header is merged (`ReachedAll`), so a plain message is read as it is (`PlainIsRead`); the other way, whatever a parser returns lacks the separators (`ParseClean`) |
| `HttpClientProofs!AnswersSurvive` | `Spec => []AnswerSurvives` | `RInv` again, and that `response` is what was read of the thread's own answer; the rest is `AnswerIsRead`, for every answer: the first line (`AnswerLineParsed`), the headers (`ReachedAll`, `FirstPartIs`), and that nothing behind the blank line changes either (`PastParse`) |

TLC evaluates the named assumptions on the constants of the runs.

The texts are parsed by folds and recursive functions over their tokens, and the
library's induction theorems take an operator, which the installed provers cannot
instantiate. `SequenceLemmas!Induction` is what they can: a set of naturals that
holds zero and, with a number, the next one holds them all. The lemmas of
`HttpClientProofs` about `Tokens`, `HeaderLines` and the parsers are proved with it,
one set for each concrete fold.

`Websocket` writes the operator `^` as sums of bits (`Xor`), since no module with a
theorem may reach the library's bitwise operators. The theorems about it hold for
frames shorter than 65536 bytes, which is what `FrameBytes` can say in two bytes of
length, and for reads of one or two `recv()` (see Bounds).

Of `ToString`, which neither prover looks into, the theorems know what
`NumbersAssumption` says: a number is written without a CR, a zero byte or a colon.

Every invariant and every action property of a passing run is the statement of one of
these theorems. Only model-checked are

* the liveness properties, `HeadOfQueueServed`, `ShutdownCompletes`, `ReadyIsServed`,
  `ShutdownReturns`, `MutexIsReleased` and `EverySenderReturns`: they follow from
  fairness, hence from when an action is ENABLED, which the proof system does not reach;
* what the recursive definitions compute where no lemma above says so: the results of
  `Tokens`, the parsers and base64 are proved as far as the theorems need them;
* the five statements of docs, comments and names that the code does not keep
  (`EveryClientAnswered`, `WholeRequestAnswered`, `OnlyUpgradedAreRead`,
  `EveryNameIsServed`, `AcceptIsTheDigest`): TLC shows the behaviour that violates each.

## Plan, and what is left

Done, in this order: the queue, the queue server with its promise, the select
server and the send loops; then routing and the controller, the texts with the
client, base64 with the websocket clients; and proofs along with each.

Left: handles in `Websocket`, which could share `Winsock` with `QueueServer` and
its reuse of handles, at the price of an instance too large for both.

## Not modelled

* What threads do to a server that has been destroyed (`cpp:361`): undefined in
  the code, with no outcome to state. The models end there.
* The number of accept threads alive at once (`cpp:342`): nothing bounds it, and
  a count without bound is outside what TLC can show; the loop of the model waits
  for one of `Workers`.
* `parse_args()` of `http_client_cmd`: sequential text handling of a command
  line. What `main()` does with its request is `HttpClient` with one thread and no
  mutex to wait for.
* What follows a use of freed storage when the vector of kept clients is
  reallocated under an iteration (`cpp:283`): the models let the iteration meet any
  handle or none and go on, so a crash there is not among their behaviours, and
  `ClearClosesClients` says nothing of such an iteration.
* A client that sends the start of its request again (`http_client.cpp:105`) is
  modelled, but no property is about what the server makes of it.
* The resource manager: one pass over the program's own resources before any
  thread exists.
* The vendored JSON library; the models take from it that `parse()` throws.
* The benchmark (timing for the log), the Python script (a peer that sends one
  request), the Visual Studio projects.
