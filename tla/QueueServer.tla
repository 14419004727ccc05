----------------------------- MODULE QueueServer -----------------------------
(***************************************************************************)
(* server_t serving with run_queue() (http_server.cpp).  Four kinds of     *)
(* actor share the server object:                                          *)
(*   - the consumer, the loop of run_queue: it starts an accept thread,    *)
(*     calls consume_queue() once, sleeps and repeats while                *)
(*     shutdown_server is false;                                           *)
(*   - the detached accept threads, one accept() and one push each;        *)
(*   - the owner of the object when run_queue(true) leaves it free: it     *)
(*     polls the websocket clients, sets shutdown_server and destroys the  *)
(*     server (main() of http_server_tests_etc);                           *)
(*   - the peers.                                                          *)
(* A step is what one thread does up to the next call or shared variable   *)
(* another thread can see.  The controller is left to the kind of request: *)
(* which answer a request gets, and whether its handler throws.            *)
(***************************************************************************)
EXTENDS Winsock, SocketQueueOps

CONSTANTS Workers,      \* bound: accept threads alive at once
          Kinds,        \* kinds of request the peers make
          MaxFrames,    \* bound: frames a peer sends after an upgrade
          RunOnThread   \* run_queue's argument: TRUE leaves the owner free

UpgradeKinds == {"upgrade", "badupgrade"}
PostKinds == {"json", "form"}
AllKinds == {"page", "unknown", "blank"} \cup PostKinds \cup UpgradeKinds

ASSUME KindsAssumption == Kinds \subseteq AllKinds
ASSUME PiecesAssumption == Pieces = {"head", "rest", "masked", "bare"}
ASSUME MaxFramesAssumption == MaxFrames \in Nat
ASSUME RunOnThreadAssumption == RunOnThread \in BOOLEAN
ASSUME NoneIsNoPiece == None \notin Pieces

VARIABLES kind,              \* kind[c]: the request c's peer makes
          socket_queue,      \* handles pushed and not popped
          websocket_clients, \* handles kept after an upgrade
          shutdown_server,
          clients_consumed,
          worker,            \* worker[w]: where accept thread w is
          held,              \* held[w]: the handle w accepted and has to push
          cpc,               \* where the consumer is
          client,            \* consume_queue's client, None outside
          rx,                \* what its recv_all has read, with its origin
          mpc,               \* where the owner is
          mi, mend,          \* its range-for over websocket_clients
          torn,              \* the vector it iterates over was reallocated
          mclient,           \* the handle the owner works on
          frame,             \* first piece its recv_all read, or None
          aborted            \* std::terminate ended the process

queueVars == <<socket_queue, websocket_clients, shutdown_server>>
workerVars == <<worker, held>>
consumerVars == <<cpc, client, rx, clients_consumed>>
ownerVars == <<mpc, mi, mend, torn, mclient, frame>>
serverVars == <<queueVars, workerVars, consumerVars, ownerVars, aborted>>
vars == <<netVars, kind, serverVars>>

WorkerSteps == {"free", "accept", "push"}
ConsumerSteps == {"test", "pop", "recv", "answer", "keep", "close", "done"}
Iterating == {"ws", "wsrecv", "wsclose", "clearws"}
Clearing == {"drain", "drainpop", "drainclose", "clearws", "listener",
             "cleanup", "destroyed"}
OwnerSteps == {"absent", "poll", "last"} \cup Iterating \cup Clearing

Replies == [of : Conns, status : {"200", "101", "400"}, whole : BOOLEAN, taken : BOOLEAN]

TypeOK ==
  /\ NetTypeOK(Replies)
  /\ kind \in [Conns -> Kinds]
  /\ socket_queue \in Seq(Handles)
  /\ websocket_clients \in Seq(Handles)
  /\ shutdown_server \in BOOLEAN
  /\ clients_consumed \in Nat
  /\ worker \in [Workers -> WorkerSteps]
  /\ held \in [Workers -> Handles \cup {None}]
  /\ cpc \in ConsumerSteps
  /\ client \in Handles \cup {None}
  /\ rx \in Seq(Conns \X Pieces)
  /\ mpc \in OwnerSteps
  /\ mi \in Nat
  /\ mend \in Nat
  /\ torn \in BOOLEAN
  /\ mclient \in Handles \cup {None}
  /\ frame \in Pieces \cup {None}
  /\ aborted \in BOOLEAN

Init ==
  /\ NetInit
  /\ kind \in [Conns -> Kinds]
  /\ socket_queue = <<>>
  /\ websocket_clients = <<>>
  /\ shutdown_server = FALSE
  /\ clients_consumed = 0
  /\ worker = [w \in Workers |-> "free"]
  /\ held = [w \in Workers |-> None]
  /\ cpc = "test"
  /\ client = None
  /\ rx = <<>>
  /\ mpc = IF RunOnThread THEN "poll" ELSE "absent"
  /\ mi = 0 /\ mend = 0
  /\ torn = FALSE
  /\ mclient = None
  /\ frame = None
  /\ aborted = FALSE

(* The server object exists and its threads run.                           *)
Running == ~aborted /\ mpc # "destroyed"

-----------------------------------------------------------------------------
(* Peers (external).  A request is its request line and headers and, for a *)
(* POST, the body in a piece of its own; after an upgrade the peer sends   *)
(* frames, some of them without the mask the protocol asks for.            *)
Request(c) == IF kind[c] \in PostKinds THEN <<"head", "rest">> ELSE <<"head">>

NextPieces(c) ==
  CASE Len(sent[c]) < Len(Request(c)) -> {Request(c)[Len(sent[c]) + 1]}
    [] kind[c] \in UpgradeKinds
         /\ Len(sent[c]) \in Len(Request(c))..(Len(Request(c)) + MaxFrames - 1)
         -> {"masked", "bare"}
    [] OTHER -> {}

PeerConnects(c) ==
  /\ Connect(c)
  /\ UNCHANGED <<kind, serverVars>>

PeerSends(c) ==
  /\ \E piece \in NextPieces(c) : Arrive(c, piece)
  /\ UNCHANGED <<kind, serverVars>>

Peer(c) == PeerConnects(c) \/ PeerSends(c)

-----------------------------------------------------------------------------
(* Accept threads.                                                         *)

(* A push with no test for INVALID_SOCKET.                                 *)
AcceptNobody_Pushed(w) ==
  /\ Running
  /\ worker[w] = "accept"
  /\ ~CanAccept
  /\ worker' = [worker EXCEPT ![w] = "push"]
  /\ UNCHANGED <<netVars, kind, queueVars, held, consumerVars, ownerVars, aborted>>

(* accept_new_client() fails: INVALID_SOCKET, and the thread ends.         *)
AcceptNobody(w) ==
  /\ Running
  /\ worker[w] = "accept"
  /\ ~CanAccept
  /\ worker' = [worker EXCEPT ![w] = "free"]
  /\ UNCHANGED <<netVars, kind, queueVars, held, consumerVars, ownerVars, aborted>>

(* It succeeds, under any handle the system has free, and the new socket   *)
(* is made non-blocking.                                                   *)
AcceptClient(w) ==
  /\ Running
  /\ worker[w] = "accept"
  /\ CanAccept
  /\ \E h \in FreeHandles :
       /\ AcceptAs(h)
       /\ held' = [held EXCEPT ![w] = h]
  /\ worker' = [worker EXCEPT ![w] = "push"]
  /\ UNCHANGED <<kind, queueVars, consumerVars, ownerVars, aborted>>

PushClient(w) ==
  /\ Running
  /\ worker[w] = "push"
  /\ socket_queue' = PushBack(socket_queue, held[w])
  /\ held' = [held EXCEPT ![w] = None]
  /\ worker' = [worker EXCEPT ![w] = "free"]
  /\ UNCHANGED <<netVars, kind, websocket_clients, shutdown_server,
                 consumerVars, ownerVars, aborted>>

Worker(w) == AcceptNobody(w) \/ AcceptClient(w) \/ PushClient(w)

-----------------------------------------------------------------------------
(* The consumer.                                                           *)

(* while (!shutdown_server): start a detached accept thread and go on to   *)
(* consume_queue().  Workers bounds the accept threads alive.              *)
StartAccept ==
  /\ Running
  /\ cpc = "test"
  /\ ~shutdown_server
  /\ \E w \in Workers :
       /\ worker[w] = "free"
       /\ worker' = [worker EXCEPT ![w] = "accept"]
  /\ cpc' = "pop"
  /\ UNCHANGED <<netVars, kind, queueVars, held, client, rx, clients_consumed,
                 ownerVars, aborted>>

ConsumerStops ==
  /\ Running
  /\ cpc = "test"
  /\ shutdown_server
  /\ cpc' = "done"
  /\ UNCHANGED <<netVars, kind, queueVars, workerVars, client, rx,
                 clients_consumed, ownerVars, aborted>>

(* An empty queue taken for the end of the service.                        *)
PopNothing_Stop ==
  /\ Running
  /\ cpc = "pop"
  /\ socket_queue = <<>>
  /\ cpc' = "done"
  /\ UNCHANGED <<netVars, kind, queueVars, workerVars, client, rx,
                 clients_consumed, ownerVars, aborted>>

PopNothing ==
  /\ Running
  /\ cpc = "pop"
  /\ socket_queue = <<>>
  /\ cpc' = "test"
  /\ UNCHANGED <<netVars, kind, queueVars, workerVars, client, rx,
                 clients_consumed, ownerVars, aborted>>

PopClient ==
  /\ Running
  /\ cpc = "pop"
  /\ socket_queue # <<>>
  /\ client' = PopValue(socket_queue)
  /\ socket_queue' = PopRest(socket_queue)
  /\ cpc' = "recv"
  /\ UNCHANGED <<netVars, kind, websocket_clients, shutdown_server, workerVars,
                 rx, clients_consumed, ownerVars, aborted>>

(* recv_all(): read until recv() has nothing, which on a non-blocking      *)
(* socket is also what a peer that has not sent everything yet looks like. *)
RecvPiece ==
  /\ Running
  /\ cpc = "recv"
  /\ Readable(client)
  /\ rx' = Append(rx, NextPiece(client))
  /\ RecvFrom(client)
  /\ UNCHANGED <<kind, queueVars, workerVars, cpc, client, clients_consumed,
                 ownerVars, aborted>>

RecvDone ==
  /\ Running
  /\ cpc = "recv"
  /\ ~Readable(client)
  /\ rx # <<>>
  /\ cpc' = "answer"
  /\ UNCHANGED <<netVars, kind, queueVars, workerVars, client, rx,
                 clients_consumed, ownerVars, aborted>>

(* A receive buffer that outlives the call it was filled in.               *)
Consumed_KeepBuffer ==
  /\ clients_consumed' = clients_consumed + 1
  /\ cpc' = "test"
  /\ client' = None
  /\ UNCHANGED rx

(* The last lines of consume_queue(): the client is counted and the locals *)
(* go out of scope.                                                        *)
Consumed ==
  /\ clients_consumed' = clients_consumed + 1
  /\ cpc' = "test"
  /\ client' = None
  /\ rx' = <<>>

(* A return placed before the client is counted.                           *)
NothingRead_Uncounted ==
  /\ Running
  /\ cpc = "recv"
  /\ ~Readable(client)
  /\ rx = <<>>
  /\ cpc' = "test"
  /\ client' = None
  /\ UNCHANGED <<netVars, kind, queueVars, workerVars, rx, clients_consumed,
                 ownerVars, aborted>>

(* A client whose bytes are not there yet, closed.                         *)
NothingRead_Close ==
  /\ Running
  /\ cpc = "recv"
  /\ ~Readable(client)
  /\ rx = <<>>
  /\ CloseHandle(client)
  /\ Consumed
  /\ UNCHANGED <<kind, queueVars, workerVars, ownerVars, aborted>>

(* process_response is false: no answer, and the socket is left open.      *)
NothingRead ==
  /\ Running
  /\ cpc = "recv"
  /\ ~Readable(client)
  /\ rx = <<>>
  /\ Consumed
  /\ UNCHANGED <<netVars, kind, queueVars, workerVars, ownerVars, aborted>>

(* What was read, as the code sees it: bytes that start with a request     *)
(* line belong to the request of the connection they came from; any other  *)
(* bytes make a request no endpoint matches and no header is found in.     *)
Asker(r) == r[1][1]
StartsRequest(r) == r[1][2] = "head"
HasAll(r) ==
  \A i \in 1..Len(Request(Asker(r))) :
    i <= Len(r) /\ r[i] = <<Asker(r), Request(Asker(r))[i]>>
AsksUpgrade(r) == StartsRequest(r) /\ kind[Asker(r)] \in UpgradeKinds
Throws(r) == StartsRequest(r) /\ kind[Asker(r)] = "json" /\ ~HasAll(r)

Status(r) ==
  IF ~StartsRequest(r) \/ kind[Asker(r)] \in {"unknown", "blank", "badupgrade"}
    THEN "400"
    ELSE IF kind[Asker(r)] = "upgrade" THEN "101" ELSE "200"

(* bad_request() or the controller's answer, sent on the client's handle;  *)
(* nobody looks at whether send() took it.                                 *)
Answer ==
  /\ Running
  /\ cpc = "answer"
  /\ ~Throws(rx)
  /\ \E taken \in BOOLEAN :
       SendOn(client, [of |-> Asker(rx), status |-> Status(rx), whole |-> HasAll(rx),
                       taken |-> taken])
  /\ cpc' = IF AsksUpgrade(rx) THEN "keep" ELSE "close"
  /\ UNCHANGED <<kind, queueVars, workerVars, client, rx, clients_consumed,
                 ownerVars, aborted>>

(* json::parse throws on a body that is not there; nothing between the     *)
(* handler and the thread's entry catches, so the process ends.            *)
HandlerThrows ==
  /\ Running
  /\ cpc = "answer"
  /\ Throws(rx)
  /\ aborted' = TRUE
  /\ ReleaseAll
  /\ UNCHANGED <<kind, queueVars, workerVars, consumerVars, ownerVars>>

(* websocket_clients.push_back(client), with no lock: if the owner is      *)
(* iterating, its iterators may be left pointing at freed storage.         *)
KeepClient ==
  /\ Running
  /\ cpc = "keep"
  /\ websocket_clients' = Append(websocket_clients, client)
  /\ torn' \in IF mpc \in Iterating THEN {torn, TRUE} ELSE {torn}
  /\ Consumed
  /\ UNCHANGED <<netVars, kind, socket_queue, shutdown_server, workerVars,
                 mpc, mi, mend, mclient, frame, aborted>>

(* An answered client left open.                                           *)
CloseClient_Open ==
  /\ Running
  /\ cpc = "close"
  /\ Consumed
  /\ UNCHANGED <<netVars, kind, queueVars, workerVars, ownerVars, aborted>>

(* closesocket(), client counted.                                          *)
CloseClient ==
  /\ Running
  /\ cpc = "close"
  /\ CloseHandle(client)
  /\ Consumed
  /\ UNCHANGED <<kind, queueVars, workerVars, ownerVars, aborted>>

Consumer ==
  \/ StartAccept \/ ConsumerStops
  \/ PopNothing \/ PopClient
  \/ RecvPiece \/ RecvDone \/ NothingRead
  \/ Answer \/ HandlerThrows
  \/ KeepClient \/ CloseClient

-----------------------------------------------------------------------------
(* The owner: main() of http_server_tests_etc after run_queue(true).       *)

(* F2: shutdown_server is set and the loop runs to its end once more.      *)
PressF2 ==
  /\ Running
  /\ mpc = "poll"
  /\ shutdown_server' = TRUE
  /\ mpc' = "last"
  /\ UNCHANGED <<netVars, kind, socket_queue, websocket_clients, workerVars,
                 consumerVars, mi, mend, torn, mclient, frame, aborted>>

(* The range-for over websocket_clients: its bounds are taken once, before *)
(* the first element, and are gone with its last.                          *)
BeginIteration == mi' = 1 /\ mend' = Len(websocket_clients) /\ torn' = FALSE
EndIteration == mi' = 0 /\ mend' = 0 /\ torn' = FALSE

(* Every 100 ms: receive_messages_from_all_clients().                      *)
StartReceive ==
  /\ Running
  /\ mpc \in {"poll", "last"}
  /\ mpc' = "ws"
  /\ BeginIteration
  /\ UNCHANGED <<netVars, kind, queueVars, workerVars, consumerVars, mclient,
                 frame, aborted>>

(* The element the iterator points at; after a reallocation, whatever the  *)
(* freed storage holds.                                                    *)
Elements == IF torn THEN Handles \cup {None} ELSE {websocket_clients[mi]}

NextWebsocket ==
  /\ Running
  /\ mpc = "ws"
  /\ mi <= mend
  /\ mclient' \in Elements
  /\ mpc' = "wsrecv"
  /\ UNCHANGED <<netVars, kind, queueVars, workerVars, consumerVars, mi, mend,
                 torn, frame, aborted>>

(* recv_all() of the owner.  Only the first piece decides what follows.    *)
RecvFrame ==
  /\ Running
  /\ mpc = "wsrecv"
  /\ mclient # None /\ Readable(mclient)
  /\ frame' = IF frame = None THEN NextPiece(mclient)[2] ELSE frame
  /\ RecvFrom(mclient)
  /\ UNCHANGED <<kind, queueVars, workerVars, consumerVars, mpc, mi, mend,
                 torn, mclient, aborted>>

FrameRead == mpc = "wsrecv" /\ ~(mclient # None /\ Readable(mclient))

(* Nothing more to read: on to the next client, unless the frame has no    *)
(* mask.                                                                   *)
FrameDone ==
  /\ Running
  /\ FrameRead
  /\ frame # "bare"
  /\ mpc' = "ws"
  /\ mi' = mi + 1
  /\ mclient' = None
  /\ frame' = None
  /\ UNCHANGED <<netVars, kind, queueVars, workerVars, consumerVars, mend,
                 torn, aborted>>

FrameUnmasked ==
  /\ Running
  /\ FrameRead
  /\ frame = "bare"
  /\ mpc' = "wsclose"
  /\ UNCHANGED <<netVars, kind, queueVars, workerVars, consumerVars, mi, mend,
                 torn, mclient, frame, aborted>>

(* The handle is closed; it stays in websocket_clients.                    *)
CloseWebsocket ==
  /\ Running
  /\ mpc = "wsclose"
  /\ CloseHandle(mclient)
  /\ mpc' = "ws"
  /\ mi' = mi + 1
  /\ mclient' = None
  /\ frame' = None
  /\ UNCHANGED <<kind, queueVars, workerVars, consumerVars, mend, torn, aborted>>

ReceiveDone ==
  /\ Running
  /\ mpc = "ws"
  /\ mi > mend
  /\ mpc' = IF shutdown_server THEN "drain" ELSE "poll"
  /\ EndIteration
  /\ UNCHANGED <<netVars, kind, queueVars, workerVars, consumerVars, mclient,
                 frame, aborted>>

(* main() returns: ~server_t() logs and calls clear(), which sets          *)
(* shutdown_server again.                                                  *)
Leave ==
  /\ Running
  /\ mpc = "last"
  /\ mpc' = "drain"
  /\ shutdown_server' = TRUE
  /\ UNCHANGED <<netVars, kind, socket_queue, websocket_clients, workerVars,
                 consumerVars, mi, mend, torn, mclient, frame, aborted>>

(* while (socket_queue.size() >= 0), true of every unsigned size.          *)
DrainMore_Always ==
  /\ Running
  /\ mpc = "drain"
  /\ Len(socket_queue) >= 0
  /\ mpc' = "drainpop"
  /\ UNCHANGED <<netVars, kind, queueVars, workerVars, consumerVars, mi, mend,
                 torn, mclient, frame, aborted>>

(* clear(): while (socket_queue.size() > 0), with size() and pop() each    *)
(* under the queue's lock and another thread free to run in between.       *)
DrainMore ==
  /\ Running
  /\ mpc = "drain"
  /\ Len(socket_queue) > 0
  /\ mpc' = "drainpop"
  /\ UNCHANGED <<netVars, kind, queueVars, workerVars, consumerVars, mi, mend,
                 torn, mclient, frame, aborted>>

DrainEmpty ==
  /\ Running
  /\ mpc = "drain"
  /\ Len(socket_queue) = 0
  /\ mpc' = "clearws"
  /\ BeginIteration
  /\ UNCHANGED <<netVars, kind, queueVars, workerVars, consumerVars, mclient,
                 frame, aborted>>

(* if (!client.has_value()) continue                                       *)
DrainNothing ==
  /\ Running
  /\ mpc = "drainpop"
  /\ socket_queue = <<>>
  /\ mpc' = "drain"
  /\ UNCHANGED <<netVars, kind, queueVars, workerVars, consumerVars, mi, mend,
                 torn, mclient, frame, aborted>>

DrainPop ==
  /\ Running
  /\ mpc = "drainpop"
  /\ socket_queue # <<>>
  /\ mclient' = PopValue(socket_queue)
  /\ socket_queue' = PopRest(socket_queue)
  /\ mpc' = "drainclose"
  /\ UNCHANGED <<netVars, kind, websocket_clients, shutdown_server, workerVars,
                 consumerVars, mi, mend, torn, frame, aborted>>

DrainClose ==
  /\ Running
  /\ mpc = "drainclose"
  /\ CloseHandle(mclient)
  /\ mclient' = None
  /\ mpc' = "drain"
  /\ UNCHANGED <<kind, queueVars, workerVars, consumerVars, mi, mend, torn,
                 frame, aborted>>

(* for (websocket_client : websocket_clients) closesocket                  *)
ClearWebsocket ==
  /\ Running
  /\ mpc = "clearws"
  /\ mi <= mend
  /\ \E h \in Elements : IF h = None THEN UNCHANGED netVars ELSE CloseHandle(h)
  /\ mi' = mi + 1
  /\ UNCHANGED <<kind, queueVars, workerVars, consumerVars, mpc, mend, torn,
                 mclient, frame, aborted>>

(* A loop that ends before its last element.                               *)
ClearDone_Early ==
  /\ Running
  /\ mpc = "clearws"
  /\ mi >= mend
  /\ mpc' = "listener"
  /\ EndIteration
  /\ UNCHANGED <<netVars, kind, queueVars, workerVars, consumerVars, mclient,
                 frame, aborted>>

ClearDone ==
  /\ Running
  /\ mpc = "clearws"
  /\ mi > mend
  /\ mpc' = "listener"
  /\ EndIteration
  /\ UNCHANGED <<netVars, kind, queueVars, workerVars, consumerVars, mclient,
                 frame, aborted>>

CloseServerSocket ==
  /\ Running
  /\ mpc = "listener"
  /\ CloseListener
  /\ mpc' = "cleanup"
  /\ UNCHANGED <<kind, queueVars, workerVars, consumerVars, mi, mend, torn,
                 mclient, frame, aborted>>

(* WSACleanup(), initialized = false, and the members are destroyed.       *)
Cleanup ==
  /\ Running
  /\ mpc = "cleanup"
  /\ ReleaseAll
  /\ mpc' = "destroyed"
  /\ UNCHANGED <<kind, queueVars, workerVars, consumerVars, mi, mend, torn,
                 mclient, frame, aborted>>

Receive ==
  \/ NextWebsocket \/ RecvFrame \/ FrameDone \/ FrameUnmasked
  \/ CloseWebsocket \/ ReceiveDone

Destroy ==
  \/ Leave
  \/ DrainMore \/ DrainEmpty \/ DrainNothing \/ DrainPop \/ DrainClose
  \/ ClearWebsocket \/ ClearDone
  \/ CloseServerSocket \/ Cleanup

Owner == PressF2 \/ StartReceive \/ Receive \/ Destroy

-----------------------------------------------------------------------------
Next ==
  \/ \E c \in Conns : Peer(c)
  \/ \E w \in Workers : Worker(w)
  \/ Consumer
  \/ Owner

Spec == Init /\ [][Next]_vars

(* The system schedules every runnable thread, and what the owner has      *)
(* begun it goes on with; nobody has to press F2, and peers may be silent. *)
Fairness ==
  /\ WF_vars(Consumer)
  /\ \A w \in Workers : WF_vars(Worker(w))
  /\ WF_vars(Receive \/ Destroy)

FairSpec == Spec /\ Fairness

-----------------------------------------------------------------------------
(* Properties.                                                             *)

(* An answer goes to the connection whose bytes it answers: no request is  *)
(* answered on a handle that has come to mean another connection between   *)
(* recv_all() and send_all() (http_server.cpp:258-277).                    *)
ReplyToAsker ==
  \A c \in Conns : \A i \in 1..Len(replies[c]) : replies[c][i].of = c

(* clients_consumed counts the pops: with the queue, the client in service *)
(* and the accepted handles not pushed yet it adds up to the connections   *)
(* accepted, whatever the interleaving and even though pop() hands out one *)
(* handle several times (http_server.cpp:252-287).                         *)
InService == IF cpc \in {"recv", "answer", "keep", "close"} THEN 1 ELSE 0

Pushing == {w \in Workers : worker[w] = "push"}

QueueAccounting ==
  ~aborted /\ mpc \notin Clearing =>
    clients_consumed + Len(socket_queue) + InService + Cardinality(Pushing)
      = Cardinality(joined) - Len(backlog)

(* Some thread or list still refers to the handle.  What the owner reads   *)
(* while it iterates is in websocket_clients, or, after a reallocation,    *)
(* not a reference to anything.                                            *)
Known(h) ==
  \/ h \in Range(socket_queue) \cup Range(websocket_clients)
  \/ \E w \in Workers : held[w] = h
  \/ client = h
  \/ mpc = "drainclose" /\ mclient = h

Leaked(h) == sock[h] # None /\ ~Known(h)

(* An open socket is lost from the server's sight in two ways only: pop()  *)
(* erases it while handing out the front (http_server.h:73-74), or         *)
(* consume_queue() finds nothing to read on it yet and returns without     *)
(* closing or requeuing it (http_server.cpp:258-291).                      *)
LeakCauses ==
  [][\A h \in Handles :
       ~Leaked(h) /\ Leaked(h)' =>
         \/ /\ socket_queue # <<>>
            /\ socket_queue' = Front(socket_queue)
            /\ h = Last(socket_queue) /\ h # Head(socket_queue)
         \/ cpc = "recv" /\ client = h /\ rx = <<>>]_vars

(* When clear() has gone through websocket_clients, an open socket that    *)
(* was answered is in the consumer's hands, between send_all() and what    *)
(* follows it, or was kept after the loop had taken its bounds: no kept    *)
(* client is passed over, although the consumer appends meanwhile and the  *)
(* handles closed on the way are given out again.  After a reallocation    *)
(* under the loop nothing is said (http_server.cpp:89-93, 276-283).        *)
ClearClosesClients ==
  [][mpc = "clearws" /\ mpc' # "clearws" /\ ~torn =>
       \A h \in Handles :
         sock[h] # None /\ replies[sock[h]] # <<>> =>
           \/ client = h /\ cpc \in {"keep", "close"}
           \/ \E i \in mend + 1 .. Len(websocket_clients) : websocket_clients[i] = h]_vars

(* A handle at the front of the queue that has something to read is served *)
(* and closed: the consumer reaches it, whatever is pushed behind it,      *)
(* unless a handler ends the process, and every connection, first          *)
(* (http_server.cpp:250-292).                                              *)
HeadOfQueueServed ==
  \A c \in Conns :
    (socket_queue # <<>> /\ sock[Head(socket_queue)] = c /\ Readable(Head(socket_queue)))
      ~> (c \in ended)

(* Once shutdown_server is set the owner gets through ~server_t(): the     *)
(* drain of the queue ends although accept threads may still push to it    *)
(* (http_server.cpp:82-87).                                                *)
ShutdownCompletes == shutdown_server ~> (mpc = "destroyed" \/ aborted)

(* The server, for peers that make plain HTTP requests, as HttpService.    *)
Phase(c) ==
  IF c \in ended THEN "closed"
  ELSE IF \E h \in Handles : sock[h] = c
    THEN IF replies[c] = <<>> THEN "held" ELSE "answered"
  ELSE IF c \in joined THEN "waiting" ELSE "away"

Sent(c) == Cardinality({i \in DOMAIN replies[c] : replies[c][i].taken})

Service == INSTANCE HttpService
  WITH phase <- [c \in Conns |-> Phase(c)],
       answers <- [c \in Conns |-> Sent(c)]

(* Behind the queue, the accept threads and the reuse of handles, a plain  *)
(* HTTP connection is answered at most once, and closed only after that,   *)
(* sent or lost, or with the process (http_server.cpp:72-76, 250-292,      *)
(* 342-357).                                                               *)
ImplementsService == Service!Spec

-----------------------------------------------------------------------------
(* What comments of the repository say, and the code does not do.          *)

(* http_server.h:191, "Multiclient and multirequest server": a client      *)
(* whose whole request had arrived before it was accepted is answered.     *)
EveryClientAnswered ==
  \A c \in Conns :
    (c \in Range(backlog) /\ Len(sent[c]) = Len(Request(c))) ~> (replies[c] # <<>>)

(* http_server.h:127, "Receives all data from client socket": what is      *)
(* answered is the whole request.                                          *)
WholeRequestAnswered ==
  \A c \in Conns : \A i \in 1..Len(replies[c]) : replies[c][i].whole

(* http_server.h:202, "Read all incomming values from connected sockets    *)
(* (websocket)": the owner's reader takes bytes of connections that asked  *)
(* for an upgrade.                                                         *)
OnlyUpgradedAreRead ==
  [][\A c \in Conns :
       mpc = "wsrecv" /\ cpc' = cpc /\ rx' = rx /\ nread'[c] # nread[c]
         => kind[c] \in UpgradeKinds]_vars
=============================================================================
