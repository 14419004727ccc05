----------------------------- MODULE SelectServer -----------------------------
(***************************************************************************)
(* server_t serving with run() (http_server.cpp): one thread that keeps    *)
(* the listening socket and its clients in a Windows fd_set, an array of   *)
(* FD_SETSIZE sockets, and serves in turn the ones select() found ready.   *)
(* Another thread may set shutdown_server; the caller of run() destroys    *)
(* the server when it returns.  The controller is left to the kind of      *)
(* request, as in QueueServer.                                             *)
(***************************************************************************)
EXTENDS Winsock, SequencesExt

CONSTANTS Listener,    \* _server_socket
          FdSetSize,   \* FD_SETSIZE, 64 unless the build says otherwise
          Kinds        \* kinds of request the peers make

ASSUME ListenerAssumption == Listener \notin Handles /\ Listener # None
ASSUME FdSetSizeAssumption == FdSetSize \in Nat \ {0}
ASSUME KindsAssumption == Kinds \subseteq {"silent", "page", "form", "json"}
ASSUME PiecesAssumption == Pieces = {"head", "rest", "fin"}

VARIABLES kind,             \* kind[c]: the request c's peer makes
          temp_set,         \* sockets of the array, in its order
          fd_set_read,      \* ready sockets not served yet in this round
          shutdown_server,
          pc,               \* where run() and then the destructor are
          currentSocket,
          rx,               \* what recv_all has read, with its origin
          aborted           \* std::terminate ended the process

serverVars == <<temp_set, fd_set_read, shutdown_server, pc, currentSocket, rx, aborted>>
vars == <<netVars, kind, serverVars>>

Replies == [of : Conns, whole : BOOLEAN]

TypeOK ==
  /\ NetTypeOK(Replies)
  /\ kind \in [Conns -> Kinds]
  /\ temp_set \in Seq(Handles \cup {Listener})
  /\ fd_set_read \in Seq(Handles \cup {Listener})
  /\ shutdown_server \in BOOLEAN
  /\ pc \in {"select", "loop", "recv", "answer", "close", "stopped", "cleanup", "destroyed"}
  /\ currentSocket \in Handles \cup {None}
  /\ rx \in Seq(Conns \X Pieces)
  /\ aborted \in BOOLEAN

Init ==
  /\ NetInit
  /\ kind \in [Conns -> Kinds]
  /\ temp_set = <<Listener>>
  /\ fd_set_read = <<>>
  /\ shutdown_server = FALSE
  /\ pc = "select"
  /\ currentSocket = None
  /\ rx = <<>>
  /\ aborted = FALSE

At(l) == ~aborted /\ pc = l

-----------------------------------------------------------------------------
(* Peers (external): a request of no, one or two pieces, and at any time   *)
(* the end of the stream.                                                  *)
Request(c) ==
  CASE kind[c] = "silent" -> <<>>
    [] kind[c] = "page" -> <<"head">>
    [] kind[c] \in {"form", "json"} -> <<"head", "rest">>

NextPieces(c) ==
  IF "fin" \in Range(sent[c]) THEN {}
  ELSE {"fin"} \cup IF Len(sent[c]) < Len(Request(c))
                      THEN {Request(c)[Len(sent[c]) + 1]} ELSE {}

Peer(c) ==
  /\ Connect(c) \/ \E piece \in NextPieces(c) : Arrive(c, piece)
  /\ UNCHANGED <<kind, serverVars>>

-----------------------------------------------------------------------------
(* An array that is taken for full with one place left.                    *)
FdSet_Early(set, s) == IF s \in Range(set) \/ Len(set) >= FdSetSize - 1 THEN set ELSE Append(set, s)

(* A place cleared and not closed up.                                      *)
FdClr_Hole(set, s) == [i \in DOMAIN set |-> IF set[i] = s THEN None ELSE set[i]]

(* The fd_set macros (external): FD_SET adds a socket that is not there if *)
(* the array has room and says nothing if it has not; FD_CLR closes the    *)
(* gap.                                                                    *)
FdSet(set, s) == IF s \in Range(set) \/ Len(set) >= FdSetSize THEN set ELSE Append(set, s)
FdClr(set, s) == RemoveFirst(set, s)

(* Readable for select(): a peer in the backlog, or bytes or the end of    *)
(* the stream on a client.                                                 *)
Ready(s) == IF s = Listener THEN backlog # <<>> ELSE Readable(s)

(* while (!shutdown_server): copy the set and select(), which leaves the   *)
(* ready sockets in an order of its own.  A round in which nothing is      *)
(* ready is the timeout of one second.                                     *)
Select ==
  /\ At("select")
  /\ ~shutdown_server
  /\ fd_set_read' \in SetToSeqs({s \in Range(temp_set) : Ready(s)})
  /\ pc' = "loop"
  /\ UNCHANGED <<netVars, kind, temp_set, shutdown_server, currentSocket, rx, aborted>>

(* run() returns only when it has no client.                               *)
RunReturns_Idle ==
  /\ At("select")
  /\ shutdown_server /\ temp_set = <<Listener>>
  /\ pc' = "stopped"
  /\ UNCHANGED <<netVars, kind, temp_set, fd_set_read, shutdown_server, currentSocket,
                 rx, aborted>>

(* The loop ends; run() returns to its caller.                             *)
RunReturns ==
  /\ At("select")
  /\ shutdown_server
  /\ pc' = "stopped"
  /\ UNCHANGED <<netVars, kind, temp_set, fd_set_read, shutdown_server, currentSocket,
                 rx, aborted>>

RoundDone ==
  /\ At("loop")
  /\ fd_set_read = <<>>
  /\ pc' = "select"
  /\ UNCHANGED <<netVars, kind, temp_set, fd_set_read, shutdown_server, currentSocket,
                 rx, aborted>>

(* The listening socket is ready: accept, and FD_SET the new client.       *)
AcceptNew ==
  /\ At("loop")
  /\ fd_set_read # <<>> /\ Head(fd_set_read) = Listener
  /\ CanAccept
  /\ \E h \in FreeHandles :
       /\ AcceptAs(h)
       /\ temp_set' = FdSet(temp_set, h)
  /\ fd_set_read' = Tail(fd_set_read)
  /\ UNCHANGED <<kind, shutdown_server, pc, currentSocket, rx, aborted>>

(* accept() fails: on to the next ready socket.                            *)
AcceptFails ==
  /\ At("loop")
  /\ fd_set_read # <<>> /\ Head(fd_set_read) = Listener
  /\ ~CanAccept
  /\ fd_set_read' = Tail(fd_set_read)
  /\ UNCHANGED <<netVars, kind, temp_set, shutdown_server, pc, currentSocket, rx, aborted>>

(* A client is ready: recv_all(), then the answer, then the end of it.     *)
ServeClient ==
  /\ At("loop")
  /\ fd_set_read # <<>> /\ Head(fd_set_read) # Listener
  /\ currentSocket' = Head(fd_set_read)
  /\ fd_set_read' = Tail(fd_set_read)
  /\ pc' = "recv"
  /\ UNCHANGED <<netVars, kind, temp_set, shutdown_server, rx, aborted>>

(* recv() gives a piece: neither would-block nor the end of the stream.    *)
HasPiece == Readable(currentSocket) /\ NextPiece(currentSocket)[2] # "fin"

RecvPiece ==
  /\ At("recv")
  /\ HasPiece
  /\ rx' = Append(rx, NextPiece(currentSocket))
  /\ RecvFrom(currentSocket)
  /\ UNCHANGED <<kind, temp_set, fd_set_read, shutdown_server, pc, currentSocket, aborted>>

(* bRcv <= 0: would block, or the end of the stream.                       *)
RecvDone ==
  /\ At("recv")
  /\ ~HasPiece
  /\ pc' = IF rx = <<>> THEN "close" ELSE "answer"
  /\ UNCHANGED <<netVars, kind, temp_set, fd_set_read, shutdown_server, currentSocket,
                 rx, aborted>>

Asker == rx[1][1]
Whole == rx = [i \in 1..Len(Request(Asker)) |-> <<Asker, Request(Asker)[i]>>]
Throws == kind[Asker] = "json" /\ ~Whole

Answer ==
  /\ At("answer")
  /\ ~Throws
  /\ SendOn(currentSocket, [of |-> Asker, whole |-> Whole])
  /\ pc' = "close"
  /\ UNCHANGED <<kind, temp_set, fd_set_read, shutdown_server, currentSocket, rx, aborted>>

HandlerThrows ==
  /\ At("answer")
  /\ Throws
  /\ aborted' = TRUE
  /\ ReleaseAll
  /\ UNCHANGED <<kind, temp_set, fd_set_read, shutdown_server, pc, currentSocket, rx>>

(* closesocket() with no FD_CLR.                                           *)
CloseClient_KeepInSet ==
  /\ At("close")
  /\ CloseHandle(currentSocket)
  /\ currentSocket' = None
  /\ rx' = <<>>
  /\ pc' = "loop"
  /\ UNCHANGED <<kind, temp_set, fd_set_read, shutdown_server, aborted>>

(* FD_CLR with no closesocket(), as for a client whose end was read.       *)
CloseClient_Open ==
  /\ At("close")
  /\ temp_set' = FdClr(temp_set, currentSocket)
  /\ currentSocket' = None
  /\ rx' = <<>>
  /\ pc' = "loop"
  /\ UNCHANGED <<netVars, kind, fd_set_read, shutdown_server, aborted>>

(* A receive buffer that outlives the client it was filled from.           *)
CloseClient_KeepBuffer ==
  /\ At("close")
  /\ CloseHandle(currentSocket)
  /\ temp_set' = FdClr(temp_set, currentSocket)
  /\ currentSocket' = None
  /\ pc' = "loop"
  /\ UNCHANGED <<kind, fd_set_read, shutdown_server, rx, aborted>>

(* closesocket() and FD_CLR.                                               *)
CloseClient ==
  /\ At("close")
  /\ CloseHandle(currentSocket)
  /\ temp_set' = FdClr(temp_set, currentSocket)
  /\ currentSocket' = None
  /\ rx' = <<>>
  /\ pc' = "loop"
  /\ UNCHANGED <<kind, fd_set_read, shutdown_server, aborted>>

(* ~server_t(): the queue and the websocket clients are empty, so clear()  *)
(* closes the listening socket and leaves the rest to WSACleanup().        *)
CloseServerSocket ==
  /\ At("stopped")
  /\ CloseListener
  /\ pc' = "cleanup"
  /\ UNCHANGED <<kind, temp_set, fd_set_read, shutdown_server, currentSocket, rx, aborted>>

Cleanup ==
  /\ At("cleanup")
  /\ ReleaseAll
  /\ pc' = "destroyed"
  /\ UNCHANGED <<kind, temp_set, fd_set_read, shutdown_server, currentSocket, rx, aborted>>

Server ==
  \/ Select \/ RunReturns \/ RoundDone
  \/ AcceptNew \/ AcceptFails
  \/ ServeClient \/ RecvPiece \/ RecvDone \/ Answer \/ HandlerThrows \/ CloseClient
  \/ CloseServerSocket \/ Cleanup

(* Some other thread.                                                      *)
SignalShutdown ==
  /\ ~shutdown_server
  /\ pc # "destroyed" /\ ~aborted
  /\ shutdown_server' = TRUE
  /\ UNCHANGED <<netVars, kind, temp_set, fd_set_read, pc, currentSocket, rx, aborted>>

Next == (\E c \in Conns : Peer(c)) \/ Server \/ SignalShutdown

Spec == Init /\ [][Next]_vars

(* The thread of run() goes on; nobody has to shut the server down.        *)
FairSpec == Spec /\ WF_vars(Server)

-----------------------------------------------------------------------------
Serving == ~aborted /\ pc \notin {"stopped", "cleanup", "destroyed"}

(* The array and the list of a round never name a socket that is closed,   *)
(* or one twice, although handles are reused while a round is served: what *)
(* select() found is still what will be read (http_server.cpp:152-200).    *)
ArrayIsOpen ==
  Serving =>
    /\ \A h \in (Range(temp_set) \cup Range(fd_set_read)) \ {Listener} : sock[h] # None
    /\ Range(fd_set_read) \subseteq Range(temp_set)
    /\ currentSocket # None =>
         currentSocket \in Range(temp_set) /\ currentSocket \notin Range(fd_set_read)
    /\ IsInjective(temp_set) /\ IsInjective(fd_set_read)
    /\ Len(temp_set) <= FdSetSize /\ Head(temp_set) = Listener

(* An open client that the server has lost sight of.                       *)
Unwatched(h) == sock[h] # None /\ h \notin Range(temp_set)

(* The one way to lose a client: accept() gave it a socket when the array  *)
(* was full, and FD_SET() said nothing (http_server.cpp:172-176).  Nothing *)
(* that is closed, cleared or accepted later drops another one.            *)
LostToAFullArray ==
  [][\A h \in Handles :
       ~Unwatched(h) /\ Unwatched(h)' =>
         sock[h] = None /\ Len(temp_set) = FdSetSize]_vars

(* A connection is answered at most once, and with its own request, on a   *)
(* socket select() found readable for it (http_server.cpp:181-199).        *)
AnsweredOnce ==
  \A c \in Conns :
    /\ Len(replies[c]) <= 1
    /\ replies[c] # <<>> => replies[c][1].of = c

(* A client in the array that is readable is served and closed, whoever    *)
(* else connects or sends meanwhile: a round goes over all ready sockets   *)
(* before the next select() (http_server.cpp:150-201).                     *)
ReadyIsServed ==
  \A c \in Conns :
    (\E h \in Range(temp_set) \ {Listener} : sock[h] = c /\ Readable(h))
      ~> (c \in ended)

(* Shutdown is noticed between two rounds, also when nothing is ready, and *)
(* leaves no socket open, clients in the array included                    *)
(* (http_server.cpp:78-100, 150-154).                                      *)
ShutdownReturns ==
  shutdown_server ~> (aborted \/ (pc = "destroyed" /\ FreeHandles = Handles))
=============================================================================
