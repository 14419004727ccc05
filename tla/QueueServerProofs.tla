-------------------------- MODULE QueueServerProofs --------------------------
(***************************************************************************)
(* Proofs about QueueServer, for any number of connections, handles and    *)
(* accept threads, and for both values of run_queue's argument unless a    *)
(* theorem says otherwise.                                                 *)
(***************************************************************************)
EXTENDS QueueServer, SequenceLemmas, FiniteSetTheorems

-----------------------------------------------------------------------------
(* Each call of Winsock keeps the network variables in their types.  R is  *)
(* the set of replies of the server.                                       *)

(* The variables start in their types.                                     *)
LEMMA NetInitTyped ==
  ASSUME NEW R, NetInit
  PROVE  NetTypeOK(R)
<1>1. <<>> \in Seq(Conns) /\ <<>> \in Seq(Pieces) /\ <<>> \in Seq(R)
  BY EmptySeq
<1>2. QED
  BY <1>1 DEF NetInit, NetTypeOK

(* A peer connects.                                                        *)
LEMMA ConnectTyped ==
  ASSUME NEW R, NetTypeOK(R), NEW c \in Conns, Connect(c)
  PROVE  NetTypeOK(R)'
<1>1. backlog' \in Seq(Conns)
  BY AppendProperties DEF NetTypeOK, Connect
<1>2. QED
  BY <1>1 DEF NetTypeOK, Connect

(* One more piece of the stream arrives.                                   *)
LEMMA ArriveTyped ==
  ASSUME NEW R, NetTypeOK(R), NEW c \in Conns, NEW piece \in Pieces,
         Arrive(c, piece)
  PROVE  NetTypeOK(R)'
<1>1. Append(sent[c], piece) \in Seq(Pieces)
  BY AppendProperties DEF NetTypeOK
<1>2. sent' \in [Conns -> Seq(Pieces)]
  BY <1>1 DEF NetTypeOK, Arrive
<1>3. QED
  BY <1>2 DEF NetTypeOK, Arrive

(* accept().                                                               *)
LEMMA AcceptTyped ==
  ASSUME NEW R, NetTypeOK(R), NEW h \in Handles, CanAccept, AcceptAs(h)
  PROVE  NetTypeOK(R)'
<1>1. Head(backlog) \in Conns /\ Tail(backlog) \in Seq(Conns)
  BY HeadTailProperties DEF NetTypeOK, CanAccept
<1>2. QED
  BY <1>1 DEF NetTypeOK, AcceptAs

(* recv(): what it returns is a piece of the connection that is open.      *)
LEMMA PieceTyped ==
  ASSUME NEW R, NetTypeOK(R), NEW h \in Handles, Readable(h)
  PROVE  /\ sock[h] \in Conns
         /\ NextPiece(h) \in Conns \X Pieces
         /\ NextPiece(h)[1] = sock[h]
<1>1. sock[h] \in Conns
  BY DEF NetTypeOK, Readable
<1>2. sent[sock[h]] \in Seq(Pieces) /\ nread[sock[h]] \in Nat
  BY <1>1 DEF NetTypeOK
<1>3. nread[sock[h]] + 1 \in 1..Len(sent[sock[h]])
  BY <1>2, LenProperties DEF Readable
<1>4. sent[sock[h]][nread[sock[h]] + 1] \in Pieces
  BY <1>2, <1>3, ElementOfSeq
<1>5. QED
  BY <1>1, <1>4 DEF NextPiece

(* recv() only moves the reading position.                                 *)
LEMMA RecvTyped ==
  ASSUME NEW R, NetTypeOK(R), NEW h \in Handles, Readable(h), RecvFrom(h)
  PROVE  NetTypeOK(R)'
<1>1. sock[h] \in Conns
  BY PieceTyped
<1>2. nread' \in [Conns -> Nat]
  BY <1>1 DEF NetTypeOK, RecvFrom
<1>3. QED
  BY <1>2 DEF NetTypeOK, RecvFrom

(* send_all() adds one reply to the connection under the handle, if any.   *)
LEMMA SendTyped ==
  ASSUME NEW R, NetTypeOK(R), NEW h \in Handles, NEW r \in R, SendOn(h, r)
  PROVE  NetTypeOK(R)'
<1>1. ASSUME sock[h] # None
      PROVE  /\ sock[h] \in Conns
             /\ Append(replies[sock[h]], r) \in Seq(R)
  <2>1. sock[h] \in Conns
    BY <1>1 DEF NetTypeOK
  <2>2. replies[sock[h]] \in Seq(R)
    BY <2>1 DEF NetTypeOK
  <2>3. QED
    BY <2>1, <2>2, AppendProperties
<1>2. replies' \in [Conns -> Seq(R)]
  BY <1>1 DEF NetTypeOK, SendOn
<1>3. QED
  BY <1>2 DEF NetTypeOK, SendOn

(* closesocket() frees the handle.                                         *)
LEMMA CloseTyped ==
  ASSUME NEW R, NetTypeOK(R), NEW h \in Handles, CloseHandle(h)
  PROVE  NetTypeOK(R)'
BY DEF NetTypeOK, CloseHandle

(* closesocket() of the listener.                                          *)
LEMMA CloseListenerTyped ==
  ASSUME NEW R, NetTypeOK(R), CloseListener
  PROVE  NetTypeOK(R)'
<1>1. \A i \in 1..Len(backlog) : backlog[i] \in Conns
  BY ElementOfSeq DEF NetTypeOK
<1>2. backlog' \in Seq(Conns)
  BY EmptySeq DEF CloseListener
<1>3. listening' \in BOOLEAN
  BY Zenon DEF CloseListener
<1>4. ended' \in SUBSET Conns
  BY <1>1 DEF NetTypeOK, CloseListener
<1>5. QED
  BY <1>2, <1>3, <1>4 DEF NetTypeOK, CloseListener

(* WSACleanup(), or the end of the process.                                *)
LEMMA ReleaseTyped ==
  ASSUME NEW R, NetTypeOK(R), ReleaseAll
  PROVE  NetTypeOK(R)'
<1>1. backlog' \in Seq(Conns)
  BY EmptySeq DEF ReleaseAll
<1>2. QED
  BY <1>1 DEF NetTypeOK, ReleaseAll

-----------------------------------------------------------------------------
(* What each program counter says of the locals of its thread.             *)
LocalsOK ==
  /\ \A w \in Workers : worker[w] = "push" => held[w] \in Handles
  /\ cpc \in {"recv", "answer", "keep", "close"} => client \in Handles
  /\ cpc \in {"answer", "keep", "close"} => rx # <<>>
  /\ mpc \in {"wsclose", "drainclose"} => mclient \in Handles
  /\ frame # None => mpc \in {"wsrecv", "wsclose"} /\ mclient \in Handles
  /\ mpc \in {"wsclose"} => frame # None
  /\ mpc \in Iterating => mi \in Nat \ {0} /\ mend <= Len(websocket_clients)

TInv == TypeOK /\ LocalsOK

(* The system starts in its types.                                         *)
LEMMA InitTInv == Init => TInv
<1>1. SUFFICES ASSUME Init PROVE TInv
  OBVIOUS
<1>2. NetTypeOK(Replies)
  BY <1>1, NetInitTyped DEF Init
<1>3. socket_queue \in Seq(Handles) /\ websocket_clients \in Seq(Handles)
      /\ rx \in Seq(Conns \X Pieces)
  BY <1>1, EmptySeq DEF Init
<1>4. TypeOK
  BY <1>1, <1>2, <1>3 DEF Init, TypeOK, WorkerSteps, ConsumerSteps, OwnerSteps
<1>5. LocalsOK
  BY <1>1 DEF Init, LocalsOK, Iterating
<1>6. QED
  BY <1>4, <1>5 DEF TInv

(* A step that leaves the network alone keeps it typed, and one that       *)
(* leaves a thread's locals alone keeps what is known of them.             *)
LEMMA NetKept ==
  ASSUME TypeOK, UNCHANGED netVars
  PROVE  NetTypeOK(Replies)'
BY DEF TypeOK, NetTypeOK, netVars

(* A peer changes the network only, and sends pieces.                      *)
LEMMA PeerTInv ==
  ASSUME TInv, NEW c \in Conns, Peer(c)
  PROVE  TInv'
<1> USE DEF TInv
<1>1. UNCHANGED <<kind, serverVars>>
  BY DEF Peer, PeerConnects, PeerSends
<1>2. NetTypeOK(Replies)'
  <2>1. CASE PeerConnects(c)
    BY <2>1, ConnectTyped DEF TypeOK, PeerConnects
  <2>2. CASE PeerSends(c)
    <3>1. PICK piece \in NextPieces(c) : Arrive(c, piece)
      BY <2>2 DEF PeerSends
    <3>2. piece \in Pieces
      <4>1. NextPieces(c) \in {{"head"}, {"rest"}, {"masked", "bare"}, {}}
        <5>1. Request(c)[1] = "head" /\ Len(Request(c)) \in 1..2
              /\ (Len(Request(c)) = 2 => Request(c)[2] = "rest")
          BY DEF Request
        <5>2. Len(sent[c]) \in Nat
          BY LenProperties DEF TypeOK, NetTypeOK
        <5>3. QED
          BY <5>1, <5>2 DEF NextPieces
      <4>2. QED
        BY <4>1, PiecesAssumption
    <3>3. QED
      BY <3>1, <3>2, ArriveTyped DEF TypeOK
  <2>3. QED
    BY <2>1, <2>2 DEF Peer
<1>3. QED
  BY <1>1, <1>2 DEF TypeOK, LocalsOK, serverVars, queueVars, workerVars,
                    consumerVars, ownerVars

(* An accept thread pushes a handle only after accept() gave it one        *)
(* (http_server.cpp:342-353, 361-372).                                     *)
LEMMA WorkerTInv ==
  ASSUME TInv, NEW w \in Workers, Worker(w)
  PROVE  TInv'
<1> USE DEF TInv
<1>1. CASE AcceptNobody(w)
  <2>1. NetTypeOK(Replies)'
    BY <1>1, NetKept DEF AcceptNobody
  <2>2. QED
    BY <1>1, <2>1 DEF TypeOK, LocalsOK, AcceptNobody, WorkerSteps, queueVars,
                      consumerVars, ownerVars
<1>2. CASE AcceptClient(w)
  <2>1. PICK h \in FreeHandles : AcceptAs(h) /\ held' = [held EXCEPT ![w] = h]
    BY <1>2 DEF AcceptClient
  <2>2. h \in Handles
    BY DEF FreeHandles
  <2>3. NetTypeOK(Replies)'
    BY <1>2, <2>1, <2>2, AcceptTyped DEF TypeOK, AcceptClient
  <2>4. QED
    BY <1>2, <2>1, <2>2, <2>3
    DEF TypeOK, LocalsOK, AcceptClient, WorkerSteps, queueVars, consumerVars, ownerVars
<1>3. CASE PushClient(w)
  <2>1. NetTypeOK(Replies)'
    BY <1>3, NetKept DEF PushClient
  <2>2. socket_queue' \in Seq(Handles)
    BY <1>3, PushBackProperties DEF TypeOK, LocalsOK, PushClient
  <2>3. QED
    BY <1>3, <2>1, <2>2
    DEF TypeOK, LocalsOK, PushClient, WorkerSteps, consumerVars, ownerVars
<1>4. QED
  BY <1>1, <1>2, <1>3 DEF Worker

(* Counting a client and dropping the locals of consume_queue().           *)
LEMMA ConsumedTyped ==
  ASSUME TypeOK, Consumed
  PROVE  /\ clients_consumed' \in Nat
         /\ cpc' = "test"
         /\ client' = None
         /\ rx' \in Seq(Conns \X Pieces)
BY EmptySeq DEF TypeOK, Consumed

(* The consumer answers only bytes it has read, on a handle it popped      *)
(* (http_server.cpp:250-292).                                              *)
LEMMA ConsumerTInv ==
  ASSUME TInv, Consumer
  PROVE  TInv'
<1> USE DEF TInv
<1>1. CASE StartAccept
  <2>1. PICK w \in Workers : worker[w] = "free" /\ worker' = [worker EXCEPT ![w] = "accept"]
    BY <1>1 DEF StartAccept
  <2>2. NetTypeOK(Replies)'
    BY <1>1, NetKept DEF StartAccept
  <2>3. QED
    BY <1>1, <2>1, <2>2 DEF TypeOK, LocalsOK, StartAccept, WorkerSteps,
                            ConsumerSteps, queueVars, ownerVars
<1>2. CASE ConsumerStops \/ PopNothing \/ RecvDone
  <2>1. NetTypeOK(Replies)'
    BY <1>2, NetKept DEF ConsumerStops, PopNothing, RecvDone
  <2>2. QED
    BY <1>2, <2>1 DEF TypeOK, LocalsOK, ConsumerStops, PopNothing, RecvDone,
                      ConsumerSteps, queueVars, workerVars, ownerVars
<1>3. CASE PopClient
  <2>1. NetTypeOK(Replies)'
    BY <1>3, NetKept DEF PopClient
  <2>2. client' \in Handles /\ socket_queue' \in Seq(Handles)
    BY <1>3, PopProperties DEF TypeOK, PopClient
  <2>3. QED
    BY <1>3, <2>1, <2>2 DEF TypeOK, LocalsOK, PopClient, ConsumerSteps,
                            workerVars, ownerVars
<1>4. CASE RecvPiece
  <2>1. client \in Handles /\ Readable(client)
    BY <1>4 DEF LocalsOK, RecvPiece
  <2>2. NetTypeOK(Replies)'
    BY <1>4, <2>1, RecvTyped DEF TypeOK, RecvPiece
  <2>3. NextPiece(client) \in Conns \X Pieces
    BY <2>1, PieceTyped DEF TypeOK
  <2>4. rx' \in Seq(Conns \X Pieces)
    BY <1>4, <2>3, AppendProperties DEF TypeOK, RecvPiece
  <2>5. QED
    BY <1>4, <2>1, <2>2, <2>4 DEF TypeOK, LocalsOK, RecvPiece, queueVars,
                                  workerVars, ownerVars
<1>5. CASE NothingRead
  <2>1. NetTypeOK(Replies)'
    BY <1>5, NetKept DEF NothingRead
  <2>2. QED
    BY <1>5, <2>1, ConsumedTyped DEF TypeOK, LocalsOK, NothingRead,
                                     ConsumerSteps, queueVars, workerVars, ownerVars
<1>6. CASE Answer
  <2>0. PICK taken \in BOOLEAN :
          SendOn(client, [of |-> Asker(rx), status |-> Status(rx), whole |-> HasAll(rx),
                          taken |-> taken])
    BY <1>6, Zenon DEF Answer
  <2> DEFINE r == [of |-> Asker(rx), status |-> Status(rx), whole |-> HasAll(rx),
                   taken |-> taken]
  <2>1. Asker(rx) \in Conns
    <3>1. rx # <<>> /\ rx \in Seq(Conns \X Pieces)
      BY <1>6 DEF LocalsOK, TypeOK, Answer
    <3>2. rx[1] \in Conns \X Pieces
      <4>1. 1 \in 1..Len(rx)
        BY <3>1, EmptySeq
      <4>2. QED
        BY <3>1, <4>1, ElementOfSeq
    <3>3. QED
      BY <3>2 DEF Asker
  <2>2. Status(rx) \in {"200", "101", "400"} /\ HasAll(rx) \in BOOLEAN
    BY DEF Status, HasAll
  <2>3. r \in Replies
    BY <2>1, <2>2 DEF Replies
  <2>4. client \in Handles /\ SendOn(client, r)
    BY <1>6, <2>0 DEF LocalsOK, Answer
  <2>5. NetTypeOK(Replies)'
    <3> HIDE DEF r
    <3> QED BY <2>3, <2>4, SendTyped DEF TypeOK
  <2>6. cpc' \in {"keep", "close"}
    BY <1>6 DEF Answer
  <2>7. QED
    BY <1>6, <2>5, <2>6 DEF TypeOK, LocalsOK, Answer, ConsumerSteps, queueVars,
                            workerVars, ownerVars
<1>7. CASE HandlerThrows
  <2>1. NetTypeOK(Replies)'
    BY <1>7, ReleaseTyped DEF TypeOK, HandlerThrows
  <2>2. QED
    BY <1>7, <2>1 DEF TypeOK, LocalsOK, HandlerThrows, queueVars, workerVars,
                      consumerVars, ownerVars
<1>8. CASE KeepClient
  <2>1. NetTypeOK(Replies)'
    BY <1>8, NetKept DEF KeepClient
  <2>2. /\ websocket_clients' \in Seq(Handles)
        /\ Len(websocket_clients') = Len(websocket_clients) + 1
        /\ Len(websocket_clients) \in Nat
    BY <1>8, AppendProperties, LenProperties DEF TypeOK, LocalsOK, KeepClient
  <2>3. torn' \in BOOLEAN
    BY <1>8 DEF TypeOK, KeepClient
  <2>4. mpc \in Iterating => mi \in Nat \ {0} /\ mend <= Len(websocket_clients')
    BY <2>2 DEF TypeOK, LocalsOK
  <2>5. QED
    BY <1>8, <2>1, <2>2, <2>3, <2>4, ConsumedTyped
    DEF TypeOK, LocalsOK, KeepClient, ConsumerSteps, workerVars
<1>9. CASE CloseClient
  <2>1. NetTypeOK(Replies)'
    BY <1>9, CloseTyped DEF TypeOK, LocalsOK, CloseClient
  <2>2. QED
    BY <1>9, <2>1, ConsumedTyped DEF TypeOK, LocalsOK, CloseClient,
                                     ConsumerSteps, queueVars, workerVars, ownerVars
<1>10. QED
  BY <1>1, <1>2, <1>3, <1>4, <1>5, <1>6, <1>7, <1>8, <1>9 DEF Consumer

(* The iteration over websocket_clients stays inside the vector, which     *)
(* only grows (http_server.cpp:397-444).                                   *)
LEMMA ReceiveTInv ==
  ASSUME TInv, StartReceive \/ Receive
  PROVE  TInv'
<1> USE DEF TInv
<1>1. Len(websocket_clients) \in Nat
  BY LenProperties DEF TypeOK
<1>2. CASE StartReceive
  <2>1. NetTypeOK(Replies)'
    BY <1>2, NetKept DEF StartReceive
  <2>2. mi' \in Nat \ {0} /\ mend' \in Nat /\ torn' \in BOOLEAN
        /\ mend' <= Len(websocket_clients')
    <3>1. mi' = 1 /\ mend' = Len(websocket_clients) /\ torn' = FALSE
          /\ websocket_clients' = websocket_clients
      BY <1>2 DEF StartReceive, BeginIteration, queueVars
    <3>2. Len(websocket_clients') = Len(websocket_clients)
      BY <3>1
    <3>3. mend' \in Nat /\ mend' <= Len(websocket_clients')
      BY <1>1, <3>1, <3>2
    <3>4. mi' \in Nat \ {0}
      BY <3>1
    <3>5. torn' \in BOOLEAN
      BY <3>1, Zenon
    <3>6. QED
      BY <3>3, <3>4, <3>5
  <2>3. mpc' \in Iterating /\ mpc' \in OwnerSteps
        /\ mpc' \notin {"wsrecv", "wsclose", "drainclose"} /\ frame' = None
    BY <1>2 DEF LocalsOK, StartReceive, Iterating, OwnerSteps
  <2>4. QED
    BY <1>2, <2>1, <2>2, <2>3 DEF TypeOK, LocalsOK, StartReceive, queueVars,
         workerVars, consumerVars
<1>3. CASE NextWebsocket
  <2>1. NetTypeOK(Replies)'
    BY <1>3, NetKept DEF NextWebsocket
  <2>2. mclient' \in Handles \cup {None}
    <3>1. websocket_clients[mi] \in Handles
      <4>1. mi \in 1..Len(websocket_clients)
        BY <1>1, <1>3 DEF TypeOK, LocalsOK, NextWebsocket, Iterating
      <4>2. QED
        BY <4>1, ElementOfSeq DEF TypeOK
    <3>2. QED
      BY <1>3, <3>1 DEF NextWebsocket, Elements
  <2>3. frame = None
    BY <1>3 DEF LocalsOK, NextWebsocket
  <2>4. QED
    BY <1>3, <2>1, <2>2, <2>3 DEF TypeOK, LocalsOK, NextWebsocket, Iterating,
         OwnerSteps, queueVars, workerVars, consumerVars
<1>4. CASE RecvFrame
  <2>1. mclient \in Handles /\ Readable(mclient)
    BY <1>4 DEF TypeOK, RecvFrame
  <2>2. NetTypeOK(Replies)'
    BY <1>4, <2>1, RecvTyped DEF TypeOK, RecvFrame
  <2>3. NextPiece(mclient)[2] \in Pieces
    BY <2>1, PieceTyped DEF TypeOK
  <2>4. frame' \in Pieces
    BY <1>4, <2>3 DEF TypeOK, RecvFrame
  <2>5. QED
    BY <1>4, <2>1, <2>2, <2>4 DEF TypeOK, LocalsOK, RecvFrame, queueVars,
         workerVars, consumerVars
<1>5. CASE FrameDone \/ FrameUnmasked
  <2>1. NetTypeOK(Replies)'
    BY <1>5, NetKept DEF FrameDone, FrameUnmasked
  <2>2. frame = "bare" => frame # None
    BY NoneIsNoPiece, PiecesAssumption
  <2>3. QED
    BY <1>5, <2>1, <2>2 DEF TypeOK, LocalsOK, FrameDone, FrameUnmasked,
         FrameRead, Iterating, OwnerSteps, queueVars, workerVars, consumerVars
<1>6. CASE CloseWebsocket
  <2>1. NetTypeOK(Replies)'
    BY <1>6, CloseTyped DEF TypeOK, LocalsOK, CloseWebsocket
  <2>2. QED
    BY <1>6, <2>1 DEF TypeOK, LocalsOK, CloseWebsocket, Iterating, OwnerSteps,
         queueVars, workerVars, consumerVars
<1>7. CASE ReceiveDone
  <2>1. NetTypeOK(Replies)'
    BY <1>7, NetKept DEF ReceiveDone
  <2>2. QED
    BY <1>7, <2>1 DEF TypeOK, LocalsOK, ReceiveDone, EndIteration, Iterating,
         OwnerSteps, Clearing, queueVars, workerVars, consumerVars
<1>8. QED
  BY <1>2, <1>3, <1>4, <1>5, <1>6, <1>7 DEF Receive

(* clear()'s loop looks at an element of the vector, or at what the        *)
(* reallocation left in its place.                                         *)
LEMMA WalkedElement ==
  ASSUME TInv, mpc = "clearws", mi <= mend, NEW h \in Elements
  PROVE  mi \in 1..Len(websocket_clients) /\ h \in Handles \cup {None}
<1>1. Len(websocket_clients) \in Nat
  BY LenProperties DEF TInv, TypeOK
<1>2. mi \in 1..Len(websocket_clients)
  BY <1>1 DEF TInv, TypeOK, LocalsOK, Iterating
<1>3. websocket_clients[mi] \in Handles
  BY <1>2, ElementOfSeq DEF TInv, TypeOK
<1>4. QED
  BY <1>2, <1>3 DEF Elements

(* So does the one of clear() (http_server.cpp:78-100).                    *)
LEMMA DestroyTInv ==
  ASSUME TInv, PressF2 \/ Destroy
  PROVE  TInv'
<1> USE DEF TInv
<1>1. Len(websocket_clients) \in Nat
  BY LenProperties DEF TypeOK
<1>2. CASE PressF2 \/ Leave \/ DrainMore \/ DrainNothing
  <2>1. NetTypeOK(Replies)'
    BY <1>2, NetKept DEF PressF2, Leave, DrainMore, DrainNothing
  <2>2. QED
    BY <1>2, <2>1 DEF TypeOK, LocalsOK, PressF2, Leave, DrainMore, DrainNothing,
         Iterating, OwnerSteps, Clearing, queueVars, workerVars, consumerVars
<1>3. CASE DrainEmpty
  <2>1. NetTypeOK(Replies)'
    BY <1>3, NetKept DEF DrainEmpty
  <2>2. mi' \in Nat \ {0} /\ mend' \in Nat /\ torn' \in BOOLEAN
        /\ mend' <= Len(websocket_clients')
    <3>1. mi' = 1 /\ mend' = Len(websocket_clients) /\ torn' = FALSE
          /\ websocket_clients' = websocket_clients
      BY <1>3 DEF DrainEmpty, BeginIteration, queueVars
    <3>2. Len(websocket_clients') = Len(websocket_clients)
      BY <3>1
    <3>3. mend' \in Nat /\ mend' <= Len(websocket_clients')
      BY <1>1, <3>1, <3>2
    <3>4. mi' \in Nat \ {0}
      BY <3>1
    <3>5. torn' \in BOOLEAN
      BY <3>1, Zenon
    <3>6. QED
      BY <3>3, <3>4, <3>5
  <2>3. mpc' \in Iterating /\ mpc' \in OwnerSteps
        /\ mpc' \notin {"wsrecv", "wsclose", "drainclose"} /\ frame' = None
    BY <1>3 DEF LocalsOK, DrainEmpty, Iterating, OwnerSteps
  <2>4. QED
    BY <1>3, <2>1, <2>2, <2>3 DEF TypeOK, LocalsOK, DrainEmpty, queueVars,
         workerVars, consumerVars
<1>4. CASE DrainPop
  <2>1. NetTypeOK(Replies)'
    BY <1>4, NetKept DEF DrainPop
  <2>2. mclient' \in Handles /\ socket_queue' \in Seq(Handles)
    BY <1>4, PopProperties DEF TypeOK, DrainPop
  <2>3. QED
    BY <1>4, <2>1, <2>2 DEF TypeOK, LocalsOK, DrainPop, Iterating, OwnerSteps,
         Clearing, workerVars, consumerVars
<1>5. CASE DrainClose
  <2>1. NetTypeOK(Replies)'
    BY <1>5, CloseTyped DEF TypeOK, LocalsOK, DrainClose
  <2>2. QED
    BY <1>5, <2>1 DEF TypeOK, LocalsOK, DrainClose, Iterating, OwnerSteps,
         Clearing, queueVars, workerVars, consumerVars
<1>6. CASE ClearWebsocket
  <2>1. PICK h \in Elements : IF h = None THEN UNCHANGED netVars ELSE CloseHandle(h)
    BY <1>6 DEF ClearWebsocket
  <2>2. h \in Handles \cup {None}
    BY <1>6, <2>1, WalkedElement DEF ClearWebsocket
  <2>3. NetTypeOK(Replies)'
    <3>1. CASE h = None
      BY <2>1, <3>1, NetKept
    <3>2. CASE h # None
      BY <2>1, <2>2, <3>2, CloseTyped DEF TypeOK
    <3>3. QED
      BY <3>1, <3>2
  <2>4. QED
    BY <1>6, <2>3 DEF TypeOK, LocalsOK, ClearWebsocket, Iterating, queueVars,
         workerVars, consumerVars
<1>7. CASE ClearDone
  <2>1. NetTypeOK(Replies)'
    BY <1>7, NetKept DEF ClearDone
  <2>2. QED
    BY <1>7, <2>1 DEF TypeOK, LocalsOK, ClearDone, EndIteration, Iterating,
         OwnerSteps, Clearing, queueVars, workerVars, consumerVars
<1>8. CASE CloseServerSocket \/ Cleanup
  <2>1. NetTypeOK(Replies)'
    BY <1>8, CloseListenerTyped, ReleaseTyped DEF TypeOK, CloseServerSocket, Cleanup
  <2>2. QED
    BY <1>8, <2>1 DEF TypeOK, LocalsOK, CloseServerSocket, Cleanup, Iterating,
         OwnerSteps, Clearing, queueVars, workerVars, consumerVars
<1>9. QED
  BY <1>2, <1>3, <1>4, <1>5, <1>6, <1>7, <1>8 DEF Destroy

(* Every step of every actor keeps the types and the locals.               *)
LEMMA NextTInv == TInv /\ [Next]_vars => TInv'
<1>1. SUFFICES ASSUME TInv, [Next]_vars PROVE TInv'
  OBVIOUS
<1>2. CASE UNCHANGED vars
  <2>1. NetTypeOK(Replies)'
    BY <1>1, <1>2, NetKept DEF TInv, vars
  <2>2. QED
    BY <1>1, <1>2, <2>1 DEF TInv, TypeOK, LocalsOK, vars, serverVars, queueVars,
         workerVars, consumerVars, ownerVars
<1>3. CASE Next
  BY <1>1, <1>3, PeerTInv, WorkerTInv, ConsumerTInv, ReceiveTInv, DestroyTInv
  DEF Next, Owner
<1>4. QED
  BY <1>1, <1>2, <1>3

(* The types and the locals are right in every behaviour.                  *)
LEMMA TInvariance == Spec => []TInv
BY InitTInv, NextTInv, PTL DEF Spec

(* No INVALID_SOCKET is queued, no reply is built from an empty request,   *)
(* and no iteration over websocket_clients leaves its vector, in every     *)
(* interleaving of the accept threads, the consumer, the owner and the     *)
(* peers (http_server.cpp:78-100, 250-292, 333-384, 397-444).              *)
THEOREM TypeCorrect == Spec => []TypeOK
<1>1. TInv => TypeOK
  BY DEF TInv
<1>2. QED
  BY <1>1, TInvariance, PTL

-----------------------------------------------------------------------------
(* run_queue(false): nobody but the consumer closes a handle, so what      *)
(* recv_all() read stays with the connection under the client's handle.    *)
ReaderInv ==
  /\ mpc = "absent"
  /\ cpc \in {"test", "pop"} => rx = <<>>
  /\ ~aborted /\ cpc \in {"recv", "answer"} /\ rx # <<>> =>
       sock[client] # None /\ Asker(rx) = sock[client]

AInv == TInv /\ ReaderInv /\ ReplyToAsker

(* Accepting takes a free handle, so not the client's while it is open.    *)
LEMMA AcceptKeepsReader ==
  ASSUME AInv, NEW w \in Workers, AcceptClient(w)
  PROVE  ReaderInv' /\ ReplyToAsker'
<1>1. PICK h \in FreeHandles : AcceptAs(h)
  BY DEF AcceptClient
<1>2. /\ h \in Handles /\ sock[h] = None
      /\ sock' = [sock EXCEPT ![h] = Head(backlog)]
      /\ replies' = replies
  BY <1>1 DEF FreeHandles, AcceptAs
<1>3. sock \in [Handles -> Conns \cup {None}]
  BY DEF AInv, TInv, TypeOK, NetTypeOK
<1>4. \A g \in Handles : sock[g] # None => sock'[g] = sock[g]
  BY <1>2, <1>3
<1>5. cpc \in {"recv", "answer"} => client \in Handles
  BY DEF AInv, TInv, LocalsOK
<1>6. ReaderInv'
  BY <1>4, <1>5 DEF AInv, ReaderInv, AcceptClient, consumerVars, ownerVars, Asker
<1>7. ReplyToAsker'
  BY <1>2 DEF AInv, ReplyToAsker
<1>8. QED
  BY <1>6, <1>7

(* A piece read is appended behind the first, which came from the same     *)
(* connection.                                                             *)
LEMMA ReadKeepsReader ==
  ASSUME AInv, RecvPiece
  PROVE  ReaderInv' /\ ReplyToAsker'
<1>1. client \in Handles /\ Readable(client) /\ cpc = "recv"
  BY DEF AInv, TInv, LocalsOK, RecvPiece
<1>2. /\ NextPiece(client) \in Conns \X Pieces
      /\ NextPiece(client)[1] = sock[client]
      /\ sock[client] # None
  BY <1>1, PieceTyped DEF AInv, TInv, TypeOK, Readable
<1>3. rx \in Seq(Conns \X Pieces) /\ rx' = Append(rx, NextPiece(client))
  BY DEF AInv, TInv, TypeOK, RecvPiece
<1>4. Asker(rx') = sock[client]
  <2>1. CASE rx = <<>>
    <3>1. rx' = <<NextPiece(client)>>
      BY <1>3, <2>1
    <3>2. QED
      BY <1>2, <3>1 DEF Asker
  <2>2. CASE rx # <<>>
    <3>1. 1 \in 1..Len(rx)
      BY <1>3, <2>2, EmptySeq
    <3>2. rx'[1] = rx[1]
      BY <1>2, <1>3, <3>1, AppendProperties
    <3>3. Asker(rx) = sock[client]
      BY <1>1, <2>2 DEF AInv, ReaderInv, RecvPiece, Running
    <3>4. QED
      BY <3>2, <3>3 DEF Asker
  <2>3. QED
    BY <2>1, <2>2
<1>5. sock' = sock /\ replies' = replies /\ client' = client /\ cpc' = cpc /\ mpc' = mpc
  BY DEF RecvPiece, RecvFrom, ownerVars
<1>6. ReaderInv'
  BY <1>1, <1>2, <1>4, <1>5 DEF AInv, ReaderInv, Asker
<1>7. ReplyToAsker'
  BY <1>5 DEF AInv, ReplyToAsker
<1>8. QED
  BY <1>6, <1>7

(* The answer is sent on the handle its bytes were read from.              *)
LEMMA AnswerKeepsReader ==
  ASSUME AInv, Answer
  PROVE  ReaderInv' /\ ReplyToAsker'
<1>0. PICK taken \in BOOLEAN :
        SendOn(client, [of |-> Asker(rx), status |-> Status(rx), whole |-> HasAll(rx),
                        taken |-> taken])
  BY Zenon DEF Answer
<1> DEFINE r == [of |-> Asker(rx), status |-> Status(rx), whole |-> HasAll(rx),
                 taken |-> taken]
<1>1. cpc = "answer" /\ rx # <<>> /\ client \in Handles
  BY DEF AInv, TInv, LocalsOK, Answer
<1>2. sock[client] # None /\ Asker(rx) = sock[client]
  BY <1>1 DEF AInv, ReaderInv, Answer, Running
<1>3. sock[client] \in Conns
  BY <1>1, <1>2 DEF AInv, TInv, TypeOK, NetTypeOK
<1>4. r.of = sock[client]
  BY <1>2
<1>5. replies' = [replies EXCEPT ![sock[client]] = Append(@, r)]
  BY <1>0, <1>2 DEF SendOn
<1>6. ReplyToAsker'
  <2> HIDE DEF r
  <2>1. SUFFICES ASSUME NEW c \in Conns, NEW i \in 1..Len(replies'[c])
                 PROVE  replies'[c][i].of = c
    BY DEF ReplyToAsker
  <2>2. replies \in [Conns -> Seq(Replies)]
    BY DEF AInv, TInv, TypeOK, NetTypeOK
  <2>3. CASE c # sock[client]
    <3>1. replies'[c] = replies[c]
      BY <1>3, <1>5, <2>2, <2>3
    <3>2. QED
      BY <2>1, <3>1 DEF AInv, ReplyToAsker
  <2>4. CASE c = sock[client]
    <3>1. replies'[c] = Append(replies[c], r) /\ replies[c] \in Seq(Replies)
      BY <1>3, <1>5, <2>2, <2>4
    <3>2. CASE i = Len(replies[c]) + 1
      <4>1. replies'[c][i] = r
        BY <3>1, <3>2
      <4>2. QED
        BY <1>4, <2>4, <4>1
    <3>3. CASE i # Len(replies[c]) + 1
      <4>1. i \in 1..Len(replies[c]) /\ replies'[c][i] = replies[c][i]
        BY <2>1, <3>1, <3>3, LenProperties
      <4>2. QED
        BY <4>1 DEF AInv, ReplyToAsker
    <3>4. QED
      BY <3>2, <3>3
  <2>5. QED
    BY <2>3, <2>4
<1>7. cpc' \in {"keep", "close"} /\ mpc' = mpc
  BY DEF Answer, ownerVars
<1>8. ReaderInv'
  BY <1>7 DEF AInv, ReaderInv
<1>9. QED
  BY <1>6, <1>8

(* Every step keeps answers with their askers while no owner is there.     *)
LEMMA NextAInv ==
  ASSUME AInv, [Next]_vars
  PROVE  AInv'
<1>1. TInv'
  BY NextTInv DEF AInv
<1>2. ReaderInv' /\ ReplyToAsker'
  <2>1. CASE UNCHANGED vars
    BY <2>1 DEF AInv, ReaderInv, ReplyToAsker, Asker, vars, netVars, serverVars,
               consumerVars, ownerVars
  <2>2. ASSUME NEW c \in Conns, Peer(c)
        PROVE  ReaderInv' /\ ReplyToAsker'
    BY <2>2 DEF AInv, ReaderInv, ReplyToAsker, Asker, Peer, PeerConnects, PeerSends,
               Connect, Arrive, serverVars, consumerVars, ownerVars
  <2>3. ASSUME NEW w \in Workers, Worker(w)
        PROVE  ReaderInv' /\ ReplyToAsker'
    <3>1. CASE AcceptNobody(w) \/ PushClient(w)
      BY <3>1 DEF AInv, ReaderInv, ReplyToAsker, Asker, AcceptNobody, PushClient,
                 netVars, consumerVars, ownerVars
    <3>2. QED
      BY <2>3, <3>1, AcceptKeepsReader DEF Worker
  <2>4. CASE Consumer
    <3>1. CASE StartAccept \/ ConsumerStops \/ PopNothing \/ PopClient \/ RecvDone
      BY <3>1 DEF AInv, ReaderInv, ReplyToAsker, Asker, StartAccept, ConsumerStops,
                 PopNothing, PopClient, RecvDone, netVars, ownerVars
    <3>2. CASE NothingRead \/ KeepClient \/ CloseClient
      BY <3>2 DEF AInv, ReaderInv, ReplyToAsker, NothingRead, KeepClient,
                 CloseClient, Consumed, CloseHandle, netVars, ownerVars
    <3>3. CASE HandlerThrows
      BY <3>3 DEF AInv, ReaderInv, ReplyToAsker, HandlerThrows, ReleaseAll,
                 consumerVars, ownerVars
    <3>4. QED
      BY <2>4, <3>1, <3>2, <3>3, ReadKeepsReader, AnswerKeepsReader DEF Consumer
  <2>5. CASE Owner
    <3>1. mpc = "absent"
      BY DEF AInv, ReaderInv
    <3>2. QED
      BY <2>5, <3>1 DEF Owner, PressF2, StartReceive, Receive, NextWebsocket,
           RecvFrame, FrameDone, FrameUnmasked, FrameRead, CloseWebsocket,
           ReceiveDone, Destroy, Leave, DrainMore, DrainEmpty, DrainNothing,
           DrainPop, DrainClose, ClearWebsocket, ClearDone, CloseServerSocket,
           Cleanup
  <2>6. QED
    BY <2>1, <2>2, <2>3, <2>4, <2>5 DEF Next
<1>3. QED
  BY <1>1, <1>2 DEF AInv

(* On a server that runs run_queue() on its owner's thread, an answer      *)
(* reaches only the connection whose bytes it answers, although handles    *)
(* are reused and pop() hands one out several times                        *)
(* (http_server.cpp:250-292, 338-357).                                     *)
THEOREM RepliesReachTheAsker ==
  ASSUME RunOnThread = FALSE
  PROVE  Spec => []ReplyToAsker
<1>1. Init => AInv
  <2>1. ASSUME Init PROVE ReaderInv /\ ReplyToAsker
    <3>1. \A c \in Conns : replies[c] = <<>> /\ Len(replies[c]) = 0
      BY <2>1, EmptySeq DEF Init, NetInit
    <3>2. QED
      BY <2>1, <3>1 DEF Init, ReaderInv, ReplyToAsker
  <2>2. QED
    BY <2>1, InitTInv DEF AInv
<1>2. AInv /\ [Next]_vars => AInv'
  BY NextAInv
<1>3. AInv => ReplyToAsker
  BY DEF AInv
<1>4. QED
  BY <1>1, <1>2, <1>3, PTL DEF Spec

-----------------------------------------------------------------------------
(* Where a connection is.                                                  *)

(* A connection is open under one handle at most, or waits in one place of *)
(* the backlog, or has ended.                                              *)
PlacesInv ==
  /\ ended \subseteq joined
  /\ \A h \in Handles : sock[h] # None => sock[h] \in joined \ ended
  /\ \A g, h \in Handles : sock[g] # None /\ sock[g] = sock[h] => g = h
  /\ \A i \in 1..Len(backlog) :
       /\ backlog[i] \in joined \ ended
       /\ \A h \in Handles : sock[h] # backlog[i]
       /\ \A j \in 1..Len(backlog) : backlog[i] = backlog[j] => i = j

PInv == TInv /\ PlacesInv

(* accept() takes the first of the backlog out of it.                      *)
LEMMA AcceptPlaces ==
  ASSUME PInv, NEW w \in Workers, AcceptClient(w)
  PROVE  PlacesInv'
<1>1. PICK g \in FreeHandles : AcceptAs(g)
  BY DEF AcceptClient
<1>2. sock \in [Handles -> Conns \cup {None}] /\ backlog \in Seq(Conns) /\ backlog # <<>>
      /\ g \in Handles /\ sock[g] = None
  BY <1>1 DEF PInv, TInv, TypeOK, NetTypeOK, AcceptClient, CanAccept, FreeHandles
<1>3. /\ Len(backlog) \in Nat \ {0}
      /\ Len(backlog') = Len(backlog) - 1
      /\ \A i \in 1..Len(backlog') : i + 1 \in 1..Len(backlog) /\ backlog'[i] = backlog[i + 1]
  <2>1. backlog' = Tail(backlog)
    BY <1>1 DEF AcceptAs
  <2>2. Len(backlog) \in Nat \ {0}
    BY <1>2, EmptySeq, LenProperties
  <2>3. Len(Tail(backlog)) = Len(backlog) - 1
        /\ \A i \in 1..Len(Tail(backlog)) : Tail(backlog)[i] = backlog[i + 1]
    BY <1>2, HeadTailProperties
  <2>4. QED
    BY <2>1, <2>2, <2>3
<1>4. 1 \in 1..Len(backlog) /\ Head(backlog) = backlog[1]
  BY <1>2, <1>3
<1>5. Head(backlog) \in Conns /\ Head(backlog) # None
  BY <1>2, <1>4, ElementOfSeq, NoneIsNoConn
<1>6. \A h \in Handles : sock'[h] = IF h = g THEN Head(backlog) ELSE sock[h]
  BY <1>1, <1>2 DEF AcceptAs
<1>7. joined' = joined /\ ended' = ended /\ replies' = replies
  BY <1>1 DEF AcceptAs
<1>8. Head(backlog) \in joined \ ended /\ \A h \in Handles : sock[h] # Head(backlog)
  BY <1>4 DEF PInv, PlacesInv
<1>9. (ended \subseteq joined)'
      /\ (\A h \in Handles : sock[h] # None => sock[h] \in joined \ ended)'
  BY <1>6, <1>7, <1>8 DEF PInv, PlacesInv
<1>10. (\A a, h \in Handles : sock[a] # None /\ sock[a] = sock[h] => a = h)'
  BY <1>5, <1>6, <1>8 DEF PInv, PlacesInv
<1>11. ASSUME NEW i \in 1..Len(backlog')
       PROVE  /\ backlog'[i] \in joined' \ ended'
              /\ \A h \in Handles : sock'[h] # backlog'[i]
              /\ \A j \in 1..Len(backlog') : backlog'[i] = backlog'[j] => i = j
  <2>1. i \in Nat \ {0} /\ i + 1 \in 1..Len(backlog) /\ i + 1 # 1
        /\ backlog'[i] = backlog[i + 1]
    BY <1>3
  <2>2. backlog[i + 1] # Head(backlog)
    BY <1>4, <2>1 DEF PInv, PlacesInv
  <2>3. backlog'[i] \in joined' \ ended' /\ \A h \in Handles : sock'[h] # backlog'[i]
    BY <1>6, <1>7, <2>1, <2>2 DEF PInv, PlacesInv
  <2>4. ASSUME NEW j \in 1..Len(backlog'), backlog'[i] = backlog'[j]
        PROVE  i = j
    <3>1. j + 1 \in 1..Len(backlog) /\ backlog[i + 1] = backlog[j + 1]
      BY <1>3, <2>1, <2>4
    <3>2. i + 1 = j + 1
      BY <2>1, <3>1 DEF PInv, PlacesInv
    <3>3. QED
      BY <1>3, <2>1, <3>2
  <2>5. QED
    BY <2>3, <2>4
<1>12. QED
  BY <1>9, <1>10, <1>11 DEF PlacesInv

(* A peer that connects is new to the backlog.                             *)
LEMMA ConnectPlaces ==
  ASSUME PInv, NEW c \in Conns, PeerConnects(c)
  PROVE  PlacesInv'
<1>1. /\ c \notin joined
      /\ joined' = joined \cup {c}
      /\ backlog' = Append(backlog, c)
      /\ UNCHANGED <<sock, ended>>
  BY DEF PeerConnects, Connect
<1>2. backlog \in Seq(Conns)
  BY DEF PInv, TInv, TypeOK, NetTypeOK
<1>3. /\ Len(backlog) \in Nat
      /\ Len(backlog') = Len(backlog) + 1
      /\ \A i \in 1..Len(backlog) : backlog'[i] = backlog[i]
      /\ backlog'[Len(backlog) + 1] = c
  BY <1>1, <1>2, AppendProperties, LenProperties
<1>4. c # None /\ c \notin ended /\ \A h \in Handles : sock[h] # c
  BY <1>1, NoneIsNoConn DEF PInv, PlacesInv
<1>5. \A i \in 1..Len(backlog) : backlog[i] # c
  BY <1>1 DEF PInv, PlacesInv
<1>6. ASSUME NEW i \in 1..Len(backlog')
      PROVE  /\ backlog'[i] \in joined' \ ended'
             /\ \A h \in Handles : sock'[h] # backlog'[i]
             /\ \A j \in 1..Len(backlog') : backlog'[i] = backlog'[j] => i = j
  <2>1. CASE i = Len(backlog) + 1
    <3>1. backlog'[i] = c
      BY <1>3, <2>1
    <3>2. \A j \in 1..Len(backlog') : j # i => j \in 1..Len(backlog)
      BY <1>3, <2>1
    <3>3. QED
      BY <1>1, <1>3, <1>4, <1>5, <3>1, <3>2
  <2>2. CASE i # Len(backlog) + 1
    <3>1. i \in 1..Len(backlog) /\ backlog'[i] = backlog[i]
      BY <1>3, <2>2
    <3>2. \A j \in 1..Len(backlog') : j \in 1..Len(backlog) \/ j = Len(backlog) + 1
      BY <1>3
    <3>3. \A j \in 1..Len(backlog') : backlog'[i] = backlog'[j] => i = j
      BY <1>3, <1>5, <3>1, <3>2 DEF PInv, PlacesInv
    <3>4. QED
      BY <1>1, <3>1, <3>3 DEF PInv, PlacesInv
  <2>3. QED
    BY <2>1, <2>2
<1>7. QED
  BY <1>1, <1>6 DEF PInv, PlacesInv

(* closesocket() ends the connection that was open, if any.                *)
LEMMA ClosePlaces ==
  ASSUME PInv, NEW g \in Handles, CloseHandle(g)
  PROVE  PlacesInv'
<1>1. sock \in [Handles -> Conns \cup {None}] /\ backlog \in Seq(Conns)
  BY DEF PInv, TInv, TypeOK, NetTypeOK
<1>2. /\ \A h \in Handles : sock'[h] = IF h = g THEN None ELSE sock[h]
      /\ ended' = IF sock[g] = None THEN ended ELSE ended \cup {sock[g]}
      /\ UNCHANGED <<joined, backlog>>
  BY <1>1 DEF CloseHandle
<1>3. \A i \in 1..Len(backlog) : backlog[i] # None /\ backlog[i] # sock[g]
  BY <1>1, ElementOfSeq, NoneIsNoConn DEF PInv, PlacesInv
<1>4. \A h \in Handles : sock'[h] # None => h # g /\ sock'[h] = sock[h] /\ sock[h] # sock[g]
  BY <1>2 DEF PInv, PlacesInv
<1>5. (ended \subseteq joined)'
      /\ (\A h \in Handles : sock[h] # None => sock[h] \in joined \ ended)'
  BY <1>2, <1>4 DEF PInv, PlacesInv
<1>6. (\A a, h \in Handles : sock[a] # None /\ sock[a] = sock[h] => a = h)'
  BY <1>2, <1>4 DEF PInv, PlacesInv
<1>7. QED
  BY <1>2, <1>3, <1>5, <1>6 DEF PInv, PlacesInv

(* So does the end of the listening socket for those in its backlog, and   *)
(* the end of the process for all.                                         *)
LEMMA EndPlaces ==
  ASSUME PInv, CloseListener \/ ReleaseAll
  PROVE  PlacesInv'
<1>1. Len(backlog') = 0 /\ joined' = joined
  BY EmptySeq DEF CloseListener, ReleaseAll
<1>2. CASE CloseListener
  <2>1. sock' = sock /\ ended' = ended \cup {backlog[i] : i \in 1..Len(backlog)}
    BY <1>2 DEF CloseListener
  <2>2. {backlog[i] : i \in 1..Len(backlog)} \subseteq joined
    BY DEF PInv, PlacesInv
  <2>3. QED
    BY <1>1, <2>1, <2>2 DEF PInv, PlacesInv
<1>3. CASE ReleaseAll
  <2>1. ended' = joined /\ \A h \in Handles : sock'[h] = None
    BY <1>3 DEF ReleaseAll
  <2>2. QED
    BY <1>1, <2>1 DEF PlacesInv
<1>4. QED
  BY <1>2, <1>3

(* No connection moves and nothing is sent.                                *)
Quiet == UNCHANGED <<joined, backlog, sock, ended, replies>>

(* The owner closes sockets, and opens none.                               *)
LEMMA OwnerNet ==
  ASSUME TInv, Owner
  PROVE  \/ Quiet
         \/ replies' = replies /\ \E h \in Handles : CloseHandle(h)
         \/ CloseListener \/ ReleaseAll
<1>1. CASE CloseWebsocket
  BY <1>1 DEF CloseWebsocket, CloseHandle, TInv, LocalsOK
<1>2. CASE DrainClose
  BY <1>2 DEF DrainClose, CloseHandle, TInv, LocalsOK
<1>3. CASE ClearWebsocket
  <2>1. PICK h \in Elements : IF h = None THEN UNCHANGED netVars ELSE CloseHandle(h)
    BY <1>3 DEF ClearWebsocket
  <2>2. h \in Handles \cup {None}
    BY <1>3, <2>1, WalkedElement DEF ClearWebsocket
  <2>3. CASE h = None
    BY <2>1, <2>3 DEF netVars, Quiet
  <2>4. CASE h # None
    <3>1. h \in Handles /\ CloseHandle(h)
      BY <2>1, <2>2, <2>4
    <3>2. replies' = replies
      BY <3>1 DEF CloseHandle
    <3>3. QED
      BY <3>1, <3>2
  <2>5. QED
    BY <2>3, <2>4
<1>4. CASE CloseServerSocket \/ Cleanup
  BY <1>4 DEF CloseServerSocket, Cleanup
<1>5. QED
  BY <1>1, <1>2, <1>3, <1>4 DEF Owner, PressF2, StartReceive, Receive,
       NextWebsocket, RecvFrame, FrameDone, FrameUnmasked, ReceiveDone, Destroy,
       Leave, DrainMore, DrainEmpty, DrainNothing, DrainPop, ClearDone, RecvFrom,
       netVars, Quiet

(* The steps that are not quiet, by what they do to the network.           *)
LEMMA QuietSteps ==
  ASSUME TInv, [Next]_vars
  PROVE  \/ Quiet
         \/ \E c \in Conns : PeerConnects(c)
         \/ \E w \in Workers : AcceptClient(w)
         \/ Answer
         \/ replies' = replies /\ \E h \in Handles : CloseHandle(h)
         \/ CloseListener \/ ReleaseAll
<1>1. CASE UNCHANGED vars
  BY <1>1 DEF vars, netVars, Quiet
<1>2. ASSUME NEW c \in Conns, Peer(c), ~PeerConnects(c)
      PROVE  Quiet
  BY <1>2 DEF Peer, PeerSends, Arrive, Quiet
<1>3. ASSUME NEW w \in Workers, Worker(w), ~AcceptClient(w)
      PROVE  Quiet
  BY <1>3 DEF Worker, AcceptNobody, PushClient, netVars, Quiet
<1>4. CASE Consumer
  <2>1. CASE CloseClient
    BY <2>1 DEF CloseClient, CloseHandle, TInv, LocalsOK
  <2>2. CASE HandlerThrows
    BY <2>2 DEF HandlerThrows
  <2>3. QED
    BY <1>4, <2>1, <2>2 DEF Consumer, StartAccept, ConsumerStops, PopNothing, PopClient,
         RecvPiece, RecvDone, NothingRead, KeepClient, RecvFrom, netVars, Quiet
<1>5. CASE Owner
  BY <1>5, OwnerNet
<1>6. QED
  BY <1>1, <1>2, <1>3, <1>4, <1>5 DEF Next

(* Every step of every actor keeps a connection in one place.              *)
LEMMA NextPInv == PInv /\ [Next]_vars => PInv'
<1>1. SUFFICES ASSUME PInv, [Next]_vars PROVE PlacesInv'
  BY NextTInv DEF PInv
<1>2. CASE Quiet \/ Answer
  <2>1. UNCHANGED <<joined, backlog, sock, ended>>
    BY <1>2 DEF Quiet, Answer, SendOn
  <2>2. QED
    BY <1>1, <2>1 DEF PInv, PlacesInv
<1>3. QED
  BY <1>1, <1>2, QuietSteps, AcceptPlaces, ConnectPlaces, ClosePlaces, EndPlaces DEF PInv

LEMMA InitPInv == Init => PInv
<1>1. SUFFICES ASSUME Init PROVE PlacesInv
  BY InitTInv DEF PInv
<1>2. Len(backlog) = 0 /\ joined = {} /\ ended = {} /\ \A h \in Handles : sock[h] = None
  BY <1>1, EmptySeq DEF Init, NetInit
<1>3. QED
  BY <1>2 DEF PlacesInv

-----------------------------------------------------------------------------
(* What clear() finds of the clients that were answered.                   *)

(* A connection is answered while it is open.                              *)
AnsweredInv ==
  \A c \in Conns : replies[c] # <<>> => c \in ended \/ \E h \in Handles : sock[h] = c

(* The consumer has the client between send_all() and what follows it.     *)
InHand(h) == client = h /\ cpc \in {"keep", "close"}

(* The client is where clear()'s loop has yet to come.                     *)
NextElement == IF mpc = "clearws" THEN mi ELSE 1
Kept(h) == \E i \in NextElement..Len(websocket_clients) : websocket_clients[i] = h

KeptInv ==
  /\ mpc = "clearws" => mi <= mend + 1
  /\ mpc \notin {"listener", "cleanup", "destroyed"} /\ ~(mpc = "clearws" /\ torn) =>
       \A h \in Handles : sock[h] # None /\ replies[sock[h]] # <<>> => InHand(h) \/ Kept(h)

KInv == PInv /\ AnsweredInv /\ KeptInv

(* An answered connection is not in the backlog.                           *)
LEMMA AcceptKeepsKept ==
  ASSUME KInv, NEW w \in Workers, AcceptClient(w)
  PROVE  AnsweredInv' /\ KeptInv'
<1>1. PICK g \in FreeHandles : AcceptAs(g)
  BY DEF AcceptClient
<1>2. sock \in [Handles -> Conns \cup {None}] /\ backlog \in Seq(Conns) /\ backlog # <<>>
      /\ g \in Handles /\ sock[g] = None
  BY <1>1 DEF KInv, PInv, TInv, TypeOK, NetTypeOK, AcceptClient, CanAccept, FreeHandles
<1>3. 1 \in 1..Len(backlog) /\ Head(backlog) = backlog[1]
  BY <1>2, EmptySeq, LenProperties
<1>4. Head(backlog) \in Conns /\ replies[Head(backlog)] = <<>>
  BY <1>2, <1>3, ElementOfSeq DEF KInv, PInv, PlacesInv, AnsweredInv
<1>5. /\ \A h \in Handles : sock'[h] = IF h = g THEN Head(backlog) ELSE sock[h]
      /\ ended' = ended /\ replies' = replies
  BY <1>1, <1>2 DEF AcceptAs
<1>6. UNCHANGED <<websocket_clients, cpc, client, mpc, mi, mend, torn>>
  BY DEF AcceptClient, queueVars, consumerVars, ownerVars
<1>7. AnsweredInv'
  BY <1>2, <1>5, NoneIsNoConn DEF KInv, AnsweredInv
<1>8. KeptInv'
  BY <1>4, <1>5, <1>6 DEF KInv, KeptInv, InHand, Kept, NextElement
<1>9. QED
  BY <1>7, <1>8

(* What is sent goes to the client the consumer has in its hands.          *)
LEMMA AnswerKeepsKept ==
  ASSUME KInv, Answer
  PROVE  AnsweredInv' /\ KeptInv'
<1>1. client \in Handles /\ sock \in [Handles -> Conns \cup {None}]
      /\ replies \in [Conns -> Seq(Replies)]
  BY DEF KInv, PInv, TInv, TypeOK, NetTypeOK, LocalsOK, Answer
<1>2. /\ cpc = "answer" /\ cpc' \in {"keep", "close"} /\ client' = client
      /\ UNCHANGED <<websocket_clients, mpc, mi, mend, torn, sock, ended>>
  BY DEF Answer, SendOn, queueVars, ownerVars
<1>3. \A c \in Conns : c # sock[client] => replies'[c] = replies[c]
  BY <1>1 DEF Answer, SendOn
<1>4. AnsweredInv'
  BY <1>1, <1>2, <1>3 DEF KInv, AnsweredInv
<1>5. \A h \in Handles : Kept(h)' = Kept(h) /\ ~InHand(h)
  BY <1>2 DEF Kept, NextElement, InHand
<1>6. InHand(client)'
  BY <1>2 DEF InHand
<1>7. \A h \in Handles : sock[h] # None /\ h # client => replies'[sock[h]] = replies[sock[h]]
  BY <1>1, <1>3 DEF KInv, PInv, PlacesInv
<1>8. KeptInv'
  BY <1>2, <1>5, <1>6, <1>7 DEF KInv, KeptInv
<1>9. QED
  BY <1>4, <1>8

(* The other steps of the consumer hand its client over or close it.       *)
LEMMA ConsumerKeepsKept ==
  ASSUME KInv, Consumer, ~Answer
  PROVE  AnsweredInv' /\ KeptInv'
<1>1. sock \in [Handles -> Conns \cup {None}] /\ websocket_clients \in Seq(Handles)
      /\ Len(websocket_clients) \in Nat /\ mi \in Nat /\ mend \in Nat
  BY LenProperties DEF KInv, PInv, TInv, TypeOK, NetTypeOK
<1>2. CASE StartAccept \/ ConsumerStops \/ PopNothing \/ PopClient \/ RecvPiece
             \/ RecvDone \/ NothingRead
  <2>1. /\ UNCHANGED <<sock, ended, replies, websocket_clients, mpc, mi, mend, torn>>
        /\ cpc \notin {"keep", "close"}
    BY <1>2 DEF StartAccept, ConsumerStops, PopNothing, PopClient, RecvPiece, RecvDone,
         NothingRead, RecvFrom, netVars, queueVars, ownerVars
  <2>2. QED
    BY <2>1 DEF KInv, AnsweredInv, KeptInv, InHand, Kept, NextElement
<1>3. CASE HandlerThrows
  <2>1. /\ ended' = joined /\ replies' = replies /\ \A h \in Handles : sock'[h] = None
        /\ UNCHANGED <<mpc, mi, mend>>
    BY <1>3 DEF HandlerThrows, ReleaseAll, ownerVars
  <2>2. AnsweredInv'
    BY <2>1, NoneIsNoConn DEF KInv, PInv, PlacesInv, AnsweredInv
  <2>3. KeptInv'
    BY <2>1 DEF KInv, KeptInv
  <2>4. QED
    BY <2>2, <2>3
<1>4. CASE KeepClient
  <2>1. /\ UNCHANGED <<sock, ended, replies, mpc, mi, mend>>
        /\ torn' \in {torn, TRUE} /\ cpc = "keep"
        /\ websocket_clients' = Append(websocket_clients, client)
    BY <1>4 DEF KeepClient, netVars
  <2>2. client \in Handles
    BY <2>1 DEF KInv, PInv, TInv, LocalsOK
  <2>3. /\ Len(websocket_clients') = Len(websocket_clients) + 1
        /\ \A i \in 1..Len(websocket_clients) : websocket_clients'[i] = websocket_clients[i]
        /\ websocket_clients'[Len(websocket_clients) + 1] = client
    BY <1>1, <2>1, <2>2, AppendProperties
  <2>4. /\ NextElement' = NextElement /\ NextElement \in Nat
        /\ NextElement <= Len(websocket_clients) + 1
        /\ NextElement >= 1
    BY <1>1, <2>1 DEF NextElement, KInv, KeptInv, PInv, TInv, LocalsOK, Iterating
  <2>5. ASSUME NEW h \in Handles, Kept(h) \/ h = client
        PROVE  Kept(h)'
    <3>1. CASE h = client
      <4>1. Len(websocket_clients) + 1 \in NextElement..Len(websocket_clients')
        BY <1>1, <2>3, <2>4
      <4>2. QED
        BY <2>3, <2>4, <3>1, <4>1 DEF Kept
    <3>2. CASE Kept(h)
      <4>1. PICK i \in NextElement..Len(websocket_clients) : websocket_clients[i] = h
        BY <3>2 DEF Kept
      <4>2. i \in 1..Len(websocket_clients) /\ i \in NextElement..Len(websocket_clients')
        BY <1>1, <2>3, <2>4, <4>1
      <4>3. QED
        BY <2>3, <2>4, <4>1, <4>2 DEF Kept
    <3>3. QED
      BY <2>5, <3>1, <3>2
  <2>6. ~(mpc' = "clearws" /\ torn') => ~(mpc = "clearws" /\ torn)
    BY <2>1
  <2>7. KeptInv'
    <3>1. ASSUME mpc \notin {"listener", "cleanup", "destroyed"}, ~(mpc = "clearws" /\ torn'),
                 NEW h \in Handles, sock[h] # None, replies[sock[h]] # <<>>
          PROVE  Kept(h)'
      <4>1. Kept(h) \/ h = client
        BY <2>1, <2>6, <3>1 DEF KInv, KeptInv, InHand
      <4>2. QED
        BY <2>5, <4>1
    <3>2. mpc' = "clearws" => mi' <= mend' + 1
      BY <2>1 DEF KInv, KeptInv
    <3>3. QED
      BY <2>1, <3>1, <3>2 DEF KeptInv
  <2>8. QED
    BY <2>1, <2>7 DEF KInv, AnsweredInv
<1>5. CASE CloseClient
  <2>1. CloseHandle(client) /\ client \in Handles
        /\ UNCHANGED <<websocket_clients, mpc, mi, mend, torn>>
    BY <1>5 DEF CloseClient, queueVars, ownerVars, KInv, PInv, TInv, LocalsOK
  <2>2. AnsweredInv'
    BY <1>1, <2>1, NoneIsNoConn DEF KInv, AnsweredInv, CloseHandle
  <2>3. /\ replies' = replies
        /\ \A h \in Handles : sock'[h] = IF h = client THEN None ELSE sock[h]
    BY <1>1, <2>1 DEF CloseHandle
  <2>4. KeptInv'
    BY <2>1, <2>3 DEF KInv, KeptInv, InHand, Kept, NextElement
  <2>5. QED
    BY <2>2, <2>4
<1>6. QED
  BY <1>2, <1>3, <1>4, <1>5 DEF Consumer

(* The owner opens nothing, and clear()'s loop leaves an element behind    *)
(* only when it has closed it.                                             *)
LEMMA OwnerKeepsKept ==
  ASSUME KInv, Owner
  PROVE  AnsweredInv' /\ KeptInv'
<1>1. sock \in [Handles -> Conns \cup {None}] /\ websocket_clients \in Seq(Handles)
      /\ Len(websocket_clients) \in Nat /\ mi \in Nat /\ mend \in Nat
  BY LenProperties DEF KInv, PInv, TInv, TypeOK, NetTypeOK
<1>2. UNCHANGED <<websocket_clients, cpc, client>>
  BY DEF Owner, PressF2, StartReceive, Receive, NextWebsocket, RecvFrame, FrameDone,
       FrameUnmasked, CloseWebsocket, ReceiveDone, Destroy, Leave, DrainMore,
       DrainEmpty, DrainNothing, DrainPop, DrainClose, ClearWebsocket, ClearDone,
       CloseServerSocket, Cleanup, consumerVars, queueVars
<1>3. /\ replies' = replies /\ AnsweredInv'
      /\ \A h \in Handles : sock'[h] # None => sock'[h] = sock[h]
  <2>1. CASE Quiet
    BY <2>1 DEF Quiet, KInv, AnsweredInv
  <2>2. CASE replies' = replies /\ \E h \in Handles : CloseHandle(h)
    BY <1>1, <2>2, NoneIsNoConn DEF KInv, AnsweredInv, CloseHandle
  <2>3. CASE CloseListener
    BY <2>3 DEF CloseListener, KInv, AnsweredInv
  <2>4. CASE ReleaseAll
    BY <2>4, NoneIsNoConn DEF ReleaseAll, KInv, PInv, PlacesInv, AnsweredInv
  <2>5. QED
    BY <2>1, <2>2, <2>3, <2>4, OwnerNet DEF KInv, PInv
<1>4. CASE ClearWebsocket
  <2>1. /\ mpc = "clearws" /\ mi <= mend /\ mi' = mi + 1
        /\ UNCHANGED <<mpc, mend, torn>>
    BY <1>4 DEF ClearWebsocket
  <2>2. ASSUME ~torn, NEW h \in Handles, sock'[h] # None, replies'[sock'[h]] # <<>>, ~InHand(h)'
        PROVE  Kept(h)'
    <3>1. sock[h] # None /\ replies[sock[h]] # <<>> /\ ~InHand(h)
      BY <1>2, <1>3, <2>2 DEF InHand
    <3>2. PICK i \in mi..Len(websocket_clients) : websocket_clients[i] = h
      BY <2>1, <2>2, <3>1 DEF KInv, KeptInv, Kept, NextElement
    <3>3. websocket_clients[mi] \in Handles /\ websocket_clients[mi] # None
      <4>1. mi \in 1..Len(websocket_clients)
        BY <2>1, WalkedElement DEF KInv, PInv, Elements
      <4>2. QED
        BY <1>1, <4>1, ElementOfSeq, NoneIsNoHandle
    <3>4. CloseHandle(websocket_clients[mi])
      BY <1>4, <2>2, <3>3 DEF ClearWebsocket, Elements
    <3>5. sock'[websocket_clients[mi]] = None
      BY <1>1, <3>3, <3>4 DEF CloseHandle
    <3>6. i \in mi + 1..Len(websocket_clients)
      BY <1>1, <2>2, <3>2, <3>5
    <3>7. QED
      BY <1>2, <2>1, <3>2, <3>6 DEF Kept, NextElement
  <2>3. mi' <= mend' + 1
    BY <1>1, <2>1
  <2>4. KeptInv'
    BY <2>1, <2>2, <2>3 DEF KeptInv
  <2>5. QED
    BY <1>3, <2>4
<1>5. CASE DrainEmpty
  <2>1. mpc = "drain" /\ mpc' = "clearws" /\ mi' = 1 /\ mend' = Len(websocket_clients)
    BY <1>5 DEF DrainEmpty, BeginIteration
  <2>2. \A h \in Handles : InHand(h)' = InHand(h) /\ Kept(h)' = Kept(h)
    BY <1>2, <2>1 DEF InHand, Kept, NextElement
  <2>3. mi' <= mend' + 1
    BY <1>1, <2>1
  <2>4. KeptInv'
    BY <1>3, <2>1, <2>2, <2>3 DEF KInv, KeptInv
  <2>5. QED
    BY <1>3, <2>4
<1>6. CASE ~ClearWebsocket /\ ~DrainEmpty
  <2>1. \/ mpc' \in {"listener", "cleanup", "destroyed"}
        \/ mpc' # "clearws" /\ mpc \notin {"clearws", "listener", "cleanup", "destroyed"}
    BY <1>6 DEF Owner, PressF2, StartReceive, Receive, NextWebsocket, RecvFrame,
         FrameDone, FrameUnmasked, FrameRead, CloseWebsocket, ReceiveDone, Destroy, Leave,
         DrainMore, DrainNothing, DrainPop, DrainClose, ClearDone, CloseServerSocket, Cleanup
  <2>2. CASE mpc' \in {"listener", "cleanup", "destroyed"}
    BY <1>3, <2>2 DEF KeptInv
  <2>3. CASE mpc' # "clearws" /\ mpc \notin {"clearws", "listener", "cleanup", "destroyed"}
    <3>1. \A h \in Handles : InHand(h)' = InHand(h) /\ Kept(h)' = Kept(h)
      BY <1>2, <2>3 DEF InHand, Kept, NextElement
    <3>2. QED
      BY <1>3, <2>3, <3>1 DEF KInv, KeptInv
  <2>4. QED
    BY <2>1, <2>2, <2>3
<1>7. QED
  BY <1>4, <1>5, <1>6

LEMMA NextKInv == KInv /\ [Next]_vars => KInv'
<1>1. SUFFICES ASSUME KInv, [Next]_vars PROVE AnsweredInv' /\ KeptInv'
  BY NextPInv DEF KInv
<1>2. CASE UNCHANGED vars
  BY <1>1, <1>2 DEF KInv, AnsweredInv, KeptInv, InHand, Kept, NextElement, vars, netVars,
       serverVars, queueVars, consumerVars, ownerVars
<1>3. ASSUME NEW c \in Conns, Peer(c)
      PROVE  AnsweredInv' /\ KeptInv'
  <2>1. UNCHANGED <<sock, ended, replies, websocket_clients, cpc, client, mpc, mi, mend, torn>>
    BY <1>3 DEF Peer, PeerConnects, PeerSends, Connect, Arrive, serverVars, queueVars,
         consumerVars, ownerVars
  <2>2. QED
    BY <1>1, <2>1 DEF KInv, AnsweredInv, KeptInv, InHand, Kept, NextElement
<1>4. ASSUME NEW w \in Workers, AcceptNobody(w) \/ PushClient(w)
      PROVE  AnsweredInv' /\ KeptInv'
  <2>1. UNCHANGED <<sock, ended, replies, websocket_clients, cpc, client, mpc, mi, mend, torn>>
    BY <1>4 DEF AcceptNobody, PushClient, netVars, queueVars, consumerVars, ownerVars
  <2>2. QED
    BY <1>1, <2>1 DEF KInv, AnsweredInv, KeptInv, InHand, Kept, NextElement
<1>5. QED
  BY <1>1, <1>2, <1>3, <1>4, AcceptKeepsKept, AnswerKeepsKept, ConsumerKeepsKept,
     OwnerKeepsKept DEF Next, Worker

(* clear() passes over no client that was kept before its loop began, for  *)
(* any number of clients, handles and accept threads, while the consumer   *)
(* goes on beside it (http_server.cpp:89-93, 276-283).                     *)
THEOREM KeptAreClosed == Spec => ClearClosesClients
<1>1. Init => KInv
  <2>1. SUFFICES ASSUME Init PROVE AnsweredInv /\ KeptInv
    BY InitPInv DEF KInv
  <2>2. /\ \A c \in Conns : replies[c] = <<>>
        /\ \A h \in Handles : sock[h] = None
        /\ mpc # "clearws"
    BY <2>1 DEF Init, NetInit
  <2>3. QED
    BY <2>2 DEF AnsweredInv, KeptInv
<1>2. ASSUME KInv, Next, mpc = "clearws", mpc' # "clearws", ~torn,
             NEW h \in Handles, sock[h] # None, replies[sock[h]] # <<>>
      PROVE  \/ client = h /\ cpc \in {"keep", "close"}
             \/ \E i \in mend + 1 .. Len(websocket_clients) : websocket_clients[i] = h
  <2>1. mi > mend
    BY <1>2 DEF Next, Peer, PeerConnects, PeerSends, Worker, AcceptNobody, AcceptClient,
         PushClient, Consumer, StartAccept, ConsumerStops, PopNothing, PopClient, RecvPiece,
         RecvDone, NothingRead, Answer, HandlerThrows, KeepClient, CloseClient, Owner,
         PressF2, StartReceive, Receive, NextWebsocket, RecvFrame, FrameDone, FrameUnmasked,
         FrameRead, CloseWebsocket, ReceiveDone, Destroy, Leave, DrainMore, DrainEmpty,
         DrainNothing, DrainPop, DrainClose, ClearWebsocket, ClearDone, CloseServerSocket,
         Cleanup, serverVars, ownerVars
  <2>2. InHand(h) \/ \E i \in mi..Len(websocket_clients) : websocket_clients[i] = h
    BY <1>2 DEF KInv, KeptInv, Kept, NextElement
  <2>3. mi \in Nat /\ mend \in Nat /\ Len(websocket_clients) \in Nat
    BY <1>2, LenProperties DEF KInv, PInv, TInv, TypeOK
  <2>4. QED
    BY <2>1, <2>2, <2>3 DEF InHand
<1>3. KInv /\ [Next]_vars =>
        [mpc = "clearws" /\ mpc' # "clearws" /\ ~torn =>
           \A h \in Handles :
             sock[h] # None /\ replies[sock[h]] # <<>> =>
               \/ client = h /\ cpc \in {"keep", "close"}
               \/ \E i \in mend + 1 .. Len(websocket_clients) : websocket_clients[i] = h]_vars
  BY <1>2
<1>4. QED
  BY <1>1, <1>3, NextKInv, PTL DEF Spec, ClearClosesClients

-----------------------------------------------------------------------------
(* The accounting of accepted connections.                                 *)
CountInv == TInv /\ IsFiniteSet(joined) /\ IsFiniteSet(Pushing) /\ QueueAccounting

(* The terms of the sum are integers.                                      *)
LEMMA CountTerms ==
  ASSUME CountInv
  PROVE  /\ clients_consumed \in Nat /\ Len(socket_queue) \in Nat
         /\ InService \in {0, 1} /\ Cardinality(Pushing) \in Nat
         /\ Cardinality(joined) \in Nat /\ Len(backlog) \in Nat
<1>1. Len(socket_queue) \in Nat /\ Len(backlog) \in Nat
  BY LenProperties DEF CountInv, TInv, TypeOK, NetTypeOK
<1>2. Cardinality(Pushing) \in Nat /\ Cardinality(joined) \in Nat
  BY FS_CardinalityType DEF CountInv
<1>3. clients_consumed \in Nat /\ InService \in {0, 1}
  BY DEF CountInv, TInv, TypeOK, InService
<1>4. QED
  BY <1>1, <1>2, <1>3

(* A peer that connects is one more in the backlog.                        *)
LEMMA PeerCount ==
  ASSUME CountInv, NEW c \in Conns, Peer(c)
  PROVE  CountInv'
<1>1. TInv'
  BY PeerTInv DEF CountInv
<1>2. Pushing' = Pushing /\ InService' = InService
  BY DEF Peer, PeerConnects, PeerSends, Pushing, InService, serverVars, workerVars,
         consumerVars
<1>3. UNCHANGED <<clients_consumed, socket_queue, mpc, aborted>>
  BY DEF Peer, PeerConnects, PeerSends, serverVars, queueVars, consumerVars, ownerVars
<1>4. CASE PeerConnects(c)
  <2>1. IsFiniteSet(joined') /\ Cardinality(joined') = Cardinality(joined) + 1
    BY <1>4, FS_AddElement DEF CountInv, PeerConnects, Connect
  <2>2. Len(backlog') = Len(backlog) + 1
    BY <1>4, AppendProperties DEF CountInv, TInv, TypeOK, NetTypeOK, PeerConnects, Connect
  <2>3. QueueAccounting'
    <3>1. QueueAccounting
      BY DEF CountInv
    <3>2. QED
      BY <1>2, <1>3, <2>1, <2>2, <3>1, CountTerms DEF QueueAccounting
  <2>4. QED
    BY <1>1, <1>2, <2>1, <2>3 DEF CountInv
<1>5. CASE PeerSends(c)
  <2>1. joined' = joined /\ backlog' = backlog
    BY <1>5 DEF PeerSends, Arrive
  <2>2. QueueAccounting'
    BY <1>2, <1>3, <2>1 DEF CountInv, QueueAccounting
  <2>3. QED
    BY <1>1, <1>2, <2>1, <2>2 DEF CountInv
<1>6. QED
  BY <1>4, <1>5 DEF Peer

(* An accepted connection moves from the backlog to the thread that will   *)
(* push it, and from there to the queue.                                   *)
LEMMA WorkerCount ==
  ASSUME CountInv, NEW w \in Workers, Worker(w)
  PROVE  CountInv'
<1>1. TInv'
  BY WorkerTInv DEF CountInv
<1>2. worker \in [Workers -> WorkerSteps] /\ IsFiniteSet(Pushing)
  BY DEF CountInv, TInv, TypeOK
<1>3. UNCHANGED <<clients_consumed, joined, mpc, aborted>> /\ InService' = InService
  BY DEF Worker, AcceptNobody, AcceptClient, PushClient, AcceptAs, netVars,
         consumerVars, ownerVars, InService
<1>4. CASE AcceptNobody(w)
  <2>1. Pushing' = Pushing
    BY <1>2, <1>4 DEF AcceptNobody, Pushing
  <2>2. UNCHANGED <<backlog, socket_queue>>
    BY <1>4 DEF AcceptNobody, netVars, queueVars
  <2>3. QED
    BY <1>1, <1>3, <2>1, <2>2 DEF CountInv, QueueAccounting
<1>5. CASE AcceptClient(w)
  <2>1. Pushing' = Pushing \cup {w} /\ w \notin Pushing
    BY <1>2, <1>5 DEF AcceptClient, Pushing
  <2>2. IsFiniteSet(Pushing') /\ Cardinality(Pushing') = Cardinality(Pushing) + 1
    BY <1>2, <2>1, FS_AddElement
  <2>3. Len(backlog') = Len(backlog) - 1
    BY <1>5, HeadTailProperties
    DEF CountInv, TInv, TypeOK, NetTypeOK, AcceptClient, CanAccept, AcceptAs
  <2>4. socket_queue' = socket_queue
    BY <1>5 DEF AcceptClient, queueVars
  <2>5. QueueAccounting'
    <3>1. QueueAccounting
      BY DEF CountInv
    <3>2. Cardinality(joined') = Cardinality(joined)
          /\ Len(socket_queue') = Len(socket_queue)
      BY <1>3, <2>4
    <3>3. QED
      BY <1>3, <2>2, <2>3, <3>1, <3>2, CountTerms, SMTT(30) DEF QueueAccounting
  <2>6. QED
    BY <1>1, <1>3, <2>2, <2>5 DEF CountInv
<1>6. CASE PushClient(w)
  <2>1. Pushing' = Pushing \ {w} /\ w \in Pushing
    BY <1>2, <1>6 DEF PushClient, Pushing
  <2>2. IsFiniteSet(Pushing') /\ Cardinality(Pushing') = Cardinality(Pushing) - 1
    BY <1>2, <2>1, FS_RemoveElement
  <2>3. Len(socket_queue') = Len(socket_queue) + 1
    BY <1>6, PushBackProperties DEF CountInv, TInv, TypeOK, LocalsOK, PushClient
  <2>4. backlog' = backlog
    BY <1>6 DEF PushClient, netVars
  <2>5. QueueAccounting'
    <3>1. QueueAccounting
      BY DEF CountInv
    <3>2. Cardinality(joined') = Cardinality(joined)
          /\ Len(backlog') = Len(backlog)
      BY <1>3, <2>4
    <3>3. QED
      BY <1>3, <2>2, <2>3, <3>1, <3>2, CountTerms, SMTT(30) DEF QueueAccounting
  <2>6. QED
    BY <1>1, <1>3, <2>2, <2>5 DEF CountInv
<1>7. QED
  BY <1>4, <1>5, <1>6 DEF Worker

(* The consumer moves a client from the queue into service, and from there *)
(* to the counter.                                                         *)
LEMMA ConsumerCount ==
  ASSUME CountInv, Consumer
  PROVE  CountInv'
<1>1. TInv'
  BY ConsumerTInv DEF CountInv
<1>2. Pushing' = Pushing
  <2>1. CASE StartAccept
    BY <2>1 DEF CountInv, TInv, TypeOK, StartAccept, Pushing
  <2>2. CASE ~StartAccept
    BY <2>2 DEF Consumer, ConsumerStops, PopNothing, PopClient, RecvPiece, RecvDone,
         NothingRead, Answer, HandlerThrows, KeepClient, CloseClient, workerVars, Pushing
  <2>3. QED
    BY <2>1, <2>2
<1>3. CASE HandlerThrows
  <2>1. joined' = joined /\ aborted'
    BY <1>3 DEF HandlerThrows, ReleaseAll
  <2>2. QED
    BY <1>1, <1>2, <2>1 DEF CountInv, QueueAccounting
<1>4. CASE ~HandlerThrows
  <2>1. UNCHANGED <<joined, backlog, mpc, aborted>>
    BY <1>4 DEF Consumer, StartAccept, ConsumerStops, PopNothing, PopClient,
         RecvPiece, RecvDone, NothingRead, Answer, KeepClient, CloseClient,
         RecvFrom, SendOn, CloseHandle, netVars, ownerVars
  <2>2. clients_consumed' + Len(socket_queue') + InService'
          = clients_consumed + Len(socket_queue) + InService
    <3>1. CASE StartAccept \/ ConsumerStops \/ PopNothing \/ RecvPiece \/ RecvDone \/ Answer
      <4>1. UNCHANGED <<clients_consumed, socket_queue>>
        BY <3>1 DEF StartAccept, ConsumerStops, PopNothing, RecvPiece, RecvDone,
             Answer, queueVars, consumerVars
      <4>2. InService' = InService
        BY <3>1 DEF StartAccept, ConsumerStops, PopNothing, RecvPiece, RecvDone,
             Answer, InService
      <4>3. QED
        BY <4>1, <4>2
    <3>2. CASE PopClient
      <4>1. Len(socket_queue') = Len(socket_queue) - 1
        BY <3>2, PopProperties DEF CountInv, TInv, TypeOK, PopClient
      <4>2. InService = 0 /\ InService' = 1 /\ clients_consumed' = clients_consumed
        BY <3>2 DEF PopClient, InService
      <4>3. QED
        BY <4>1, <4>2, CountTerms
    <3>3. CASE NothingRead \/ KeepClient \/ CloseClient
      <4>1. socket_queue' = socket_queue /\ clients_consumed' = clients_consumed + 1
        BY <3>3 DEF NothingRead, KeepClient, CloseClient, Consumed, queueVars
      <4>2. InService = 1 /\ InService' = 0
        BY <3>3 DEF NothingRead, KeepClient, CloseClient, Consumed, InService
      <4>3. QED
        BY <4>1, <4>2, CountTerms
    <3>4. QED
      BY <1>4, <3>1, <3>2, <3>3 DEF Consumer
  <2>3. QueueAccounting'
    BY <1>2, <2>1, <2>2 DEF CountInv, QueueAccounting
  <2>4. QED
    BY <1>1, <1>2, <2>1, <2>3 DEF CountInv
<1>5. QED
  BY <1>3, <1>4

(* The owner touches none of it before it drains the queue.                *)
LEMMA OwnerCount ==
  ASSUME CountInv, Owner
  PROVE  CountInv'
<1>1. TInv'
  BY ReceiveTInv, DestroyTInv DEF CountInv, Owner
<1>2. Pushing' = Pushing /\ joined' = joined
  BY DEF Owner, PressF2, StartReceive, Receive, NextWebsocket, RecvFrame, FrameDone,
       FrameUnmasked, FrameRead, CloseWebsocket, ReceiveDone, Destroy, Leave,
       DrainMore, DrainEmpty, DrainNothing, DrainPop, DrainClose, ClearWebsocket,
       ClearDone, CloseServerSocket, Cleanup, RecvFrom, CloseHandle, CloseListener,
       ReleaseAll, netVars, workerVars, Pushing
<1>3. CASE PressF2 \/ StartReceive \/ Receive
  <2>1. mpc \notin Clearing
    BY <1>3 DEF PressF2, StartReceive, Receive, NextWebsocket, RecvFrame, FrameDone,
         FrameUnmasked, FrameRead, CloseWebsocket, ReceiveDone, Clearing
  <2>2. UNCHANGED <<socket_queue, backlog, clients_consumed, aborted>>
        /\ InService' = InService
    BY <1>3 DEF PressF2, StartReceive, Receive, NextWebsocket, RecvFrame, FrameDone,
         FrameUnmasked, FrameRead, CloseWebsocket, ReceiveDone, RecvFrom,
         CloseHandle, netVars, queueVars, consumerVars, InService
  <2>3. QED
    BY <1>1, <1>2, <2>1, <2>2 DEF CountInv, QueueAccounting
<1>4. CASE Destroy
  <2>1. mpc' \in Clearing
    BY <1>4 DEF Destroy, Leave, DrainMore, DrainEmpty, DrainNothing, DrainPop,
         DrainClose, ClearWebsocket, ClearDone, CloseServerSocket, Cleanup, Clearing
  <2>2. QED
    BY <1>1, <1>2, <2>1 DEF CountInv, QueueAccounting
<1>5. QED
  BY <1>3, <1>4 DEF Owner

(* Until the process ends or the owner drains the queue, every accepted    *)
(* connection is with an accept thread, in the queue, in service or        *)
(* counted, and is counted once, although pop() copies one end of the      *)
(* vector and erases the other (http_server.h:66-82, http_server.cpp:250-  *)
(* 292).                                                                   *)
THEOREM ConnectionsAddUp == Spec => []QueueAccounting
<1>1. Init => CountInv
  <2>1. ASSUME Init PROVE IsFiniteSet(joined) /\ IsFiniteSet(Pushing) /\ QueueAccounting
    <3>1. joined = {} /\ Pushing = {} /\ Len(backlog) = 0 /\ Len(socket_queue) = 0
          /\ InService = 0 /\ clients_consumed = 0
      BY <2>1, EmptySeq DEF Init, NetInit, Pushing, InService
    <3>2. QED
      BY <3>1, FS_EmptySet DEF QueueAccounting
  <2>2. QED
    BY <2>1, InitTInv DEF CountInv
<1>2. CountInv /\ [Next]_vars => CountInv'
  <2>1. SUFFICES ASSUME CountInv, [Next]_vars PROVE CountInv'
    OBVIOUS
  <2>2. CASE UNCHANGED vars
    <3>1. TInv'
      BY <2>1, NextTInv DEF CountInv
    <3>2. QED
      BY <2>1, <2>2, <3>1 DEF CountInv, QueueAccounting, Pushing, InService, vars,
           netVars, serverVars, queueVars, workerVars, consumerVars, ownerVars
  <2>3. CASE Next
    BY <2>1, <2>3, PeerCount, WorkerCount, ConsumerCount, OwnerCount DEF Next
  <2>4. QED
    BY <2>1, <2>2, <2>3
<1>3. CountInv => QueueAccounting
  BY DEF CountInv
<1>4. QED
  BY <1>1, <1>2, <1>3, PTL DEF Spec

-----------------------------------------------------------------------------
(* How the server loses sight of an open socket.  A reference nobody uses  *)
(* is empty.                                                               *)
RefsInv ==
  /\ TInv
  /\ \A w \in Workers : worker[w] # "push" => held[w] = None
  /\ cpc \in {"test", "pop", "done"} => client = None

(* The two causes LeakCauses names.                                        *)
Erased(h) ==
  /\ socket_queue # <<>>
  /\ socket_queue' = Front(socket_queue)
  /\ h = Last(socket_queue) /\ h # Head(socket_queue)

Dropped(h) == cpc = "recv" /\ client = h /\ rx = <<>>

(* push_back() keeps every element of the vector.                          *)
LEMMA PushKeepsElements ==
  ASSUME NEW S, NEW q \in Seq(S), NEW x \in S
  PROVE  Range(Append(q, x)) = Range(q) \cup {x}
<1>1. /\ Append(q, x) \in Seq(S)
      /\ Len(Append(q, x)) = Len(q) + 1
      /\ \A i \in 1..Len(q) : Append(q, x)[i] = q[i]
      /\ Append(q, x)[Len(q) + 1] = x
  BY AppendProperties
<1>2. Len(q) \in Nat /\ DOMAIN q = 1..Len(q)
      /\ DOMAIN Append(q, x) = 1..(Len(q) + 1)
  BY <1>1, LenProperties
<1>3. 1..(Len(q) + 1) = 1..Len(q) \cup {Len(q) + 1}
  BY <1>2
<1>4. QED
  BY <1>1, <1>2, <1>3 DEF Range

(* pop() removes the last element and no other.                            *)
LEMMA PopRemovesLast ==
  ASSUME NEW S, NEW q \in Seq(S), q # <<>>,
         NEW y \in Range(q), y \notin Range(PopRest(q))
  PROVE  y = Last(q)
<1>1. Len(q) \in Nat \ {0} /\ DOMAIN q = 1..Len(q)
  BY EmptySeq, LenProperties
<1>2. PICK i \in 1..Len(q) : y = q[i]
  BY <1>1 DEF Range
<1>3. /\ Len(PopRest(q)) = Len(q) - 1
      /\ PopRest(q) \in Seq(S)
      /\ \A j \in 1..(Len(q) - 1) : PopRest(q)[j] = q[j]
  <2>1. Len(q) - 1 \in 0..Len(q)
    BY <1>1
  <2>2. QED
    BY <2>1, PrefixProperties DEF PopRest, Front
<1>4. DOMAIN PopRest(q) = 1..(Len(q) - 1)
  BY <1>3, LenProperties
<1>5. i \notin 1..(Len(q) - 1)
  BY <1>2, <1>3, <1>4 DEF Range
<1>6. i = Len(q)
  <2> DEFINE n == Len(q)
  <2>1. n \in Nat \ {0} /\ i \in 1..n /\ i \notin 1..(n - 1)
    BY <1>1, <1>2, <1>5
  <2> HIDE DEF n
  <2>2. i = n
    BY <2>1
  <2>3. QED
    BY <2>2 DEF n
<1>7. QED
  BY <1>2, <1>6 DEF Last

(* References are emptied when they are handed on.                         *)
LEMMA NextRefs == RefsInv /\ [Next]_vars => RefsInv'
<1>1. SUFFICES ASSUME RefsInv, [Next]_vars PROVE RefsInv'
  OBVIOUS
<1>2. TInv'
  BY <1>1, NextTInv DEF RefsInv
<1>3. worker \in [Workers -> WorkerSteps] /\ held \in [Workers -> Handles \cup {None}]
  BY <1>1 DEF RefsInv, TInv, TypeOK
<1>4. (\A w \in Workers : worker[w] # "push" => held[w] = None)'
  <2>1. CASE UNCHANGED <<worker, held>>
    BY <1>1, <2>1 DEF RefsInv
  <2>2. ASSUME NEW w \in Workers, Worker(w)
        PROVE  (\A v \in Workers : worker[v] # "push" => held[v] = None)'
    BY <1>1, <1>3, <2>2 DEF RefsInv, Worker, AcceptNobody, AcceptClient, PushClient
  <2>3. CASE StartAccept
    BY <1>1, <1>3, <2>3 DEF RefsInv, StartAccept
  <2>4. UNCHANGED <<worker, held>> \/ StartAccept \/ \E w \in Workers : Worker(w)
    <3>1. CASE UNCHANGED vars
      BY <3>1 DEF vars, serverVars, workerVars
    <3>2. ASSUME NEW c \in Conns, Peer(c)
          PROVE  UNCHANGED <<worker, held>>
      BY <3>2 DEF Peer, PeerConnects, PeerSends, serverVars, workerVars
    <3>3. CASE Consumer
      BY <3>3 DEF Consumer, ConsumerStops, PopNothing, PopClient, RecvPiece, RecvDone,
           NothingRead, Answer, HandlerThrows, KeepClient, CloseClient, workerVars
    <3>4. CASE Owner
      BY <3>4 DEF Owner, PressF2, StartReceive, Receive, NextWebsocket, RecvFrame,
           FrameDone, FrameUnmasked, CloseWebsocket, ReceiveDone, Destroy, Leave,
           DrainMore, DrainEmpty, DrainNothing, DrainPop, DrainClose,
           ClearWebsocket, ClearDone, CloseServerSocket, Cleanup, workerVars
    <3>5. QED
      BY <1>1, <3>1, <3>2, <3>3, <3>4 DEF Next
  <2>5. QED
    BY <2>1, <2>2, <2>3, <2>4
<1>5. (cpc \in {"test", "pop", "done"} => client = None)'
  <2>1. CASE UNCHANGED <<cpc, client>>
    BY <1>1, <2>1 DEF RefsInv
  <2>2. CASE Consumer
    BY <1>1, <2>2 DEF RefsInv, Consumer, StartAccept, ConsumerStops, PopNothing,
         PopClient, RecvPiece, RecvDone, NothingRead, Answer, HandlerThrows,
         KeepClient, CloseClient, Consumed, consumerVars
  <2>3. UNCHANGED <<cpc, client>> \/ Consumer
    <3>1. CASE UNCHANGED vars
      BY <3>1 DEF vars, serverVars, consumerVars
    <3>2. ASSUME NEW c \in Conns, Peer(c)
          PROVE  UNCHANGED <<cpc, client>>
      BY <3>2 DEF Peer, PeerConnects, PeerSends, serverVars, consumerVars
    <3>3. ASSUME NEW w \in Workers, Worker(w)
          PROVE  UNCHANGED <<cpc, client>>
      BY <3>3 DEF Worker, AcceptNobody, AcceptClient, PushClient, consumerVars
    <3>4. CASE Owner
      BY <3>4 DEF Owner, PressF2, StartReceive, Receive, NextWebsocket, RecvFrame,
           FrameDone, FrameUnmasked, CloseWebsocket, ReceiveDone, Destroy, Leave,
           DrainMore, DrainEmpty, DrainNothing, DrainPop, DrainClose,
           ClearWebsocket, ClearDone, CloseServerSocket, Cleanup, consumerVars
    <3>5. QED
      BY <1>1, <3>1, <3>2, <3>3, <3>4 DEF Next
  <2>4. QED
    BY <2>1, <2>2, <2>3
<1>6. QED
  BY <1>2, <1>4, <1>5 DEF RefsInv

(* An accept thread's handle is known from accept() to push() and then to  *)
(* the queue.                                                              *)
LEMMA WorkerLosesNothing ==
  ASSUME RefsInv, NEW w \in Workers, Worker(w), NEW h \in Handles, Leaked(h)'
  PROVE  Leaked(h)
<1>1. worker \in [Workers -> WorkerSteps] /\ held \in [Workers -> Handles \cup {None}]
      /\ sock \in [Handles -> Conns \cup {None}]
  BY DEF RefsInv, TInv, TypeOK, NetTypeOK
<1>2. UNCHANGED <<client, websocket_clients, mpc, mclient>>
  BY DEF Worker, AcceptNobody, AcceptClient, PushClient, consumerVars, ownerVars, queueVars
<1>3. CASE AcceptNobody(w)
  BY <1>2, <1>3 DEF AcceptNobody, Leaked, Known, netVars, queueVars
<1>4. CASE AcceptClient(w)
  <2>1. PICK g \in FreeHandles : AcceptAs(g) /\ held' = [held EXCEPT ![w] = g]
    BY <1>4 DEF AcceptClient
  <2>2. held[w] = None /\ socket_queue' = socket_queue
    BY <1>4 DEF AcceptClient, RefsInv, queueVars
  <2>3. h # g
    BY <1>1, <2>1 DEF Leaked, Known
  <2>4. sock'[h] = sock[h]
    BY <1>1, <2>1, <2>3 DEF AcceptAs, FreeHandles
  <2>5. h # None
    BY NoneIsNoHandle
  <2>6. \A v \in Workers : held[v] = h => held'[v] = h
    BY <1>1, <2>1, <2>2, <2>5
  <2>7. QED
    BY <1>2, <2>2, <2>4, <2>6 DEF Leaked, Known
<1>5. CASE PushClient(w)
  <2>1. held[w] \in Handles /\ socket_queue \in Seq(Handles)
    BY <1>5 DEF PushClient, RefsInv, TInv, TypeOK, LocalsOK
  <2>2. Range(socket_queue') = Range(socket_queue) \cup {held[w]}
    BY <1>5, <2>1, PushKeepsElements DEF PushClient, PushBack
  <2>3. \A v \in Workers : held[v] = h => held'[v] = h \/ h = held[w]
    BY <1>1, <1>5 DEF PushClient
  <2>4. sock' = sock
    BY <1>5 DEF PushClient, netVars
  <2>5. QED
    BY <1>2, <2>2, <2>3, <2>4 DEF Leaked, Known
<1>6. QED
  BY <1>3, <1>4, <1>5 DEF Worker

(* The consumer loses a handle when pop() erases it and when it finds      *)
(* nothing to read.                                                        *)
LEMMA ConsumerLosses ==
  ASSUME RefsInv, Consumer, NEW h \in Handles, ~Leaked(h), Leaked(h)'
  PROVE  Erased(h) \/ Dropped(h)
<1>1. sock \in [Handles -> Conns \cup {None}] /\ socket_queue \in Seq(Handles)
      /\ websocket_clients \in Seq(Handles) /\ h # None
  BY NoneIsNoHandle DEF RefsInv, TInv, TypeOK, NetTypeOK
<1>2. mpc' = mpc /\ mclient' = mclient /\ held' = held
  BY DEF Consumer, StartAccept, ConsumerStops, PopNothing, PopClient, RecvPiece,
       RecvDone, NothingRead, Answer, HandlerThrows, KeepClient, CloseClient,
       ownerVars, workerVars
<1>3. CASE StartAccept \/ ConsumerStops \/ PopNothing \/ RecvPiece \/ RecvDone \/ Answer
  BY <1>2, <1>3 DEF StartAccept, ConsumerStops, PopNothing, RecvPiece, RecvDone,
       Answer, RecvFrom, SendOn, netVars, queueVars, consumerVars, Leaked, Known
<1>4. CASE PopClient
  <2>1. sock' = sock /\ websocket_clients' = websocket_clients /\ client = None
    BY <1>4 DEF PopClient, RefsInv, netVars
  <2>2. h \in Range(socket_queue) /\ h \notin Range(PopRest(socket_queue))
    BY <1>1, <1>2, <1>4, <2>1 DEF PopClient, Leaked, Known
  <2>3. h = Last(socket_queue)
    BY <1>1, <1>4, <2>2, PopRemovesLast DEF PopClient
  <2>4. h # Head(socket_queue)
    BY <1>4 DEF PopClient, PopValue, Leaked, Known
  <2>5. QED
    BY <1>4, <2>3, <2>4 DEF PopClient, PopRest, Erased
<1>5. CASE NothingRead
  <2>1. UNCHANGED <<sock, socket_queue, websocket_clients>>
    BY <1>5 DEF NothingRead, netVars, queueVars
  <2>2. client = h
    BY <1>2, <2>1 DEF Leaked, Known
  <2>3. QED
    BY <1>5, <2>2 DEF NothingRead, Dropped
<1>6. CASE HandlerThrows
  BY <1>6 DEF HandlerThrows, ReleaseAll, Leaked
<1>7. CASE KeepClient
  <2>1. client \in Handles
    BY <1>7 DEF KeepClient, RefsInv, TInv, LocalsOK
  <2>2. Range(websocket_clients') = Range(websocket_clients) \cup {client}
    BY <1>1, <1>7, <2>1, PushKeepsElements DEF KeepClient
  <2>3. sock' = sock /\ socket_queue' = socket_queue
    BY <1>7 DEF KeepClient, netVars
  <2>4. QED
    BY <1>2, <2>2, <2>3 DEF Leaked, Known
<1>8. CASE CloseClient
  <2>1. UNCHANGED <<socket_queue, websocket_clients>>
        /\ sock' = [sock EXCEPT ![client] = None]
    BY <1>8 DEF CloseClient, CloseHandle, queueVars
  <2>2. h # client /\ sock'[h] = sock[h]
    BY <1>1, <2>1 DEF Leaked
  <2>3. QED
    BY <1>2, <2>1, <2>2 DEF Leaked, Known
<1>9. QED
  BY <1>3, <1>4, <1>5, <1>6, <1>7, <1>8 DEF Consumer

(* The owner loses one when pop() erases it; what it reads of a            *)
(* websocket_clients being reallocated was not known to begin with.        *)
LEMMA OwnerLosses ==
  ASSUME RefsInv, Owner, NEW h \in Handles, ~Leaked(h), Leaked(h)'
  PROVE  Erased(h)
<1>1. sock \in [Handles -> Conns \cup {None}] /\ socket_queue \in Seq(Handles)
  BY DEF RefsInv, TInv, TypeOK, NetTypeOK
<1>2. UNCHANGED <<client, held, websocket_clients>>
  BY DEF Owner, PressF2, StartReceive, Receive, NextWebsocket, RecvFrame, FrameDone,
       FrameUnmasked, CloseWebsocket, ReceiveDone, Destroy, Leave, DrainMore,
       DrainEmpty, DrainNothing, DrainPop, DrainClose, ClearWebsocket, ClearDone,
       CloseServerSocket, Cleanup, workerVars, consumerVars, queueVars
<1>3. CASE DrainPop
  <2>1. sock' = sock /\ mpc = "drainpop" /\ mpc' = "drainclose"
    BY <1>3 DEF DrainPop, netVars
  <2>2. h \in Range(socket_queue) /\ h \notin Range(PopRest(socket_queue))
    BY <1>2, <1>3, <2>1 DEF DrainPop, Leaked, Known
  <2>3. h = Last(socket_queue)
    BY <1>1, <1>3, <2>2, PopRemovesLast DEF DrainPop
  <2>4. h # Head(socket_queue)
    BY <1>3, <2>1 DEF DrainPop, PopValue, Leaked, Known
  <2>5. QED
    BY <1>3, <2>3, <2>4 DEF DrainPop, PopRest, Erased
<1>4. CASE DrainClose
  <2>1. socket_queue' = socket_queue /\ sock' = [sock EXCEPT ![mclient] = None]
    BY <1>4 DEF DrainClose, CloseHandle, queueVars
  <2>2. h # mclient /\ sock'[h] = sock[h]
    BY <1>1, <2>1 DEF Leaked
  <2>3. QED
    BY <1>2, <2>1, <2>2 DEF Leaked, Known
<1>5. CASE Cleanup
  BY <1>5 DEF Cleanup, ReleaseAll, Leaked
<1>6. CASE ~DrainPop /\ ~DrainClose /\ ~Cleanup
  <2>1. socket_queue' = socket_queue /\ mpc # "drainclose"
    BY <1>6 DEF Owner, PressF2, StartReceive, Receive, NextWebsocket, RecvFrame,
         FrameDone, FrameUnmasked, FrameRead, CloseWebsocket, ReceiveDone, Destroy,
         Leave, DrainMore, DrainEmpty, DrainNothing, ClearWebsocket, ClearDone,
         CloseServerSocket, queueVars
  <2>2. sock'[h] # None => sock'[h] = sock[h]
    <3>1. CASE CloseWebsocket
      BY <1>1, <3>1 DEF CloseWebsocket, CloseHandle
    <3>2. CASE ClearWebsocket
      BY <1>1, <3>2 DEF ClearWebsocket, CloseHandle, netVars
    <3>3. CASE ~CloseWebsocket /\ ~ClearWebsocket
      BY <1>6, <3>3 DEF Owner, PressF2, StartReceive, Receive, NextWebsocket,
           RecvFrame, FrameDone, FrameUnmasked, ReceiveDone, Destroy, Leave,
           DrainMore, DrainEmpty, DrainNothing, ClearDone, CloseServerSocket,
           RecvFrom, CloseListener, netVars
    <3>4. QED
      BY <3>1, <3>2, <3>3
  <2>3. QED
    BY <1>2, <2>1, <2>2 DEF Leaked, Known
<1>7. QED
  BY <1>3, <1>4, <1>5, <1>6

(* In every interleaving an open socket leaves the server's sight because  *)
(* pop() erases it at the back while handing out the front, or because     *)
(* consume_queue() finds nothing to read on it yet, and in no other way    *)
(* (http_server.h:66-76, http_server.cpp:250-292).                         *)
THEOREM LeaksHaveTwoCauses == Spec => LeakCauses
<1>1. Init => RefsInv
  BY InitTInv DEF Init, RefsInv
<1>2. RefsInv /\ [Next]_vars =>
        [\A h \in Handles : ~Leaked(h) /\ Leaked(h)' =>
           \/ /\ socket_queue # <<>>
              /\ socket_queue' = Front(socket_queue)
              /\ h = Last(socket_queue) /\ h # Head(socket_queue)
           \/ cpc = "recv" /\ client = h /\ rx = <<>>]_vars
  <2>1. SUFFICES ASSUME RefsInv, Next, NEW h \in Handles, ~Leaked(h), Leaked(h)'
                 PROVE  Erased(h) \/ Dropped(h)
    BY DEF Erased, Dropped
  <2>2. ASSUME NEW c \in Conns, Peer(c)
        PROVE  FALSE
    BY <2>1, <2>2 DEF Peer, PeerConnects, PeerSends, Connect, Arrive, serverVars,
         queueVars, workerVars, consumerVars, ownerVars, Leaked, Known
  <2>3. QED
    BY <2>1, <2>2, WorkerLosesNothing, ConsumerLosses, OwnerLosses DEF Next
<1>3. QED
  BY <1>1, <1>2, NextRefs, PTL DEF Spec, LeakCauses

-----------------------------------------------------------------------------
(* The service a server on its owner's thread gives peers that never ask   *)
(* for an upgrade.                                                         *)

(* An open connection has its answer only between send_all() and           *)
(* closesocket().                                                          *)
ServedInv ==
  /\ cpc # "keep"
  /\ \A c \in Conns : replies[c] # <<>> => c \in ended \/ (cpc = "close" /\ sock[client] = c)
  /\ ~aborted /\ cpc = "close" => sock[client] # None /\ replies[sock[client]] # <<>>

RInv == AInv /\ PlacesInv /\ ServedInv

(* Accepting takes a free handle, so not the one being closed.             *)
LEMMA AcceptKeepsServed ==
  ASSUME RInv, NEW w \in Workers, AcceptClient(w)
  PROVE  ServedInv'
<1>1. PICK g \in FreeHandles : AcceptAs(g)
  BY DEF AcceptClient
<1>2. sock \in [Handles -> Conns \cup {None}] /\ sock[g] = None
  BY <1>1 DEF RInv, AInv, TInv, TypeOK, NetTypeOK, FreeHandles
<1>3. /\ \A h \in Handles : h # g => sock'[h] = sock[h]
      /\ UNCHANGED <<ended, replies, cpc, client, aborted>>
  BY <1>1, <1>2 DEF AcceptAs, AcceptClient, consumerVars
<1>4. cpc = "close" => client \in Handles
  BY DEF RInv, AInv, TInv, LocalsOK
<1>5. cpc = "close" /\ sock[client] # None => sock'[client] = sock[client]
  BY <1>2, <1>3, <1>4
<1>6. QED
  BY <1>3, <1>5, NoneIsNoConn DEF RInv, ServedInv

(* send_all() answers the connection the client's handle is open for, and  *)
(* without upgrades the client is closed next.                             *)
LEMMA AnswerKeepsServed ==
  ASSUME Kinds \cap UpgradeKinds = {}, RInv, Answer
  PROVE  /\ ServedInv'
         /\ sock[client] \in Conns /\ replies[sock[client]] = <<>>
<1>0. PICK taken \in BOOLEAN :
        SendOn(client, [of |-> Asker(rx), status |-> Status(rx), whole |-> HasAll(rx),
                        taken |-> taken])
  BY Zenon DEF Answer
<1> DEFINE r == [of |-> Asker(rx), status |-> Status(rx), whole |-> HasAll(rx),
                 taken |-> taken]
<1>1. cpc = "answer" /\ rx # <<>> /\ client \in Handles /\ ~aborted
  BY DEF RInv, AInv, TInv, LocalsOK, Answer, Running
<1>2. sock[client] # None /\ Asker(rx) = sock[client]
  BY <1>1 DEF RInv, AInv, ReaderInv
<1>3. sock[client] \in Conns /\ kind \in [Conns -> Kinds]
      /\ replies \in [Conns -> Seq(Replies)]
  BY <1>1, <1>2 DEF RInv, AInv, TInv, TypeOK, NetTypeOK
<1>4. cpc' = "close"
  <2>1. ~AsksUpgrade(rx)
    BY <1>2, <1>3 DEF AsksUpgrade
  <2>2. QED
    BY <2>1 DEF Answer
<1>5. replies[sock[client]] = <<>>
  BY <1>1, <1>2, <1>3 DEF RInv, ServedInv, PlacesInv
<1>6. replies' = [replies EXCEPT ![sock[client]] = Append(@, r)]
      /\ UNCHANGED <<joined, backlog, sock, ended, client, aborted>>
  BY <1>0, <1>2 DEF Answer, SendOn
<1>7. replies'[sock[client]] # <<>>
      /\ \A c \in Conns : c # sock[client] => replies'[c] = replies[c]
  <2> HIDE DEF r
  <2>1. replies'[sock[client]] = <<r>>
    BY <1>3, <1>5, <1>6
  <2>2. <<r>> # <<>>
    OBVIOUS
  <2>3. \A c \in Conns : c # sock[client] => replies'[c] = replies[c]
    BY <1>3, <1>6
  <2>4. QED
    BY <2>1, <2>2, <2>3
<1>8. ServedInv'
  BY <1>1, <1>2, <1>4, <1>6, <1>7 DEF RInv, ServedInv
<1>9. QED
  BY <1>3, <1>5, <1>8

(* closesocket() ends the connection that was answered.                    *)
LEMMA CloseKeepsServed ==
  ASSUME RInv, CloseClient
  PROVE  /\ ServedInv'
         /\ sock[client] \in Conns /\ replies[sock[client]] # <<>>
<1>1. cpc = "close" /\ client \in Handles /\ ~aborted /\ cpc' = "test"
  BY DEF RInv, AInv, TInv, LocalsOK, CloseClient, Running, Consumed
<1>2. sock[client] # None /\ replies[sock[client]] # <<>>
  BY <1>1 DEF RInv, ServedInv
<1>3. sock \in [Handles -> Conns \cup {None}]
  BY DEF RInv, AInv, TInv, TypeOK, NetTypeOK
<1>4. sock[client] \in Conns
  BY <1>1, <1>2, <1>3
<1>5. /\ \A h \in Handles : sock'[h] = IF h = client THEN None ELSE sock[h]
      /\ ended' = ended \cup {sock[client]}
      /\ UNCHANGED <<joined, backlog, replies, aborted>>
  BY <1>1, <1>2, <1>3 DEF CloseClient, CloseHandle
<1>6. ServedInv'
  BY <1>1, <1>5 DEF RInv, ServedInv
<1>7. QED
  BY <1>2, <1>4, <1>6

(* A throwing handler ends every connection with the process.              *)
LEMMA ThrowKeepsServed ==
  ASSUME RInv, HandlerThrows
  PROVE  ServedInv'
<1>1. /\ joined' = joined /\ ended' = joined /\ replies' = replies
      /\ aborted' = TRUE /\ cpc = "answer" /\ cpc' = cpc
  BY DEF HandlerThrows, ReleaseAll, consumerVars
<1>2. \A c \in Conns : replies[c] # <<>> => c \in joined
  BY <1>1 DEF RInv, ServedInv, PlacesInv
<1>3. QED
  BY <1>1, <1>2 DEF ServedInv

(* Without an owner the server closes a socket only after its answer, or   *)
(* with the process.                                                       *)
LEMMA OwnerlessSteps ==
  ASSUME RInv, [Next]_vars
  PROVE  \/ Quiet
         \/ \E c \in Conns : PeerConnects(c)
         \/ \E w \in Workers : AcceptClient(w)
         \/ Answer \/ CloseClient \/ HandlerThrows
<1>1. CASE UNCHANGED vars
  BY <1>1 DEF vars, netVars, Quiet
<1>2. ASSUME NEW c \in Conns, Peer(c), ~PeerConnects(c)
      PROVE  Quiet
  BY <1>2 DEF Peer, PeerSends, Arrive, Quiet
<1>3. ASSUME NEW w \in Workers, Worker(w), ~AcceptClient(w)
      PROVE  Quiet
  BY <1>3 DEF Worker, AcceptNobody, PushClient, netVars, Quiet
<1>4. CASE Consumer
  BY <1>4 DEF Consumer, StartAccept, ConsumerStops, PopNothing, PopClient, RecvPiece,
       RecvDone, NothingRead, KeepClient, RecvFrom, netVars, Quiet
<1>5. CASE Owner
  <2>1. mpc = "absent"
    BY DEF RInv, AInv, ReaderInv
  <2>2. QED
    BY <1>5, <2>1 DEF Owner, PressF2, StartReceive, Receive, NextWebsocket, RecvFrame,
         FrameDone, FrameUnmasked, FrameRead, CloseWebsocket, ReceiveDone, Destroy,
         Leave, DrainMore, DrainEmpty, DrainNothing, DrainPop, DrainClose,
         ClearWebsocket, ClearDone, CloseServerSocket, Cleanup
<1>6. QED
  BY <1>1, <1>2, <1>3, <1>4, <1>5 DEF Next

(* A quiet step does not bring the consumer to its close.                  *)
LEMMA QuietKeepsServed ==
  ASSUME RInv, [Next]_vars, Quiet, ~Answer, ~CloseClient, ~HandlerThrows
  PROVE  ServedInv'
<1>1. CASE UNCHANGED <<cpc, client, aborted>>
  BY <1>1 DEF Quiet, RInv, ServedInv
<1>2. CASE Consumer
  <2>1. cpc \notin {"keep", "close"}
    BY <1>2 DEF RInv, ServedInv, Consumer, StartAccept, ConsumerStops, PopNothing,
         PopClient, RecvPiece, RecvDone, NothingRead, KeepClient
  <2>2. cpc' \notin {"keep", "close"}
    BY <1>2, <2>1 DEF Consumer, StartAccept, ConsumerStops, PopNothing, PopClient,
         RecvPiece, RecvDone, NothingRead, KeepClient, Consumed
  <2>3. QED
    BY <2>1, <2>2 DEF Quiet, RInv, ServedInv
<1>3. UNCHANGED <<cpc, client, aborted>> \/ Consumer
  <2>1. CASE UNCHANGED vars
    BY <2>1 DEF vars, serverVars, consumerVars
  <2>2. ASSUME NEW c \in Conns, Peer(c)
        PROVE  UNCHANGED <<cpc, client, aborted>>
    BY <2>2 DEF Peer, PeerConnects, PeerSends, serverVars, consumerVars
  <2>3. ASSUME NEW w \in Workers, Worker(w)
        PROVE  UNCHANGED <<cpc, client, aborted>>
    BY <2>3 DEF Worker, AcceptNobody, AcceptClient, PushClient, consumerVars
  <2>4. CASE Owner
    BY <2>4 DEF Owner, PressF2, StartReceive, Receive, NextWebsocket, RecvFrame,
         FrameDone, FrameUnmasked, CloseWebsocket, ReceiveDone, Destroy, Leave,
         DrainMore, DrainEmpty, DrainNothing, DrainPop, DrainClose, ClearWebsocket,
         ClearDone, CloseServerSocket, Cleanup, consumerVars
  <2>5. QED
    BY <2>1, <2>2, <2>3, <2>4 DEF Next
<1>4. QED
  BY <1>1, <1>2, <1>3

(* Every step keeps an answer with the consumer that is about to close.   *)
LEMMA NextRInv ==
  ASSUME Kinds \cap UpgradeKinds = {}, RInv, [Next]_vars
  PROVE  RInv'
<1>1. AInv' /\ PlacesInv'
  BY NextAInv, NextPInv DEF RInv, AInv, PInv
<1>2. ASSUME NEW c \in Conns, PeerConnects(c)
      PROVE  ServedInv'
  BY <1>2 DEF PeerConnects, Connect, serverVars, consumerVars, RInv, ServedInv
<1>3. ASSUME Quiet, ~Answer, ~CloseClient, ~HandlerThrows
      PROVE  ServedInv'
  BY <1>3, QuietKeepsServed
<1>4. ASSUME ~(Quiet /\ ~Answer /\ ~CloseClient /\ ~HandlerThrows)
      PROVE  ServedInv'
  BY <1>2, <1>4, OwnerlessSteps, AcceptKeepsServed, AnswerKeepsServed,
     CloseKeepsServed, ThrowKeepsServed
<1>5. QED
  BY <1>1, <1>3, <1>4 DEF RInv

(* The refinement mapping.                                                 *)
Phases == [c \in Conns |-> Phase(c)]
Answers == [c \in Conns |-> Sent(c)]

(* One connection changes its phase.                                       *)
LEMMA OneMoves ==
  ASSUME NEW c \in Conns, NEW from, NEW to,
         Phase(c) = from, Phase(c)' = to,
         \A d \in Conns : d # c => Phase(d)' = Phase(d)
  PROVE  Service!Move(c, from, to)
<1>1. Phases[c] = from
  BY DEF Phases
<1>2. Phases' = [Phases EXCEPT ![c] = to]
  BY DEF Phases
<1>3. QED
  BY <1>1, <1>2 DEF Service!Move, Phases

(* A peer's connect() is its arrival.                                      *)
LEMMA ConnectImplements ==
  ASSUME RInv, NEW c \in Conns, PeerConnects(c)
  PROVE  Service!Arrives(c)
<1>1. /\ c \notin joined /\ joined' = joined \cup {c}
      /\ UNCHANGED <<sock, ended, replies>>
  BY DEF PeerConnects, Connect
<1>2. c \notin ended /\ \A h \in Handles : sock[h] # c
  BY <1>1, NoneIsNoConn DEF RInv, PlacesInv
<1>3. Phase(c) = "away" /\ Phase(c)' = "waiting"
  BY <1>1, <1>2 DEF Phase
<1>4. \A d \in Conns : d # c => Phase(d)' = Phase(d)
  BY <1>1 DEF Phase
<1>5. Service!Move(c, "away", "waiting")
  BY <1>3, <1>4, OneMoves
<1>6. QED
  BY <1>1, <1>5 DEF Service!Arrives, Sent

(* accept() admits the first of the backlog.                               *)
LEMMA AcceptImplements ==
  ASSUME RInv, NEW w \in Workers, AcceptClient(w)
  PROVE  \E c \in Conns : Service!Admit(c)
<1>1. PICK g \in FreeHandles : AcceptAs(g)
  BY DEF AcceptClient
<1>2. sock \in [Handles -> Conns \cup {None}] /\ backlog \in Seq(Conns) /\ backlog # <<>>
      /\ g \in Handles /\ sock[g] = None
  BY <1>1 DEF RInv, AInv, TInv, TypeOK, NetTypeOK, AcceptClient, CanAccept, FreeHandles
<1>3. 1 \in 1..Len(backlog) /\ Head(backlog) = backlog[1]
  BY <1>2, EmptySeq, LenProperties
<1>4. PICK c \in Conns : c = Head(backlog)
  BY <1>2, <1>3, ElementOfSeq
<1>5. c # None /\ c \in joined \ ended /\ \A h \in Handles : sock[h] # c
  BY <1>3, <1>4, NoneIsNoConn DEF RInv, PlacesInv
<1>6. /\ \A h \in Handles : sock'[h] = IF h = g THEN c ELSE sock[h]
      /\ joined' = joined /\ ended' = ended /\ replies' = replies
  BY <1>1, <1>2, <1>4 DEF AcceptAs
<1>7. replies[c] = <<>>
  <2>1. cpc = "close" => client \in Handles
    BY DEF RInv, AInv, TInv, LocalsOK
  <2>2. QED
    BY <1>5, <2>1 DEF RInv, ServedInv
<1>8. Phase(c) = "waiting" /\ Phase(c)' = "held"
  BY <1>2, <1>5, <1>6, <1>7 DEF Phase
<1>9. ASSUME NEW d \in Conns, d # c
      PROVE  Phase(d)' = Phase(d)
  <2>1. (\E h \in Handles : sock'[h] = d) <=> (\E h \in Handles : sock[h] = d)
    BY <1>2, <1>6, <1>9, NoneIsNoConn
  <2>2. QED
    BY <1>6, <2>1 DEF Phase
<1>10. Service!Move(c, "waiting", "held")
  BY <1>8, <1>9, OneMoves
<1>11. Service!Admit(c)
  BY <1>6, <1>10 DEF Service!Admit, Sent
<1>12. QED
  BY <1>11

(* What is sent of no reply and of one.                                    *)
LEMMA SentNothing ==
  ASSUME NEW c \in Conns, replies[c] = <<>>
  PROVE  Sent(c) = 0
<1>1. {i \in DOMAIN replies[c] : replies[c][i].taken} = {}
  OBVIOUS
<1> QED
  BY <1>1, FS_EmptySet DEF Sent

LEMMA SentOne ==
  ASSUME NEW s, NEW x, s = <<x>>, x.taken \in BOOLEAN
  PROVE  Cardinality({i \in DOMAIN s : s[i].taken}) = IF x.taken THEN 1 ELSE 0
<1>1. DOMAIN s = {1} /\ s[1] = x
  OBVIOUS
<1>2. CASE x.taken
  <2>1. {i \in DOMAIN s : s[i].taken} = {1}
    BY <1>1, <1>2
  <2> QED
    BY <1>2, <2>1, FS_Singleton
<1>3. CASE ~x.taken
  <2>1. {i \in DOMAIN s : s[i].taken} = {}
    BY <1>1, <1>3
  <2> QED
    BY <1>3, <2>1, FS_EmptySet
<1> QED
  BY <1>2, <1>3

(* send_all() is the answer of a connection that is held, or the loss of   *)
(* it.                                                                     *)
LEMMA AnswerImplements ==
  ASSUME Kinds \cap UpgradeKinds = {}, RInv, Answer
  PROVE  \E c \in Conns : Service!AnswerOnce(c) \/ Service!AnswerLost(c)
<1>0. PICK taken \in BOOLEAN :
        SendOn(client, [of |-> Asker(rx), status |-> Status(rx), whole |-> HasAll(rx),
                        taken |-> taken])
  BY Zenon DEF Answer
<1> DEFINE r == [of |-> Asker(rx), status |-> Status(rx), whole |-> HasAll(rx),
                 taken |-> taken]
<1>1. PICK c \in Conns : c = sock[client]
  BY AnswerKeepsServed
<1>2. c # None /\ replies[c] = <<>> /\ client \in Handles
  BY <1>1, AnswerKeepsServed, NoneIsNoConn DEF RInv, AInv, TInv, LocalsOK, Answer
<1>3. replies \in [Conns -> Seq(Replies)]
  BY DEF RInv, AInv, TInv, TypeOK, NetTypeOK
<1>4. replies' = [replies EXCEPT ![c] = Append(@, r)]
      /\ UNCHANGED <<joined, sock, ended>>
  BY <1>0, <1>1, <1>2 DEF SendOn
<1>5. c \notin ended
  BY <1>1, <1>2 DEF RInv, PlacesInv
<1>6. r.taken = taken
  OBVIOUS
<1> HIDE DEF r
<1>7. replies'[c] = <<r>> /\ \A d \in Conns : d # c => replies'[d] = replies[d]
  BY <1>2, <1>3, <1>4
<1>8. Phase(c) = "held" /\ Phase(c)' = "answered"
  BY <1>1, <1>2, <1>4, <1>5, <1>7 DEF Phase
<1>9. \A d \in Conns : d # c => Phase(d)' = Phase(d)
  BY <1>4, <1>7 DEF Phase
<1>10. Service!Move(c, "held", "answered")
  BY <1>8, <1>9, OneMoves
<1>11. Sent(c) = 0 /\ Sent(c)' = IF taken THEN 1 ELSE 0
  BY <1>2, <1>6, <1>7, SentNothing, SentOne DEF Sent
<1>12. \A d \in Conns : d # c => Sent(d)' = Sent(d)
  BY <1>7 DEF Sent
<1>13. CASE taken
  <2>1. Answers' = [Answers EXCEPT ![c] = Answers[c] + 1]
    <3>1. Sent(c)' = Sent(c) + 1
      BY <1>11, <1>13
    <3>2. QED
      BY <1>12, <3>1 DEF Answers
  <2> QED
    BY <1>10, <2>1 DEF Service!AnswerOnce, Answers
<1>14. CASE ~taken
  <2>1. Answers' = Answers
    BY <1>11, <1>12, <1>14 DEF Answers
  <2> QED
    BY <1>10, <2>1 DEF Service!AnswerLost, Answers
<1>15. QED
  BY <1>13, <1>14

(* closesocket() finishes a connection that was answered.                  *)
LEMMA CloseImplements ==
  ASSUME RInv, CloseClient
  PROVE  \E c \in Conns : Service!Finish(c)
<1>1. PICK c \in Conns : c = sock[client]
  BY CloseKeepsServed
<1>2. c # None /\ replies[c] # <<>> /\ client \in Handles
  BY <1>1, CloseKeepsServed, NoneIsNoConn DEF RInv, AInv, TInv, LocalsOK, CloseClient
<1>3. sock \in [Handles -> Conns \cup {None}]
  BY DEF RInv, AInv, TInv, TypeOK, NetTypeOK
<1>4. /\ \A h \in Handles : sock'[h] = IF h = client THEN None ELSE sock[h]
      /\ ended' = ended \cup {c}
      /\ UNCHANGED <<joined, replies>>
  BY <1>1, <1>2, <1>3 DEF CloseClient, CloseHandle
<1>5. c \notin ended
  BY <1>1, <1>2 DEF RInv, PlacesInv
<1>6. Phase(c) = "answered" /\ Phase(c)' = "closed"
  BY <1>1, <1>2, <1>4, <1>5 DEF Phase
<1>7. ASSUME NEW d \in Conns, d # c
      PROVE  Phase(d)' = Phase(d)
  <2>1. (\E h \in Handles : sock'[h] = d) <=> (\E h \in Handles : sock[h] = d)
    BY <1>1, <1>4, <1>7, NoneIsNoConn
  <2>2. QED
    BY <1>4, <1>7, <2>1 DEF Phase
<1>8. Service!Move(c, "answered", "closed")
  BY <1>6, <1>7, OneMoves
<1>9. Service!Finish(c)
  BY <1>4, <1>8 DEF Service!Finish, Sent
<1>10. QED
  BY <1>9

(* The end of the process is the service's crash.                          *)
LEMMA ThrowImplements ==
  ASSUME RInv, HandlerThrows
  PROVE  Service!Crash
<1>1. /\ joined' = joined /\ ended' = joined /\ replies' = replies
      /\ \A h \in Handles : sock'[h] = None
  BY DEF HandlerThrows, ReleaseAll
<1>2. ASSUME NEW c \in Conns
      PROVE  Phase(c)' = IF Phase(c) = "away" THEN "away" ELSE "closed"
  <2>1. c # None
    BY NoneIsNoConn
  <2>2. CASE c \in joined
    BY <1>1, <2>2 DEF Phase
  <2>3. CASE c \notin joined
    <3>1. c \notin ended /\ \A h \in Handles : sock[h] # c
      BY <2>1, <2>3 DEF RInv, PlacesInv
    <3>2. QED
      BY <1>1, <2>1, <2>3, <3>1 DEF Phase
  <2>4. QED
    BY <2>2, <2>3
<1>3. Phases' = [c \in Conns |-> IF Phases[c] = "away" THEN "away" ELSE "closed"]
  BY <1>2 DEF Phases
<1>4. QED
  BY <1>1, <1>3 DEF Service!Crash, Phases, Sent

(* Every step is a step of the service or a stutter.                       *)
LEMMA ServiceStep ==
  ASSUME Kinds \cap UpgradeKinds = {}, RInv, [Next]_vars
  PROVE  [Service!Next]_(Service!svars)
<1>1. CASE Quiet
  <2>1. Phases' = Phases /\ Answers' = Answers
    BY <1>1 DEF Quiet, Phases, Answers, Phase, Sent
  <2>2. QED
    BY <2>1 DEF Service!svars, Phases, Answers
<1>2. CASE ~Quiet
  <2>1. Service!Next
    BY <1>2, OwnerlessSteps, ConnectImplements, AcceptImplements, AnswerImplements,
       CloseImplements, ThrowImplements DEF Service!Next
  <2>2. QED
    BY <2>1
<1>3. QED
  BY <1>1, <1>2

(* Behind the queue, the accept threads and the reuse of handles, a plain  *)
(* HTTP connection of a server on its owner's thread is answered at most   *)
(* once, and closed only after that, sent or lost, or with the process     *)
(* (http_server.cpp:72-76, 250-292, 338-357).                              *)
THEOREM ServiceRefinement ==
  ASSUME RunOnThread = FALSE, Kinds \cap UpgradeKinds = {}
  PROVE  Spec => ImplementsService
<1>1. Init => RInv
  <2>1. SUFFICES ASSUME Init PROVE RInv
    OBVIOUS
  <2>2. /\ \A c \in Conns : replies[c] = <<>> /\ Len(replies[c]) = 0
        /\ Len(backlog) = 0 /\ joined = {} /\ ended = {} /\ cpc = "test"
        /\ \A h \in Handles : sock[h] = None
    BY <2>1, EmptySeq DEF Init, NetInit
  <2>3. AInv
    BY <2>1, <2>2, InitTInv DEF Init, AInv, ReaderInv, ReplyToAsker
  <2>4. PlacesInv /\ ServedInv
    BY <2>2 DEF PlacesInv, ServedInv
  <2>5. QED
    BY <2>3, <2>4 DEF RInv
<1>2. RInv /\ [Next]_vars => RInv'
  BY NextRInv
<1>3. Init => Service!Init
  <2>1. SUFFICES ASSUME Init PROVE Service!Init
    OBVIOUS
  <2>2. \A c \in Conns : replies[c] = <<>> /\ Len(replies[c]) = 0
    BY <2>1, EmptySeq DEF Init, NetInit
  <2>3. \A c \in Conns : Sent(c) = 0
    BY <2>2, SentNothing
  <2>4. \A c \in Conns : Phase(c) = "away"
    BY <2>1, NoneIsNoConn DEF Init, NetInit, Phase
  <2>5. QED
    BY <2>3, <2>4 DEF Service!Init
<1>4. RInv /\ [Next]_vars => [Service!Next]_(Service!svars)
  BY ServiceStep
<1>5. QED
  BY <1>1, <1>2, <1>3, <1>4, PTL DEF Spec, ImplementsService, Service!Spec
=============================================================================
