-------------------------- MODULE SelectServerProofs --------------------------
(***************************************************************************)
(* Proofs about SelectServer, for any number of connections and handles    *)
(* and any size of the fd_set.                                             *)
(***************************************************************************)
EXTENDS SelectServer, SequenceTheorems, FiniteSetTheorems, WellFoundedInduction, TLAPS

-----------------------------------------------------------------------------
(* Each call of Winsock keeps the network variables in their types.  R is  *)
(* the set of replies of the server.                                       *)

(* The variables start in their types.                                     *)
LEMMA NetInitTyped ==
  ASSUME NEW R, NetInit
  PROVE  NetTypeOK(R)
<1>1. <<>> \in Seq(Conns) /\ <<>> \in Seq(Pieces) /\ <<>> \in Seq(R)
  BY EmptySeq
<1>2. QED
  BY <1>1 DEF NetInit, NetTypeOK

(* A peer connects.                                                        *)
LEMMA ConnectTyped ==
  ASSUME NEW R, NetTypeOK(R), NEW c \in Conns, Connect(c)
  PROVE  NetTypeOK(R)'
<1>1. backlog' \in Seq(Conns)
  BY AppendProperties DEF NetTypeOK, Connect
<1>2. QED
  BY <1>1 DEF NetTypeOK, Connect

(* One more piece of the stream arrives.                                   *)
LEMMA ArriveTyped ==
  ASSUME NEW R, NetTypeOK(R), NEW c \in Conns, NEW piece \in Pieces,
         Arrive(c, piece)
  PROVE  NetTypeOK(R)'
<1>1. Append(sent[c], piece) \in Seq(Pieces)
  BY AppendProperties DEF NetTypeOK
<1>2. sent' \in [Conns -> Seq(Pieces)]
  BY <1>1 DEF NetTypeOK, Arrive
<1>3. QED
  BY <1>2 DEF NetTypeOK, Arrive

(* accept().                                                               *)
LEMMA AcceptTyped ==
  ASSUME NEW R, NetTypeOK(R), NEW h \in Handles, CanAccept, AcceptAs(h)
  PROVE  NetTypeOK(R)'
<1>1. Head(backlog) \in Conns /\ Tail(backlog) \in Seq(Conns)
  BY HeadTailProperties DEF NetTypeOK, CanAccept
<1>2. QED
  BY <1>1 DEF NetTypeOK, AcceptAs

(* recv(): what it returns is a piece of the connection that is open.      *)
LEMMA PieceTyped ==
  ASSUME NEW R, NetTypeOK(R), NEW h \in Handles, Readable(h)
  PROVE  /\ sock[h] \in Conns
         /\ NextPiece(h) \in Conns \X Pieces
         /\ NextPiece(h)[1] = sock[h]
<1>1. sock[h] \in Conns
  BY DEF NetTypeOK, Readable
<1>2. sent[sock[h]] \in Seq(Pieces) /\ nread[sock[h]] \in Nat
  BY <1>1 DEF NetTypeOK
<1>3. nread[sock[h]] + 1 \in 1..Len(sent[sock[h]])
  BY <1>2, LenProperties DEF Readable
<1>4. sent[sock[h]][nread[sock[h]] + 1] \in Pieces
  BY <1>2, <1>3, ElementOfSeq
<1>5. QED
  BY <1>1, <1>4 DEF NextPiece

(* recv() only moves the reading position.                                 *)
LEMMA RecvTyped ==
  ASSUME NEW R, NetTypeOK(R), NEW h \in Handles, Readable(h), RecvFrom(h)
  PROVE  NetTypeOK(R)'
<1>1. sock[h] \in Conns
  BY PieceTyped
<1>2. nread' \in [Conns -> Nat]
  BY <1>1 DEF NetTypeOK, RecvFrom
<1>3. QED
  BY <1>2 DEF NetTypeOK, RecvFrom

(* send_all() adds one reply to the connection under the handle, if any.   *)
LEMMA SendTyped ==
  ASSUME NEW R, NetTypeOK(R), NEW h \in Handles, NEW r \in R, SendOn(h, r)
  PROVE  NetTypeOK(R)'
<1>1. ASSUME sock[h] # None
      PROVE  /\ sock[h] \in Conns
             /\ Append(replies[sock[h]], r) \in Seq(R)
  <2>1. sock[h] \in Conns
    BY <1>1 DEF NetTypeOK
  <2>2. replies[sock[h]] \in Seq(R)
    BY <2>1 DEF NetTypeOK
  <2>3. QED
    BY <2>1, <2>2, AppendProperties
<1>2. replies' \in [Conns -> Seq(R)]
  BY <1>1 DEF NetTypeOK, SendOn
<1>3. QED
  BY <1>2 DEF NetTypeOK, SendOn

(* closesocket() frees the handle.                                         *)
LEMMA CloseTyped ==
  ASSUME NEW R, NetTypeOK(R), NEW h \in Handles, CloseHandle(h)
  PROVE  NetTypeOK(R)'
BY DEF NetTypeOK, CloseHandle

(* closesocket() of the listener.                                          *)
LEMMA CloseListenerTyped ==
  ASSUME NEW R, NetTypeOK(R), CloseListener
  PROVE  NetTypeOK(R)'
<1>1. \A i \in 1..Len(backlog) : backlog[i] \in Conns
  BY ElementOfSeq DEF NetTypeOK
<1>2. backlog' \in Seq(Conns)
  BY EmptySeq DEF CloseListener
<1>3. listening' \in BOOLEAN
  BY Zenon DEF CloseListener
<1>4. ended' \in SUBSET Conns
  BY <1>1 DEF NetTypeOK, CloseListener
<1>5. QED
  BY <1>2, <1>3, <1>4 DEF NetTypeOK, CloseListener

(* WSACleanup(), or the end of the process.                                *)
LEMMA ReleaseTyped ==
  ASSUME NEW R, NetTypeOK(R), ReleaseAll
  PROVE  NetTypeOK(R)'
<1>1. backlog' \in Seq(Conns)
  BY EmptySeq DEF ReleaseAll
<1>2. QED
  BY <1>1 DEF NetTypeOK, ReleaseAll

-----------------------------------------------------------------------------
Sockets == Handles \cup {Listener}

(* FD_SET of a socket that is not in the array.                            *)
LEMMA FdSetProperties ==
  ASSUME NEW set \in Seq(Sockets), NEW s \in Sockets, s \notin Range(set),
         IsInjective(set), Len(set) <= FdSetSize
  PROVE  /\ FdSet(set, s) \in Seq(Sockets)
         /\ Range(set) \subseteq Range(FdSet(set, s))
         /\ Range(FdSet(set, s)) \subseteq Range(set) \cup {s}
         /\ IsInjective(FdSet(set, s))
         /\ Len(FdSet(set, s)) <= FdSetSize
         /\ set # <<>> => Head(FdSet(set, s)) = Head(set)
<1>1. CASE Len(set) >= FdSetSize
  BY <1>1 DEF FdSet
<1>2. CASE ~(Len(set) >= FdSetSize)
  <2>1. FdSet(set, s) = Append(set, s)
    BY <1>2 DEF FdSet
  <2>2. /\ Append(set, s) \in Seq(Sockets)
        /\ Len(set) \in Nat /\ Len(Append(set, s)) = Len(set) + 1
        /\ \A i \in 1..Len(set) : Append(set, s)[i] = set[i]
        /\ Append(set, s)[Len(set) + 1] = s
    BY AppendProperties, LenProperties
  <2>3. Range(set) \subseteq Range(Append(set, s))
    BY <2>2 DEF Range
  <2>4. Range(Append(set, s)) \subseteq Range(set) \cup {s}
    BY <2>2 DEF Range
  <2>5. IsInjective(Append(set, s))
    BY <2>2 DEF IsInjective, Range
  <2>6. Len(Append(set, s)) <= FdSetSize
    BY <1>2, <2>2, FdSetSizeAssumption
  <2>7. set # <<>> => Head(Append(set, s)) = Head(set)
    BY <2>2
  <2> QED
    BY <2>1, <2>2, <2>3, <2>4, <2>5, <2>6, <2>7
<1> QED
  BY <1>1, <1>2

(* FD_CLR of a socket that is in the array behind its head.                *)
LEMMA FdClrProperties ==
  ASSUME NEW set \in Seq(Sockets), NEW s \in Range(set), IsInjective(set),
         Head(set) # s
  PROVE  /\ FdClr(set, s) \in Seq(Sockets)
         /\ Range(FdClr(set, s)) = Range(set) \ {s}
         /\ IsInjective(FdClr(set, s))
         /\ Len(FdClr(set, s)) <= Len(set)
         /\ Head(FdClr(set, s)) = Head(set)
<1> DEFINE I == {i \in 1..Len(set) : set[i] = s}
           k == SelectInSeq(set, LAMBDA v : v = s)
           low == SubSeq(set, 1, k - 1)
           high == SubSeq(set, k + 1, Len(set))
<1>1. PICK j \in 1..Len(set) : set[j] = s
  BY DEF Range
<1>2. I = {j}
  BY <1>1 DEF IsInjective
<1>3. k = j
  <2>1. k = Min({j})
    BY <1>2 DEF SelectInSeq
  <2>2. Min({j}) = j
    BY DEF Min
  <2> QED
    BY <2>1, <2>2
<1>4. FdClr(set, s) = low \o high
  BY <1>1 DEF FdClr, RemoveFirst, RemoveAt
<1> HIDE DEF k
<1>5. Len(set) \in Nat /\ k \in 2..Len(set) /\ set[k] = s
  <2>1. Len(set) \in Nat /\ j \in 1..Len(set)
    OBVIOUS
  <2>2. j # 1
    BY <1>1
  <2> QED
    BY <1>1, <1>3, <2>1, <2>2
<1>6. /\ low \in Seq(Sockets) /\ Len(low) = k - 1
      /\ \A i \in 1..(k - 1) : low[i] = set[i]
  BY <1>5, SubSeqProperties
<1>7. /\ high \in Seq(Sockets) /\ Len(high) = Len(set) - k
      /\ \A i \in 1..(Len(set) - k) : high[i] = set[k + i]
  <2>1. \A i \in (k + 1)..Len(set) : set[i] \in Sockets
    BY <1>5
  <2>2. /\ high \in Seq(Sockets)
        /\ Len(high) = IF k + 1 <= Len(set) THEN Len(set) - (k + 1) + 1 ELSE 0
        /\ \A i \in 1..(Len(set) - (k + 1) + 1) : high[i] = set[(k + 1) + i - 1]
    BY <1>5, <2>1, SubSeqProperties
  <2> QED
    BY <1>5, <2>2
<1> DEFINE all == low \o high
<1>8. /\ all \in Seq(Sockets) /\ Len(all) = Len(set) - 1
      /\ \A i \in 1..Len(all) : all[i] = IF i < k THEN set[i] ELSE set[i + 1]
  <2>1. /\ all \in Seq(Sockets) /\ Len(all) = Len(low) + Len(high)
        /\ \A i \in 1..(Len(low) + Len(high)) :
              all[i] = IF i <= Len(low) THEN low[i] ELSE high[i - Len(low)]
    BY <1>6, <1>7, ConcatProperties
  <2> HIDE DEF all, low, high
  <2>2. Len(all) = Len(set) - 1 /\ Len(low) = k - 1
    BY <1>5, <1>6, <1>7, <2>1
  <2>3. ASSUME NEW i \in 1..Len(all)
        PROVE  all[i] = IF i < k THEN set[i] ELSE set[i + 1]
    <3>1. i \in 1..(Len(low) + Len(high)) /\ i \in Int
      BY <1>5, <2>1, <2>2, <1>7
    <3>2. CASE i < k
      <4>1. i \in 1..(k - 1) /\ i <= Len(low)
        BY <1>5, <2>2, <3>1, <3>2
      <4>2. low[i] = set[i]
        BY <1>6, <4>1
      <4>3. all[i] = low[i]
        BY <2>1, <3>1, <4>1
      <4> QED
        BY <3>2, <4>2, <4>3
    <3>3. CASE ~(i < k)
      <4>1. i - (k - 1) \in 1..(Len(set) - k) /\ ~(i <= Len(low)) /\ k + (i - (k - 1)) = i + 1
        BY <1>5, <2>2, <3>1, <3>3
      <4>2. high[i - (k - 1)] = set[k + (i - (k - 1))]
        BY <1>7, <4>1
      <4>3. all[i] = high[i - Len(low)]
        BY <2>1, <3>1, <4>1
      <4> QED
        BY <2>2, <3>3, <4>1, <4>2, <4>3
    <3> QED
      BY <3>2, <3>3
  <2> QED
    BY <2>1, <2>2, <2>3
<1> HIDE DEF all, low, high
<1>9. Range(all) = Range(set) \ {s}
  <2>1. ASSUME NEW i \in 1..Len(all) PROVE all[i] \in Range(set) \ {s}
    <3>1. i \in 1..Len(set) /\ i + 1 \in 1..Len(set)
      BY <1>5, <1>8
    <3>2. all[i] \in Range(set)
      BY <1>8, <3>1 DEF Range
    <3>3. all[i] # s
      <4>1. PICK m \in 1..Len(set) : m # k /\ all[i] = set[m]
        BY <1>5, <1>8, <3>1
      <4>2. m \in DOMAIN set /\ k \in DOMAIN set
        BY <1>5
      <4>3. set[m] = set[k] => m = k
        BY <4>2 DEF IsInjective
      <4> QED
        BY <1>5, <4>1, <4>3
    <3> QED
      BY <3>2, <3>3
  <2>2. ASSUME NEW i \in 1..Len(set), set[i] # s PROVE \E m \in 1..Len(all) : all[m] = set[i]
    <3>1. CASE i < k
      BY <1>5, <1>8, <3>1
    <3>2. CASE i > k
      <4>1. i - 1 \in 1..Len(all) /\ all[i - 1] = set[i]
        BY <1>5, <1>8, <3>2
      <4> QED
        BY <4>1
    <3> QED
      BY <1>5, <2>2, <3>1, <3>2
  <2>3. DOMAIN all = 1..Len(all) /\ DOMAIN set = 1..Len(set)
    BY <1>8
  <2>4. Range(all) = {all[i] : i \in 1..Len(all)} /\ Range(set) = {set[i] : i \in 1..Len(set)}
    BY <2>3 DEF Range
  <2>5. Range(all) \subseteq Range(set) \ {s}
    BY <2>1, <2>4
  <2>6. Range(set) \ {s} \subseteq Range(all)
    BY <2>2, <2>4
  <2> QED
    BY <2>5, <2>6
<1>10. IsInjective(all)
  <2>1. SUFFICES ASSUME NEW a \in 1..Len(all), NEW b \in 1..Len(all), all[a] = all[b]
                 PROVE  a = b
    BY <1>8 DEF IsInjective
  <2> DEFINE at(i) == IF i < k THEN i ELSE i + 1
  <2>2. at(a) \in 1..Len(set) /\ at(b) \in 1..Len(set)
    BY <1>5, <1>8
  <2>3. set[at(a)] = set[at(b)]
    BY <1>8, <2>1
  <2>4. at(a) = at(b)
    BY <2>2, <2>3 DEF IsInjective
  <2> QED
    BY <1>5, <2>4
<1>11. Head(all) = Head(set)
  BY <1>5, <1>8
<1> QED
  BY <1>4, <1>5, <1>8, <1>9, <1>10, <1>11 DEF all

(* What select() leaves of a set: some of its sockets, once each.          *)
LEMMA SelectProperties ==
  ASSUME NEW set \in Seq(Sockets), NEW S \in SUBSET Range(set),
         NEW list \in SetToSeqs(S)
  PROVE  /\ list \in Seq(Sockets)
         /\ Range(list) \subseteq Range(set)
         /\ IsInjective(list)
<1>1. set \in Surjection(1..Len(set), Range(set)) /\ Len(set) \in Nat
  BY DEF Surjection, Range
<1>2. IsFiniteSet(Range(set))
  BY <1>1, FS_Interval, FS_Surjection
<1>3. Cardinality(S) \in Nat
  BY <1>2, FS_Subset, FS_CardinalityType
<1>4. /\ list \in [1..Cardinality(S) -> S]
      /\ \A i, j \in 1..Cardinality(S) : i # j => list[i] # list[j]
  BY DEF SetToSeqs
<1>5. Range(set) \subseteq Sockets
  BY DEF Range
<1>6. list \in [1..Cardinality(S) -> Sockets]
  BY <1>4, <1>5
<1>7. list \in Seq(Sockets)
  BY <1>3, <1>6, SeqDef
<1> QED
  BY <1>4, <1>7 DEF Range, IsInjective

-----------------------------------------------------------------------------
(* What each program counter says of run()'s locals.                       *)
InClient == pc \in {"recv", "answer", "close"}

LocalsOK ==
  /\ currentSocket \in Handles <=> InClient
  /\ ~InClient => rx = <<>>
  /\ pc = "answer" => rx # <<>>

TInv == TypeOK /\ LocalsOK
AInv == TInv /\ ArrayIsOpen

LEMMA InitAInv == Init => AInv
<1> SUFFICES ASSUME Init PROVE AInv
  OBVIOUS
<1>1. NetTypeOK(Replies)
  BY NetInitTyped DEF Init
<1>2. /\ temp_set \in Seq(Sockets) /\ Len(temp_set) = 1 /\ Head(temp_set) = Listener
      /\ Range(temp_set) = {Listener} /\ IsInjective(temp_set)
  BY DEF Init, Sockets, Range, IsInjective
<1>3. /\ fd_set_read \in Seq(Sockets) /\ rx \in Seq(Conns \X Pieces)
      /\ Range(fd_set_read) = {} /\ IsInjective(fd_set_read)
  BY EmptySeq DEF Init, Range, IsInjective
<1>4. shutdown_server \in BOOLEAN /\ aborted \in BOOLEAN
  BY Zenon DEF Init
<1>5. TypeOK
  BY <1>1, <1>2, <1>3, <1>4 DEF Init, TypeOK, Sockets
<1>6. LocalsOK
  BY NoneIsNoHandle DEF Init, LocalsOK, InClient
<1>7. ArrayIsOpen
  BY <1>2, <1>3, FdSetSizeAssumption DEF Init, ArrayIsOpen
<1> QED
  BY <1>5, <1>6, <1>7 DEF AInv, TInv

LEMMA NetKept ==
  ASSUME TypeOK, UNCHANGED netVars
  PROVE  NetTypeOK(Replies)'
  BY DEF TypeOK, NetTypeOK, netVars

(* Peers change neither the handles nor what run() keeps.                  *)
LEMMA PeerAInv ==
  ASSUME AInv, NEW c \in Conns, Peer(c)
  PROVE  AInv'
<1> USE DEF AInv, TInv
<1>1. UNCHANGED <<kind, serverVars>>
  BY DEF Peer
<1>2. NetTypeOK(Replies)' /\ sock' = sock
  <2>1. CASE Connect(c)
    BY <2>1, ConnectTyped DEF TypeOK, Connect
  <2>2. CASE \E piece \in NextPieces(c) : Arrive(c, piece)
    <3>1. PICK piece \in NextPieces(c) : Arrive(c, piece)
      BY <2>2
    <3>2. piece \in Pieces
      <4>1. Request(c) \in {<<"head", "rest">>, <<"head">>, <<>>}
        <5>1. kind[c] \in {"silent", "page", "form", "json"}
          BY KindsAssumption DEF TypeOK
        <5> QED
          BY <5>1, Zenon DEF Request
      <4>2. Len(sent[c]) \in Nat
        BY LenProperties DEF TypeOK, NetTypeOK
      <4>3. Len(sent[c]) < Len(Request(c)) => Request(c)[Len(sent[c]) + 1] \in {"head", "rest"}
        BY <4>1, <4>2
      <4>4. piece \in {"head", "rest", "fin"}
        BY <4>3 DEF NextPieces
      <4> QED
        BY <4>4, PiecesAssumption
    <3> QED
      BY <3>1, <3>2, ArriveTyped DEF TypeOK, Arrive
  <2> QED
    BY <2>1, <2>2 DEF Peer
<1>3. TypeOK'
  BY <1>1, <1>2 DEF TypeOK, serverVars
<1>4. LocalsOK'
  BY <1>1 DEF LocalsOK, InClient, serverVars
<1>5. ArrayIsOpen'
  BY <1>1, <1>2 DEF ArrayIsOpen, Serving, serverVars
<1> QED
  BY <1>3, <1>4, <1>5

(* The first socket of a round is served and the rest is left: nothing is  *)
(* in the rest that is not in the array, and it is not in the rest.        *)
LEMMA RestOfRound ==
  ASSUME AInv, Serving, fd_set_read # <<>>
  PROVE  /\ Head(fd_set_read) \in Range(temp_set)
         /\ Tail(fd_set_read) \in Seq(Sockets)
         /\ Range(Tail(fd_set_read)) \subseteq Range(fd_set_read) \ {Head(fd_set_read)}
         /\ IsInjective(Tail(fd_set_read))
<1>1. /\ fd_set_read \in Seq(Sockets) /\ IsInjective(fd_set_read)
      /\ Range(fd_set_read) \subseteq Range(temp_set)
  BY DEF AInv, TInv, TypeOK, ArrayIsOpen, Sockets
<1>2. /\ Tail(fd_set_read) \in Seq(Sockets) /\ Len(Tail(fd_set_read)) = Len(fd_set_read) - 1
      /\ \A i \in 1..Len(Tail(fd_set_read)) : Tail(fd_set_read)[i] = fd_set_read[i + 1]
  BY <1>1, HeadTailProperties
<1>3. 1 \in 1..Len(fd_set_read) /\ Head(fd_set_read) = fd_set_read[1]
  BY <1>1, EmptySeq
<1>4. Head(fd_set_read) \in Range(temp_set)
  BY <1>1, <1>3 DEF Range
<1>5. Range(Tail(fd_set_read)) \subseteq Range(fd_set_read) \ {Head(fd_set_read)}
  BY <1>1, <1>2, <1>3 DEF Range, IsInjective
<1>6. IsInjective(Tail(fd_set_read))
  BY <1>1, <1>2 DEF IsInjective
<1> QED
  BY <1>2, <1>4, <1>5, <1>6

(* The rounds of run().                                                    *)
LEMMA RoundAInv ==
  ASSUME AInv, Select \/ RunReturns \/ RoundDone \/ AcceptFails \/ SignalShutdown
  PROVE  AInv'
<1> USE DEF AInv, TInv
<1>1. UNCHANGED <<netVars, kind, temp_set, currentSocket, rx, aborted>>
  BY DEF Select, RunReturns, RoundDone, AcceptFails, SignalShutdown
<1>2. NetTypeOK(Replies)' /\ sock' = sock
  BY <1>1, NetKept DEF netVars
<1>3. temp_set \in Seq(Sockets) /\ fd_set_read \in Seq(Sockets)
  BY DEF TypeOK, Sockets
<1>4. CASE Select
  <2>1. fd_set_read' \in SetToSeqs({s \in Range(temp_set) : Ready(s)})
    BY <1>4 DEF Select
  <2>2. /\ fd_set_read' \in Seq(Sockets) /\ Range(fd_set_read') \subseteq Range(temp_set)
        /\ IsInjective(fd_set_read')
    BY <1>3, <2>1, SelectProperties
  <2>3. pc = "select" /\ pc' = "loop" /\ shutdown_server' = shutdown_server /\ ~aborted
    BY <1>4 DEF Select, At
  <2>4. currentSocket = None
    BY <2>3 DEF LocalsOK, InClient, TypeOK
  <2>5. TypeOK'
    BY <1>1, <1>2, <2>2, <2>3 DEF TypeOK, Sockets
  <2>6. LocalsOK'
    BY <1>1, <2>3 DEF LocalsOK, InClient
  <2>7. ArrayIsOpen'
    BY <1>1, <1>2, <2>2, <2>3, <2>4 DEF ArrayIsOpen, Serving
  <2> QED
    BY <2>5, <2>6, <2>7
<1>5. CASE RunReturns \/ RoundDone \/ SignalShutdown
  <2>1. /\ fd_set_read' = fd_set_read
        /\ \/ pc = "select" /\ pc' = "stopped"
           \/ pc = "loop" /\ pc' = "select"
           \/ pc' = pc
    <3>1. CASE RunReturns
      BY <3>1, Zenon DEF RunReturns, At
    <3>2. CASE RoundDone
      BY <3>2, Zenon DEF RoundDone, At
    <3>3. CASE SignalShutdown
      BY <3>3, Zenon DEF SignalShutdown
    <3> QED
      BY <1>5, <3>1, <3>2, <3>3
  <2>2. shutdown_server' \in BOOLEAN
    <3>1. CASE RunReturns
      BY <3>1 DEF RunReturns, TypeOK
    <3>2. CASE RoundDone
      BY <3>2 DEF RoundDone, TypeOK
    <3>3. CASE SignalShutdown
      BY <3>3, Zenon DEF SignalShutdown
    <3> QED
      BY <1>5, <3>1, <3>2, <3>3
  <2>3. TypeOK'
    BY <1>1, <1>2, <2>1, <2>2 DEF TypeOK
  <2>4. LocalsOK'
    BY <1>1, <2>1 DEF LocalsOK, InClient
  <2>5. ArrayIsOpen'
    BY <1>1, <1>2, <2>1 DEF ArrayIsOpen, Serving
  <2> QED
    BY <2>3, <2>4, <2>5
<1>6. CASE AcceptFails
  <2>1. /\ fd_set_read # <<>> /\ fd_set_read' = Tail(fd_set_read)
        /\ pc' = pc /\ shutdown_server' = shutdown_server
    BY <1>6 DEF AcceptFails
  <2>2. Serving
    BY <1>6 DEF AcceptFails, At, Serving
  <2>3. /\ fd_set_read' \in Seq(Sockets)
        /\ Range(fd_set_read') \subseteq Range(fd_set_read)
        /\ IsInjective(fd_set_read')
    BY <2>1, <2>2, RestOfRound
  <2>5. TypeOK'
    BY <1>1, <1>2, <2>1, <2>3 DEF TypeOK, Sockets
  <2>6. LocalsOK'
    BY <1>1, <2>1 DEF LocalsOK, InClient
  <2>7. ArrayIsOpen'
    BY <1>1, <1>2, <2>1, <2>3 DEF ArrayIsOpen, Serving
  <2> QED
    BY <2>5, <2>6, <2>7
<1> QED
  BY <1>4, <1>5, <1>6

(* accept() takes a free handle, which is not in the array then.           *)
LEMMA AcceptAInv ==
  ASSUME AInv, AcceptNew
  PROVE  AInv'
<1> USE DEF AInv, TInv
<1>1. PICK h \in FreeHandles : AcceptAs(h) /\ temp_set' = FdSet(temp_set, h)
  BY DEF AcceptNew
<1>2. /\ UNCHANGED <<kind, shutdown_server, pc, currentSocket, rx, aborted>>
      /\ pc = "loop" /\ ~aborted /\ Serving /\ fd_set_read # <<>>
      /\ fd_set_read' = Tail(fd_set_read) /\ CanAccept
  BY DEF AcceptNew, At, Serving
<1>3. h \in Handles /\ sock[h] = None /\ h # Listener
  BY ListenerAssumption DEF FreeHandles
<1>4. NetTypeOK(Replies)'
  BY <1>1, <1>2, <1>3, AcceptTyped DEF TypeOK
<1>5. ArrayIsOpen /\ temp_set \in Seq(Sockets) /\ h \in Sockets /\ h \notin Range(temp_set)
  BY <1>2, <1>3 DEF ArrayIsOpen, TypeOK, Sockets
<1>6. temp_set # <<>>
  <2>1. Listener \in Range(temp_set) \/ temp_set # <<>>
    BY <1>2, <1>5, RestOfRound DEF Range
  <2> QED
    BY <2>1 DEF Range
<1>7. /\ temp_set' \in Seq(Sockets)
      /\ Range(temp_set) \subseteq Range(temp_set') /\ Range(temp_set') \subseteq Range(temp_set) \cup {h}
      /\ IsInjective(temp_set') /\ Len(temp_set') <= FdSetSize /\ Head(temp_set') = Listener
  BY <1>1, <1>2, <1>5, <1>6, FdSetProperties DEF ArrayIsOpen
<1>8. /\ fd_set_read' \in Seq(Sockets) /\ Range(fd_set_read') \subseteq Range(fd_set_read)
      /\ IsInjective(fd_set_read')
  BY <1>2, RestOfRound
<1>9. \A g \in Handles : g # h => sock'[g] = sock[g]
  BY <1>1, <1>3 DEF AcceptAs, TypeOK, NetTypeOK
<1>10. sock'[h] # None
  <2>1. Head(backlog) \in Conns
    BY <1>2, HeadTailProperties DEF CanAccept, TypeOK, NetTypeOK
  <2>2. sock'[h] = Head(backlog)
    BY <1>1, <1>3 DEF AcceptAs, TypeOK, NetTypeOK
  <2> QED
    BY <2>1, <2>2, NoneIsNoConn
<1>11. TypeOK'
  BY <1>2, <1>4, <1>7, <1>8 DEF TypeOK, Sockets
<1>12. LocalsOK' /\ currentSocket = None
  BY <1>2 DEF LocalsOK, InClient, TypeOK
<1>13. ArrayIsOpen'
  <2>1. \A g \in (Range(temp_set') \cup Range(fd_set_read')) \ {Listener} : sock'[g] # None
    <3>1. SUFFICES ASSUME NEW g \in (Range(temp_set') \cup Range(fd_set_read')) \ {Listener}, g # h
                   PROVE  sock'[g] # None
      BY <1>10
    <3>2. g \in (Range(temp_set) \cup Range(fd_set_read)) \ {Listener}
      BY <1>7, <1>8, <3>1
    <3>3. g \in Handles
      BY <1>5, <3>2 DEF TypeOK, Sockets, Range
    <3> QED
      BY <1>2, <1>5, <1>9, <3>1, <3>2, <3>3 DEF ArrayIsOpen
  <2>2. Range(fd_set_read') \subseteq Range(temp_set')
    BY <1>2, <1>5, <1>7, <1>8 DEF ArrayIsOpen
  <2> QED
    BY <1>2, <1>7, <1>8, <1>12, <2>1, <2>2 DEF ArrayIsOpen
<1> QED
  BY <1>11, <1>12, <1>13

(* One client of a round, from select()'s entry to closesocket().          *)
LEMMA ClientAInv ==
  ASSUME AInv, ServeClient \/ RecvPiece \/ RecvDone \/ Answer
  PROVE  AInv'
<1> USE DEF AInv, TInv
<1>1. CASE ServeClient
  <2>1. /\ UNCHANGED <<netVars, kind, temp_set, shutdown_server, rx, aborted>>
        /\ pc = "loop" /\ pc' = "recv" /\ Serving /\ fd_set_read # <<>>
        /\ currentSocket' = Head(fd_set_read) /\ currentSocket' # Listener
        /\ fd_set_read' = Tail(fd_set_read)
    BY <1>1 DEF ServeClient, At, Serving
  <2>2. /\ currentSocket' \in Range(temp_set) /\ fd_set_read' \in Seq(Sockets)
        /\ Range(fd_set_read') \subseteq Range(fd_set_read) \ {currentSocket'}
        /\ IsInjective(fd_set_read')
    BY <2>1, RestOfRound
  <2>3. currentSocket' \in Handles
    BY <2>1, <2>2 DEF TypeOK, Range
  <2>4. NetTypeOK(Replies)' /\ sock' = sock
    BY <2>1, NetKept DEF netVars
  <2>5. TypeOK'
    BY <2>1, <2>2, <2>3, <2>4 DEF TypeOK, Sockets
  <2>6. LocalsOK'
    BY <2>1, <2>3 DEF LocalsOK, InClient
  <2>7. ArrayIsOpen'
    BY <2>1, <2>2, <2>4 DEF ArrayIsOpen, Serving
  <2> QED
    BY <2>5, <2>6, <2>7
<1>2. CASE RecvPiece
  <2>1. /\ UNCHANGED <<kind, temp_set, fd_set_read, shutdown_server, pc, currentSocket, aborted>>
        /\ pc = "recv" /\ Readable(currentSocket) /\ RecvFrom(currentSocket)
        /\ rx' = Append(rx, NextPiece(currentSocket))
    BY <1>2 DEF RecvPiece, HasPiece, At
  <2>2. currentSocket \in Handles
    BY <2>1 DEF LocalsOK, InClient
  <2>3. NetTypeOK(Replies)' /\ sock' = sock
    BY <2>1, <2>2, RecvTyped DEF TypeOK, RecvFrom
  <2>4. rx' \in Seq(Conns \X Pieces)
    BY <2>1, <2>2, PieceTyped, AppendProperties DEF TypeOK
  <2>5. TypeOK'
    BY <2>1, <2>3, <2>4 DEF TypeOK
  <2>6. LocalsOK'
    BY <2>1 DEF LocalsOK, InClient
  <2>7. ArrayIsOpen'
    BY <2>1, <2>3 DEF ArrayIsOpen, Serving
  <2> QED
    BY <2>5, <2>6, <2>7
<1>3. CASE RecvDone
  <2>1. /\ UNCHANGED <<netVars, kind, temp_set, fd_set_read, shutdown_server, currentSocket, rx, aborted>>
        /\ pc = "recv" /\ pc' = IF rx = <<>> THEN "close" ELSE "answer"
    BY <1>3 DEF RecvDone, At
  <2>2. NetTypeOK(Replies)' /\ sock' = sock
    BY <2>1, NetKept DEF netVars
  <2>3. TypeOK'
    BY <2>1, <2>2 DEF TypeOK
  <2>4. LocalsOK'
    BY <2>1 DEF LocalsOK, InClient
  <2>5. ArrayIsOpen'
    BY <2>1, <2>2 DEF ArrayIsOpen, Serving
  <2> QED
    BY <2>3, <2>4, <2>5
<1>4. CASE Answer
  <2> DEFINE r == [of |-> Asker, whole |-> Whole]
  <2>1. /\ UNCHANGED <<kind, temp_set, fd_set_read, shutdown_server, currentSocket, rx, aborted>>
        /\ pc = "answer" /\ pc' = "close" /\ SendOn(currentSocket, r)
    BY <1>4 DEF Answer, At
  <2>2. currentSocket \in Handles /\ rx # <<>> /\ rx \in Seq(Conns \X Pieces)
    BY <2>1 DEF LocalsOK, InClient, TypeOK
  <2>3. r \in Replies
    <3>1. 1 \in 1..Len(rx)
      BY <2>2, EmptySeq
    <3>2. rx[1] \in Conns \X Pieces
      BY <2>2, <3>1, ElementOfSeq
    <3>3. Asker \in Conns
      BY <3>2 DEF Asker
    <3>4. Whole \in BOOLEAN
      BY DEF Whole
    <3> QED
      BY <3>3, <3>4 DEF Replies
  <2> HIDE DEF r
  <2>4. NetTypeOK(Replies)' /\ sock' = sock
    BY <2>1, <2>2, <2>3, SendTyped DEF TypeOK, SendOn
  <2>5. TypeOK'
    BY <2>1, <2>4 DEF TypeOK
  <2>6. LocalsOK'
    BY <2>1 DEF LocalsOK, InClient
  <2>7. ArrayIsOpen'
    BY <2>1, <2>4 DEF ArrayIsOpen, Serving
  <2> QED
    BY <2>5, <2>6, <2>7
<1> QED
  BY <1>1, <1>2, <1>3, <1>4

LEMMA CloseAInv ==
  ASSUME AInv, CloseClient
  PROVE  AInv'
<1> USE DEF AInv, TInv
<1>1. /\ UNCHANGED <<kind, fd_set_read, shutdown_server, aborted>>
      /\ pc = "close" /\ pc' = "loop" /\ Serving
      /\ CloseHandle(currentSocket) /\ temp_set' = FdClr(temp_set, currentSocket)
      /\ currentSocket' = None /\ rx' = <<>>
  BY DEF CloseClient, At, Serving
<1>2. currentSocket \in Handles /\ currentSocket # None /\ currentSocket # Listener
  BY <1>1, NoneIsNoHandle, ListenerAssumption DEF LocalsOK, InClient
<1>3. NetTypeOK(Replies)'
  BY <1>1, <1>2, CloseTyped DEF TypeOK
<1>4. /\ temp_set \in Seq(Sockets) /\ currentSocket \in Range(temp_set)
      /\ currentSocket \notin Range(fd_set_read)
      /\ IsInjective(temp_set) /\ Head(temp_set) = Listener
  BY <1>1, <1>2 DEF ArrayIsOpen, TypeOK, Sockets
<1>5. /\ temp_set' \in Seq(Sockets) /\ Range(temp_set') = Range(temp_set) \ {currentSocket}
      /\ IsInjective(temp_set') /\ Len(temp_set') <= Len(temp_set) /\ Head(temp_set') = Listener
  BY <1>1, <1>2, <1>4, FdClrProperties
<1>6. Len(temp_set') <= FdSetSize
  <2>1. Len(temp_set) <= FdSetSize /\ Len(temp_set) \in Nat /\ Len(temp_set') \in Nat
    BY <1>1, <1>4, <1>5, LenProperties DEF ArrayIsOpen
  <2> QED
    BY <1>5, <2>1, FdSetSizeAssumption
<1>7. TypeOK'
  BY <1>1, <1>3, <1>5, EmptySeq DEF TypeOK, Sockets
<1>8. LocalsOK'
  BY <1>1, NoneIsNoHandle DEF LocalsOK, InClient
<1>9. ArrayIsOpen'
  <2>1. \A h \in Sockets \ {Listener} : h # currentSocket => sock'[h] = sock[h]
    BY <1>1 DEF CloseHandle, TypeOK, NetTypeOK, Sockets
  <2>2. Range(temp_set) \subseteq Sockets /\ Range(fd_set_read) \subseteq Sockets
    BY DEF TypeOK, Range, Sockets
  <2>3. \A h \in (Range(temp_set') \cup Range(fd_set_read')) \ {Listener} : sock'[h] # None
    BY <1>1, <1>4, <1>5, <2>1, <2>2 DEF ArrayIsOpen
  <2> QED
    BY <1>1, <1>4, <1>5, <1>6, <2>3 DEF ArrayIsOpen
<1> QED
  BY <1>7, <1>8, <1>9

(* The destructor, and the end of the process: nothing is served any more. *)
LEMMA EndAInv ==
  ASSUME AInv, HandlerThrows \/ CloseServerSocket \/ Cleanup
  PROVE  AInv'
<1> USE DEF AInv, TInv
<1>1. /\ UNCHANGED <<kind, temp_set, fd_set_read, shutdown_server, currentSocket, rx>>
      /\ pc' = pc \/ (pc = "stopped" /\ pc' = "cleanup") \/ (pc = "cleanup" /\ pc' = "destroyed")
  BY DEF HandlerThrows, CloseServerSocket, Cleanup, At
<1>2. NetTypeOK(Replies)'
  BY ReleaseTyped, CloseListenerTyped DEF TypeOK, HandlerThrows, CloseServerSocket, Cleanup
<1>3. aborted' \in BOOLEAN
  BY Zenon DEF TypeOK, HandlerThrows, CloseServerSocket, Cleanup
<1>4. TypeOK'
  BY <1>1, <1>2, <1>3 DEF TypeOK
<1>5. LocalsOK'
  BY <1>1 DEF LocalsOK, InClient
<1>6. ~Serving'
  BY DEF Serving, HandlerThrows, CloseServerSocket, Cleanup, At
<1> QED
  BY <1>4, <1>5, <1>6 DEF ArrayIsOpen

LEMMA NextAInv ==
  ASSUME AInv, [Next]_vars
  PROVE  AInv'
<1>1. CASE UNCHANGED vars
  <2>1. NetTypeOK(Replies)' /\ sock' = sock
    BY <1>1, NetKept DEF vars, AInv, TInv, netVars
  <2>2. UNCHANGED <<kind, serverVars>>
    BY <1>1 DEF vars
  <2>3. TypeOK'
    BY <2>1, <2>2 DEF AInv, TInv, TypeOK, serverVars
  <2>4. LocalsOK' /\ ArrayIsOpen'
    BY <2>1, <2>2 DEF AInv, TInv, LocalsOK, InClient, ArrayIsOpen, Serving, serverVars
  <2> QED
    BY <2>3, <2>4 DEF AInv, TInv
<1>2. CASE Next
  BY <1>2, PeerAInv, RoundAInv, AcceptAInv, ClientAInv, CloseAInv, EndAInv DEF Next, Server
<1> QED
  BY <1>1, <1>2

(* Types of the variables of run() and of the destructor.                  *)
THEOREM TypeCorrect == Spec => []TypeOK
<1>1. Spec => []AInv
  BY InitAInv, NextAInv, PTL DEF Spec
<1>2. AInv => TypeOK
  BY DEF AInv, TInv
<1> QED
  BY <1>1, <1>2, PTL

(* The fd_set and the list of a round name open sockets only, each once,   *)
(* for any number of clients, although handles are reused while the round  *)
(* is served (http_server.cpp:152-200).                                    *)
THEOREM ArrayStaysOpen == Spec => []ArrayIsOpen
<1>1. Spec => []AInv
  BY InitAInv, NextAInv, PTL DEF Spec
<1>2. AInv => ArrayIsOpen
  BY DEF AInv
<1> QED
  BY <1>1, <1>2, PTL

(* FD_SET() of a socket that is not in the array puts it there, unless     *)
(* there is no room.                                                       *)
LEMMA FdSetAdds ==
  ASSUME NEW set \in Seq(Sockets), NEW s \in Sockets, Len(set) <= FdSetSize
  PROVE  s \in Range(FdSet(set, s)) \/ Len(set) = FdSetSize
<1>1. Len(set) \in Nat
  BY LenProperties
<1>2. CASE s \in Range(set) \/ Len(set) >= FdSetSize
  BY <1>1, <1>2, FdSetSizeAssumption DEF FdSet
<1>3. CASE ~(s \in Range(set) \/ Len(set) >= FdSetSize)
  <2>1. FdSet(set, s) = Append(set, s)
    BY <1>3 DEF FdSet
  <2>2. Len(set) + 1 \in DOMAIN Append(set, s) /\ Append(set, s)[Len(set) + 1] = s
    BY <1>1, AppendProperties
  <2> QED
    BY <2>1, <2>2 DEF Range
<1> QED
  BY <1>2, <1>3

(* Most steps open no socket and take none out of the array.               *)
LEMMA WatchedStays ==
  ASSUME NEW h \in Handles, ~Unwatched(h),
         temp_set' = temp_set, sock'[h] = sock[h] \/ sock'[h] = None
  PROVE  ~Unwatched(h)'
BY DEF Unwatched

(* The server loses an open client only when it accepts one with the array *)
(* full, for any number of clients and any size of the array               *)
(* (http_server.cpp:172-176, 198-199).                                     *)
THEOREM LostAtTheLimit == Spec => LostToAFullArray
<1>1. ASSUME AInv, [Next]_vars, NEW h \in Handles, ~Unwatched(h), Unwatched(h)'
      PROVE  sock[h] = None /\ Len(temp_set) = FdSetSize
  <2> USE <1>1 DEF AInv, TInv
  <2>1. ~(temp_set' = temp_set /\ (sock' = sock \/ sock'[h] = None))
    BY WatchedStays
  <2>2. CASE AcceptNew
    <3>1. PICK g \in FreeHandles : AcceptAs(g) /\ temp_set' = FdSet(temp_set, g)
      BY <2>2 DEF AcceptNew
    <3>2. ArrayIsOpen /\ Serving
      BY <2>2 DEF AcceptNew, At, Serving
    <3>3. g \in Handles /\ sock[g] = None /\ g # Listener
      BY <3>1, ListenerAssumption DEF FreeHandles
    <3>4. temp_set \in Seq(Sockets) /\ g \in Sockets /\ g \notin Range(temp_set)
      BY <3>2, <3>3 DEF ArrayIsOpen, TypeOK, Sockets
    <3>5. /\ IsInjective(temp_set) /\ Len(temp_set) <= FdSetSize
          /\ Range(temp_set) \subseteq Range(temp_set')
      BY <3>1, <3>2, <3>4, FdSetProperties DEF ArrayIsOpen
    <3>6. \A i \in Handles : i # g => sock'[i] = sock[i]
      BY <3>1, <3>3 DEF AcceptAs, TypeOK, NetTypeOK
    <3>7. h = g
      BY <3>5, <3>6 DEF Unwatched
    <3>8. g \notin Range(temp_set')
      BY <3>7 DEF Unwatched
    <3> QED
      BY <3>1, <3>3, <3>4, <3>5, <3>7, <3>8, FdSetAdds
  <2>3. ~CloseClient
    <3> SUFFICES ASSUME CloseClient PROVE FALSE
      OBVIOUS
    <3>1. /\ pc = "close" /\ Serving /\ CloseHandle(currentSocket)
          /\ temp_set' = FdClr(temp_set, currentSocket)
      BY DEF CloseClient, At, Serving
    <3>2. currentSocket \in Handles /\ currentSocket # None /\ currentSocket # Listener
      BY <3>1, NoneIsNoHandle, ListenerAssumption DEF LocalsOK, InClient
    <3>3. /\ temp_set \in Seq(Sockets) /\ currentSocket \in Range(temp_set)
          /\ IsInjective(temp_set) /\ Head(temp_set) = Listener
      BY <3>1, <3>2 DEF ArrayIsOpen, TypeOK, Sockets
    <3>4. Range(temp_set') = Range(temp_set) \ {currentSocket}
      BY <3>1, <3>2, <3>3, FdClrProperties
    <3>5. sock' = [sock EXCEPT ![currentSocket] = None]
      BY <3>1 DEF CloseHandle
    <3>6. h # currentSocket
      BY <3>2, <3>5 DEF Unwatched, TypeOK, NetTypeOK
    <3>7. sock'[h] = sock[h]
      BY <3>5, <3>6 DEF TypeOK, NetTypeOK
    <3> QED
      BY <3>4, <3>6, <3>7 DEF Unwatched
  <2>4. ~UNCHANGED vars
    BY <2>1 DEF vars, netVars, serverVars
  <2>5. \A c \in Conns : ~Peer(c)
    BY <2>1 DEF Peer, Connect, Arrive, serverVars
  <2>6. ~(Select \/ RunReturns \/ RoundDone \/ AcceptFails \/ SignalShutdown)
    BY <2>1 DEF Select, RunReturns, RoundDone, AcceptFails, SignalShutdown, netVars
  <2>7. ~(ServeClient \/ RecvPiece \/ RecvDone \/ Answer)
    BY <2>1 DEF ServeClient, RecvPiece, RecvDone, Answer, RecvFrom, SendOn, netVars
  <2>8. ~(HandlerThrows \/ CloseServerSocket \/ Cleanup)
    BY <2>1 DEF HandlerThrows, CloseServerSocket, Cleanup, ReleaseAll, CloseListener
  <2> QED
    BY <2>2, <2>3, <2>4, <2>5, <2>6, <2>7, <2>8 DEF Next, Server
<1>2. AInv /\ [Next]_vars
        => [\A h \in Handles :
              ~Unwatched(h) /\ Unwatched(h)' =>
                sock[h] = None /\ Len(temp_set) = FdSetSize]_vars
  BY <1>1
<1> QED
  BY <1>2, InitAInv, NextAInv, PTL DEF Spec, LostToAFullArray

-----------------------------------------------------------------------------
(* A connection is in the backlog, or under one handle, or at its end; an  *)
(* answered one is at its end or about to be closed; what has been read    *)
(* was read from the connection under the current socket.                  *)
OwnedOK ==
  /\ \A h \in Handles : sock[h] # None =>
       sock[h] \in joined /\ sock[h] \notin ended /\ sock[h] \notin Range(backlog)
  /\ \A h, g \in Handles : sock[h] # None /\ sock[h] = sock[g] => h = g
  /\ IsInjective(backlog)
  /\ \A i \in DOMAIN backlog : backlog[i] \in joined /\ backlog[i] \notin ended
  /\ ended \subseteq joined

AnsweredOK ==
  \A c \in Conns : replies[c] # <<>> =>
    c \in ended \/ (~aborted /\ pc = "close" /\ sock[currentSocket] = c)

ReadOK ==
  ~aborted /\ InClient =>
    \A i \in DOMAIN rx : rx[i][1] = sock[currentSocket]

OInv == AInv /\ OwnedOK /\ AnsweredOK /\ ReadOK /\ AnsweredOnce

LEMMA InitOInv == Init => OInv
<1> SUFFICES ASSUME Init PROVE OInv
  OBVIOUS
<1>1. /\ \A h \in Handles : sock[h] = None
      /\ backlog = <<>> /\ joined = {} /\ ended = {}
      /\ \A c \in Conns : replies[c] = <<>>
      /\ pc = "select"
  BY DEF Init, NetInit
<1>2. OwnedOK
  BY <1>1 DEF OwnedOK, Range, IsInjective
<1>3. AnsweredOK /\ AnsweredOnce
  <2>1. \A c \in Conns : Len(replies[c]) = 0
    BY <1>1, EmptySeq
  <2> QED
    BY <1>1, <2>1 DEF AnsweredOK, AnsweredOnce
<1>4. ReadOK
  BY <1>1 DEF ReadOK, InClient
<1> QED
  BY <1>2, <1>3, <1>4, InitAInv DEF OInv

(* The current socket is open while a client is served.                    *)
LEMMA CurrentIsOpen ==
  ASSUME AInv, ~aborted, InClient
  PROVE  currentSocket \in Handles /\ sock[currentSocket] \in Conns
<1>1. currentSocket \in Handles
  BY DEF AInv, TInv, LocalsOK
<1>2. currentSocket # None /\ currentSocket # Listener /\ Serving
  BY <1>1, NoneIsNoHandle, ListenerAssumption DEF Serving, InClient
<1>3. sock[currentSocket] # None
  BY <1>2 DEF AInv, ArrayIsOpen
<1> QED
  BY <1>1, <1>3 DEF AInv, TInv, TypeOK, NetTypeOK

LEMMA PeerOInv ==
  ASSUME OInv, NEW c \in Conns, Peer(c)
  PROVE  OInv'
<1>1. AInv'
  BY PeerAInv DEF OInv
<1>2. UNCHANGED <<sock, ended, replies, pc, currentSocket, rx, aborted>>
  BY DEF Peer, Connect, Arrive, serverVars
<1>3. backlog \in Seq(Conns)
  BY DEF OInv, AInv, TInv, TypeOK, NetTypeOK
<1>4. OwnedOK'
  <2>1. CASE Connect(c)
    <3>1. c \notin joined /\ joined' = joined \cup {c} /\ backlog' = Append(backlog, c)
      BY <2>1 DEF Connect
    <3>2. /\ Len(backlog') = Len(backlog) + 1 /\ DOMAIN backlog' = 1..(Len(backlog) + 1)
          /\ \A i \in 1..Len(backlog) : backlog'[i] = backlog[i]
          /\ backlog'[Len(backlog) + 1] = c
      BY <1>3, <3>1
    <3>3. \A i \in DOMAIN backlog : backlog[i] # c
      BY <3>1 DEF OInv, OwnedOK
    <3>4. IsInjective(backlog')
      BY <1>3, <3>2, <3>3 DEF OInv, OwnedOK, IsInjective
    <3>5. Range(backlog') \subseteq Range(backlog) \cup {c}
      BY <1>3, <3>2 DEF Range
    <3>6. \A i \in DOMAIN backlog' : backlog'[i] \in joined' /\ backlog'[i] \notin ended
      BY <1>3, <3>1, <3>2 DEF OInv, OwnedOK
    <3> QED
      BY <1>2, <3>1, <3>4, <3>5, <3>6 DEF OInv, OwnedOK
  <2>2. CASE backlog' = backlog /\ joined' = joined
    BY <1>2, <2>2 DEF OInv, OwnedOK
  <2> QED
    BY <2>1, <2>2 DEF Peer, Arrive
<1>5. AnsweredOK' /\ ReadOK' /\ AnsweredOnce'
  BY <1>2 DEF OInv, AnsweredOK, ReadOK, AnsweredOnce, InClient
<1> QED
  BY <1>1, <1>4, <1>5 DEF OInv

(* The steps that neither open, answer nor close anything.                 *)
LEMMA QuietOInv ==
  ASSUME OInv,
         \/ Select \/ RunReturns \/ RoundDone \/ AcceptFails \/ SignalShutdown
         \/ ServeClient \/ RecvDone
  PROVE  OInv'
<1>1. AInv'
  BY RoundAInv, ClientAInv DEF OInv
<1>2. UNCHANGED <<sock, joined, backlog, ended, replies, rx, aborted>>
  BY DEF Select, RunReturns, RoundDone, AcceptFails, SignalShutdown, ServeClient, RecvDone, netVars
<1>3. OwnedOK' /\ AnsweredOnce'
  BY <1>2 DEF OInv, OwnedOK, AnsweredOnce
<1>4. \/ pc' = pc /\ currentSocket' = currentSocket
      \/ pc = "recv" /\ currentSocket' = currentSocket
      \/ pc # "close" /\ rx = <<>>
  <2>1. CASE ServeClient \/ Select \/ RunReturns \/ RoundDone
    <3>1. pc \in {"loop", "select"}
      BY <2>1 DEF ServeClient, Select, RunReturns, RoundDone, At
    <3> QED
      BY <3>1 DEF OInv, AInv, TInv, LocalsOK, InClient
  <2>2. CASE AcceptFails \/ SignalShutdown
    BY <2>2 DEF AcceptFails, SignalShutdown
  <2>3. CASE RecvDone
    BY <2>3 DEF RecvDone, At
  <2> QED
    BY <2>1, <2>2, <2>3
<1>5. AnsweredOK'
  BY <1>2, <1>4 DEF OInv, AnsweredOK
<1>6. ReadOK'
  BY <1>2, <1>4 DEF OInv, ReadOK, InClient
<1> QED
  BY <1>1, <1>3, <1>5, <1>6 DEF OInv

LEMMA AcceptOInv ==
  ASSUME OInv, AcceptNew
  PROVE  OInv'
<1>1. AInv'
  BY AcceptAInv DEF OInv
<1>2. PICK h \in FreeHandles : AcceptAs(h)
  BY DEF AcceptNew
<1>3. /\ UNCHANGED <<joined, ended, replies, pc, currentSocket, rx, aborted>>
      /\ pc = "loop" /\ backlog # <<>> /\ backlog' = Tail(backlog)
      /\ sock' = [sock EXCEPT ![h] = Head(backlog)] /\ h \in Handles /\ sock[h] = None
  BY <1>2 DEF AcceptNew, AcceptAs, At, CanAccept, FreeHandles
<1>4. /\ backlog \in Seq(Conns) /\ sock \in [Handles -> Conns \cup {None}]
  BY DEF OInv, AInv, TInv, TypeOK, NetTypeOK
<1>5. /\ Len(backlog') = Len(backlog) - 1 /\ DOMAIN backlog' = 1..Len(backlog')
      /\ \A i \in 1..Len(backlog') : backlog'[i] = backlog[i + 1]
      /\ Head(backlog) = backlog[1] /\ 1 \in DOMAIN backlog
  <2>1. Tail(backlog) \in Seq(Conns)
    BY <1>3, <1>4, HeadTailProperties
  <2> QED
    BY <1>3, <1>4, <2>1, HeadTailProperties, EmptySeq
<1>6. /\ Range(backlog') \subseteq Range(backlog) /\ Head(backlog) \notin Range(backlog')
      /\ IsInjective(backlog') /\ Head(backlog) \in Range(backlog)
  <2>1. \A i \in 1..Len(backlog') : i + 1 \in DOMAIN backlog /\ i + 1 # 1
    BY <1>4, <1>5
  <2>2. \A i, j \in DOMAIN backlog : backlog[i] = backlog[j] => i = j
    BY DEF OInv, OwnedOK, IsInjective
  <2>3. Range(backlog') \subseteq Range(backlog) /\ Head(backlog) \in Range(backlog)
    BY <1>5, <2>1 DEF Range
  <2>4. Head(backlog) \notin Range(backlog')
    <3>1. SUFFICES ASSUME NEW i \in 1..Len(backlog'), backlog'[i] = Head(backlog)
                   PROVE  FALSE
      BY <1>5 DEF Range
    <3>2. backlog[i + 1] = backlog[1]
      BY <1>5, <3>1
    <3> QED
      BY <1>5, <2>1, <2>2, <3>2
  <2>5. IsInjective(backlog')
    <3>1. SUFFICES ASSUME NEW i \in 1..Len(backlog'), NEW j \in 1..Len(backlog'),
                          backlog'[i] = backlog'[j]
                   PROVE  i = j
      BY <1>5 DEF IsInjective
    <3>2. backlog[i + 1] = backlog[j + 1]
      BY <1>5, <3>1
    <3>3. i + 1 = j + 1
      BY <2>1, <2>2, <3>1, <3>2
    <3> QED
      BY <3>3
  <2> QED
    BY <2>3, <2>4, <2>5
<1>7. OwnedOK'
  <2>1. Head(backlog) \in joined /\ Head(backlog) \notin ended
    BY <1>5 DEF OInv, OwnedOK
  <2>2. sock'[h] = Head(backlog) /\ \A g \in Handles : g # h => sock'[g] = sock[g]
    BY <1>3, <1>4
  <2>3. \A g \in Handles : sock[g] # None => sock[g] # Head(backlog)
    BY <1>6 DEF OInv, OwnedOK
  <2>4. \A g \in Handles : sock'[g] # None =>
          sock'[g] \in joined /\ sock'[g] \notin ended /\ sock'[g] \notin Range(backlog')
    BY <1>6, <2>1, <2>2 DEF OInv, OwnedOK
  <2>5. \A f, g \in Handles : sock'[f] # None /\ sock'[f] = sock'[g] => f = g
    BY <2>2, <2>3 DEF OInv, OwnedOK
  <2>6. \A i \in DOMAIN backlog' : backlog'[i] \in joined /\ backlog'[i] \notin ended
    BY <1>4, <1>5 DEF OInv, OwnedOK
  <2> QED
    BY <1>3, <1>6, <2>4, <2>5, <2>6 DEF OInv, OwnedOK
<1>8. AnsweredOK' /\ ReadOK' /\ AnsweredOnce'
  BY <1>3 DEF OInv, AnsweredOK, ReadOK, AnsweredOnce, InClient
<1> QED
  BY <1>1, <1>7, <1>8 DEF OInv

(* recv(): the piece is the current socket's.                              *)
LEMMA RecvOInv ==
  ASSUME OInv, RecvPiece
  PROVE  OInv'
<1>1. AInv'
  BY ClientAInv DEF OInv
<1>2. /\ UNCHANGED <<sock, joined, backlog, ended, replies, pc, currentSocket, aborted>>
      /\ pc = "recv" /\ ~aborted /\ rx' = Append(rx, NextPiece(currentSocket))
  BY DEF RecvPiece, RecvFrom, At
<1>3. rx \in Seq(Conns \X Pieces)
  BY DEF OInv, AInv, TInv, TypeOK
<1>4. NextPiece(currentSocket)[1] = sock[currentSocket]
  BY DEF NextPiece
<1>5. ReadOK'
  <2>1. \A i \in 1..Len(rx) : rx[i][1] = sock[currentSocket]
    BY <1>2, <1>3 DEF OInv, ReadOK, InClient
  <2>2. DOMAIN rx' = 1..(Len(rx) + 1) /\ rx'[Len(rx) + 1] = NextPiece(currentSocket)
        /\ \A i \in 1..Len(rx) : rx'[i] = rx[i]
    BY <1>2, <1>3
  <2>3. \A i \in DOMAIN rx' : rx'[i][1] = sock[currentSocket]
    BY <1>3, <1>4, <2>1, <2>2
  <2> QED
    BY <1>2, <2>3 DEF ReadOK
<1>6. OwnedOK' /\ AnsweredOK' /\ AnsweredOnce'
  BY <1>2 DEF OInv, OwnedOK, AnsweredOK, AnsweredOnce
<1> QED
  BY <1>1, <1>5, <1>6 DEF OInv

(* The one answer: its connection has none, not being at its end.          *)
LEMMA AnswerOInv ==
  ASSUME OInv, Answer
  PROVE  OInv'
<1> DEFINE r == [of |-> Asker, whole |-> Whole]
           c == sock[currentSocket]
<1>1. AInv'
  BY ClientAInv DEF OInv
<1>2. /\ UNCHANGED <<sock, joined, backlog, ended, currentSocket, rx, aborted>>
      /\ pc = "answer" /\ pc' = "close" /\ ~aborted /\ SendOn(currentSocket, r)
  BY DEF Answer, SendOn, At
<1>3. currentSocket \in Handles /\ c \in Conns /\ InClient
  BY <1>2, CurrentIsOpen DEF OInv, InClient
<1>4. c # None
  BY <1>3, NoneIsNoConn
<1>5. replies \in [Conns -> Seq(Replies)]
  BY DEF OInv, AInv, TInv, TypeOK, NetTypeOK
<1>6. replies[c] = <<>>
  BY <1>2, <1>3, <1>4 DEF OInv, OwnedOK, AnsweredOK
<1>7. Asker = c
  <2>1. rx # <<>> /\ rx \in Seq(Conns \X Pieces)
    BY <1>2 DEF OInv, AInv, TInv, LocalsOK, TypeOK
  <2>2. 1 \in DOMAIN rx
    BY <2>1, EmptySeq
  <2> QED
    BY <1>2, <1>3, <2>2 DEF OInv, ReadOK, Asker
<1> HIDE DEF c
<1>8. /\ replies'[c] = <<r>> /\ r.of = c
      /\ \A d \in Conns \ {c} : replies'[d] = replies[d]
  <2>1. replies' = [replies EXCEPT ![c] = Append(@, r)]
    BY <1>2, <1>4 DEF SendOn, c
  <2>2. r.of = c
    BY <1>7
  <2> HIDE DEF r
  <2>3. replies'[c] = Append(<<>>, r)
    BY <1>3, <1>5, <1>6, <2>1
  <2> QED
    BY <1>5, <2>1, <2>2, <2>3
<1> HIDE DEF r
<1>9. AnsweredOnce'
  <2>1. Len(replies'[c]) = 1 /\ replies'[c][1].of = c
    BY <1>8
  <2>2. SUFFICES ASSUME NEW d \in Conns
                 PROVE  Len(replies'[d]) <= 1 /\ (replies'[d] # <<>> => replies'[d][1].of = d)
    BY DEF AnsweredOnce
  <2>3. CASE d = c
    <3>1. Len(replies'[d]) = 1 /\ replies'[d][1].of = d
      BY <2>1, <2>3, Zenon
    <3> QED
      BY <3>1
  <2>4. CASE d # c
    BY <1>8, <2>4 DEF OInv, AnsweredOnce
  <2> QED
    BY <2>3, <2>4
<1>10. AnsweredOK'
  BY <1>2, <1>8 DEF OInv, AnsweredOK, c
<1>11. OwnedOK' /\ ReadOK'
  BY <1>2 DEF OInv, OwnedOK, ReadOK, InClient
<1> QED
  BY <1>1, <1>9, <1>10, <1>11 DEF OInv

LEMMA CloseOInv ==
  ASSUME OInv, CloseClient
  PROVE  OInv'
<1> DEFINE c == sock[currentSocket]
<1>1. AInv'
  BY CloseAInv DEF OInv
<1>2. /\ UNCHANGED <<joined, backlog, replies, aborted>>
      /\ pc = "close" /\ pc' = "loop" /\ ~aborted /\ CloseHandle(currentSocket)
  BY DEF CloseClient, CloseHandle, At
<1>3. currentSocket \in Handles /\ c \in Conns /\ c # None
  BY <1>2, CurrentIsOpen, NoneIsNoConn DEF OInv, InClient
<1>4. /\ ended' = ended \cup {c}
      /\ sock'[currentSocket] = None
      /\ \A g \in Handles : g # currentSocket => sock'[g] = sock[g]
  BY <1>2, <1>3 DEF CloseHandle, OInv, AInv, TInv, TypeOK, NetTypeOK
<1>5. OwnedOK'
  <2>1. c \in joined /\ c \notin Range(backlog)
    BY <1>3 DEF OInv, OwnedOK
  <2>2. \A g \in Handles : sock'[g] # None => sock'[g] # c /\ sock'[g] = sock[g] /\ g # currentSocket
    BY <1>3, <1>4 DEF OInv, OwnedOK
  <2>3. \A i \in DOMAIN backlog : backlog[i] # c
    BY <2>1 DEF Range
  <2>4. \A g \in Handles : sock'[g] # None =>
          sock'[g] \in joined /\ sock'[g] \notin ended' /\ sock'[g] \notin Range(backlog)
    BY <1>4, <2>2 DEF OInv, OwnedOK
  <2>5. \A f, g \in Handles : sock'[f] # None /\ sock'[f] = sock'[g] => f = g
    BY <2>2 DEF OInv, OwnedOK
  <2>6. \A i \in DOMAIN backlog : backlog[i] \in joined /\ backlog[i] \notin ended'
    BY <1>4, <2>3 DEF OInv, OwnedOK
  <2> QED
    BY <1>2, <1>4, <2>1, <2>4, <2>5, <2>6 DEF OInv, OwnedOK
<1>6. AnsweredOK'
  BY <1>2, <1>4 DEF OInv, AnsweredOK
<1>7. ReadOK' /\ AnsweredOnce'
  BY <1>2 DEF OInv, ReadOK, AnsweredOnce, InClient
<1> QED
  BY <1>1, <1>5, <1>6, <1>7 DEF OInv

LEMMA EndOInv ==
  ASSUME OInv, HandlerThrows \/ CloseServerSocket \/ Cleanup
  PROVE  OInv'
<1>1. AInv'
  BY EndAInv DEF OInv
<1>2. replies' = replies /\ joined' = joined /\ rx' = rx /\ backlog' = <<>>
  BY DEF HandlerThrows, CloseServerSocket, Cleanup, ReleaseAll, CloseListener
<1>3. /\ ended \subseteq ended' /\ ended' \subseteq joined
      /\ \A h \in Handles : sock'[h] # None => sock'[h] = sock[h] /\ sock[h] \notin ended'
  <2>1. CASE CloseServerSocket
    <3>1. sock' = sock /\ ended' = ended \cup {backlog[i] : i \in 1..Len(backlog)}
      BY <2>1 DEF CloseServerSocket, CloseListener
    <3>2. \A i \in 1..Len(backlog) : backlog[i] \in Range(backlog) /\ backlog[i] \in joined
      BY DEF OInv, OwnedOK, Range, AInv, TInv, TypeOK, NetTypeOK
    <3> QED
      BY <3>1, <3>2 DEF OInv, OwnedOK
  <2>2. CASE HandlerThrows \/ Cleanup
    BY <2>2 DEF HandlerThrows, Cleanup, ReleaseAll, OInv, OwnedOK
  <2> QED
    BY <2>1, <2>2
<1>4. OwnedOK'
  <2>1. Range(backlog') = {} /\ DOMAIN backlog' = {} /\ IsInjective(backlog')
    BY <1>2 DEF Range, IsInjective
  <2> QED
    BY <1>2, <1>3, <2>1 DEF OInv, OwnedOK
<1>5. pc # "close"
  BY DEF HandlerThrows, CloseServerSocket, Cleanup, At
<1>6. AnsweredOK' /\ AnsweredOnce'
  BY <1>2, <1>3, <1>5 DEF OInv, AnsweredOK, AnsweredOnce
<1>7. ReadOK'
  BY DEF HandlerThrows, CloseServerSocket, Cleanup, ReadOK, InClient
<1> QED
  BY <1>1, <1>4, <1>6, <1>7 DEF OInv

LEMMA NextOInv ==
  ASSUME OInv, [Next]_vars
  PROVE  OInv'
<1>1. CASE UNCHANGED vars
  <2>1. AInv'
    BY NextAInv DEF OInv
  <2>2. UNCHANGED <<sock, joined, backlog, ended, replies, pc, currentSocket, rx, aborted>>
    BY <1>1 DEF vars, netVars, serverVars
  <2> QED
    BY <2>1, <2>2 DEF OInv, OwnedOK, AnsweredOK, ReadOK, AnsweredOnce, InClient
<1>2. CASE Next
  BY <1>2, PeerOInv, QuietOInv, AcceptOInv, RecvOInv, AnswerOInv, CloseOInv, EndOInv
  DEF Next, Server
<1> QED
  BY <1>1, <1>2

(* Under run() every connection gets at most one answer, to its own        *)
(* request, for any number of clients and handles                          *)
(* (http_server.cpp:181-199).                                              *)
THEOREM OneAnswerEach == Spec => []AnsweredOnce
<1>1. Spec => []OInv
  BY InitOInv, NextOInv, PTL DEF Spec
<1>2. OInv => AnsweredOnce
  BY DEF OInv
<1> QED
  BY <1>1, <1>2, PTL
=============================================================================
