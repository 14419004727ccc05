------------------------------- MODULE Winsock -------------------------------
(***************************************************************************)
(* The part of Windows Sockets the servers rely on (external): the backlog *)
(* of the listening socket, the table that gives each open SOCKET handle   *)
(* its connection, the byte stream a peer sends on a connection and what   *)
(* it gets back.  A handle is a small number the system gives out again    *)
(* once it is closed; nothing tells a thread that the handle it remembers  *)
(* now belongs to another connection.  Operators without a guard of their  *)
(* own are the effects of calls the modules of the servers make.           *)
(*                                                                         *)
(* A stream is a sequence of pieces, the units in which its bytes become   *)
(* readable; one recv() takes one piece.                                   *)
(***************************************************************************)
EXTENDS Integers, Sequences

CONSTANTS Conns,     \* connections peers may make, each at most once
          Handles,   \* SOCKET values the system has to give out
          Pieces,    \* what peers may send
          None       \* INVALID_SOCKET, and "no connection"

ASSUME NoneIsNoConn == None \notin Conns
ASSUME NoneIsNoHandle == None \notin Handles

VARIABLES listening, \* the listening socket is open
          joined,    \* connections peers have made
          backlog,   \* made and not accepted yet, in order
          sock,      \* sock[h]: the connection open under handle h, or None
          ended,     \* connections whose end on this side is closed or reset
          sent,      \* sent[c]: pieces that have arrived on c
          nread,     \* nread[c]: how many of them have been read
          replies    \* replies[c]: what send_all() was given to send on c

netVars == <<listening, joined, backlog, sock, ended, sent, nread, replies>>

NetTypeOK(Replies) ==
  /\ listening \in BOOLEAN
  /\ joined \in SUBSET Conns
  /\ backlog \in Seq(Conns)
  /\ sock \in [Handles -> Conns \cup {None}]
  /\ ended \in SUBSET Conns
  /\ sent \in [Conns -> Seq(Pieces)]
  /\ nread \in [Conns -> Nat]
  /\ replies \in [Conns -> Seq(Replies)]

NetInit ==
  /\ listening = TRUE
  /\ joined = {}
  /\ backlog = <<>>
  /\ sock = [h \in Handles |-> None]
  /\ ended = {}
  /\ sent = [c \in Conns |-> <<>>]
  /\ nread = [c \in Conns |-> 0]
  /\ replies = [c \in Conns |-> <<>>]

-----------------------------------------------------------------------------
(* What peers do.                                                          *)
Connect(c) ==
  /\ listening
  /\ c \notin joined
  /\ joined' = joined \cup {c}
  /\ backlog' = Append(backlog, c)
  /\ UNCHANGED <<listening, sock, ended, sent, nread, replies>>

Arrive(c, piece) ==
  /\ c \in joined \ ended
  /\ sent' = [sent EXCEPT ![c] = Append(@, piece)]
  /\ UNCHANGED <<listening, joined, backlog, sock, ended, nread, replies>>

-----------------------------------------------------------------------------
(* accept() on the non-blocking listening socket: it fails at once when    *)
(* nobody waits or no handle is left.                                      *)
FreeHandles == {h \in Handles : sock[h] = None}
CanAccept == listening /\ backlog # <<>> /\ FreeHandles # {}

AcceptAs(h) ==
  /\ sock' = [sock EXCEPT ![h] = Head(backlog)]
  /\ backlog' = Tail(backlog)
  /\ UNCHANGED <<listening, joined, ended, sent, nread, replies>>

(* recv() on a non-blocking socket: the next piece, or no answer to take   *)
(* (would block, or the handle is not open).                               *)
Readable(h) == sock[h] # None /\ nread[sock[h]] < Len(sent[sock[h]])
NextPiece(h) == <<sock[h], sent[sock[h]][nread[sock[h]] + 1]>>

RecvFrom(h) ==
  /\ nread' = [nread EXCEPT ![sock[h]] = @ + 1]
  /\ UNCHANGED <<listening, joined, backlog, sock, ended, sent, replies>>

(* What is sent on a handle, here a whole reply, is meant for whatever     *)
(* connection is open under it, and for nobody when none is.  Recorded is  *)
(* what send_all() is given: a send() that fails at once, on a connection  *)
(* whose peer is gone, changes nothing else on this side.  How a reply is  *)
(* cut by send() is the subject of SendLoop.                               *)
SendOn(h, r) ==
  /\ replies' = IF sock[h] = None
                  THEN replies
                  ELSE [replies EXCEPT ![sock[h]] = Append(@, r)]
  /\ UNCHANGED <<listening, joined, backlog, sock, ended, sent, nread>>

(* closesocket(): likewise.                                                *)
CloseHandle(h) ==
  /\ sock' = [sock EXCEPT ![h] = None]
  /\ ended' = IF sock[h] = None THEN ended ELSE ended \cup {sock[h]}
  /\ UNCHANGED <<listening, joined, backlog, sent, nread, replies>>

(* closesocket() of the listener: peers still in the backlog are reset.    *)
CloseListener ==
  /\ listening' = FALSE
  /\ backlog' = <<>>
  /\ ended' = ended \cup {backlog[i] : i \in 1..Len(backlog)}
  /\ UNCHANGED <<joined, sock, sent, nread, replies>>

(* The last WSACleanup(), or the end of the process: every socket of the   *)
(* process is closed.                                                      *)
ReleaseAll ==
  /\ listening' = FALSE
  /\ backlog' = <<>>
  /\ sock' = [h \in Handles |-> None]
  /\ ended' = joined
  /\ UNCHANGED <<joined, sent, nread, replies>>
=============================================================================
