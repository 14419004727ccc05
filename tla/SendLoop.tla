------------------------------- MODULE SendLoop -------------------------------
(***************************************************************************)
(* The two loops that write a payload to a socket: send_all() of the       *)
(* server (http_server.cpp) and the one inside send_request() of the       *)
(* client (http_client.cpp).  Both compare what they have sent with what   *)
(* is left, which shrinks; only the server's passes payload + offset to    *)
(* send().  A payload is its size: each send() puts a chunk of consecutive *)
(* bytes on the wire, given by where in the payload it starts and how many *)
(* bytes the system took.                                                  *)
(***************************************************************************)
EXTENDS Integers, Sequences

CONSTANT MaxSize   \* bound: the longest payload

ASSUME MaxSizeAssumption == MaxSize \in Nat \ {0}

VARIABLES sender,        \* whose loop this is
          size,          \* bytes of the payload, the server's final NUL included
          total_to_send, \* bytes left
          total_sent,    \* sent
          offset,
          wire,          \* chunks sent, in order
          failed,        \* send() returned zero or less
          pc

loopVars == <<sender, size, total_to_send, total_sent, offset, wire, failed, pc>>

Chunks == [from : 0..MaxSize, bytes : 1..MaxSize]

LoopTypeOK ==
  /\ sender \in {"server", "client"}
  /\ size \in 1..MaxSize
  /\ total_to_send \in 0..MaxSize
  /\ total_sent \in 0..MaxSize
  /\ offset \in 0..MaxSize
  /\ wire \in Seq(Chunks)
  /\ failed \in BOOLEAN
  /\ pc \in {"send", "test", "done"}

LoopInit ==
  /\ sender \in {"server", "client"}
  /\ size \in 1..MaxSize
  /\ total_to_send = size
  /\ total_sent = 0
  /\ offset = 0
  /\ wire = <<>>
  /\ failed = FALSE
  /\ pc = "send"

(* The payload from its start, whatever has been sent.                     *)
From_Start == 0

(* The pointer given to send(), as an offset into the payload.             *)
From == IF sender = "server" THEN offset ELSE 0

(* What is left never counted down.                                        *)
Transfer_KeepTotal ==
  /\ pc = "send"
  /\ \E k \in 1..total_to_send :
       /\ wire' = Append(wire, [from |-> From, bytes |-> k])
       /\ total_sent' = total_sent + k
       /\ offset' = offset + k
  /\ pc' = "test"
  /\ UNCHANGED <<sender, size, total_to_send, failed>>

(* send() takes at least one byte and at most what is left.                *)
Transfer ==
  /\ pc = "send"
  /\ \E k \in 1..total_to_send :
       /\ wire' = Append(wire, [from |-> From, bytes |-> k])
       /\ total_sent' = total_sent + k
       /\ total_to_send' = total_to_send - k
       /\ offset' = offset + k
  /\ pc' = "test"
  /\ UNCHANGED <<sender, size, failed>>

(* if (bytes_sent <= 0) break: an error, or on a non-blocking socket a     *)
(* send buffer that is full.                                               *)
TransferFails ==
  /\ pc = "send"
  /\ failed' = TRUE
  /\ pc' = "done"
  /\ UNCHANGED <<sender, size, total_to_send, total_sent, offset, wire>>

(* A test that stops a half too early.                                     *)
More_Quarter == 2 * total_sent < total_to_send

(* while (sent < total_to_send)                                            *)
More == total_sent < total_to_send

Repeat ==
  /\ pc = "test"
  /\ More
  /\ pc' = "send"
  /\ UNCHANGED <<sender, size, total_to_send, total_sent, offset, wire, failed>>

Return ==
  /\ pc = "test"
  /\ ~More
  /\ pc' = "done"
  /\ UNCHANGED <<sender, size, total_to_send, total_sent, offset, wire, failed>>

LoopNext == Transfer \/ TransferFails \/ Repeat \/ Return

LoopSpec == LoopInit /\ [][LoopNext]_loopVars

-----------------------------------------------------------------------------
(* A loop that send() never failed leaves at most half of the payload      *)
(* unsent: it stops as soon as what is left is no more than what went out  *)
(* (http_server.cpp:233-240, http_client.cpp:103-110).                     *)
StopsPastHalf == pc = "done" /\ ~failed => 2 * total_sent >= size

(* The server's peer receives a prefix of the payload: each chunk starts   *)
(* where the one before it ended (http_server.cpp:235-239).                *)
ChunkEnd(chunk) == chunk.from + chunk.bytes

ServerSendsPrefix ==
  sender = "server" =>
    \A i \in 1..Len(wire) :
      wire[i].from = IF i = 1 THEN 0 ELSE ChunkEnd(wire[i - 1])
=============================================================================
