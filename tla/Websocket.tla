------------------------------ MODULE Websocket ------------------------------
(***************************************************************************)
(* Clients that ask for the websocket protocol: the handshake of           *)
(* http_server_tests_etc (Source.cpp) through consume_queue(), the masked  *)
(* frames that receive_messages_from_all_clients() reads byte by byte, and *)
(* what send_message_to_all_client() sends (http_server.cpp).  The two     *)
(* last are called by one thread; handles and their reuse are QueueServer's *)
(* matter.                                                                 *)
(***************************************************************************)
EXTENDS HttpText, Base64

CONSTANTS Clients,
          Upgrades(_),  \* Upgrades(c): what c asks, [connection, endpoint, digest, beyond]
          Frames(_),    \* Frames(c): what c may send, [fin, opcode, masked, key, payload]
          MaxFrames,    \* bound: frames of one client
          MaxReads,     \* bound: reads that find something, of one client
          Cuts,         \* bound: sizes of a recv() that does not return all there is
          BufferSize,   \* MESSAGE_BUFFER_SIZE
          Beyond,       \* what may stand behind a full buffer, up to the first zero
          Messages,     \* what the program sends to all clients, as bytes
          MaxMessages   \* bound: how often it does

ASSUME UpgradesAssumption ==
  \A c \in Clients : \A u \in Upgrades(c) : u.digest \in Seq(Bytes) /\ u.beyond \in Seq(Bytes)

ASSUME FramesAssumption ==
  \A c \in Clients : \A f \in Frames(c) :
    /\ f.fin \in BOOLEAN /\ f.masked \in BOOLEAN /\ f.opcode \in 0..15
    /\ f.key \in Seq(Bytes) /\ Len(f.key) = 4
    /\ f.payload \in Seq(Bytes) /\ Len(f.payload) < 65536

ASSUME MessagesAssumption == Messages \subseteq Seq(Bytes) /\ Beyond \subseteq Seq(Bytes)

ASSUME BoundsAssumption ==
  /\ BufferSize \in Nat /\ BufferSize > 1
  /\ Cuts \subseteq 1..BufferSize
  /\ MaxFrames \in Nat /\ MaxReads \in Nat /\ MaxMessages \in Nat

VARIABLES conn,       \* conn[c]: the server's end
          accept,     \* accept[c]: Sec-WebSocket-Accept, and what it answers
          sent,       \* sent[c]: the frames c has sent: their bytes, and how many
                      \* came before them
          taken,      \* taken[c]: how many of their bytes recv() has returned
          last,       \* last[c]: the last read of c, and its number
          inbox,      \* inbox[c]: what c has been sent after the handshake
          messages,   \* messages sent to all clients
          aborted     \* undefined behaviour ended the process

vars == <<conn, accept, sent, taken, last, inbox, messages, aborted>>

Unasked == [endpoint |-> "/", connection |-> <<>>, digest |-> <<>>, beyond |-> <<>>]
NoAnswer == [asked |-> Unasked, status |-> "none", key |-> <<>>]
NoRead == [number |-> 0, recvs |-> 0, from |-> 0, to |-> 0, outcome |-> "none", payload |-> <<>>]

Init ==
  /\ conn = [c \in Clients |-> "new"]
  /\ accept = [c \in Clients |-> NoAnswer]
  /\ sent = [c \in Clients |-> <<>>]
  /\ taken = [c \in Clients |-> 0]
  /\ last = [c \in Clients |-> NoRead]
  /\ inbox = [c \in Clients |-> <<>>]
  /\ messages = 0
  /\ aborted = FALSE

(* A C string of bytes.                                                    *)
Cut(b) == IF \E i \in DOMAIN b : b[i] = 0 THEN SubSeq(b, 1, SelectInSeq(b, LAMBDA x : x = 0) - 1)
          ELSE b

-----------------------------------------------------------------------------
(* The handler of "/websocket" encodes the digest that SHA1() (external)   *)
(* has left in its buffer as far as strlen() goes, which need not be its   *)
(* end.  consume_queue() keeps a connection if the header says exactly     *)
(* "Upgrade", whatever the answer is: here, of any other endpoint, "200".  *)
UpgradeText(u) ==
  <<"GET", SP, u.endpoint, SP, "HTTP/1.1", CR, LF>> \o HeaderLines(<<"Connection">> :> u.connection)

Keeps(u) == Token(ParseRequest(UpgradeText(u), "GET").headers, <<"Connection">>) = <<"Upgrade">>

Handshake(c) ==
  /\ conn[c] = "new"
  /\ \E u \in Upgrades(c) :
       /\ conn' = [conn EXCEPT ![c] = IF Keeps(u) THEN "kept" ELSE "closed"]
       /\ accept' = [accept EXCEPT ![c] =
            [asked |-> u, status |-> IF u.endpoint = "/websocket" THEN "101" ELSE "200",
             key |-> IF u.endpoint = "/websocket" THEN base64_encode(Cut(u.digest \o u.beyond))
                     ELSE <<>>]]
  /\ UNCHANGED <<sent, taken, last, inbox, messages, aborted>>

-----------------------------------------------------------------------------
(* The operator ^ on bytes: the sums of their bits without the carries.    *)
Xor(a, b) ==
  LET bit(d) == d * ((a \div d + b \div d) % 2)
  IN bit(1) + bit(2) + bit(4) + bit(8) + bit(16) + bit(32) + bit(64) + bit(128)

(* The client.                                                             *)
FrameBytes(f) ==
  LET size == Len(f.payload)
  IN <<(IF f.fin THEN 128 ELSE 0) + f.opcode,
       (IF f.masked THEN 128 ELSE 0) + (IF size < 126 THEN size ELSE 126)>>
       \o (IF size < 126 THEN <<>> ELSE <<size \div 256, size % 256>>)
       \o (IF f.masked THEN f.key \o [i \in 1..size |-> Xor(f.payload[i], f.key[((i - 1) % 4) + 1])]
           ELSE f.payload)

End(f) == f.before + Len(f.bytes)

Total(c) == IF sent[c] = <<>> THEN 0 ELSE End(Last(sent[c]))

Unread(c) == Substr(FlattenSeq([k \in DOMAIN sent[c] |-> sent[c][k].bytes]), taken[c])

SendFrame(c) ==
  /\ conn[c] = "kept"
  /\ Len(sent[c]) < MaxFrames
  /\ \E f \in Frames(c) : sent' = [sent EXCEPT ![c] = Append(@,
       [frame |-> f, bytes |-> FrameBytes(f), before |-> Total(c)])]
  /\ UNCHANGED <<conn, accept, taken, last, inbox, messages, aborted>>

-----------------------------------------------------------------------------
(* What append(cBuffer) adds of the bytes of one recv(): those before the  *)
(* first zero and, when the buffer is full and has none, whatever follows. *)
Appended(b) ==
  IF Len(b) = BufferSize /\ Cut(b) = b THEN {b \o x : x \in Beyond} ELSE {Cut(b)}

(* How many bytes one recv() returns.                                      *)
Amounts(b) == {IF n < Len(b) THEN n ELSE Len(b) : n \in Cuts \cup {BufferSize}}

(* recv_all() in one or two rounds that find something: the bytes it takes *)
(* and its text.                                                           *)
Reads(b) ==
  UNION {UNION {{[recvs |-> IF n = 0 THEN 1 ELSE 2, taken |-> m + n, text |-> x \o y] :
                   x \in Appended(SubSeq(b, 1, m)), y \in Appended(SubSeq(b, m + 1, m + n))} :
                n \in {0} \cup Amounts(Substr(b, m))} : m \in Amounts(b)}

ByteAt(text, i) == IF i <= Len(text) THEN text[i] ELSE 0

(* Where the four bytes of the key start.                                  *)
FrameKey_Short(text) == 2

FrameKey(text) ==
  LET size == ByteAt(text, 2) % 128
  IN IF size = 126 THEN 4 ELSE IF size = 127 THEN 10 ELSE 2

Unmask(text) ==
  LET key == FrameKey(text)
  IN [i \in 1..Len(text) - key - 4 |-> Xor(text[key + 4 + i], text[key + ((i - 1) % 4) + 1])]

(* What a text is taken for.  A key that the text does not hold is read    *)
(* from behind it, and the text skipped.                                   *)
Outcome_SkipMask(text) ==
  IF ByteAt(text, 1) < 128 \/ ByteAt(text, 2) % 128 = 0 THEN "none"
  ELSE IF Len(text) < FrameKey(text) + 4 THEN "outside" ELSE "text"

Outcome(text) ==
  IF ByteAt(text, 1) < 128 THEN "none"
  ELSE IF ByteAt(text, 2) < 128 THEN "close"
  ELSE IF ByteAt(text, 2) = 128 THEN "none"
  ELSE IF Len(text) < FrameKey(text) + 4 THEN "outside" ELSE "text"

(* One client's turn in receive_messages_from_all_clients().  A connection *)
(* that is closed gives recv() nothing.                                    *)
Poll(c) ==
  /\ conn[c] = "kept"
  /\ last[c].number < MaxReads
  /\ Unread(c) # <<>>
  /\ \E r \in Reads(Unread(c)) :
       LET outcome == Outcome(r.text)
       IN /\ taken' = [taken EXCEPT ![c] = @ + r.taken]
          /\ last' = [last EXCEPT ![c] =
               [number |-> last[c].number + 1, recvs |-> r.recvs,
                from |-> taken[c], to |-> taken[c] + r.taken, outcome |-> outcome,
                payload |-> IF outcome = "text" THEN Unmask(r.text) ELSE <<>>]]
          /\ conn' = IF outcome = "close" THEN [conn EXCEPT ![c] = "closed"] ELSE conn
          /\ IF outcome = "outside" THEN aborted' \in BOOLEAN ELSE UNCHANGED aborted
  /\ UNCHANGED <<accept, sent, inbox, messages>>

SendToAll_All(m) ==
  /\ m # <<>>
  /\ messages < MaxMessages
  /\ messages' = messages + 1
  /\ inbox' = [c \in Clients |-> inbox[c] \o Cut(m) \o <<0>>]
  /\ UNCHANGED <<conn, accept, sent, taken, last, aborted>>

(* send_message_to_all_client(): the bytes up to a zero and a zero.  What  *)
(* happens when send() takes less is SendLoop's matter.                    *)
SendToAll(m) ==
  /\ m # <<>>
  /\ messages < MaxMessages
  /\ messages' = messages + 1
  /\ inbox' = [c \in Clients |-> IF conn[c] = "kept" THEN inbox[c] \o Cut(m) \o <<0>> ELSE inbox[c]]
  /\ UNCHANGED <<conn, accept, sent, taken, last, aborted>>

Next ==
  /\ ~aborted
  /\ \/ \E c \in Clients : Handshake(c) \/ SendFrame(c) \/ Poll(c)
     \/ \E m \in Messages : SendToAll(m)

Spec == Init /\ [][Next]_vars

-----------------------------------------------------------------------------
(* Types of all variables; what was read had been sent, and nothing is     *)
(* sent to a client before its handshake.                                  *)
TypeOK ==
  /\ conn \in [Clients -> {"new", "kept", "closed"}]
  /\ \A c \in Clients : accept[c].status \in {"none", "101", "200"} /\ accept[c].key \in Seq(Bytes)
  /\ \A c \in Clients : /\ sent[c] \in Seq([frame : Frames(c), bytes : Seq(Bytes), before : Nat])
                        /\ Len(sent[c]) <= MaxFrames
  /\ taken \in [Clients -> Nat]
  /\ last \in [Clients -> [number : 0..MaxReads, recvs : 0..2, from : Nat, to : Nat,
                           payload : Seq(Bytes), outcome : {"none", "close", "text", "outside"}]]
  /\ \A c \in Clients : /\ last[c].to = taken[c]
                        /\ taken[c] <= Total(c)
  /\ inbox \in [Clients -> Seq(Bytes)]
  /\ \A c \in Clients : conn[c] = "new" => inbox[c] = <<>> /\ sent[c] = <<>>
  /\ messages \in 0..MaxMessages
  /\ aborted \in BOOLEAN

(* The last read of c began with frame f.                                  *)
ReadFrom(c, f) == last[c].from = f.before /\ last[c].to > last[c].from

(* A read that begins with a frame and has all of it, without filling the *)
(* buffer, starts with its payload when no byte of the frame is zero, and  *)
(* has nothing else when nothing is read with it, or what is read with it  *)
(* begins with a zero (a continuation frame).  One zero is enough to lose  *)
(* it: of the payload under the key, of the key, or of an extended length, *)
(* as that of 126 to 255 bytes - unless the zero is in the header or the   *)
(* key and what a second recv() brings happens to fit.  Whatever was read  *)
(* with a frame is unmasked as part of the same text, and no opcode is     *)
(* looked at (http_server.cpp:217, 425-440).                               *)
WholeFrameDecoded ==
  \A c \in Clients : \A k \in DOMAIN sent[c] :
    LET f       == sent[c][k]
        payload == f.frame.payload
        read    == last[c]
    IN (/\ ReadFrom(c, f) /\ read.to >= End(f) /\ read.to - read.from < BufferSize
        /\ f.frame.fin /\ f.frame.masked /\ payload # <<>>) =>
         IF Cut(f.bytes) = f.bytes
         THEN /\ IsPrefix(payload, read.payload)
              /\ read.to = End(f) => read.payload = payload
              /\ read.payload = payload =>
                   (read.to = End(f) \/ (k < Len(sent[c]) /\ sent[c][k + 1].bytes[1] = 0))
         ELSE (read.recvs = 1 \/ Len(Cut(f.bytes)) >= FrameKey(f.bytes) + 4)
                => ~IsPrefix(payload, read.payload)

(* Of a read that begins with a frame: the connection is closed exactly    *)
(* when the frame has no mask, or when the read ended after its first byte *)
(* - a client that masks every frame is disconnected by the segmentation   *)
(* of its bytes (http_server.cpp:414-419).  A zero among the first two     *)
(* bytes may hide one of them from a read of two recv() calls.             *)
ClosedForTheMask ==
  \A c \in Clients : \A f \in Range(sent[c]) :
    ReadFrom(c, f) /\ (last[c].recvs = 1 \/ (f.bytes[1] # 0 /\ f.bytes[2] # 0)) =>
      (conn[c] = "closed" <=> /\ f.frame.fin
                              /\ ~f.frame.masked \/ last[c].to = last[c].from + 1)

(* Sec-WebSocket-Accept is base64 text, with the right padding, of the     *)
(* bytes that strlen() finds in SHA1's buffer, be they fewer or more than  *)
(* the digest's (http_utils.h:93-135, http_server_tests_etc/Source.cpp:51). *)
KeyIsText ==
  \A c \in Clients :
    LET u == accept[c].asked
    IN accept[c].status = "101" => accept[c].key = Base64Text(Cut(u.digest \o u.beyond))

(* The handler is there to "Calculate Sec-WebSocket-Accept" as RFC 6455    *)
(* has it: the text of the whole digest and of nothing else                *)
(* (http_server_tests_etc/Source.cpp:43-46).                               *)
AcceptIsTheDigest ==
  \A c \in Clients : accept[c].status = "101" => accept[c].key = Base64Text(accept[c].asked.digest)

(* b64decode, which no other code of the repository calls, gives back what *)
(* base64_encode was given, whatever its length, with any of the padding   *)
(* taken off (http_utils.h:93-162).                                        *)
DecodesBack ==
  \A c \in Clients :
    LET u   == accept[c].asked
        key == accept[c].key
    IN accept[c].status = "101" =>
         \A n \in 0..Len(key) :
           (\A i \in n + 1..Len(key) : key[i] = Pad)
             => b64decode(SubSeq(key, 1, n)) = Cut(u.digest \o u.beyond)
=============================================================================
