--------------------------- MODULE SendLoopProofs ---------------------------
(***************************************************************************)
(* Proofs about SendLoop, for payloads of any size.  What is left and what *)
(* is sent add up to the payload, and the last chunk on the wire ends      *)
(* where the offset stands; from the first follows how much can be left    *)
(* unsent, from the second that the server's chunks are contiguous.        *)
(***************************************************************************)
EXTENDS SendLoop, SequenceTheorems, TLAPS

(* Where the last chunk of the server ends.                                *)
LastEnd == IF wire = <<>> THEN 0 ELSE ChunkEnd(wire[Len(wire)])

Counts ==
  /\ total_to_send + total_sent = size
  /\ offset = total_sent
  /\ pc = "send" => total_to_send > 0
  /\ sender = "server" => LastEnd = offset

Stopped == pc = "done" /\ ~failed => total_sent >= total_to_send

SInv == LoopTypeOK /\ Counts /\ Stopped /\ ServerSendsPrefix

(* Nothing is on the wire at first.                                        *)
LEMMA InitSInv == LoopInit => SInv
<1>1. SUFFICES ASSUME LoopInit PROVE SInv
  OBVIOUS
<1>2. wire \in Seq(Chunks) /\ Len(wire) = 0
  BY <1>1, EmptySeq DEF LoopInit
<1>3. LoopTypeOK
  <2>1. failed \in BOOLEAN
    BY <1>1, Zenon DEF LoopInit
  <2>2. QED
    BY <1>1, <1>2, <2>1, MaxSizeAssumption DEF LoopInit, LoopTypeOK
<1>4. Counts /\ Stopped
  BY <1>1, MaxSizeAssumption DEF LoopInit, Counts, Stopped, LastEnd
<1>5. ServerSendsPrefix
  BY <1>1, <1>2 DEF ServerSendsPrefix
<1>6. QED
  BY <1>3, <1>4, <1>5 DEF SInv

(* One more chunk: it starts where the offset stands, and moves it to its  *)
(* end (http_server.cpp:233-240, http_client.cpp:103-110).                 *)
LEMMA TransferSInv ==
  ASSUME SInv, Transfer
  PROVE  SInv'
<1> USE MaxSizeAssumption
<1>1. PICK k \in 1..total_to_send :
        /\ wire' = Append(wire, [from |-> From, bytes |-> k])
        /\ total_sent' = total_sent + k
        /\ total_to_send' = total_to_send - k
        /\ offset' = offset + k
  BY DEF Transfer
<1> DEFINE chunk == [from |-> From, bytes |-> k]
<1>2. UNCHANGED <<sender, size, failed>> /\ pc' = "test"
  BY DEF Transfer
<1>3. /\ size \in 1..MaxSize /\ total_to_send \in 0..MaxSize /\ total_sent \in 0..MaxSize
      /\ offset = total_sent /\ total_to_send + total_sent = size
      /\ sender \in {"server", "client"} /\ wire \in Seq(Chunks)
  BY DEF SInv, LoopTypeOK, Counts
<1>4. From \in 0..MaxSize /\ k \in 1..MaxSize
  BY <1>3 DEF From
<1>5. chunk \in Chunks
  BY <1>4 DEF Chunks
<1>6. wire' \in Seq(Chunks) /\ Len(wire') = Len(wire) + 1 /\ Len(wire) \in Nat
      /\ wire'[Len(wire) + 1] = chunk
      /\ \A i \in 1..Len(wire) : wire'[i] = wire[i]
  <2>1. wire' = Append(wire, chunk)
    BY <1>1
  <2>2. QED
    BY <1>3, <1>5, <2>1, AppendProperties, LenProperties
<1>7. LoopTypeOK'
  BY <1>1, <1>2, <1>3, <1>6 DEF SInv, LoopTypeOK
<1>8. sender = "server" => LastEnd' = offset'
  <2>1. wire' # <<>>
    BY <1>6, EmptySeq
  <2>2. LastEnd' = ChunkEnd(chunk)
    BY <1>6, <2>1 DEF LastEnd
  <2>3. ChunkEnd(chunk) = From + k
    BY DEF ChunkEnd
  <2>4. QED
    BY <1>1, <2>2, <2>3 DEF From
<1>9. Counts' /\ Stopped'
  BY <1>1, <1>2, <1>3, <1>8 DEF Counts, Stopped
<1>10. ServerSendsPrefix'
  <2>1. SUFFICES ASSUME sender = "server", NEW i \in 1..Len(wire')
                 PROVE  wire'[i].from = IF i = 1 THEN 0 ELSE ChunkEnd(wire'[i - 1])
    BY <1>2 DEF ServerSendsPrefix
  <2>2. CASE i \in 1..Len(wire)
    <3>1. wire[i].from = IF i = 1 THEN 0 ELSE ChunkEnd(wire[i - 1])
      BY <2>1, <2>2 DEF SInv, ServerSendsPrefix
    <3>2. i # 1 => i - 1 \in 1..Len(wire)
      BY <1>6, <2>2
    <3>3. wire'[i] = wire[i] /\ (i # 1 => wire'[i - 1] = wire[i - 1])
      BY <1>6, <2>2, <3>2
    <3>4. QED
      BY <3>1, <3>3
  <2>3. CASE i = Len(wire) + 1
    <3>1. wire'[i].from = offset
      BY <1>6, <2>1, <2>3 DEF From
    <3>2. LastEnd = offset
      BY <2>1 DEF SInv, Counts
    <3>3. CASE wire = <<>>
      <4>1. Len(wire) = 0
        BY <3>3
      <4>2. QED
        BY <2>3, <3>1, <3>2, <3>3, <4>1 DEF LastEnd
    <3>4. CASE wire # <<>>
      <4>1. Len(wire) > 0
        BY <1>3, <1>6, <3>4, EmptySeq
      <4>2. i # 1 /\ i - 1 = Len(wire) /\ wire'[i - 1] = wire[Len(wire)]
        BY <1>6, <2>3, <4>1
      <4>3. LastEnd = ChunkEnd(wire[Len(wire)])
        BY <3>4 DEF LastEnd
      <4>4. QED
        BY <3>1, <3>2, <4>2, <4>3
    <3>5. QED
      BY <3>3, <3>4
  <2>4. QED
    BY <1>6, <2>1, <2>2, <2>3
<1>11. QED
  BY <1>7, <1>9, <1>10 DEF SInv

(* The test of the loop ends it only when at least as much is sent as is   *)
(* left, and no step but a transfer touches the counters.                  *)
LEMMA NextSInv == SInv /\ [LoopNext]_loopVars => SInv'
<1>1. SUFFICES ASSUME SInv, [LoopNext]_loopVars PROVE SInv'
  OBVIOUS
<1>2. CASE Transfer
  BY <1>1, <1>2, TransferSInv
<1>3. CASE TransferFails \/ Repeat \/ Return \/ UNCHANGED loopVars
  <2>1. UNCHANGED <<sender, size, total_to_send, total_sent, offset, wire>>
    BY <1>3 DEF TransferFails, Repeat, Return, loopVars
  <2>2. LoopTypeOK'
    BY <1>1, <1>3, <2>1 DEF SInv, LoopTypeOK, TransferFails, Repeat, Return, loopVars
  <2>3. LastEnd' = LastEnd
    BY <2>1 DEF LastEnd
  <2>4. Counts'
    BY <1>1, <1>3, <2>1, <2>3 DEF SInv, LoopTypeOK, Counts, TransferFails, Repeat, More,
                                   Return, loopVars
  <2>5. Stopped'
    BY <1>1, <1>3, <2>1 DEF SInv, LoopTypeOK, Stopped, TransferFails, Repeat, Return, More,
                            loopVars
  <2>6. ServerSendsPrefix'
    BY <1>1, <2>1 DEF SInv, ServerSendsPrefix
  <2>7. QED
    BY <2>2, <2>4, <2>5, <2>6 DEF SInv
<1>4. QED
  BY <1>1, <1>2, <1>3 DEF LoopNext

(* The counters are right in every behaviour.                              *)
LEMMA SInvariance == LoopSpec => []SInv
BY InitSInv, NextSInv, PTL DEF LoopSpec

(* Neither loop counts past its payload (http_server.cpp:233-240,          *)
(* http_client.cpp:103-110).                                               *)
THEOREM TypeCorrect == LoopSpec => []LoopTypeOK
<1>1. SInv => LoopTypeOK
  BY DEF SInv
<1>2. QED
  BY <1>1, SInvariance, PTL

(* Neither loop, unless send() fails, gives up before half of the payload  *)
(* is out (http_server.cpp:240, http_client.cpp:110).                      *)
THEOREM HalfIsSent == LoopSpec => []StopsPastHalf
<1>1. SInv => StopsPastHalf
  BY DEF SInv, LoopTypeOK, Counts, Stopped, StopsPastHalf
<1>2. QED
  BY <1>1, SInvariance, PTL

(* What the server puts on the wire is the beginning of its payload,       *)
(* however send() cuts it (http_server.cpp:235-239).                       *)
THEOREM ServerKeepsItsPlace == LoopSpec => []ServerSendsPrefix
<1>1. SInv => ServerSendsPrefix
  BY DEF SInv
<1>2. QED
  BY <1>1, SInvariance, PTL
=============================================================================
