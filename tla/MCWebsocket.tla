----------------------------- MODULE MCWebsocket -----------------------------
(***************************************************************************)
(* Instance of Websocket for TLC: one client that sends frames, one that   *)
(* listens.                                                                *)
(***************************************************************************)
EXTENDS Websocket

CONSTANTS c1, c2

(* A digest of twenty bytes without a zero; one with a zero at its end.    *)
MCDigest == [i \in 1..20 |-> (i * 37) % 256]

Ask(digest, beyond) ==
  [endpoint |-> "/websocket", connection |-> <<"Upgrade">>, digest |-> digest, beyond |-> beyond]

MCUpgrades(c) ==
  IF c = c1 THEN {Ask(MCDigest, <<0>>)}
  ELSE {Ask(MCDigest, <<255, 0>>),
        [Ask([MCDigest EXCEPT ![20] = 0], <<0>>) EXCEPT !.connection = <<"keep-alive,", SP, "Upgrade">>],
        [Ask(MCDigest, <<0>>) EXCEPT !.endpoint = "/"]}

Key == <<7, 9, 5, 3>>
Frame(key, payload) ==
  [fin |-> TRUE, opcode |-> 1, masked |-> TRUE, key |-> key, payload |-> payload]

(* With a byte that its key turns to zero; with a zero in the key; empty,  *)
(* without mask or with it; with 126 and with 257 bytes; a close frame;    *)
(* without mask; not the last of its message; of the rest of a message.    *)
MCFrames(c) ==
  IF c # c1 THEN {}
  ELSE {Frame(Key, p) : p \in {<<72, 9, 105>>, <<>>, [i \in 1..126 |-> 65],
                               [i \in 1..257 |-> 65]}}
         \cup {Frame(<<7, 9, 0, 3>>, <<72, 105>>),
               [Frame(Key, <<3, 232>>) EXCEPT !.opcode = 8],
               [Frame(Key, <<72, 105>>) EXCEPT !.masked = FALSE],
               [Frame(Key, <<>>) EXCEPT !.masked = FALSE],
               [Frame(Key, <<72, 105>>) EXCEPT !.fin = FALSE, !.opcode = 0],
               [Frame(Key, <<72, 105>>) EXCEPT !.fin = FALSE]}

MCMessages == {<<>>, <<72, 0, 105>>}
MCBeyond == {<<>>, <<66>>}
=============================================================================
