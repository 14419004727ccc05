------------------------------- MODULE MCBytes -------------------------------
(***************************************************************************)
(* Websocket beside the loop that puts what it sends on the wire, SendLoop. *)
(* Websocket's SendToAll hands a message over and looks at nothing that    *)
(* the loop does, so neither is multiplied with the other: the loop runs   *)
(* before anything has happened to the clients, and they go on from one of *)
(* the loop's initial states.                                              *)
(***************************************************************************)
EXTENDS MCWebsocket, SendLoop

NoClientYet == messages = 0 /\ \A c \in Clients : conn[c] = "new"
LoopNotBegun == sender = "server" /\ size = MaxSize /\ pc = "send" /\ wire = <<>>

MCInit == Init /\ LoopInit

MCNext ==
  \/ NoClientYet /\ LoopNext /\ UNCHANGED vars
  \/ LoopNotBegun /\ Next /\ UNCHANGED loopVars

MCSpec == MCInit /\ [][MCNext]_<<vars, loopVars>>
=============================================================================
