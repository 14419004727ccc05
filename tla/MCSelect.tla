------------------------------ MODULE MCSelect ------------------------------
(***************************************************************************)
(* Instance of SelectServer for TLC: a peer that posts, one that asks for  *)
(* a page and two that say nothing.                                        *)
(***************************************************************************)
EXTENDS SelectServer, TLC

CONSTANTS c1, c2, c3, c4

MCInit == Init /\ kind = (c1 :> "json" @@ c2 :> "page" @@ c3 :> "silent" @@ c4 :> "silent")

(* Bound: only the first peer ends its stream, at any time, and the others *)
(* wait for the server.                                                    *)
MCNext == Next /\ \A c \in Conns \ {c1} : "fin" \notin Range(sent'[c])

MCFairSpec == MCInit /\ [][MCNext]_vars /\ WF_vars(Server)
=============================================================================
