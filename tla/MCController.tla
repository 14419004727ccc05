---------------------------- MODULE MCController ----------------------------
(***************************************************************************)
(* Instance of Controller for TLC: endpoints around "/a/{f}" and what two  *)
(* threads are asked for.                                                  *)
(***************************************************************************)
EXTENDS Controller

CONSTANTS t1, t2, h1

Get(path) == [method |-> "GET", endpoint |-> path]
Via(mode, item) == [mode |-> mode, method |-> item.method, endpoint |-> item.endpoint]

MCFile == Get(<<"/", "a", "/", "{", "f", "}">>)
MCLong == Get(<<"/", "a", "/", "b", "/", "{", "g", "}">>)
MCShort == Get(<<"/", "a">>)
MCPost == [method |-> "POST", endpoint |-> <<"/", "a">>]

MCItems == {MCFile, MCLong, MCShort, MCPost}

MCAdds == {<<i, h1>> : i \in MCItems}

(* Named by "/a/{f}" with another length - a path that "/a/b/{g}" accepts  *)
(* too - and with the same one, holding "/a" elsewhere, unknown, with a    *)
(* query, with a key and no value.                                         *)
MCEndpoints ==
  {<<"/", "a", "/", "b">>, <<"/", "a", "/", "b", "c", "d">>, <<"/", "b", "/", "a", "/", "c">>,
   <<"/", "c">>, <<"/", "a", "/", "b", "?", "k", "=", "v">>, <<"/", "a", "?", "k">>}

MCPaths(t) ==
  IF t = t1
    THEN {Via("queue", i) : i \in MCItems \cup {Get(e) : e \in MCEndpoints}}
           \cup {[mode |-> "queue", method |-> "PUT", endpoint |-> <<"/", "a">>]}
    ELSE {Via("run", MCFile), Via("run", Get(<<"/", "a", "/", "b">>)), Via("text", MCShort),
          Via("empty", MCShort), Via("queue", MCShort)}
=============================================================================
