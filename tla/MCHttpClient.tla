---------------------------- MODULE MCHttpClient ----------------------------
(***************************************************************************)
(* Instance of HttpClient for TLC: one thread with many messages, another  *)
(* with the POST of sendpost().                                            *)
(***************************************************************************)
EXTENDS HttpClient

CONSTANTS s1, s2, h1, h2

MCBatches == <<{s1}, {s2}>>

Plain == [method |-> "GET", endpoint |-> <<"/">>, host |-> <<"host">>, headers |-> <<>>, body |-> <<>>]
Join == [Plain EXCEPT !.method = "POST", !.endpoint = <<"/", "join">>]

MCEndpoints == {<<"/">>, <<>>, <<"/", "a", SP, "b">>, <<"/", "?", "k", "=", "v">>, <<"/", "?", "k">>,
                <<"/", LF, "a">>}

MCBodies == {<<"x">>, <<LF, "x">>, <<"x", LF>>, <<"x", CR, LF, "y">>, <<CR>>, <<":", SP, "x">>,
             <<"x", NUL, "y">>, <<LF>>, <<CR, LF, CR, LF, "x">>, <<"x", CR, "y", LF>>}
MCHeaders ==
  {<<>>, <<"type">> :> <<"json">>, <<"time">> :> <<"1", ":", "2">>, <<"type">> :> <<SP, "json">>,
   <<"type">> :> <<>>, <<"a", ":", "b">> :> <<"c">>, (<<"Host">> :> <<"other">>) @@ (<<"a">> :> <<"b", SP, "c">>)}

MCMessages(s) ==
  IF s # s1 THEN {Join}
  ELSE {[Plain EXCEPT !.endpoint = e] : e \in MCEndpoints}
         \cup {[Plain EXCEPT !.host = h] : h \in {<<>>, <<"host", ":", "80">>, <<SP, "host">>}}
         \cup {[Join EXCEPT !.headers = h] : h \in MCHeaders}
         \cup {[Join EXCEPT !.body = b] : b \in MCBodies}
         \cup {[Join EXCEPT !.headers = h, !.body = <<"x">>] : h \in MCHeaders}

(* Every answer to the plain GET, one to any other message.                *)
MCAnswers(m) ==
  IF m # Plain THEN {bad_request}
  ELSE {ok(b, <<"text/html;", SP, "charset=utf-8">>) : b \in MCBodies \cup {<<>>}}
         \cup {ok_json(<<"{}">>), not_found(<<>>), not_found(<<"username", SP, "missing">>),
               internal_server_error, switching_protocols(<<"Sec-WebSocket-Accept">> :> <<"key">>),
               switching_protocols(<<"type">> :> <<CR, ":", CR>>)}
=============================================================================
