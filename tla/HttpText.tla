------------------------------ MODULE HttpText ------------------------------
(***************************************************************************)
(* The texts of the protocol: the request the client builds                *)
(* (http_client/request.cpp) and the server parses (http_server/           *)
(* request.cpp), the answer the server builds (response.cpp,               *)
(* default_response.cpp) and the client parses (http_client/response.cpp). *)
(***************************************************************************)
EXTENDS Texts, TLC

Emplace_LastWins(map, key, value) ==
  [k \in DOMAIN map \cup {key} |-> IF k = key THEN value ELSE map[k]]

(* std::map::emplace: of two values for one key the first stays.           *)
Emplace(map, key, value) ==
  [k \in DOMAIN map \cup {key} |-> IF k \in DOMAIN map THEN map[k] ELSE value]

(* A key or a value that strtok_s() did not find is a null pointer.        *)
Token(tokens, n) == IF n \in DOMAIN tokens THEN tokens[n] ELSE <<>>

Methods == {"GET", "POST"}

MethodOf_None(word) ==
  IF word = <<"POST">> THEN "POST" ELSE IF word = <<"GET">> THEN "GET" ELSE "NONE"

(* to_string(const std::string&): whatever is not POST is GET.             *)
MethodOf(word) == IF word = <<"POST">> THEN "POST" ELSE "GET"

-----------------------------------------------------------------------------
(* Both parsers are one loop over the text up to each CR; they differ in   *)
(* the first line and in what they keep of a header's value.               *)
Unparsed == [line |-> <<>>, query |-> <<>>, headers |-> <<>>, body |-> <<>>,
             firstLineParsed |-> FALSE, headersParsed |-> FALSE, null |-> FALSE]

Words(token) == [n \in DOMAIN StrTok(token, SP) |-> RemoveFirst(StrTok(token, SP)[n], LF)]

(* The server's request_t: the first word that is not empty is the method, *)
(* the next one the target, cut at the first "?".  line holds both, and    *)
(* nothing if the first line has no word.                                  *)
Query(parsed, pairs) ==
  LET Parts(n) == StrTok(pairs[n], "=")
  IN [parsed EXCEPT
        !.query = FoldLeft(LAMBDA query, n : Emplace(query, Token(Parts(n), 1), Token(Parts(n), 2)),
                           parsed.query, [n \in DOMAIN pairs |-> n]),
        !.null = parsed.null \/ \E n \in DOMAIN pairs : Len(Parts(n)) < 2]

RequestLine(parsed, words) ==
  LET first  == SelectInSeq(words, LAMBDA w : w # <<>>)
      target == IF first = 0 THEN <<>> ELSE Token(words, first + 1)
      mark   == Find(target, "?")
      endpoint == IF mark = 0 THEN target ELSE SubSeq(target, 1, mark - 1)
  IN Query([parsed EXCEPT !.line = IF words = <<>> THEN <<>> ELSE <<Token(words, first), endpoint>>],
           IF mark = 0 THEN <<>> ELSE StrTok(Substr(target, mark), "&"))

WithoutSpace(value) == IF value # <<>> /\ Head(value) = SP THEN Tail(value) ELSE value

(* The client's response_t: the first three words of the first line.       *)
StatusLine(parsed, words) ==
  LET full == {n \in DOMAIN words : words[n] # <<>>}
  IN [parsed EXCEPT !.line = [n \in 1..Cardinality(full) |-> words[Nth(full, n)]]]

FirstLine(type, parsed, words) ==
  IF type = "request_t" THEN RequestLine(parsed, words) ELSE StatusLine(parsed, words)

HeaderValue(type, value) == IF type = "request_t" THEN WithoutSpace(value) ELSE value

Header(type, parsed, token) ==
  LET parts == StrTok(token, ":")
  IN [parsed EXCEPT
        !.headers = Emplace(parsed.headers, RemoveFirst(Token(parts, 1), LF),
                            HeaderValue(type, Token(parts, 2))),
        !.null = parsed.null \/ parts = <<>>]

ParseToken(type, parsed, token) ==
  CASE token = <<LF>> ->
         [parsed EXCEPT !.headersParsed = TRUE]
    [] token # <<LF>> /\ ~parsed.firstLineParsed ->
         FirstLine(type, [parsed EXCEPT !.firstLineParsed = TRUE], Words(token))
    [] token # <<LF>> /\ parsed.firstLineParsed /\ parsed.headersParsed ->
         [parsed EXCEPT !.body = @ \o RemoveFirst(token, LF)]
    [] token # <<LF>> /\ parsed.firstLineParsed /\ ~parsed.headersParsed ->
         IF Find(token, ":") # 0 THEN Header(type, parsed, token) ELSE parsed

Parse(type, text) ==
  FoldLeft(LAMBDA parsed, token : ParseToken(type, parsed, token),
           Unparsed, StrTok(CString(text), CR))

(* The member _http_method is assigned with the first word only: without   *)
(* one it is what was in memory, which the caller chooses.                 *)
ParseRequest(text, uninitialised) ==
  LET parsed == Parse("request_t", text)
  IN [method |-> IF parsed.line = <<>> THEN uninitialised ELSE MethodOf(Token(parsed.line, 1)),
      endpoint |-> Token(parsed.line, 2),
      param |-> <<>>,
      query |-> parsed.query, headers |-> parsed.headers, body |-> parsed.body,
      null |-> parsed.null]

ParseResponse(text) ==
  LET parsed == Parse("response_t", text)
  IN [status |-> Token(parsed.line, 2), phrase |-> Token(parsed.line, 3),
      headers |-> parsed.headers, body |-> parsed.body, null |-> parsed.null]

-----------------------------------------------------------------------------
(* What a program fills in: a text is of symbols, a map has finitely many  *)
(* keys, and a status is a number that status_code_string_t has a phrase   *)
(* for.                                                                    *)
IsMap(headers) ==
  /\ IsFiniteSet(DOMAIN headers)
  /\ \A key \in DOMAIN headers : key \in Seq(STRING) /\ headers[key] \in Seq(STRING)

IsRequest(message) ==
  /\ message.method \in Methods
  /\ {message.endpoint, message.host, message.body} \subseteq Seq(STRING)
  /\ IsMap(message.headers)

(* The lines of a map's headers, in the one order the map iterates.        *)
HeaderLines(headers) ==
  FoldSet(LAMBDA key, text : text \o key \o <<":", SP>> \o headers[key] \o <<CR, LF>>,
          <<>>, DOMAIN headers)

(* request_t::build_request: without a body nothing ends the headers.      *)
BuildRequest(message) ==
  <<message.method, SP>> \o message.endpoint \o <<SP, "HTTP/1.1", CR, LF>>
    \o <<"Host", ":", SP>> \o message.host \o <<CR, LF>>
    \o HeaderLines(message.headers)
    \o (IF message.body = <<>> THEN <<>>
        ELSE <<"Content-Length", ":", SP, ToString(Len(message.body)), CR, LF, CR, LF>>
               \o message.body)

(* status_code_string_t                                                    *)
Statuses == {"101", "200", "400", "404", "405", "500", "501"}

Phrase ==
  [status \in Statuses |->
     CASE status = "101" -> <<"Switching", SP, "Protocols">>
       [] status = "200" -> <<"OK">>
       [] status = "400" -> <<"Bad", SP, "Request">>
       [] status = "404" -> <<"Not", SP, "Found">>
       [] status = "405" -> <<"Method", SP, "Not", SP, "Allowed">>
       [] status = "500" -> <<"Internal", SP, "Server", SP, "Error">>
       [] status = "501" -> <<"Not", SP, "Implemented">>]

IsResponse(response) ==
  /\ response.status \in Statuses
  /\ IsMap(response.headers)
  /\ response.body \in Seq(Seq(STRING))

ResponseText_NoBlankLine(response) ==
  <<"HTTP/1.1", SP, response.status, SP>> \o Phrase[response.status] \o <<CR, LF>>
    \o HeaderLines(response.headers)
    \o (IF response.body = <<>> THEN <<>> ELSE FlattenSeq(response.body) \o <<CR, LF>>)

(* response_t::to_string                                                   *)
ResponseText(response) ==
  <<"HTTP/1.1", SP, response.status, SP>> \o Phrase[response.status] \o <<CR, LF>>
    \o HeaderLines(response.headers) \o <<CR, LF>>
    \o (IF response.body = <<>> THEN <<>> ELSE FlattenSeq(response.body) \o <<CR, LF>>)

-----------------------------------------------------------------------------
(* default_response.cpp.  The date is one whose time has two colons.       *)
Date == <<"day", SP, "hour", ":", "minute", ":", "second", SP, "year">>

Common == (<<"Access-Control-Allow-Origin">> :> <<"*">>)
            @@ (<<"Cache-control">> :> <<"no-cache">>) @@ (<<"Date">> :> Date)

WithBody(status, contentType, body) ==
  [status |-> status, body |-> <<body>>,
   headers |-> Common @@ (<<"Content-Type">> :> contentType)
                 @@ (<<"Content-Length">> :> <<ToString(Len(body))>>)
                 @@ (<<"Connection">> :> <<"Closed">>)]

TextPlain == <<"text/plain">>

ok(body, contentType) == WithBody("200", contentType, body)
ok_json(body) == WithBody("200", <<"application/json">>, body)
bad_request == WithBody("400", TextPlain, Phrase["400"])
not_found(body) == WithBody("404", TextPlain, IF body = <<>> THEN Phrase["404"] ELSE body)
internal_server_error == WithBody("500", TextPlain, Phrase["500"])

(* The caller's headers are emplaced after the fixed ones, before the date *)
(* is assigned.                                                            *)
switching_protocols(additional) ==
  [status |-> "101", body |-> <<>>,
   headers |-> Common @@ (<<"Upgrade">> :> <<"websocket">>)
                 @@ (<<"Connection">> :> <<"Upgrade">>) @@ additional]
=============================================================================
