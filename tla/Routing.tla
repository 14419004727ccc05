------------------------------- MODULE Routing -------------------------------
(***************************************************************************)
(* server_t::is_endpoint_available (http_server.cpp): which of the         *)
(* registered endpoints accepts a request, and what becomes of the request *)
(* when that endpoint has a parameter.  An endpoint item is a record       *)
(* [method, endpoint], a request a record with method, endpoint and param. *)
(***************************************************************************)
EXTENDS Texts

CONSTANT SizeModulus   \* size_t counts modulo this

ASSUME SizeAssumption == SizeModulus \in Nat \ {0}

Accepts_MethodOnly(item, request) == request.method = item.method

(* The predicate of find_if.  "contains_param &&" tests a position: it is  *)
(* false for a "{" in the first one.                                       *)
Accepts(item, request) ==
  /\ request.method = item.method
  /\ IF Len(request.endpoint) = Len(item.endpoint) \/ Find(item.endpoint, "{") = 0
       THEN request.endpoint = item.endpoint
       ELSE /\ Find(item.endpoint, "{") # 1
            /\ LET slash == FindLast(item.endpoint, "/")
               IN Holds(request.endpoint, IF slash = 0 THEN item.endpoint
                                            ELSE SubSeq(item.endpoint, 1, slash - 1))

(* size() > size() - param_pos_start, on unsigned values.                  *)
LongEnough(request, item) ==
  LET start == Find(item.endpoint, "{") - 1
      size  == Len(request.endpoint)
  IN size > (size - start) % SizeModulus

(* The request after the endpoint found has been looked at for a           *)
(* parameter: a match takes the text after its last slash as the value and *)
(* continues under the name of the endpoint.                               *)
WithParam_KeepEndpoint(item, request) ==
  IF Find(item.endpoint, "{") # 0 /\ Find(item.endpoint, "}") # 0 /\ LongEnough(request, item)
    THEN [request EXCEPT !.param = Substr(request.endpoint, FindLast(request.endpoint, "/"))]
    ELSE [request EXCEPT !.param = <<>>]

WithParam(item, request) ==
  IF Find(item.endpoint, "{") = 0 \/ Find(item.endpoint, "}") = 0 THEN request
  ELSE IF LongEnough(request, item)
    THEN [request EXCEPT !.param = Substr(request.endpoint, FindLast(request.endpoint, "/")),
                         !.endpoint = item.endpoint]
    ELSE [request EXCEPT !.param = <<>>]

Route_Last(server_endpoints, request) ==
  SelectLastInSeq(server_endpoints, LAMBDA item : Accepts(item, request))

(* The position in server_endpoints of the item that find_if stops at; 0   *)
(* when the request is refused.                                            *)
Route(server_endpoints, request) ==
  SelectInSeq(server_endpoints, LAMBDA item : Accepts(item, request))

-----------------------------------------------------------------------------
(* What an endpoint whose last segment is a parameter stands for,          *)
(* independently of the code above: its text with one further segment in   *)
(* the place of its last.  A text without a slash has no segments.         *)
Names(item, path) ==
  LET slash == FindLast(item.endpoint, "/")
  IN /\ slash # 0
     /\ Find(item.endpoint, "{") = slash + 1
     /\ Find(item.endpoint, "}") # 0
     /\ IsPrefix(SubSeq(item.endpoint, 1, slash), path)
     /\ FindLast(path, "/") = slash
     /\ Len(path) > slash
=============================================================================
