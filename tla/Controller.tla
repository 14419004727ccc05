----------------------------- MODULE Controller -----------------------------
(***************************************************************************)
(* default_controller_t (default_controller.cpp) between the program that  *)
(* registers endpoints and the server threads that call it: the maps of    *)
(* endpoints, the mutex locked by hand, the handlers run outside it; and   *)
(* the copy of the endpoints a server takes when it is constructed, from   *)
(* which run_queue() decides what reaches the controller (Routing).        *)
(* Threads stand for servers that share one controller, one request each   *)
(* at a time.                                                              *)
(***************************************************************************)
EXTENDS Routing, HttpText

CONSTANTS Threads,    \* server threads
          Nobody,     \* holder of a free mutex
          Items,      \* endpoints: records [method, endpoint]
          Adds,       \* calls of add_get and add_post: pairs <<item, handler>>
          Paths(_)    \* Paths(t): what t's clients send, [mode, method, endpoint]

ASSUME NobodyAssumption == Nobody \notin Threads
ASSUME ItemsAssumption == Items \subseteq [method : Methods, endpoint : Seq(STRING)]
ASSUME FiniteAssumption == IsFiniteSet(Items)
ASSUME AddsAssumption == \A a \in Adds : a[1] \in Items /\ a[2] # Nobody

Handlers == {a[2] : a \in Adds}

(* How a request gets to the controller: from run(), which parses it; from *)
(* consume_queue(), which also asks is_endpoint_available(); or as a text  *)
(* that the controller parses under its mutex, unless it is empty.         *)
Modes == {"run", "queue", "text", "empty"}

(* What the server reads of a request: see HttpText.                       *)
AllPaths == UNION {Paths(t) : t \in Threads}

Parsed == [path \in AllPaths |->
  ParseRequest(<<path.method, SP>> \o path.endpoint \o <<SP, "HTTP/1.1", CR, LF>>, "UNSET")]

(* Every path begins with a word, so that the parser sets _http_method,    *)
(* which it would leave uninitialised otherwise.                           *)
ASSUME PathsAssumption ==
  \A path \in AllPaths :
    path.mode \in Modes /\ Parsed[path].method # "UNSET" /\ Parsed[path].endpoint \in Seq(STRING)

VARIABLES end_points,        \* the handler of each endpoint, Nobody for none
          server_endpoints,  \* the copy in the server
          constructed,       \* the server exists
          controller_mutex,
          pc,
          asked,             \* the mode and the request as parsed
          request,           \* the request as routed
          reply,             \* [status, by]: by is the handler that answered
          torn,              \* threads whose lookup an emplace overlapped
          aborted            \* undefined behaviour ended the process

ownerVars == <<end_points, server_endpoints, constructed>>
vars == <<ownerVars, controller_mutex, pc, asked, request, reply, torn, aborted>>

Registered == {i \in Items : end_points[i] # Nobody}

NoReply == [status |-> "none", by |-> Nobody]
NoRequest == [method |-> "GET", endpoint |-> <<>>, param |-> <<>>]
NoPath == [mode |-> "run", method |-> "GET", endpoint |-> <<>>]

Init ==
  /\ end_points = [i \in Items |-> Nobody]
  /\ server_endpoints = <<>>
  /\ constructed = FALSE
  /\ controller_mutex = Nobody
  /\ pc = [t \in Threads |-> "idle"]
  /\ asked = [t \in Threads |-> NoPath]
  /\ request = [t \in Threads |-> NoRequest]
  /\ reply = [t \in Threads |-> NoReply]
  /\ torn = {}
  /\ aborted = FALSE

-----------------------------------------------------------------------------
(* add_get and add_post take no lock.  emplace keeps the handler an        *)
(* endpoint has; a new one changes the map, whoever is looking at it.      *)
Add(i, h) ==
  /\ ~aborted
  /\ end_points[i] = Nobody
  /\ end_points' = [end_points EXCEPT ![i] = h]
  /\ torn' = torn \cup {t \in Threads : pc[t] = "lookup" /\ request[t].method = i.method}
  /\ UNCHANGED <<server_endpoints, constructed, controller_mutex, pc, asked, request,
                 reply, aborted>>

(* get_endpoints: the GETs, then the POSTs, each in the order of its map,  *)
(* which is an unordered one.                                              *)
EndpointLists ==
  LET orders(method) == SetToSeqs({i \in Registered : i.method = method})
  IN {gets \o posts : gets \in orders("GET"), posts \in orders("POST")}

ConstructServer ==
  /\ ~aborted
  /\ ~constructed
  /\ constructed' = TRUE
  /\ server_endpoints' \in EndpointLists
  /\ UNCHANGED <<end_points, controller_mutex, pc, asked, request, reply, torn, aborted>>

Owner == ConstructServer \/ \E a \in Adds : Add(a[1], a[2])

-----------------------------------------------------------------------------
At(t, l) == ~aborted /\ pc[t] = l
Go(t, l) == pc' = [pc EXCEPT ![t] = l]
Answer(t, status, by) == reply' = [reply EXCEPT ![t] = [status |-> status, by |-> by]]

(* A request arrives and is parsed.  consume_queue() refuses what no       *)
(* endpoint of its copy accepts and lets the others be rewritten.          *)
Receive(t) ==
  /\ At(t, "idle")
  /\ constructed
  /\ \E path \in Paths(t) :
       LET parsed == Parsed[path]
           r      == [method |-> parsed.method, endpoint |-> parsed.endpoint, param |-> <<>>]
           n      == Route(server_endpoints, r)
       IN /\ ~parsed.null
          /\ asked' = [asked EXCEPT ![t] =
               [mode |-> path.mode, method |-> parsed.method, endpoint |-> parsed.endpoint]]
          /\ request' = [request EXCEPT ![t] =
                           IF path.mode = "queue" /\ n # 0 THEN WithParam(server_endpoints[n], r)
                           ELSE r]
          /\ IF path.mode = "queue" /\ n = 0
               THEN Go(t, "done") /\ Answer(t, "400", Nobody)
               ELSE Go(t, "lock") /\ UNCHANGED reply
  /\ UNCHANGED <<ownerVars, controller_mutex, torn, aborted>>

(* A null pointer made into a string while a request is parsed ends the    *)
(* process, under the mutex or not.                                        *)
Malformed(t) ==
  /\ At(t, "idle")
  /\ constructed
  /\ \E path \in Paths(t) : Parsed[path].null
  /\ aborted' = TRUE
  /\ UNCHANGED <<ownerVars, controller_mutex, pc, asked, request, reply, torn>>

(* controller_mutex.lock() in the task of handle_request(); the caller     *)
(* waits in task.get().                                                    *)
Lock_Unguarded(t) ==
  /\ At(t, "lock")
  /\ controller_mutex' = t
  /\ Go(t, "lookup")
  /\ UNCHANGED <<ownerVars, asked, request, reply, torn, aborted>>

Lock(t) ==
  /\ At(t, "lock")
  /\ controller_mutex = Nobody
  /\ controller_mutex' = t
  /\ Go(t, "lookup")
  /\ UNCHANGED <<ownerVars, asked, request, reply, torn, aborted>>

(* find_if over the map of the method: equality of the whole endpoint.     *)
Target(t) == [method |-> request[t].method, endpoint |-> request[t].endpoint]

Searches(t) == At(t, "lookup") /\ asked[t].mode # "empty"

FoundIn_Prefix(t) ==
  IF \E i \in Registered : IsPrefix(i.endpoint, request[t].endpoint)
    THEN end_points[CHOOSE i \in Registered : IsPrefix(i.endpoint, request[t].endpoint)]
    ELSE Nobody

FoundIn(t) == IF Target(t) \in Registered THEN end_points[Target(t)] ELSE Nobody

Found(t) ==
  /\ Searches(t)
  /\ FoundIn(t) # Nobody
  /\ controller_mutex' = Nobody
  /\ reply' = [reply EXCEPT ![t].by = FoundIn(t)]
  /\ Go(t, "handler")
  /\ UNCHANGED <<ownerVars, asked, request, torn, aborted>>

NotFound_KeepLock(t) ==
  /\ Searches(t)
  /\ FoundIn(t) = Nobody
  /\ Answer(t, "404", Nobody)
  /\ Go(t, "done")
  /\ UNCHANGED <<ownerVars, controller_mutex, asked, request, torn, aborted>>

(* The one unlock for every way out of the switch; a lookup the map        *)
(* changed under may also miss what it holds.                              *)
NotFound(t) ==
  /\ Searches(t)
  /\ FoundIn(t) = Nobody \/ t \in torn
  /\ controller_mutex' = Nobody
  /\ Answer(t, "404", Nobody)
  /\ Go(t, "done")
  /\ UNCHANGED <<ownerVars, asked, request, torn, aborted>>

(* Iterating over a map that another thread changes.                       *)
TornLookup(t) ==
  /\ Searches(t)
  /\ t \in torn
  /\ aborted' = TRUE
  /\ UNCHANGED <<ownerVars, controller_mutex, pc, asked, request, reply, torn>>

(* handle_request() of an empty text: refused under the mutex.             *)
EmptyText(t) ==
  /\ At(t, "lookup")
  /\ asked[t].mode = "empty"
  /\ controller_mutex' = Nobody
  /\ Answer(t, "400", Nobody)
  /\ Go(t, "done")
  /\ UNCHANGED <<ownerVars, asked, request, torn, aborted>>

(* The handler runs on the thread of the task, without the mutex.          *)
Handle(t) ==
  /\ At(t, "handler")
  /\ \E status \in {"200", "404"} : Answer(t, status, reply[t].by)
  /\ Go(t, "done")
  /\ UNCHANGED <<ownerVars, controller_mutex, asked, request, torn, aborted>>

(* What it throws comes out of task.get(), and no server thread catches.   *)
HandlerThrows(t) ==
  /\ At(t, "handler")
  /\ aborted' = TRUE
  /\ UNCHANGED <<ownerVars, controller_mutex, pc, asked, request, reply, torn>>

(* The server has sent the answer.                                         *)
Finish(t) ==
  /\ At(t, "done")
  /\ Go(t, "idle")
  /\ asked' = [asked EXCEPT ![t] = NoPath]
  /\ request' = [request EXCEPT ![t] = NoRequest]
  /\ reply' = [reply EXCEPT ![t] = NoReply]
  /\ torn' = torn \ {t}
  /\ UNCHANGED <<ownerVars, controller_mutex, aborted>>

Lookup(t) == Found(t) \/ NotFound(t) \/ TornLookup(t) \/ EmptyText(t)

Thread(t) == Receive(t) \/ Malformed(t) \/ Lock(t) \/ Lookup(t)
               \/ Handle(t) \/ HandlerThrows(t) \/ Finish(t)

Next == Owner \/ \E t \in Threads : Thread(t)

Spec == Init /\ [][Next]_vars

(* A thread inside the mutex is scheduled.                                 *)
FairSpec == Spec /\ \A t \in Threads : WF_vars(Lookup(t))

-----------------------------------------------------------------------------
Requests == [method : Methods, endpoint : Seq(STRING), param : Seq(STRING)]

(* Types of all variables; server_endpoints lists items, once each.        *)
TypeOK ==
  /\ end_points \in [Items -> Handlers \cup {Nobody}]
  /\ server_endpoints \in Seq(Items)
  /\ constructed \in BOOLEAN
  /\ controller_mutex \in Threads \cup {Nobody}
  /\ pc \in [Threads -> {"idle", "lock", "lookup", "handler", "done"}]
  /\ asked \in [Threads -> [mode : Modes, method : Methods, endpoint : Seq(STRING)]]
  /\ request \in [Threads -> Requests]
  /\ reply \in [Threads -> [status : {"none", "200", "400", "404"}, by : Handlers \cup {Nobody}]]
  /\ torn \subseteq Threads
  /\ aborted \in BOOLEAN

(* The hand-locked mutex (default_controller.cpp:86, 101, 113, 118) is     *)
(* held by the one thread that is looking an endpoint up and by nobody     *)
(* else: never while a handler runs or after a request has been answered.  *)
MutexIsTheLookup ==
  \A t \in Threads : controller_mutex = t <=> pc[t] = "lookup"

(* The request has an answer, or its handler.                              *)
Decided(t) == pc[t] \in {"handler", "done"}

Listed(i) == i \in Range(server_endpoints)

HasParam(i) == Find(i.endpoint, "{") # 0

(* The path that was asked for, without its query, as an item.             *)
Path(t) == [method |-> asked[t].method, endpoint |-> asked[t].endpoint]

(* An endpoint that takes a request and leaves its path as it is.          *)
KeepsPath(item, path) ==
  /\ HasParam(item) /\ Accepts(item, path)
  /\ Find(item.endpoint, "}") = 0 \/ ~LongEnough(path, item)

(* A server under run_queue() serves the endpoints the controller had when *)
(* the server was constructed (http_server.cpp:110): a handler that runs   *)
(* for it is the handler such an endpoint had then - endpoints added later *)
(* are reached only by a path that an earlier endpoint with a parameter    *)
(* accepted and that is not rewritten, being too short.                    *)
LateEndpointsUnserved ==
  \A t \in Threads :
    (asked[t].mode = "queue" /\ Decided(t) /\ reply[t].by # Nobody /\ ~Listed(Target(t))) =>
      \E i \in Range(server_endpoints) : KeepsPath(i, Path(t))

(* An endpoint with a parameter that names the path and is not exactly as  *)
(* long stands at n in the copy.                                           *)
NamedBy(t, n) ==
  LET i == server_endpoints[n]
  IN /\ i.method = Path(t).method
     /\ Names(i, Path(t).endpoint)
     /\ Len(i.endpoint) # Len(Path(t).endpoint)

LastSegment(text) == Substr(text, FindLast(text, "/"))

(* A listed path gets a handler from consume_queue(): the copy, the        *)
(* rewriting and the map the controller searches later agree.  So does a   *)
(* path that names a listed endpoint with a parameter, and the handler     *)
(* sees the last segment as _param_value - unless an endpoint that stands  *)
(* before it in the copy takes the path and leaves it as it is, the way    *)
(* "/a/b/{g}" takes "/a/b" from "/a/{f}" (http_server.cpp:305, 310).       *)
AcceptedIsServed ==
  \A t \in Threads :
    (asked[t].mode = "queue" /\ Decided(t) /\ t \notin torn) =>
      /\ Listed(Path(t)) => reply[t].by # Nobody
      /\ \A n \in DOMAIN server_endpoints : NamedBy(t, n) =>
           \/ /\ reply[t].by # Nobody
              /\ HasParam(Target(t)) => request[t].param = LastSegment(Path(t).endpoint)
           \/ \E m \in 1..(n - 1) : KeepsPath(server_endpoints[m], Path(t))

(* A listed path is answered by its own endpoint unless one with a         *)
(* parameter stands before it in the copy - where the order is that of an  *)
(* unordered map - and its text up to the last slash occurs somewhere in   *)
(* the path (http_server.cpp:305).                                         *)
ShadowedByEarlierParam ==
  \A t \in Threads :
    (asked[t].mode = "queue" /\ Decided(t) /\ Listed(Path(t)) /\ Target(t) # Path(t)) =>
      \E m, n \in DOMAIN server_endpoints :
        /\ m < n
        /\ server_endpoints[n] = Path(t)
        /\ HasParam(server_endpoints[m])
        /\ Target(t) = server_endpoints[m]

(* run() does not ask is_endpoint_available() (http_server.cpp:190): a     *)
(* handler is found for a path that is registered letter by letter, it     *)
(* never gets a parameter, and such a path is not missed.                  *)
RunServesLiterally ==
  \A t \in Threads :
    (asked[t].mode \in {"run", "text"} /\ Decided(t) /\ t \notin torn) =>
      /\ reply[t].by # Nobody => Path(t) \in Registered /\ request[t].param = <<>>
      /\ Listed(Path(t)) => reply[t].by # Nobody

(* Whatever way a lookup goes, the mutex is released, as long as the       *)
(* process lives.                                                          *)
MutexIsReleased ==
  \A t \in Threads : (controller_mutex = t) ~> (controller_mutex # t \/ aborted)

(* README.md:36 registers "/resource/{file}" for any file: a path that     *)
(* names an endpoint with a parameter reaches a handler.                   *)
EveryNameIsServed ==
  \A t \in Threads :
    (asked[t].mode = "queue" /\ Decided(t) /\ t \notin torn) =>
      \A i \in Range(server_endpoints) :
        (i.method = Path(t).method /\ Names(i, Path(t).endpoint)) => reply[t].by # Nobody
=============================================================================
