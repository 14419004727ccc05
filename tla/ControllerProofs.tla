-------------------------- MODULE ControllerProofs --------------------------
(***************************************************************************)
(* Proofs about Controller, for every set of threads, endpoints, calls of  *)
(* add_get and add_post, and paths.                                        *)
(***************************************************************************)
EXTENDS Controller, SequenceLemmas, FiniteSetTheorems

(* A text has a last position of a symbol, or none.                        *)
LEMMA FindLastType ==
  ASSUME NEW s \in Seq(STRING), NEW c
  PROVE  FindLast(s, c) \in 0..Len(s)
<1> DEFINE I == {i \in 1..Len(s) : s[i] = c}
<1>1. Len(s) \in Nat
  OBVIOUS
<1>2. CASE I = {}
  BY <1>1, <1>2 DEF FindLast, SelectLastInSeq
<1>3. CASE I # {}
  <2>1. Max(I) \in I
    BY <1>1, <1>3, MaxExists
  <2> QED
    BY <1>1, <1>3, <2>1 DEF FindLast, SelectLastInSeq
<1> QED
  BY <1>2, <1>3

(* A remainder is no larger than what is divided.                          *)
LEMMA ModIsSmall ==
  ASSUME NEW a \in Nat, NEW m \in Nat \ {0}
  PROVE  a % m <= a
  OBVIOUS

LEMMA SubstrType ==
  ASSUME NEW s \in Seq(STRING), NEW n \in 0..Len(s)
  PROVE  Substr(s, n) \in Seq(STRING)
  BY SubSeqProperties DEF Substr

(* The item that Route() names accepts the request.                        *)
LEMMA RouteAccepts ==
  ASSUME NEW items \in Seq(Items), NEW r, Route(items, r) # 0
  PROVE  /\ Route(items, r) \in DOMAIN items
         /\ items[Route(items, r)] \in Items
         /\ Accepts(items[Route(items, r)], r)
<1> DEFINE I == {i \in 1..Len(items) : Accepts(items[i], r)}
<1>1. Route(items, r) = IF I # {} THEN Min(I) ELSE 0
  BY DEF Route, SelectInSeq
<1>2. I # {} /\ I \in SUBSET Nat
  BY <1>1
<1>3. Min(I) \in I
  BY <1>2, MinExists
<1> QED
  BY <1>1, <1>2, <1>3

(* What Receive() reads of a path.                                         *)
LEMMA ParsedType ==
  ASSUME NEW t \in Threads, NEW path \in Paths(t)
  PROVE  /\ path.mode \in Modes
         /\ Parsed[path].method \in Methods
         /\ Parsed[path].endpoint \in Seq(STRING)
<1>1. path \in AllPaths
  BY DEF AllPaths
<1>2. Parsed[path].method \in Methods
  BY <1>1, PathsAssumption DEF Parsed, ParseRequest, MethodOf, Methods
<1> QED
  BY <1>1, <1>2, PathsAssumption

(* A server's copy lists registered endpoints.                             *)
LEMMA EndpointListsType ==
  ASSUME NEW list \in EndpointLists
  PROVE  /\ list \in Seq(Items)
         /\ Range(list) \subseteq Registered
<1> DEFINE Of(m) == {i \in Registered : i.method = m}
<1>1. ASSUME NEW m, NEW f \in SetToSeqs(Of(m))
      PROVE  f \in Seq(Registered)
  <2>1. Of(m) \in SUBSET Items
    BY DEF Registered
  <2>2. Cardinality(Of(m)) \in Nat
    BY <2>1, FiniteAssumption, FS_Subset, FS_CardinalityType
  <2>3. f \in [1..Cardinality(Of(m)) -> Of(m)]
    BY DEF SetToSeqs
  <2>4. f \in [1..Cardinality(Of(m)) -> Registered]
    BY <2>3
  <2> HIDE DEF Of
  <2> QED
    BY <2>2, <2>4, SeqDef
<1>5. EndpointLists = {gets \o posts : gets \in SetToSeqs(Of("GET")),
                                        posts \in SetToSeqs(Of("POST"))}
  BY DEF EndpointLists
<1> HIDE DEF Of
<1>2. PICK gets \in SetToSeqs(Of("GET")), posts \in SetToSeqs(Of("POST")) :
        list = gets \o posts
  BY <1>5
<1>3. gets \in Seq(Registered) /\ posts \in Seq(Registered)
  BY <1>1, <1>2
<1>4. list \in Seq(Registered)
  BY <1>2, <1>3
<1>6. Registered \subseteq Items
  BY DEF Registered
<1> QED
  BY <1>4, <1>6 DEF Range

(* The request that goes on after is_endpoint_available().                 *)
LEMMA WithParamType ==
  ASSUME NEW item \in Items, NEW r \in Requests
  PROVE  WithParam(item, r) \in Requests
<1>1. item.endpoint \in Seq(STRING)
  BY ItemsAssumption
<1>2. FindLast(r.endpoint, "/") \in 0..Len(r.endpoint)
  BY FindLastType DEF Requests
<1>3. Substr(r.endpoint, FindLast(r.endpoint, "/")) \in Seq(STRING)
  BY <1>2, SubstrType DEF Requests
<1> QED
  BY <1>1, <1>3, EmptySeq DEF WithParam, Requests

-----------------------------------------------------------------------------
(* TypeOK relates nothing but the mutex's holder needs it: threads come and*)
(* go through the lookup one at a time.                                    *)
TInv == TypeOK /\ MutexIsTheLookup

LEMMA InitTInv == Init => TInv
<1> SUFFICES ASSUME Init PROVE TInv
  OBVIOUS
<1>1. /\ NoPath \in [mode : Modes, method : Methods, endpoint : Seq(STRING)]
      /\ NoRequest \in Requests
      /\ server_endpoints \in Seq(Items)
  BY EmptySeq DEF Init, NoPath, NoRequest, Modes, Methods, Requests
<1>2. constructed \in BOOLEAN /\ aborted \in BOOLEAN
  BY Zenon DEF Init
<1>3. TypeOK
  BY <1>1, <1>2 DEF Init, TypeOK, NoReply
<1>4. MutexIsTheLookup
  BY NobodyAssumption DEF Init, MutexIsTheLookup
<1> QED
  BY <1>3, <1>4 DEF TInv

LEMMA OwnerTInv ==
  ASSUME TInv, Owner
  PROVE  TInv'
<1> USE DEF TInv
<1>1. CASE ConstructServer
  <2>1. server_endpoints' \in Seq(Items)
    BY <1>1, EndpointListsType DEF ConstructServer
  <2>2. constructed' \in BOOLEAN
    BY <1>1, Zenon DEF ConstructServer
  <2> QED
    BY <1>1, <2>1, <2>2 DEF ConstructServer, TypeOK, MutexIsTheLookup
<1>2. ASSUME NEW a \in Adds, Add(a[1], a[2]) PROVE TInv'
  <2>1. a[2] \in Handlers
    BY DEF Handlers
  <2> QED
    BY <1>2, <2>1 DEF Add, TypeOK, MutexIsTheLookup
<1> QED
  BY <1>1, <1>2 DEF Owner

(* The end of the process changes nothing else.                            *)
LEMMA AbortTInv ==
  ASSUME TInv, NEW t \in Threads, Malformed(t) \/ TornLookup(t) \/ HandlerThrows(t)
  PROVE  TInv'
<1>1. aborted' \in BOOLEAN
  BY Zenon DEF Malformed, TornLookup, HandlerThrows
<1> QED
  BY <1>1 DEF TInv, TypeOK, MutexIsTheLookup, Malformed, TornLookup, HandlerThrows, ownerVars

LEMMA ReceiveTInv ==
  ASSUME TInv, NEW t \in Threads, Receive(t)
  PROVE  TInv'
<1> USE DEF TInv
<1>1. PICK path \in Paths(t) :
        LET parsed == Parsed[path]
            r      == [method |-> parsed.method, endpoint |-> parsed.endpoint, param |-> <<>>]
            n      == Route(server_endpoints, r)
        IN /\ ~parsed.null
           /\ asked' = [asked EXCEPT ![t] =
                [mode |-> path.mode, method |-> parsed.method, endpoint |-> parsed.endpoint]]
           /\ request' = [request EXCEPT ![t] =
                            IF path.mode = "queue" /\ n # 0 THEN WithParam(server_endpoints[n], r)
                            ELSE r]
           /\ IF path.mode = "queue" /\ n = 0
                THEN Go(t, "done") /\ Answer(t, "400", Nobody)
                ELSE Go(t, "lock") /\ UNCHANGED reply
  BY DEF Receive
<1> DEFINE r == [method |-> Parsed[path].method, endpoint |-> Parsed[path].endpoint,
                 param |-> <<>>]
           n == Route(server_endpoints, r)
<1>2. path.mode \in Modes /\ Parsed[path].method \in Methods
      /\ Parsed[path].endpoint \in Seq(STRING)
  BY ParsedType
<1>3. r \in Requests
  BY <1>2, EmptySeq DEF Requests
<1>4. n # 0 => WithParam(server_endpoints[n], r) \in Requests
  BY <1>3, RouteAccepts, WithParamType DEF TypeOK
<1> HIDE DEF r, n
<1>5. request' \in [Threads -> Requests]
  BY <1>1, <1>3, <1>4 DEF TypeOK, r, n
<1>6. asked' \in [Threads -> [mode : Modes, method : Methods, endpoint : Seq(STRING)]]
  BY <1>1, <1>2 DEF TypeOK
<1>7. /\ pc' = [pc EXCEPT ![t] = "done"] \/ pc' = [pc EXCEPT ![t] = "lock"]
      /\ \/ reply' = [reply EXCEPT ![t] = [status |-> "400", by |-> Nobody]]
         \/ reply' = reply
  BY <1>1 DEF Go, Answer
<1>8. /\ UNCHANGED <<end_points, server_endpoints, constructed, controller_mutex, torn, aborted>>
      /\ pc[t] = "idle"
  BY DEF Receive, ownerVars, At
<1>9. TypeOK'
  <2>1. pc' \in [Threads -> {"idle", "lock", "lookup", "handler", "done"}]
    BY <1>7 DEF TypeOK
  <2>2. reply' \in [Threads -> [status : {"none", "200", "400", "404"},
                                by : Handlers \cup {Nobody}]]
    <3>1. [status |-> "400", by |-> Nobody]
            \in [status : {"none", "200", "400", "404"}, by : Handlers \cup {Nobody}]
      OBVIOUS
    <3>2. CASE reply' = reply
      BY <3>2 DEF TypeOK
    <3>3. CASE reply' = [reply EXCEPT ![t] = [status |-> "400", by |-> Nobody]]
      BY <3>1, <3>3 DEF TypeOK
    <3> QED
      BY <1>7, <3>2, <3>3
  <2>3. /\ end_points' \in [Items -> Handlers \cup {Nobody}]
        /\ server_endpoints' \in Seq(Items)
        /\ controller_mutex' \in Threads \cup {Nobody}
        /\ torn' \subseteq Threads
    BY <1>8 DEF TypeOK
  <2>4. constructed' \in BOOLEAN /\ aborted' \in BOOLEAN
    BY <1>8 DEF TypeOK
  <2> QED
    BY <1>5, <1>6, <2>1, <2>2, <2>3, <2>4 DEF TypeOK
<1>10. MutexIsTheLookup'
  BY <1>7, <1>8 DEF TypeOK, MutexIsTheLookup
<1> QED
  BY <1>9, <1>10

LEMMA RestTInv ==
  ASSUME TInv, NEW t \in Threads,
         \/ Lock(t) \/ Found(t) \/ NotFound(t) \/ EmptyText(t) \/ Handle(t) \/ Finish(t)
  PROVE  TInv'
<1> USE NobodyAssumption DEF TInv, ownerVars, At, Go, Searches, Answer
<1>1. CASE Lock(t)
  BY <1>1 DEF Lock, TypeOK, MutexIsTheLookup
<1>2. CASE Found(t)
  <2>1. Target(t) \in Items => end_points[Target(t)] \in Handlers \cup {Nobody}
    BY DEF TypeOK
  <2>2. FoundIn(t) \in Handlers
    BY <1>2, <2>1 DEF Found, FoundIn, Registered
  <2> QED
    BY <1>2, <2>2 DEF Found, TypeOK, MutexIsTheLookup
<1>3. CASE NotFound(t)
  BY <1>3 DEF NotFound, TypeOK, MutexIsTheLookup
<1>4. CASE EmptyText(t)
  BY <1>4 DEF EmptyText, TypeOK, MutexIsTheLookup
<1>5. CASE Handle(t)
  BY <1>5 DEF Handle, TypeOK, MutexIsTheLookup
<1>6. CASE Finish(t)
  <2>1. /\ NoPath \in [mode : Modes, method : Methods, endpoint : Seq(STRING)]
        /\ NoRequest \in Requests
    BY EmptySeq DEF NoPath, NoRequest, Modes, Methods, Requests
  <2> QED
    BY <1>6, <2>1 DEF Finish, TypeOK, MutexIsTheLookup, NoReply
<1> QED
  BY <1>1, <1>2, <1>3, <1>4, <1>5, <1>6

LEMMA NextTInv ==
  ASSUME TInv, [Next]_vars
  PROVE  TInv'
<1>1. CASE UNCHANGED vars
  BY <1>1 DEF TInv, TypeOK, MutexIsTheLookup, vars, ownerVars
<1>2. ASSUME NEW t \in Threads, Thread(t) PROVE TInv'
  BY <1>2, AbortTInv, ReceiveTInv, RestTInv DEF Thread, Lookup
<1> QED
  BY <1>1, <1>2, OwnerTInv DEF Next

(* Types of the controller's state (default_controller.cpp).               *)
THEOREM TypeCorrect == Spec => []TypeOK
<1>1. Spec => []TInv
  BY InitTInv, NextTInv, PTL DEF Spec
<1>2. TInv => TypeOK
  BY DEF TInv
<1> QED
  BY <1>1, <1>2, PTL

(* The mutex that is locked and unlocked by hand is held by the thread     *)
(* that looks an endpoint up and by nobody else, however many threads      *)
(* there are (default_controller.cpp:86, 101, 113, 118).                   *)
THEOREM MutexExcludes == Spec => []MutexIsTheLookup
<1>1. Spec => []TInv
  BY InitTInv, NextTInv, PTL DEF Spec
<1>2. TInv => MutexIsTheLookup
  BY DEF TInv
<1> QED
  BY <1>1, <1>2, PTL

-----------------------------------------------------------------------------
(* Both comparisons read the method and the endpoint of a request alone.   *)
Asked(r) == [method |-> r.method, endpoint |-> r.endpoint]

LEMMA AskedSuffices ==
  ASSUME NEW item \in Items, NEW r \in Requests
  PROVE  /\ Accepts(item, Asked(r)) <=> Accepts(item, r)
         /\ LongEnough(Asked(r), item) <=> LongEnough(r, item)
  BY DEF Asked, Accepts, LongEnough

(* What is_endpoint_available() makes of a request it does not refuse: it  *)
(* names an endpoint of the copy, or is too short to be rewritten ...      *)
LEMMA RoutedIsListed ==
  ASSUME NEW list \in Seq(Items), NEW r \in Requests, Route(list, r) # 0
  PROVE  \/ Asked(WithParam(list[Route(list, r)], r)) \in Range(list)
         \/ \E i \in Range(list) : KeepsPath(i, Asked(r))
<1> DEFINE item == list[Route(list, r)]
<1>1. item \in Items /\ Accepts(item, r) /\ item \in Range(list)
  BY RouteAccepts DEF Range
<1>2. item = [method |-> item.method, endpoint |-> item.endpoint]
  BY <1>1, ItemsAssumption
<1>3. Accepts(item, Asked(r)) /\ (LongEnough(Asked(r), item) <=> LongEnough(r, item))
  BY <1>1, AskedSuffices
<1>4. item.method = r.method
  BY <1>1 DEF Accepts
<1> HIDE DEF item
<1>5. CASE ~HasParam(item)
  <2>1. r.endpoint = item.endpoint
    BY <1>1, <1>5 DEF Accepts, HasParam
  <2>2. WithParam(item, r) = r
    BY <1>5 DEF WithParam, HasParam
  <2> QED
    BY <1>1, <1>2, <1>4, <2>1, <2>2 DEF Asked, item
<1>6. CASE HasParam(item) /\ (Find(item.endpoint, "}") = 0 \/ ~LongEnough(r, item))
  BY <1>1, <1>3, <1>6 DEF KeepsPath
<1>7. CASE HasParam(item) /\ Find(item.endpoint, "}") # 0 /\ LongEnough(r, item)
  <2>1. Asked(WithParam(item, r)) = [method |-> r.method, endpoint |-> item.endpoint]
    BY <1>7 DEF WithParam, HasParam, Asked, Requests
  <2> QED
    BY <1>1, <1>2, <1>4, <2>1 DEF item
<1> QED
  BY <1>5, <1>6, <1>7

(* ... and a listed path keeps its name unless an earlier endpoint takes it.*)
LEMMA RoutedIsShadowed ==
  ASSUME NEW list \in Seq(Items), NEW r \in Requests, Route(list, r) # 0,
         NEW k \in DOMAIN list, list[k] = Asked(r),
         Asked(WithParam(list[Route(list, r)], r)) # Asked(r)
  PROVE  \E m, n \in DOMAIN list :
           /\ m < n
           /\ list[n] = Asked(r)
           /\ HasParam(list[m])
           /\ Asked(WithParam(list[Route(list, r)], r)) = list[m]
<1> DEFINE m == Route(list, r)
           item == list[m]
<1>1. m \in DOMAIN list /\ item \in Items /\ Accepts(item, r)
  BY RouteAccepts
<1>2. item = [method |-> item.method, endpoint |-> item.endpoint]
  BY <1>1, ItemsAssumption
<1>3. item.method = r.method
  BY <1>1 DEF Accepts
<1>4. Accepts(list[k], r)
  BY DEF Accepts, Asked
<1>5. m <= k
  <2> DEFINE I == {i \in 1..Len(list) : Accepts(list[i], r)}
  <2>1. k \in I /\ I \in SUBSET Nat
    BY <1>4
  <2>2. m = Min(I)
    BY <2>1 DEF Route, SelectInSeq
  <2> HIDE DEF I
  <2> QED
    BY <2>1, <2>2, MinExists
<1> HIDE DEF m
<1>6. Find(item.endpoint, "{") # 0 /\ Find(item.endpoint, "}") # 0 /\ LongEnough(r, item)
  BY DEF WithParam, Asked, Requests, m
<1>7. Asked(WithParam(item, r)) = [method |-> r.method, endpoint |-> item.endpoint]
  BY <1>6 DEF WithParam, Asked, Requests
<1>8. Asked(WithParam(item, r)) = item
  BY <1>2, <1>3, <1>7
<1>9. m # k
  BY <1>8 DEF m
<1>10. m < k
  BY <1>1, <1>5, <1>9
<1> QED
  BY <1>1, <1>6, <1>8, <1>10 DEF HasParam, m

(* An endpoint accepts the path that it names, unless that is as long ...  *)
LEMMA NamedIsAccepted ==
  ASSUME NEW item \in Items, NEW r \in Requests,
         item.method = r.method, Names(item, r.endpoint), Len(item.endpoint) # Len(r.endpoint)
  PROVE  /\ Accepts(item, r)
         /\ ~KeepsPath(item, r)
<1> DEFINE slash == FindLast(item.endpoint, "/")
           brace == Find(item.endpoint, "{")
           stem  == SubSeq(item.endpoint, 1, slash - 1)
<1>1. item.endpoint \in Seq(STRING) /\ r.endpoint \in Seq(STRING)
  BY ItemsAssumption DEF Requests
<1>2. /\ slash # 0 /\ brace = slash + 1
      /\ IsPrefix(SubSeq(item.endpoint, 1, slash), r.endpoint)
      /\ Len(r.endpoint) > slash
  BY Zenon DEF Names
<1>3. slash \in 0..Len(item.endpoint)
  BY <1>1, FindLastType
<1> HIDE DEF slash, brace
<1>4. slash \in 1..Len(item.endpoint) /\ brace # 0 /\ brace # 1
  BY <1>1, <1>2, <1>3
<1>5. Holds(r.endpoint, stem)
  <2> DEFINE p == SubSeq(item.endpoint, 1, slash)
  <2>1. /\ p \in Seq(STRING) /\ Len(p) = slash
        /\ \A i \in 1..slash : p[i] = item.endpoint[i]
    BY <1>1, <1>2, <1>4, PrefixProperties
  <2>2. \A i \in 1..slash : r.endpoint[i] = item.endpoint[i]
    <3>1. p = SubSeq(r.endpoint, 1, slash)
      BY <1>2, <2>1 DEF IsPrefix
    <3>2. \A i \in 1..slash : SubSeq(r.endpoint, 1, slash)[i] = r.endpoint[i]
      BY <1>1, <1>2, <1>4, PrefixProperties
    <3> QED
      BY <2>1, <3>1, <3>2
  <2> HIDE DEF p
  <2>3. /\ stem \in Seq(STRING) /\ Len(stem) = slash - 1
        /\ \A i \in 1..(slash - 1) : stem[i] = item.endpoint[i]
    BY <1>1, <1>2, <1>4, PrefixProperties
  <2>4. /\ SubSeq(r.endpoint, 1, slash - 1) \in Seq(STRING)
        /\ Len(SubSeq(r.endpoint, 1, slash - 1)) = slash - 1
        /\ \A i \in 1..(slash - 1) : SubSeq(r.endpoint, 1, slash - 1)[i] = r.endpoint[i]
    BY <1>1, <1>2, <1>4, PrefixProperties
  <2> HIDE DEF stem
  <2>5. SubSeq(r.endpoint, 1, slash - 1) = stem
    <3> DEFINE u == SubSeq(r.endpoint, 1, slash - 1)
    <3>1. \A i \in 1..(slash - 1) : u[i] = stem[i]
      BY <1>4, <2>2, <2>3, <2>4
    <3>2. u \in Seq(STRING) /\ Len(u) = Len(stem) /\ \A i \in 1..Len(u) : u[i] = stem[i]
      BY <2>3, <2>4, <3>1
    <3> HIDE DEF u
    <3>3. u = stem
      BY <2>3, <3>2, SeqEqual
    <3> QED
      BY <3>3 DEF u
  <2>6. 0 \in 0..(Len(r.endpoint) - Len(stem)) /\ 0 + 1 = 1 /\ 0 + Len(stem) = slash - 1
    BY <1>1, <1>2, <1>4, <2>3
  <2>7. SubSeq(r.endpoint, 0 + 1, 0 + Len(stem)) = stem
    BY <2>5, <2>6
  <2> QED
    BY <2>6, <2>7, Zenon DEF Holds
<1>6. Accepts(item, r)
  <2>1. Holds(r.endpoint, IF slash = 0 THEN item.endpoint ELSE stem)
    BY <1>2, <1>5, Zenon
  <2>2. Len(r.endpoint) # Len(item.endpoint) /\ brace # 0 /\ brace # 1
    BY <1>4, Zenon
  <2> QED
    BY <2>1, <2>2, Zenon DEF Accepts, slash, brace
<1>7. LongEnough(r, item)
  <2>1. Len(r.endpoint) - slash \in Nat /\ brace - 1 = slash
    BY <1>1, <1>2, <1>4
  <2>2. (Len(r.endpoint) - slash) % SizeModulus <= Len(r.endpoint) - slash
    BY <2>1, ModIsSmall, SizeAssumption
  <2>3. (Len(r.endpoint) - slash) % SizeModulus \in Int
    BY <2>1, SizeAssumption
  <2>4. Len(r.endpoint) > (Len(r.endpoint) - (brace - 1)) % SizeModulus
    BY <1>1, <1>4, <2>1, <2>2, <2>3
  <2> QED
    BY <2>4, Zenon DEF LongEnough, brace
<1> QED
  BY <1>6, <1>7, Zenon DEF KeepsPath, Names

(* ... and the first endpoint that accepts a request gets it.              *)
LEMMA RouteIsFirst ==
  ASSUME NEW items \in Seq(Items), NEW r, NEW k \in DOMAIN items, Accepts(items[k], r)
  PROVE  Route(items, r) # 0 /\ Route(items, r) \in 1..k
<1> DEFINE I == {i \in 1..Len(items) : Accepts(items[i], r)}
<1>1. k \in I /\ I \in SUBSET Nat /\ 0 \notin I
  OBVIOUS
<1>2. Route(items, r) = Min(I)
  BY <1>1 DEF Route, SelectInSeq
<1>3. Min(I) \in I /\ \A y \in I : Min(I) <= y
  BY <1>1, MinExists
<1> QED
  BY <1>1, <1>2, <1>3

(* A request that is accepted names an endpoint of the copy afterwards,    *)
(* with its last segment for a parameter, unless the endpoint that accepts *)
(* it leaves it as it is.                                                  *)
LEMMA RoutedIsNamed ==
  ASSUME NEW list \in Seq(Items), NEW r \in Requests, Route(list, r) # 0,
         ~KeepsPath(list[Route(list, r)], r)
  PROVE  LET q == WithParam(list[Route(list, r)], r)
         IN /\ Asked(q) \in Range(list)
            /\ HasParam(Asked(q)) => q.param = LastSegment(r.endpoint)
<1> DEFINE item == list[Route(list, r)]
           q    == WithParam(item, r)
<1>1. item \in Items /\ Accepts(item, r) /\ item \in Range(list)
  BY RouteAccepts DEF Range
<1>2. item = [method |-> item.method, endpoint |-> item.endpoint]
  BY <1>1, ItemsAssumption
<1>3. item.method = r.method
  BY <1>1 DEF Accepts
<1> HIDE DEF item
<1>4. CASE ~HasParam(item)
  <2>1. r.endpoint = item.endpoint
    BY <1>1, <1>4 DEF Accepts, HasParam
  <2>2. q = r
    BY <1>4 DEF WithParam, HasParam
  <2>3. Asked(q) = item
    BY <1>2, <1>3, <2>1, <2>2 DEF Asked
  <2> HIDE DEF q
  <2> QED
    BY <1>1, <1>4, <2>3 DEF item, q
<1>5. CASE HasParam(item)
  <2>1. Find(item.endpoint, "}") # 0 /\ LongEnough(r, item)
    BY <1>1, <1>5 DEF KeepsPath, item
  <2>2. q = [r EXCEPT !.param = Substr(r.endpoint, FindLast(r.endpoint, "/")),
                      !.endpoint = item.endpoint]
    BY <1>5, <2>1 DEF WithParam, HasParam
  <2> HIDE DEF q
  <2>3. /\ q.param = LastSegment(r.endpoint)
        /\ Asked(q) = item
    BY <1>2, <1>3, <2>2 DEF Asked, LastSegment, Requests
  <2> QED
    BY <1>1, <2>3 DEF item, q
<1> QED
  BY <1>4, <1>5

(* What is_endpoint_available() promises: an endpoint of the copy for a    *)
(* path that is listed, and for one that an endpoint of the copy names.    *)
LEMMA RoutedIsServed ==
  ASSUME NEW list \in Seq(Items), NEW r \in Requests
  PROVE  LET n == Route(list, r)
             q == WithParam(list[n], r)
         IN /\ Asked(r) \in Range(list) => n # 0 /\ Asked(q) \in Range(list)
            /\ \A k \in DOMAIN list :
                 (/\ list[k].method = r.method
                  /\ Names(list[k], r.endpoint)
                  /\ Len(list[k].endpoint) # Len(r.endpoint)) =>
                   /\ n # 0
                   /\ \/ /\ Asked(q) \in Range(list)
                         /\ HasParam(Asked(q)) => q.param = LastSegment(r.endpoint)
                      \/ \E m \in 1..(k - 1) : KeepsPath(list[m], Asked(r))
<1> DEFINE n == Route(list, r)
           q == WithParam(list[n], r)
<1>1. \A m \in DOMAIN list : list[m] \in Items
  OBVIOUS
<1>2. \A k \in DOMAIN list : Accepts(list[k], r) => n # 0 /\ n \in 1..k
  BY RouteIsFirst
<1>3. n # 0 => \/ /\ Asked(q) \in Range(list)
                  /\ HasParam(Asked(q)) => q.param = LastSegment(r.endpoint)
               \/ KeepsPath(list[n], r)
  BY RoutedIsNamed, Zenon
<1>4. KeepsPath(list[n], r) => Asked(q) = Asked(r)
  BY Zenon DEF KeepsPath, WithParam, Asked, Requests
<1>5. \A m \in DOMAIN list : KeepsPath(list[m], r) => KeepsPath(list[m], Asked(r))
  BY <1>1, AskedSuffices, Zenon DEF KeepsPath
<1> HIDE DEF n, q
<1>6. ASSUME Asked(r) \in Range(list)
      PROVE  n # 0 /\ Asked(q) \in Range(list)
  <2>1. PICK k \in DOMAIN list : list[k] = Asked(r)
    BY <1>6 DEF Range
  <2>2. Accepts(list[k], r)
    <3>1. list[k].method = r.method /\ list[k].endpoint = r.endpoint
      BY <2>1 DEF Asked
    <3> QED
      BY <3>1, Zenon DEF Accepts
  <2>3. n # 0
    BY <1>2, <2>2
  <2> QED
    BY <1>3, <1>4, <1>6, <2>3, Zenon
<1>7. ASSUME NEW k \in DOMAIN list, list[k].method = r.method,
             Names(list[k], r.endpoint), Len(list[k].endpoint) # Len(r.endpoint)
      PROVE  /\ n # 0
             /\ \/ /\ Asked(q) \in Range(list)
                   /\ HasParam(Asked(q)) => q.param = LastSegment(r.endpoint)
                \/ \E m \in 1..(k - 1) : KeepsPath(list[m], Asked(r))
  <2>1. Accepts(list[k], r) /\ ~KeepsPath(list[k], r)
    BY <1>1, <1>7, NamedIsAccepted
  <2>2. n # 0 /\ n \in 1..k
    BY <1>2, <2>1
  <2>3. CASE KeepsPath(list[n], r)
    <3>1. n # k
      BY <2>1, <2>3
    <3>2. n \in 1..(k - 1) /\ n \in DOMAIN list
      BY <2>2, <3>1
    <3> QED
      BY <1>5, <2>2, <2>3, <3>2
  <2> QED
    BY <1>3, <2>2, <2>3
<1> QED
  BY <1>6, <1>7, Zenon DEF n, q

-----------------------------------------------------------------------------
(* What a server knows of a request on the way to its answer: the copy     *)
(* lists registered endpoints and is taken before any request comes;       *)
(* nothing is known of an idle thread; there is no answer before the       *)
(* lookup is over.                                                         *)
CopyOK == /\ Range(server_endpoints) \subseteq Registered
          /\ \A t \in Threads : pc[t] # "idle" => constructed

IdleOK == \A t \in Threads : pc[t] = "idle" => asked[t] = NoPath /\ request[t] = NoRequest

UndecidedOK == \A t \in Threads : ~Decided(t) => reply[t] = NoReply

(* Only consume_queue() rewrites a request.                                *)
PlainOK == \A t \in Threads : asked[t].mode # "queue" =>
                 Target(t) = Path(t) /\ request[t].param = <<>>

(* A request that was not refused is routed as RoutedIsListed and          *)
(* RoutedIsShadowed say.                                                   *)
ListedOK ==
  \A t \in Threads :
    (asked[t].mode = "queue" /\ (~Decided(t) \/ reply[t].by # Nobody)) =>
      \/ Listed(Target(t))
      \/ \E i \in Range(server_endpoints) : KeepsPath(i, Path(t))

ShadowOK ==
  \A t \in Threads :
    (asked[t].mode = "queue" /\ Listed(Path(t)) /\ Target(t) # Path(t)) =>
      \E m, n \in DOMAIN server_endpoints :
        /\ m < n
        /\ server_endpoints[n] = Path(t)
        /\ HasParam(server_endpoints[m])
        /\ Target(t) = server_endpoints[m]

(* So the lookup will find what it looks for.                              *)
Reached(t) == IF Decided(t) THEN reply[t].by # Nobody ELSE Listed(Target(t))

ServedOK ==
  \A t \in Threads :
    (asked[t].mode = "queue" /\ t \notin torn) =>
      /\ Listed(Path(t)) => Reached(t)
      /\ \A n \in DOMAIN server_endpoints : NamedBy(t, n) =>
           \/ /\ Reached(t)
              /\ HasParam(Target(t)) => request[t].param = LastSegment(Path(t).endpoint)
           \/ \E m \in 1..(n - 1) : KeepsPath(server_endpoints[m], Path(t))

KnownOK == CopyOK /\ IdleOK /\ UndecidedOK
RoutedOK == PlainOK /\ ListedOK /\ ShadowOK /\ ServedOK
CInv == TInv /\ KnownOK /\ RoutedOK /\ RunServesLiterally

LEMMA InitCInv == Init => CInv
<1> SUFFICES ASSUME Init PROVE CInv
  OBVIOUS
<1>1. KnownOK
  BY DEF Init, KnownOK, CopyOK, IdleOK, UndecidedOK, Range, NoReply
<1>2. \A t \in Threads : asked[t].mode = "run" /\ ~Decided(t)
  BY DEF Init, NoPath, Decided
<1>3. \A t \in Threads : Target(t) = Path(t) /\ request[t].param = <<>>
  BY DEF Init, Target, Path, NoPath, NoRequest
<1>4. RoutedOK /\ RunServesLiterally
  BY <1>2, <1>3 DEF RoutedOK, PlainOK, ListedOK, ShadowOK, ServedOK, RunServesLiterally
<1> QED
  BY <1>1, <1>4, InitTInv DEF CInv

(* The owner's calls.                                                      *)
LEMMA ConstructCInv ==
  ASSUME CInv, ConstructServer
  PROVE  CInv'
<1> USE DEF CInv
<1>1. TInv'
  BY OwnerTInv DEF Owner
<1>2. Range(server_endpoints') \subseteq Registered /\ Registered' = Registered
  BY EndpointListsType DEF ConstructServer, Registered
<1>3. \A t \in Threads : pc[t] = "idle"
  BY DEF ConstructServer, KnownOK, CopyOK
<1>4. /\ UNCHANGED <<pc, asked, request, reply>>
      /\ constructed' = TRUE
  BY DEF ConstructServer
<1>5. KnownOK'
  BY <1>2, <1>3, <1>4 DEF KnownOK, CopyOK, IdleOK, UndecidedOK, Decided
<1>6. \A t \in Threads : asked'[t].mode = "run" /\ pc'[t] = "idle"
  BY <1>3, <1>4 DEF KnownOK, IdleOK, NoPath
<1>7. RoutedOK'
  BY <1>4, <1>6 DEF RoutedOK, PlainOK, ListedOK, ShadowOK, ServedOK, Target, Path
<1>8. RunServesLiterally'
  BY <1>6 DEF RunServesLiterally, Decided
<1> QED
  BY <1>1, <1>5, <1>7, <1>8

LEMMA AddCInv ==
  ASSUME CInv, NEW a \in Adds, Add(a[1], a[2])
  PROVE  CInv'
<1> USE DEF CInv
<1>1. TInv'
  BY OwnerTInv DEF Owner
<1>2. UNCHANGED <<server_endpoints, constructed, pc, asked, request, reply>>
  BY DEF Add
<1>3. Registered \subseteq Registered'
  BY AddsAssumption DEF Add, Registered, TInv, TypeOK
<1>4. KnownOK'
  BY <1>2, <1>3 DEF KnownOK, CopyOK, IdleOK, UndecidedOK, Decided
<1>5. RoutedOK'
  <2>1. torn \subseteq torn'
    BY DEF Add
  <2>2. PlainOK' /\ ListedOK' /\ ShadowOK'
    BY <1>2 DEF RoutedOK, PlainOK, ListedOK, ShadowOK, Target, Path, Listed, Decided
  <2>3. ServedOK'
    BY <1>2, <2>1 DEF RoutedOK, ServedOK, Reached, NamedBy, Target, Path, Listed, Decided
  <2> QED
    BY <2>2, <2>3 DEF RoutedOK
<1>6. RunServesLiterally'
  BY <1>2, <1>3 DEF Add, RunServesLiterally, Target, Path, Listed, Decided
<1> QED
  BY <1>1, <1>4, <1>5, <1>6

(* A request is routed, or refused.                                        *)
LEMMA ReceiveCInv ==
  ASSUME CInv, NEW t \in Threads, Receive(t)
  PROVE  CInv'
<1> USE DEF CInv
<1>1. TInv'
  BY ReceiveTInv
<1>2. PICK path \in Paths(t) :
        LET parsed == Parsed[path]
            r      == [method |-> parsed.method, endpoint |-> parsed.endpoint, param |-> <<>>]
            n      == Route(server_endpoints, r)
        IN /\ ~parsed.null
           /\ asked' = [asked EXCEPT ![t] =
                [mode |-> path.mode, method |-> parsed.method, endpoint |-> parsed.endpoint]]
           /\ request' = [request EXCEPT ![t] =
                            IF path.mode = "queue" /\ n # 0 THEN WithParam(server_endpoints[n], r)
                            ELSE r]
           /\ IF path.mode = "queue" /\ n = 0
                THEN Go(t, "done") /\ Answer(t, "400", Nobody)
                ELSE Go(t, "lock") /\ UNCHANGED reply
  BY DEF Receive
<1> DEFINE r == [method |-> Parsed[path].method, endpoint |-> Parsed[path].endpoint,
                 param |-> <<>>]
           n == Route(server_endpoints, r)
           q == IF path.mode = "queue" /\ n # 0 THEN WithParam(server_endpoints[n], r) ELSE r
<1>3. r \in Requests
  BY ParsedType, EmptySeq DEF Requests
<1>4. /\ asked' = [asked EXCEPT ![t] = [mode |-> path.mode, method |-> r.method,
                                        endpoint |-> r.endpoint]]
      /\ request' = [request EXCEPT ![t] = q]
      /\ path.mode = "queue" /\ n = 0 => /\ pc' = [pc EXCEPT ![t] = "done"]
                                         /\ reply' = [reply EXCEPT ![t] = [status |-> "400", by |-> Nobody]]
      /\ ~(path.mode = "queue" /\ n = 0) => pc' = [pc EXCEPT ![t] = "lock"] /\ reply' = reply
  BY <1>2 DEF Go, Answer
<1>5. /\ UNCHANGED <<end_points, server_endpoints, constructed, torn>>
      /\ pc[t] = "idle" /\ constructed
  BY DEF Receive, ownerVars, At
<1>6. /\ server_endpoints \in Seq(Items)
      /\ asked \in [Threads -> [mode : Modes, method : Methods, endpoint : Seq(STRING)]]
      /\ request \in [Threads -> Requests] /\ DOMAIN pc = Threads /\ DOMAIN reply = Threads
  BY DEF TInv, TypeOK
<1> HIDE DEF r, n, q
<1>7. /\ Path(t)' = Asked(r) /\ Target(t)' = Asked(q) /\ asked'[t].mode = path.mode
      /\ request'[t] = q
  BY <1>4, <1>6 DEF Path, Target, Asked
<1>8. \A s \in Threads \ {t} :
        /\ Path(s)' = Path(s) /\ Target(s)' = Target(s) /\ asked'[s] = asked[s]
        /\ request'[s] = request[s] /\ pc'[s] = pc[s] /\ reply'[s] = reply[s]
  BY <1>4, <1>6 DEF Path, Target
<1>9. /\ path.mode = "queue" /\ n = 0 => pc'[t] = "done" /\ reply'[t].by = Nobody
      /\ ~(path.mode = "queue" /\ n = 0) => pc'[t] = "lock" /\ reply'[t] = NoReply
  <2>1. reply[t] = NoReply
    BY <1>5 DEF KnownOK, UndecidedOK, Decided
  <2>2. CASE path.mode = "queue" /\ n = 0
    BY <1>4, <1>6, <2>2
  <2>3. CASE ~(path.mode = "queue" /\ n = 0)
    BY <1>4, <1>6, <2>1, <2>3
  <2> QED
    BY <2>2, <2>3
<1>10. Registered' = Registered
  BY <1>5 DEF Registered
<1>11. KnownOK'
  BY <1>5, <1>8, <1>9, <1>10 DEF KnownOK, CopyOK, IdleOK, UndecidedOK, Decided
<1>12. PlainOK'
  BY <1>7, <1>8 DEF RoutedOK, PlainOK, q, r
<1>13. ListedOK'
  <2>1. ASSUME NEW s \in Threads \ {t},
               asked'[s].mode = "queue", ~Decided(s)' \/ reply'[s].by # Nobody
        PROVE  \/ Listed(Target(s))'
               \/ \E i \in Range(server_endpoints') : KeepsPath(i, Path(s)')
    BY <1>5, <1>8, <2>1 DEF RoutedOK, ListedOK, Listed, Decided
  <2>2. ASSUME asked'[t].mode = "queue", ~Decided(t)' \/ reply'[t].by # Nobody
        PROVE  \/ Listed(Target(t))'
               \/ \E i \in Range(server_endpoints') : KeepsPath(i, Path(t)')
    <3>1. path.mode = "queue" /\ n # 0
      BY <1>7, <1>9, <2>2 DEF Decided
    <3>2. q = WithParam(server_endpoints[Route(server_endpoints, r)], r)
      BY <3>1 DEF q, n
    <3>3. \/ Asked(q) \in Range(server_endpoints)
          \/ \E i \in Range(server_endpoints) : KeepsPath(i, Asked(r))
      BY <1>3, <1>6, <3>1, <3>2, RoutedIsListed DEF n
    <3> QED
      BY <1>5, <1>7, <3>3 DEF Listed
  <2> QED
    BY <2>1, <2>2 DEF ListedOK
<1>14. ShadowOK'
  <2>1. ASSUME NEW s \in Threads \ {t},
               asked'[s].mode = "queue", Listed(Path(s))', Target(s)' # Path(s)'
        PROVE  \E m, k \in DOMAIN server_endpoints' :
                 /\ m < k /\ server_endpoints'[k] = Path(s)'
                 /\ HasParam(server_endpoints'[m]) /\ Target(s)' = server_endpoints'[m]
    BY <1>5, <1>8, <2>1 DEF RoutedOK, ShadowOK, Listed
  <2>2. ASSUME asked'[t].mode = "queue", Listed(Path(t))', Target(t)' # Path(t)'
        PROVE  \E m, k \in DOMAIN server_endpoints' :
                 /\ m < k /\ server_endpoints'[k] = Path(t)'
                 /\ HasParam(server_endpoints'[m]) /\ Target(t)' = server_endpoints'[m]
    <3>1. n # 0 /\ q = WithParam(server_endpoints[Route(server_endpoints, r)], r)
      BY <1>7, <2>2 DEF q, n
    <3>2. PICK k \in DOMAIN server_endpoints : server_endpoints[k] = Asked(r)
      BY <1>5, <1>7, <2>2 DEF Listed, Range
    <3> QED
      BY <1>3, <1>5, <1>6, <1>7, <2>2, <3>1, <3>2, RoutedIsShadowed DEF n
  <2> QED
    BY <2>1, <2>2 DEF ShadowOK
<1>15. ServedOK'
  <2>1. ASSUME NEW s \in Threads \ {t}, asked'[s].mode = "queue", s \notin torn'
        PROVE  /\ Listed(Path(s))' => Reached(s)'
               /\ \A k \in DOMAIN server_endpoints' : NamedBy(s, k)' =>
                    \/ /\ Reached(s)'
                       /\ HasParam(Target(s)') =>
                            request'[s].param = LastSegment(Path(s)'.endpoint)
                    \/ \E m \in 1..(k - 1) : KeepsPath(server_endpoints'[m], Path(s)')
    <3>1. /\ Listed(Path(s))' = Listed(Path(s)) /\ Reached(s)' = Reached(s)
          /\ \A k : NamedBy(s, k)' = NamedBy(s, k)
      BY <1>5, <1>8 DEF Listed, Reached, Decided, NamedBy
    <3> QED
      BY <1>5, <1>8, <2>1, <3>1 DEF RoutedOK, ServedOK
  <2>2. ASSUME asked'[t].mode = "queue"
        PROVE  /\ Listed(Path(t))' => Reached(t)'
               /\ \A k \in DOMAIN server_endpoints' : NamedBy(t, k)' =>
                    \/ /\ Reached(t)'
                       /\ HasParam(Target(t)') =>
                            request'[t].param = LastSegment(Path(t)'.endpoint)
                    \/ \E m \in 1..(k - 1) : KeepsPath(server_endpoints'[m], Path(t)')
    <3> DEFINE w == WithParam(server_endpoints[n], r)
    <3>1. /\ Asked(r) \in Range(server_endpoints) => n # 0 /\ Asked(w) \in Range(server_endpoints)
          /\ \A k \in DOMAIN server_endpoints :
               (/\ server_endpoints[k].method = r.method
                /\ Names(server_endpoints[k], r.endpoint)
                /\ Len(server_endpoints[k].endpoint) # Len(r.endpoint)) =>
                 /\ n # 0
                 /\ \/ /\ Asked(w) \in Range(server_endpoints)
                       /\ HasParam(Asked(w)) => w.param = LastSegment(r.endpoint)
                    \/ \E m \in 1..(k - 1) : KeepsPath(server_endpoints[m], Asked(r))
      BY <1>3, <1>6, RoutedIsServed, Zenon DEF n
    <3> HIDE DEF w
    <3>2. n # 0 => q = w /\ (Reached(t)' <=> Asked(w) \in Range(server_endpoints))
      BY <1>5, <1>7, <1>9, <2>2 DEF q, w, Reached, Decided, Listed
    <3>3. \A k : NamedBy(t, k)' <=> /\ server_endpoints[k].method = r.method
                                   /\ Names(server_endpoints[k], r.endpoint)
                                   /\ Len(server_endpoints[k].endpoint) # Len(r.endpoint)
      BY <1>5, <1>7 DEF NamedBy, Asked
    <3>4. /\ Listed(Path(t))' <=> Asked(r) \in Range(server_endpoints)
          /\ Path(t)'.endpoint = r.endpoint
      BY <1>5, <1>7 DEF Listed, Asked
    <3> QED
      BY <1>5, <1>7, <3>1, <3>2, <3>3, <3>4
  <2> QED
    BY <2>1, <2>2 DEF ServedOK
<1>16. RunServesLiterally'
  BY <1>5, <1>7, <1>8, <1>9, <1>10 DEF RunServesLiterally, Decided, Listed
<1> QED
  BY <1>1, <1>11, <1>12, <1>13, <1>14, <1>15, <1>16 DEF RoutedOK

(* The steps that leave a request and the copy alone, and the end of one.  *)
LEMMA LookupCInv ==
  ASSUME CInv, NEW t \in Threads,
         Lock(t) \/ Found(t) \/ NotFound(t) \/ EmptyText(t) \/ Handle(t)
  PROVE  CInv'
<1> USE DEF CInv
<1>1. TInv'
  BY RestTInv
<1>2. /\ UNCHANGED <<end_points, server_endpoints, constructed, asked, request, torn>>
      /\ DOMAIN pc = Threads /\ DOMAIN reply = Threads
  BY DEF Lock, Found, NotFound, EmptyText, Handle, ownerVars, TInv, TypeOK
<1>3. /\ Registered' = Registered
      /\ \A s \in Threads : Path(s)' = Path(s) /\ Target(s)' = Target(s)
  BY <1>2 DEF Registered, Path, Target
<1>4. \A s \in Threads \ {t} : pc'[s] = pc[s] /\ reply'[s] = reply[s]
  BY <1>2 DEF Lock, Found, NotFound, EmptyText, Handle, Go, Answer
<1>5. /\ pc[t] # "idle" /\ pc'[t] # "idle"
      /\ ~Decided(t)' => ~Decided(t) /\ reply'[t] = reply[t]
      /\ Decided(t) => reply'[t].by = reply[t].by
      /\ reply'[t].by # Nobody => \/ reply[t].by # Nobody
                                  \/ ~Decided(t) /\ Target(t) \in Registered
      /\ (Decided(t)' /\ ~Decided(t) /\ reply'[t].by = Nobody /\ t \notin torn) =>
           asked[t].mode = "empty" \/ Target(t) \notin Registered
  <2>1. CASE Lock(t)
    BY <1>2, <2>1 DEF Lock, Go, At, Decided
  <2>2. CASE Found(t)
    BY <1>2, <2>2 DEF Found, FoundIn, Go, At, Searches, Decided
  <2>3. CASE NotFound(t)
    <3>1. FoundIn(t) = Nobody => Target(t) \notin Registered
      BY DEF FoundIn, Registered
    <3> QED
      BY <1>2, <2>3, <3>1 DEF NotFound, Go, Answer, At, Searches, Decided
  <2>4. CASE EmptyText(t)
    BY <1>2, <2>4 DEF EmptyText, Go, Answer, At, Decided
  <2>5. CASE Handle(t)
    BY <1>2, <2>5 DEF Handle, Go, Answer, At, Decided
  <2> QED
    BY <2>1, <2>2, <2>3, <2>4, <2>5
<1>6. KnownOK'
  BY <1>2, <1>3, <1>4, <1>5 DEF KnownOK, CopyOK, IdleOK, UndecidedOK, Decided
<1>7. PlainOK' /\ ShadowOK'
  BY <1>2, <1>3 DEF RoutedOK, PlainOK, ShadowOK, Listed
<1>8. ListedOK'
  BY <1>2, <1>3, <1>4, <1>5 DEF RoutedOK, ListedOK, Listed, Decided
<1>9. ServedOK'
  <2>1. \A s \in Threads : Reached(s) /\ asked[s].mode = "queue" /\ s \notin torn => Reached(s)'
    <3>1. \A s \in Threads \ {t} : Reached(s)' = Reached(s)
      BY <1>2, <1>3, <1>4 DEF Reached, Decided, Listed
    <3>2. Listed(Target(t)) => Target(t) \in Registered
      BY DEF KnownOK, CopyOK, Listed
    <3>3. ASSUME Reached(t), asked[t].mode = "queue", t \notin torn PROVE Reached(t)'
      BY <1>2, <1>3, <1>5, <3>2, <3>3 DEF Reached, Listed
    <3> QED
      BY <3>1, <3>3
  <2>2. /\ \A s \in Threads : Listed(Path(s))' = Listed(Path(s))
        /\ \A s \in Threads : \A k : NamedBy(s, k)' = NamedBy(s, k)
    BY <1>2, <1>3 DEF Listed, NamedBy
  <2> QED
    BY <1>2, <1>3, <2>1, <2>2 DEF RoutedOK, ServedOK
<1>10. RunServesLiterally'
  <2>1. ASSUME NEW s \in Threads \ {t}, asked'[s].mode \in {"run", "text"}, Decided(s)', s \notin torn'
        PROVE  /\ reply'[s].by # Nobody => Path(s)' \in Registered' /\ request'[s].param = <<>>
               /\ Listed(Path(s))' => reply'[s].by # Nobody
    BY <1>2, <1>3, <1>4, <2>1 DEF RunServesLiterally, Listed, Decided
  <2>2. ASSUME asked'[t].mode \in {"run", "text"}, Decided(t)', t \notin torn'
        PROVE  /\ reply'[t].by # Nobody => Path(t)' \in Registered' /\ request'[t].param = <<>>
               /\ Listed(Path(t))' => reply'[t].by # Nobody
    <3>1. Target(t) = Path(t) /\ request[t].param = <<>>
      BY <1>2, <2>2 DEF RoutedOK, PlainOK
    <3>2. Listed(Path(t)) => Path(t) \in Registered
      BY DEF KnownOK, CopyOK, Listed
    <3>3. CASE Decided(t)
      BY <1>2, <1>3, <1>5, <2>2, <3>3 DEF RunServesLiterally, Listed
    <3>4. CASE ~Decided(t)
      <4>1. reply[t].by = Nobody
        BY <3>4 DEF KnownOK, UndecidedOK, NoReply
      <4> QED
        BY <1>2, <1>3, <1>5, <2>2, <3>1, <3>2, <3>4, <4>1 DEF Listed
    <3> QED
      BY <3>3, <3>4
  <2> QED
    BY <2>1, <2>2 DEF RunServesLiterally
<1> QED
  BY <1>1, <1>6, <1>7, <1>8, <1>9, <1>10 DEF RoutedOK

LEMMA FinishCInv ==
  ASSUME CInv, NEW t \in Threads, Finish(t)
  PROVE  CInv'
<1> USE DEF CInv
<1>1. TInv'
  BY RestTInv
<1>2. /\ UNCHANGED <<end_points, server_endpoints, constructed>>
      /\ torn' = torn \ {t}
      /\ pc'[t] = "idle" /\ reply'[t] = NoReply
      /\ asked'[t] = NoPath /\ request'[t] = NoRequest
      /\ \A s \in Threads \ {t} : /\ pc'[s] = pc[s] /\ reply'[s] = reply[s]
                                  /\ asked'[s] = asked[s] /\ request'[s] = request[s]
  BY DEF Finish, Go, At, ownerVars, TInv, TypeOK
<1>3. /\ Registered' = Registered
      /\ \A s \in Threads \ {t} : Path(s)' = Path(s) /\ Target(s)' = Target(s)
  BY <1>2 DEF Registered, Path, Target
<1>4. asked'[t].mode = "run" /\ ~Decided(t)' /\ Target(t)' = Path(t)' /\ request'[t].param = <<>>
  BY <1>2 DEF NoPath, NoRequest, Decided, Target, Path
<1>5. KnownOK'
  BY <1>2, <1>3 DEF KnownOK, CopyOK, IdleOK, UndecidedOK, Decided
<1>6. PlainOK' /\ ListedOK' /\ ShadowOK' /\ ServedOK'
  <2>1. PlainOK'
    BY <1>2, <1>3, <1>4 DEF RoutedOK, PlainOK
  <2>2. ListedOK'
    BY <1>2, <1>3, <1>4 DEF RoutedOK, ListedOK, Listed, Decided
  <2>3. ShadowOK'
    BY <1>2, <1>3, <1>4 DEF RoutedOK, ShadowOK, Listed
  <2>4. ServedOK'
    <3>1. \A s \in Threads \ {t} :
            /\ Listed(Path(s))' = Listed(Path(s)) /\ Reached(s)' = Reached(s)
            /\ \A k : NamedBy(s, k)' = NamedBy(s, k)
      BY <1>2, <1>3 DEF Listed, Reached, Decided, NamedBy
    <3> QED
      BY <1>2, <1>3, <1>4, <3>1 DEF RoutedOK, ServedOK
  <2> QED
    BY <2>1, <2>2, <2>3, <2>4
<1>7. RunServesLiterally'
  BY <1>2, <1>3, <1>4 DEF RunServesLiterally, Listed, Decided
<1> QED
  BY <1>1, <1>5, <1>6, <1>7 DEF RoutedOK

LEMMA NextCInv ==
  ASSUME CInv, [Next]_vars
  PROVE  CInv'
<1>1. ASSUME \/ UNCHANGED vars
             \/ \E t \in Threads : Malformed(t) \/ TornLookup(t) \/ HandlerThrows(t)
      PROVE CInv'
  <2>1. UNCHANGED <<ownerVars, controller_mutex, pc, asked, request, reply, torn>>
    BY <1>1 DEF vars, Malformed, TornLookup, HandlerThrows
  <2>2. TInv'
    BY <1>1, AbortTInv, NextTInv DEF CInv
  <2> QED
    BY <2>1, <2>2 DEF CInv, KnownOK, CopyOK, IdleOK, UndecidedOK, RoutedOK, PlainOK, ListedOK,
       ShadowOK, ServedOK, Reached, NamedBy, RunServesLiterally, Decided, Listed, Registered, Path,
       Target, ownerVars
<1>2. ASSUME NEW t \in Threads, Thread(t) PROVE CInv'
  BY <1>1, <1>2, ReceiveCInv, LookupCInv, FinishCInv DEF Thread, Lookup
<1>3. ASSUME Owner PROVE CInv'
  BY <1>3, ConstructCInv, AddCInv DEF Owner
<1> QED
  BY <1>1, <1>2, <1>3 DEF Next

LEMMA Invariant == Spec => []CInv
  BY InitCInv, NextCInv, PTL DEF Spec

(* run() finds a handler for a path that is registered letter by letter    *)
(* and for no other, and with no parameter (http_server.cpp:190).          *)
THEOREM RunIsLiteral == Spec => []RunServesLiterally
<1>1. CInv => RunServesLiterally
  BY DEF CInv
<1> QED
  BY <1>1, Invariant, PTL

(* A queue server serves what was registered when it was constructed       *)
(* (http_server.cpp:110), too short paths aside.                           *)
THEOREM LateEndpoints == Spec => []LateEndpointsUnserved
<1>1. CInv => LateEndpointsUnserved
  BY DEF CInv, RoutedOK, ListedOK, LateEndpointsUnserved
<1> QED
  BY <1>1, Invariant, PTL

(* Only an earlier endpoint with a parameter takes a listed path from its  *)
(* own handler (http_server.cpp:305).                                      *)
THEOREM ShadowedOnlyByEarlier == Spec => []ShadowedByEarlierParam
<1>1. CInv => ShadowedByEarlierParam
  BY DEF CInv, RoutedOK, ShadowOK, ShadowedByEarlierParam
<1> QED
  BY <1>1, Invariant, PTL

(* A queue server answers with a handler what is listed, and what names a  *)
(* listed endpoint unless an earlier one takes it and leaves it as it is   *)
(* (http_server.cpp:295-330).                                              *)
THEOREM AcceptedAreServed == Spec => []AcceptedIsServed
<1>1. CInv => AcceptedIsServed
  BY DEF CInv, RoutedOK, ServedOK, Reached, AcceptedIsServed
<1> QED
  BY <1>1, Invariant, PTL
=============================================================================
