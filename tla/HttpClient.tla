----------------------------- MODULE HttpClient -----------------------------
(***************************************************************************)
(* http_client_tests (Source.cpp): main() starts threads that send one     *)
(* request each through one request_sender_t (http_client.cpp) under one   *)
(* mutex, against a server of which nothing is known but HttpService.  The *)
(* texts are those of HttpText, from the client's message to what a server *)
(* parses and from the answer to what the client parses.                   *)
(***************************************************************************)
EXTENDS HttpText

CONSTANTS Senders,      \* threads, and the connections they make
          Batches,      \* the threads of each iteration of main()
          Handles,      \* values the system gives to sockets
          None,         \* INVALID_SOCKET; nobody
          Messages(_),  \* Messages(s): the request_t of thread s
          Answers(_)    \* Answers(m): what a server may answer to m, as response_t

ASSUME BatchesAssumption == Batches \in Seq(SUBSET Senders)
ASSUME NobodyAssumption == None \notin Senders \cup Handles
ASSUME TextsAssumption ==
  \A s \in Senders : \A m \in Messages(s) :
    IsRequest(m) /\ \A a \in Answers(m) : IsResponse(a)

(* A number is written without separators.                                 *)
ASSUME NumbersAssumption ==
  \A s \in Senders : \A m \in Messages(s) : ToString(Len(m.body)) \notin {CR, NUL, ":"}

VARIABLES phase, answers,   \* the server: HttpService
          mutex_,
          pc,               \* pc[s]: where thread s is
          iteration,        \* iterations main() has finished
          mainPc,
          _socket,
          initialized,      \* WSAStartup() without WSACleanup()
          peer,             \* peer[h]: the thread an open handle was made by
          message,          \* message[s]: the request of the thread inside
          sent,             \* sent[s]: the thirds of the request that send() took first
          received,         \* received[s]: the request as the server parses it
          answer,           \* answer[s]: what the server sent, as the client parses it
          response,         \* what send_request() returns to the thread inside
          aborted           \* the process has been terminated

serverVars == <<phase, answers, received, answer>>
mainVars == <<iteration, mainPc>>
clientVars == <<mutex_, pc, mainVars, _socket, initialized, peer, message, sent, response, aborted>>
vars == <<serverVars, clientVars>>

Server == INSTANCE HttpService WITH Conns <- Senders

NoMessage == [method |-> "GET", endpoint |-> <<>>, host |-> <<>>, headers |-> <<>>, body |-> <<>>]
Nothing == [whole |-> FALSE, request |-> ParseRequest(<<>>, "GET")]
Empty == [status |-> <<>>, phrase |-> <<>>, headers |-> <<>>, body |-> <<>>, null |-> FALSE]
NoAnswer == [of |-> bad_request, read |-> Empty, whole |-> FALSE]

Init ==
  /\ Server!Init
  /\ answer = [s \in Senders |-> NoAnswer]
  /\ mutex_ = None
  /\ pc = [s \in Senders |-> "new"]
  /\ iteration = 0
  /\ mainPc = "spawn"
  /\ _socket = None
  /\ initialized = TRUE
  /\ peer = [h \in Handles |-> None]
  /\ message = [s \in Senders |-> NoMessage]
  /\ sent = [s \in Senders |-> 0]
  /\ received = [s \in Senders |-> Nothing]
  /\ response = Empty
  /\ aborted = FALSE

At(s, l) == ~aborted /\ pc[s] = l
Go(s, l) == pc' = [pc EXCEPT ![s] = l]
Close(h) == peer' = IF h = None THEN peer ELSE [peer EXCEPT ![h] = None]

-----------------------------------------------------------------------------
(* An iteration takes the mutex, starts its threads and releases it.       *)
Spawn ==
  /\ ~aborted
  /\ mainPc = "spawn"
  /\ mutex_ = None
  /\ iteration < Len(Batches)
  /\ iteration' = iteration + 1
  /\ pc' = [s \in Senders |-> IF s \in Batches[iteration + 1] THEN "wait" ELSE pc[s]]
  /\ mainPc' = IF iteration' = Len(Batches) THEN "get" ELSE "spawn"
  /\ UNCHANGED <<serverVars, mutex_, _socket, initialized, peer, message, sent, response, aborted>>

(* A key is pressed: main() returns.  The destructor of the sender closes  *)
(* whatever _socket holds and cleans Winsock up: every socket is gone, and *)
(* every call of a thread fails from now on.                               *)
MainReturns ==
  /\ ~aborted
  /\ mainPc = "get"
  /\ mainPc' = "returned"
  /\ peer' = [h \in Handles |-> None]
  /\ initialized' = FALSE
  /\ UNCHANGED <<serverVars, mutex_, pc, iteration, _socket, message, sent, response, aborted>>

(* Nothing joined the threads: the destructor of the first one terminates. *)
Terminate ==
  /\ ~aborted
  /\ mainPc = "returned"
  /\ aborted' = TRUE
  /\ UNCHANGED <<serverVars, mutex_, pc, mainVars, _socket, initialized, peer, message, sent, response>>

-----------------------------------------------------------------------------
(* send_request() behind the lock_guard of the thread's function.          *)
Lock(s) ==
  /\ At(s, "wait")
  /\ mutex_ = None
  /\ mutex_' = s
  /\ message' \in {[message EXCEPT ![s] = m] : m \in Messages(s)}
  /\ Go(s, IF initialized THEN "socket" ELSE "return")
  /\ UNCHANGED <<serverVars, mainVars, _socket, initialized, peer, sent, response, aborted>>

localVars == <<mutex_, mainVars, initialized, message, response>>

Socket(s) ==
  /\ At(s, "socket")
  /\ initialized
  /\ \E h \in Handles :
       /\ peer[h] = None
       /\ _socket' = h
       /\ peer' = [peer EXCEPT ![h] = s]
  /\ Go(s, "resolve")
  /\ UNCHANGED <<localVars, serverVars, sent, aborted>>

SocketFails(s) ==
  /\ At(s, "socket")
  /\ _socket' = None
  /\ Go(s, "return")
  /\ UNCHANGED <<localVars, serverVars, peer, sent, aborted>>

Resolve(s) ==
  /\ At(s, "resolve")
  /\ initialized
  /\ Go(s, "connect")
  /\ UNCHANGED <<localVars, serverVars, _socket, peer, sent, aborted>>

(* getaddrinfo() fails and has set no pointer: freeing it ends the process *)
(* or not.                                                                 *)
ResolveFails(s) ==
  /\ At(s, "resolve")
  /\ \/ aborted' = TRUE /\ UNCHANGED <<pc, peer>>
     \/ Close(_socket) /\ Go(s, "return") /\ UNCHANGED aborted
  /\ UNCHANGED <<localVars, serverVars, _socket, sent>>

Connects(s) ==
  /\ At(s, "connect")
  /\ initialized
  /\ Server!Arrives(s)
  /\ Go(s, "send")
  /\ UNCHANGED <<localVars, received, answer, _socket, peer, sent, aborted>>

ConnectFails_Open(s) ==
  /\ At(s, "connect")
  /\ Go(s, "return")
  /\ UNCHANGED <<localVars, serverVars, _socket, peer, sent, aborted>>

ConnectFails(s) ==
  /\ At(s, "connect")
  /\ Close(_socket)
  /\ Go(s, "return")
  /\ UNCHANGED <<localVars, serverVars, _socket, sent, aborted>>

(* The send loop (SendLoop): send() takes some thirds of what is left,     *)
(* none or all.                                                            *)
Thirds == {0, 1, 3}

Send(s) ==
  /\ At(s, "send")
  /\ \E n \in IF initialized THEN Thirds ELSE {0} :
       /\ sent' = [sent EXCEPT ![s] = n]
       /\ Go(s, IF n > 0 THEN "receive" ELSE "close")
  /\ UNCHANGED <<localVars, serverVars, _socket, peer, aborted>>

(* receive_response() blocks until the server closes the connection;       *)
(* build_response(), where a header of colons only is a string of a null   *)
(* pointer and ends the process.                                           *)
Receive(s) ==
  /\ At(s, "receive")
  /\ phase[s] = "closed" \/ ~initialized
  /\ \/ answer[s].read.null /\ aborted' = TRUE /\ UNCHANGED <<pc, response>>
     \/ ~answer[s].read.null /\ response' = answer[s].read /\ Go(s, "close") /\ UNCHANGED aborted
  /\ UNCHANGED <<serverVars, mutex_, mainVars, _socket, initialized, peer, message, sent>>

(* closesocket(_socket), which keeps its value.                            *)
CloseSocket(s) ==
  /\ At(s, "close")
  /\ Close(_socket)
  /\ Go(s, "return")
  /\ UNCHANGED <<localVars, serverVars, _socket, sent, aborted>>

Return_KeepLock(s) ==
  /\ At(s, "return")
  /\ Go(s, "done")
  /\ message' = [message EXCEPT ![s] = NoMessage]
  /\ sent' = [sent EXCEPT ![s] = 0]
  /\ received' = [received EXCEPT ![s] = Nothing]
  /\ answer' = [answer EXCEPT ![s] = NoAnswer]
  /\ response' = Empty
  /\ UNCHANGED <<phase, answers, mutex_, mainVars, _socket, initialized, peer, aborted>>

Return_KeepResponse(s) ==
  /\ At(s, "return")
  /\ Go(s, "done")
  /\ mutex_' = None
  /\ message' = [message EXCEPT ![s] = NoMessage]
  /\ sent' = [sent EXCEPT ![s] = 0]
  /\ received' = [received EXCEPT ![s] = Nothing]
  /\ UNCHANGED <<phase, answers, answer, response, mainVars, _socket, initialized, peer, aborted>>

(* The thread logs the status and ends: the lock_guard and its response_t  *)
(* are gone.                                                               *)
Return(s) ==
  /\ At(s, "return")
  /\ Go(s, "done")
  /\ mutex_' = None
  /\ message' = [message EXCEPT ![s] = NoMessage]
  /\ sent' = [sent EXCEPT ![s] = 0]
  /\ received' = [received EXCEPT ![s] = Nothing]
  /\ answer' = [answer EXCEPT ![s] = NoAnswer]
  /\ response' = Empty
  /\ UNCHANGED <<phase, answers, mainVars, _socket, initialized, peer, aborted>>

Step(s) ==
  \/ Lock(s) \/ Socket(s) \/ SocketFails(s) \/ Resolve(s) \/ ResolveFails(s)
  \/ Connects(s) \/ ConnectFails(s) \/ Send(s) \/ Receive(s) \/ CloseSocket(s) \/ Return(s)

-----------------------------------------------------------------------------
(* The server (HttpService) parses what has arrived: after a first third   *)
(* the send loop starts again with the text from its beginning.            *)
Arrived(text, thirds, uninitialised) ==
  LET n == (Len(text) * thirds) \div 3
  IN [whole |-> thirds = 3,
      request |-> ParseRequest(SubSeq(text, 1, n) \o SubSeq(text, 1, IF n < Len(text) - n THEN Len(text) - n ELSE 0),
                               uninitialised)]

Parses(s) ==
  /\ phase[s] = "held"
  /\ sent[s] > 0
  /\ \E method \in Methods \cup {"NONE"} :
       received' = [received EXCEPT ![s] = Arrived(CString(BuildRequest(message[s])), sent[s], method)]

(* It sends its answer whole or, its own send loop stopping early, only    *)
(* past half of it; or the client is gone, and nothing is sent.            *)
ServerAnswers(s) ==
  /\ Parses(s)
  /\ ~received'[s].request.null
  /\ \/ /\ Server!AnswerOnce(s)
        /\ \E a \in Answers(message[s]) :
             LET text == CString(ResponseText(a))
             IN \E n \in {Len(text) \div 2 + 1, Len(text)} :
                  answer' = [answer EXCEPT ![s] = [of |-> a, whole |-> n = Len(text),
                                                   read |-> ParseResponse(SubSeq(text, 1, n))]]
     \/ Server!AnswerLost(s) /\ UNCHANGED answer

(* A string of a null pointer, of a header of colons only or of a query    *)
(* without "=", ends the server.                                           *)
ServerEnds(s) ==
  /\ Parses(s)
  /\ received'[s].request.null
  /\ Server!Crash
  /\ UNCHANGED answer

ServerStep ==
  /\ \/ \E s \in Senders : ServerAnswers(s) \/ ServerEnds(s)
     \/ (Server!Crash \/ \E s \in Senders : Server!Admit(s) \/ Server!Finish(s))
          /\ UNCHANGED <<received, answer>>
  /\ UNCHANGED clientVars

Next == Spawn \/ MainReturns \/ Terminate \/ ServerStep \/ \E s \in Senders : Step(s)

Spec == Init /\ [][Next]_vars

(* Threads are scheduled and main() starts all of them.  Each takes the    *)
(* mutex once, so that nobody overtakes a waiter for ever.  No fairness of *)
(* the server, nor of the user who ends main().                            *)
FairSpec == Spec /\ WF_vars(Spawn) /\ \A s \in Senders : WF_vars(Step(s))

-----------------------------------------------------------------------------
TypeOK ==
  /\ phase \in [Senders -> {"away", "waiting", "held", "answered", "closed"}]
  /\ answers \in [Senders -> Nat]
  /\ mutex_ \in Senders \cup {None}
  /\ pc \in [Senders -> {"new", "wait", "socket", "resolve", "connect", "send", "receive",
                         "close", "return", "done"}]
  /\ iteration \in 0..Len(Batches)
  /\ mainPc \in {"spawn", "get", "returned"}
  /\ _socket \in Handles \cup {None}
  /\ initialized \in BOOLEAN
  /\ peer \in [Handles -> Senders \cup {None}]
  /\ \A s \in Senders : message[s] \in Messages(s) \cup {NoMessage}
  /\ \A s \in Senders : received[s].whole \in BOOLEAN /\ received[s].request.null \in BOOLEAN
  /\ \A s \in Senders : answer[s] # NoAnswer => /\ answer[s].of \in Answers(message[s])
                                               /\ ~received[s].request.null
  /\ aborted \in BOOLEAN

(* The thread has a socket of its own.                                     *)
Connected == {"resolve", "connect", "send", "receive", "close"}

(* The one request_sender_t behind the mutex (http_client_tests/           *)
(* Source.cpp:26): an open socket is the one _socket names and was made    *)
(* for the request of the thread inside, on every way through              *)
(* create_connection() and send_request() - so that nothing leaks, and the *)
(* destructor that closes _socket once more (http_client.cpp:24) meets a   *)
(* closed handle unless it cuts a request off.                             *)
OneOpenSocket ==
  /\ \A s \in Senders : mutex_ = s <=> pc[s] \in Connected \cup {"socket", "return"}
  /\ \A h \in Handles :
       peer[h] # None => _socket = h /\ mutex_ = peer[h] /\ pc[peer[h]] \in Connected
  /\ (\E s \in Senders : pc[s] \in Connected) /\ initialized => \E h \in Handles : peer[h] # None

(* A text that the line of a header, or one as a value, does not change.   *)
Lacks(text, symbols) == \A c \in symbols : Find(text, c) = 0
OneLineText(v) == Lacks(v, {CR, NUL})
PlainText(v) == OneLineText(v) /\ Find(v, ":") = 0

PlainMessage(m) ==
  /\ m.endpoint # <<>> /\ Lacks(m.endpoint, {CR, LF, SP, NUL, "?"})
  /\ PlainText(m.host)
  /\ \A k \in DOMAIN m.headers :
       PlainText(k) /\ (k # <<"Host">> => PlainText(m.headers[k]))
  /\ OneLineText(m.body)

(* The server's parser gets through a request that arrived whole, and      *)
(* reads it as the message the client was given, exactly for plain         *)
(* messages: a body with a CR, a host with a port or an empty endpoint     *)
(* becomes another request, or a null pointer.  Of two hosts the first     *)
(* stays; the second must only not end its line.                           *)
RequestSurvives ==
  \A s \in Senders :
    LET m == message[s]
        r == received[s].request
        length == IF m.body = <<>> THEN {} ELSE {<<"Content-Length">>}
        headers == [k \in DOMAIN m.headers \cup {<<"Host">>} \cup length |->
                      CASE k = <<"Host">> -> m.host
                        [] k # <<"Host">> /\ k \in DOMAIN m.headers -> m.headers[k]
                        [] k # <<"Host">> /\ k \notin DOMAIN m.headers -> <<ToString(Len(m.body))>>]
    IN (/\ received[s].whole
        /\ <<"Host">> \in DOMAIN m.headers => OneLineText(m.headers[<<"Host">>])) =>
         (PlainMessage(m) <=>
            /\ ~r.null
            /\ r.method = m.method /\ r.endpoint = m.endpoint
            /\ r.headers = headers /\ r.body = m.body)

(* What send_request() returns for an answer that arrived whole, if its    *)
(* headers are lines: its status; the first word of its phrase; its body,  *)
(* unless that has a CR or a zero byte; and every header, with the space   *)
(* after the colon, and whole unless it has a colon itself, as the date    *)
(* always has.                                                             *)
AnswerSurvives ==
  \A s \in Senders :
    LET a == answer[s].of
        body == FlattenSeq(a.body)
    IN (/\ mutex_ = s /\ response # Empty /\ answer[s].whole
        /\ \A k \in DOMAIN a.headers : PlainText(k) /\ OneLineText(a.headers[k])) =>
         /\ response.status = <<a.status>>
         /\ response.phrase = <<Head(Phrase[a.status])>>
         /\ response.body = body <=> OneLineText(body)
         /\ DOMAIN response.headers = DOMAIN a.headers
         /\ \A k \in DOMAIN a.headers :
              response.headers[k] = <<SP>> \o a.headers[k] <=> Find(a.headers[k], ":") = 0

(* A response without a status (http_client_cmd/main.cpp:20 calls it       *)
(* "could not connect") means that the server has not answered this        *)
(* request; a response with one, that it has answered this one.            *)
StatusMeansAnswered ==
  \A s \in Senders :
    (mutex_ = s /\ pc[s] \in {"close", "return"} /\ initialized) =>
      (response # Empty <=> answers[s] = 1 /\ sent[s] > 0)

(* If the server closes every connection on which a thread waits for an    *)
(* answer, every thread of the test gets the mutex, its turn and its end.  *)
(* The premise is needed: send_request() has no timeout, and HttpService   *)
(* does not promise it.                                                    *)
EverySenderReturns ==
  (\A s \in Senders : pc[s] = "receive" ~> phase[s] = "closed")
    => <>(aborted \/ \A s \in Senders : pc[s] = "done")
=============================================================================
