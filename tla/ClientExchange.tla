--------------------------- MODULE ClientExchange ---------------------------
(***************************************************************************)
(* Client requests over UDP: get_request in the client, the client         *)
(* dispatcher of the server with its limit on requests in progress, and    *)
(* the counting done by the threads that treat them.  What a thread does   *)
(* with a request is left to RequestRouting; here it answers or not.       *)
(***************************************************************************)
EXTENDS Naturals, FiniteSets

CONSTANTS Clients,         \* calls of get_request
          MaxRetry,        \* retry_counter at which get_request gives up (5)
          MaxClientReqNo   \* MAX_CLIENT_REQ_NO (500)

ASSUME ExchangeAssumption == MaxRetry \in Nat \ {0} /\ MaxClientReqNo \in Nat

VARIABLES pc, counter,     \* get_request: its program counter, retry_counter
          sock,            \* the socket in use: retry_counter at its creation
          opened,          \* sockets not closed
          got,             \* has an answer been received?
          toServer, toClient,     \* datagrams on their way or in a buffer
          new, busy, ending,      \* threads: created, counted, answered
          reqCount                \* req_count

clientVars == <<pc, counter, sock, opened, got>>
vars == <<clientVars, toServer, toClient, new, busy, ending, reqCount>>

\* retry_counter beyond MaxRetry behaves as MaxRetry: the bound of the model.
Counter == 0 .. MaxRetry
Bump(n) == IF n < MaxRetry THEN n + 1 ELSE n

\* A datagram: who sent it, from which socket, at which count.
Datagram == [client : Clients, sock : Counter, n : Counter]

TypeOK ==
    /\ pc \in [Clients -> {"start", "send", "recv", "true", "false"}]
    /\ counter \in [Clients -> Counter]
    /\ sock \in [Clients -> Counter]
    /\ opened \subseteq Clients \X Counter
    /\ got \in [Clients -> BOOLEAN]
    /\ \A set \in {toServer, toClient, new, busy, ending} : set \subseteq Datagram
    /\ reqCount \in Nat

Init ==
    /\ pc = [c \in Clients |-> "start"]
    /\ counter = [c \in Clients |-> 0]
    /\ sock = [c \in Clients |-> 0]
    /\ opened = {}
    /\ got = [c \in Clients |-> FALSE]
    /\ toServer = {} /\ toClient = {}
    /\ new = {} /\ busy = {} /\ ending = {}
    /\ reqCount = 0

-----------------------------------------------------------------------------
(* get_request of client c.                                                *)

serverVars == <<new, busy, ending, reqCount>>

Goes(c, from, to) == pc[c] = from /\ pc' = [pc EXCEPT ![c] = to]

Socket(c) ==
    /\ counter' = [counter EXCEPT ![c] = Bump(@)]
    /\ sock' = [sock EXCEPT ![c] = counter'[c]]
    /\ opened' = opened \cup {<<c, counter'[c]>>}
    /\ Goes(c, "start", IF counter'[c] < MaxRetry THEN "send" ELSE "false")
    /\ UNCHANGED <<got, toServer, toClient, serverVars>>

\* socket() fails: tried again at once, as often as it takes.
SocketFails(c) ==
    /\ pc[c] = "start"
    /\ counter' = [counter EXCEPT ![c] = Bump(@)]
    /\ UNCHANGED <<pc, sock, opened, got, toServer, toClient, serverVars>>

Send(c) ==
    /\ Goes(c, "send", "recv")
    /\ toServer' = toServer \cup
                     {[client |-> c, sock |-> sock[c], n |-> counter[c]]}
    /\ UNCHANGED <<counter, sock, opened, got, toClient, serverVars>>

\* sendto or recv fails: start over with a new socket.
StartOver(c) ==
    /\ Goes(c, "send", "start") \/ Goes(c, "recv", "start")
    /\ opened' = opened \ {<<c, sock[c]>>}
    /\ UNCHANGED <<counter, sock, got, toServer, toClient, serverVars>>

Answers(c) == {d \in toClient : d.client = c /\ d.sock = sock[c]}

\* Mutants of RecvNothing: it sends once more; it does not count.
RecvNothingOnceMore(c) ==
    /\ Answers(c) = {}
    /\ counter' = [counter EXCEPT ![c] = Bump(@)]
    /\ Goes(c, "recv", IF counter[c] < MaxRetry THEN "send" ELSE "false")
    /\ UNCHANGED <<sock, opened, got, toServer, toClient, serverVars>>

RecvNothingUncounted(c) ==
    /\ Answers(c) = {}
    /\ Goes(c, "recv", IF counter[c] < MaxRetry THEN "send" ELSE "false")
    /\ UNCHANGED <<counter, sock, opened, got, toServer, toClient, serverVars>>

\* A second later there is nothing to receive.
RecvNothing(c) ==
    /\ Answers(c) = {}
    /\ counter' = [counter EXCEPT ![c] = Bump(@)]
    /\ Goes(c, "recv", IF counter'[c] < MaxRetry THEN "send" ELSE "false")
    /\ UNCHANGED <<sock, opened, got, toServer, toClient, serverVars>>

\* There is: the result depends on the count alone.
RecvAnswer(c) ==
    /\ \E d \in Answers(c) : toClient' = toClient \ {d}
    /\ got' = [got EXCEPT ![c] = TRUE]
    /\ counter' = [counter EXCEPT ![c] = Bump(@)]
    /\ IF counter'[c] >= MaxRetry
       THEN Goes(c, "recv", "false") /\ UNCHANGED opened
       ELSE Goes(c, "recv", "true") /\ opened' = opened \ {<<c, sock[c]>>}
    /\ UNCHANGED <<sock, toServer, serverVars>>

-----------------------------------------------------------------------------
(* The network.                                                            *)

Lose ==
    /\ \/ \E d \in toServer : toServer' = toServer \ {d} /\ UNCHANGED toClient
       \/ \E d \in toClient : toClient' = toClient \ {d} /\ UNCHANGED toServer
    /\ UNCHANGED <<clientVars, serverVars>>

-----------------------------------------------------------------------------
(* The server.                                                             *)

\* The dispatcher reads req_count without its mutex; over the limit the
\* datagram is dropped.
Dispatch(d) ==
    /\ d \in toServer
    /\ toServer' = toServer \ {d}
    /\ new' = IF reqCount > MaxClientReqNo THEN new ELSE new \cup {d}
    /\ UNCHANGED <<clientVars, toClient, busy, ending, reqCount>>

\* The thread counts itself when it gets to run.
ThreadCount(d) ==
    /\ d \in new
    /\ new' = new \ {d} /\ busy' = busy \cup {d}
    /\ reqCount' = reqCount + 1
    /\ UNCHANGED <<clientVars, toServer, toClient, ending>>

\* It answers, unless its response is empty or sendto fails.
ThreadAnswer(d) ==
    /\ d \in busy
    /\ busy' = busy \ {d} /\ ending' = ending \cup {d}
    /\ toClient' \in {toClient, toClient \cup {d}}
    /\ UNCHANGED <<clientVars, toServer, new, reqCount>>

ThreadEnd(d) ==
    /\ d \in ending
    /\ ending' = ending \ {d}
    /\ reqCount' = reqCount - 1
    /\ UNCHANGED <<clientVars, toServer, toClient, new, busy>>

-----------------------------------------------------------------------------
ClientStep(c) ==
    \/ Socket(c) \/ Send(c) \/ StartOver(c) \/ RecvNothing(c) \/ RecvAnswer(c)

ServerStep(d) ==
    Dispatch(d) \/ ThreadCount(d) \/ ThreadAnswer(d) \/ ThreadEnd(d)

Next ==
    \/ \E c \in Clients : ClientStep(c) \/ SocketFails(c)
    \/ \E d \in toServer \cup new \cup busy \cup ending : ServerStep(d)
    \/ Lose

Spec == Init /\ [][Next]_vars

\* get_request goes on, whatever the server and the network do; socket() does
\* not fail for ever.
FairSpec == Spec /\ \A c \in Clients : WF_vars(ClientStep(c))

-----------------------------------------------------------------------------
(* Properties.                                                             *)

\* req_count is the number of threads that counted themselves and have not
\* uncounted: it neither drifts nor wraps below zero.
CountExact == reqCount = Cardinality(busy) + Cardinality(ending)

\* However sockets and calls fail, a request is sent at most MaxRetry - 1
\* times, so that a command is carried out at most that often.
Copies(c) == {d \in toServer \cup new \cup busy \cup ending \cup toClient : d.client = c}
SendsBounded == \A c \in Clients : Cardinality(Copies(c)) < MaxRetry

\* get_request returns true only with an answer, and without a socket left
\* open.
TrueMeansAnswered ==
    \A c \in Clients : pc[c] = "true" => got[c] /\ \A o \in opened : o[1] # c

\* However often get_request tries, it has one socket open, and so leaves at most
\* one behind.
OneSocket == \A x, y \in opened : x[1] = y[1] => x = y

\* The count, the retries and the result are what the users of the two sides
\* take them for.
ExchangeSound ==
    TypeOK /\ CountExact /\ SendsBounded /\ TrueMeansAnswered /\ OneSocket

\* get_request returns.
RequestEnds == \A c \in Clients : <>(pc[c] \in {"true", "false"})
=============================================================================
