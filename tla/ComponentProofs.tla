--------------------------- MODULE ComponentProofs ---------------------------
(***************************************************************************)
(* Safety of the components that stand alone: the client requests over     *)
(* UDP (by their own names), and, as instances, the supervision of the     *)
(* dispatchers, the receiving of messages, the threads of the agent, the   *)
(* agent's rule files and the reading of files by line; and two algorithms *)
(* without a state, the conditions of a query and the samples of a graph.  *)
(***************************************************************************)
EXTENDS ClientExchange, SupervisorClaims, FramingClaims, InfoSourcesClaims,
        RuleFileClaims, LogReaderClaims, Integers, ListLemmas, FiniteSetTheorems, TLAPS

-----------------------------------------------------------------------------
(* Client requests.  retry_counter tells the datagrams of a client         *)
(* apart: a send counts before the next one.  A datagram is in one place   *)
(* on the server's side; an answer may be on its way besides.              *)

OnServer == toServer \cup new \cup busy \cup ending

Datagrams == OnServer \cup toClient

CounterInv ==
    /\ \A c \in Clients : pc[c] \in {"send", "recv"} => counter[c] \in 1 .. MaxRetry - 1
    /\ \A d \in Datagrams :
          /\ 1 <= d.n /\ d.n < MaxRetry /\ d.n <= counter[d.client]
          /\ pc[d.client] = "send" => d.n < counter[d.client]

SentOnce == \A d, e \in Datagrams : d.client = e.client /\ d.n = e.n => d = e

OnePlace ==
    /\ toServer \cap (new \cup busy \cup ending) = {}
    /\ new \cap (busy \cup ending) = {}
    /\ busy \cap ending = {}

Counted == IsFiniteSet(busy) /\ IsFiniteSet(ending) /\ CountExact

SocketInv ==
    /\ \A c \in Clients : pc[c] = "true" => got[c]
    /\ \A o \in opened : o[2] = sock[o[1]] /\ pc[o[1]] \notin {"start", "true"}

ExchangeInv == TypeOK /\ CounterInv /\ SentOnce /\ OnePlace /\ Counted /\ SocketInv

LEMMA ExchangeInit == Init => ExchangeInv
<1> SUFFICES ASSUME Init PROVE ExchangeInv
  OBVIOUS
<1>1. TypeOK
  BY ExchangeAssumption DEF Init, TypeOK, Counter
<1>2. CounterInv /\ SentOnce /\ OnePlace /\ SocketInv
  BY DEF Init, CounterInv, SentOnce, OnePlace, SocketInv, Datagrams, OnServer
<1>3. Counted
  BY FS_EmptySet DEF Init, Counted, CountExact
<1> QED BY <1>1, <1>2, <1>3 DEF ExchangeInv

\* Bump counts, and stops at MaxRetry.
LEMMA BumpCounts ==
    ASSUME NEW n \in Counter
    PROVE  /\ Bump(n) \in Counter /\ n <= Bump(n)
           /\ Bump(n) < MaxRetry => n < Bump(n) /\ 1 <= Bump(n)
  BY ExchangeAssumption DEF Bump, Counter

-----------------------------------------------------------------------------
(* req_count: a thread that counts itself was not counted, and one that    *)
(* uncounts itself was.                                                    *)

LEMMA CountedStep == OnePlace /\ Counted /\ TypeOK /\ [Next]_vars => Counted'
<1> SUFFICES ASSUME OnePlace, Counted, TypeOK, [Next]_vars PROVE Counted'
  OBVIOUS
<1>0. /\ IsFiniteSet(busy) /\ IsFiniteSet(ending)
      /\ Cardinality(busy) \in Nat /\ Cardinality(ending) \in Nat
      /\ reqCount = Cardinality(busy) + Cardinality(ending)
  BY FS_CardinalityType DEF Counted, CountExact
<1>1. ASSUME NEW d \in new, ThreadCount(d) PROVE Counted'
  <2>1. d \notin busy
    BY <1>1 DEF OnePlace
  <2>2. IsFiniteSet(busy \cup {d}) /\ Cardinality(busy \cup {d}) = Cardinality(busy) + 1
    BY <1>0, <2>1, FS_AddElement
  <2> QED BY <1>0, <1>1, <2>2 DEF ThreadCount, Counted, CountExact
<1>2. ASSUME NEW d \in busy, ThreadAnswer(d) PROVE Counted'
  <2>1. d \notin ending
    BY <1>2 DEF OnePlace
  <2>2. IsFiniteSet(busy \ {d}) /\ Cardinality(busy \ {d}) = Cardinality(busy) - 1
    BY <1>0, <1>2, FS_RemoveElement
  <2>3. /\ IsFiniteSet(ending \cup {d})
        /\ Cardinality(ending \cup {d}) = Cardinality(ending) + 1
    BY <1>0, <2>1, FS_AddElement
  <2> QED BY <1>0, <1>2, <2>2, <2>3 DEF ThreadAnswer, Counted, CountExact
<1>3. ASSUME NEW d \in ending, ThreadEnd(d) PROVE Counted'
  <2>1. /\ IsFiniteSet(ending \ {d})
        /\ Cardinality(ending \ {d}) = Cardinality(ending) - 1
    BY <1>0, <1>3, FS_RemoveElement
  <2> QED BY <1>0, <1>3, <2>1 DEF ThreadEnd, Counted, CountExact
<1>4. CASE UNCHANGED <<busy, ending, reqCount>>
  BY <1>4 DEF Counted, CountExact
<1> QED
  BY <1>1, <1>2, <1>3, <1>4
     DEF Next, ClientStep, ServerStep, Socket, SocketFails, Send, StartOver,
         RecvNothing, RecvAnswer, Lose, Dispatch, ThreadCount, ThreadAnswer,
         ThreadEnd, serverVars, vars

LEMMA TypeStep == TypeOK /\ Counted' /\ [Next]_vars => TypeOK'
<1> SUFFICES ASSUME TypeOK, Counted', [Next]_vars PROVE TypeOK'
  OBVIOUS
<1>0. reqCount' \in Nat
  BY FS_CardinalityType DEF Counted, CountExact
<1> USE <1>0 DEF TypeOK
<1>1. ASSUME NEW c \in Clients, Socket(c) PROVE TypeOK'
  <2>1. counter' \in [Clients -> Counter]
    BY <1>1, BumpCounts DEF Socket
  <2> QED BY <1>1, <2>1 DEF Socket, Goes, serverVars
<1>2. ASSUME NEW c \in Clients, SocketFails(c) PROVE TypeOK'
  BY <1>2, BumpCounts DEF SocketFails, serverVars
<1>3. ASSUME NEW c \in Clients, Send(c) PROVE TypeOK'
  BY <1>3 DEF Send, Goes, serverVars, Datagram
<1>4. ASSUME NEW c \in Clients, StartOver(c) PROVE TypeOK'
  BY <1>4 DEF StartOver, Goes, serverVars
<1>5. ASSUME NEW c \in Clients, RecvNothing(c) PROVE TypeOK'
  BY <1>5, BumpCounts DEF RecvNothing, Goes, serverVars
<1>6. ASSUME NEW c \in Clients, RecvAnswer(c) PROVE TypeOK'
  BY <1>6, BumpCounts DEF RecvAnswer, Answers, Goes, serverVars
<1>7. CASE Lose
  BY <1>7 DEF Lose, clientVars, serverVars
<1>8. ASSUME NEW d, Dispatch(d) \/ ThreadCount(d) \/ ThreadAnswer(d) \/ ThreadEnd(d)
      PROVE  TypeOK'
  BY <1>8 DEF Dispatch, ThreadCount, ThreadAnswer, ThreadEnd, clientVars
<1>9. CASE UNCHANGED vars
  BY <1>9 DEF vars, clientVars
<1> QED
  BY <1>1, <1>2, <1>3, <1>4, <1>5, <1>6, <1>7, <1>8, <1>9
     DEF Next, ClientStep, ServerStep

-----------------------------------------------------------------------------
(* Datagrams: only Send makes one.                                         *)

LEMMA OnlySendMakes ==
    TypeOK /\ [Next]_vars =>
        \/ Datagrams' \subseteq Datagrams
        \/ \E c \in Clients : Send(c)
  BY DEF Next, ClientStep, ServerStep, Socket, SocketFails, StartOver,
     RecvNothing, RecvAnswer, Lose, Dispatch, ThreadCount, ThreadAnswer,
     ThreadEnd, serverVars, clientVars, vars, Datagrams, OnServer

\* The counter of a client never goes back, and has moved when the client comes
\* to send once more.
LEMMA CounterMoves ==
    ASSUME TypeOK, CounterInv, [Next]_vars, NEW c \in Clients
    PROVE  /\ counter[c] <= counter'[c]
           /\ pc'[c] \in {"send", "recv"} => counter'[c] \in 1 .. MaxRetry - 1
           /\ pc'[c] = "send" /\ pc[c] # "send" => counter[c] < counter'[c]
<1> DEFINE G == /\ counter[c] <= counter'[c]
                /\ pc'[c] \in {"send", "recv"} => counter'[c] \in 1 .. MaxRetry - 1
                /\ pc'[c] = "send" /\ pc[c] # "send" => counter[c] < counter'[c]
<1> SUFFICES G
  OBVIOUS
<1> USE ExchangeAssumption DEF TypeOK, CounterInv
<1>0. /\ counter[c] \in Counter /\ Bump(counter[c]) \in Counter
      /\ counter[c] <= Bump(counter[c])
      /\ Bump(counter[c]) < MaxRetry =>
            counter[c] < Bump(counter[c]) /\ 1 <= Bump(counter[c])
      /\ \A n \in Counter : n \in Nat
  BY BumpCounts DEF Counter
<1>1. ASSUME NEW t \in Clients, Socket(t) PROVE G
  BY <1>0, <1>1 DEF Socket, Goes
<1>2. ASSUME NEW t \in Clients, SocketFails(t) PROVE G
  BY <1>0, <1>2 DEF SocketFails
<1>3. ASSUME NEW t \in Clients, Send(t) PROVE G
  BY <1>0, <1>3 DEF Send, Goes
<1>4. ASSUME NEW t \in Clients, StartOver(t) PROVE G
  BY <1>0, <1>4 DEF StartOver, Goes
<1>5. ASSUME NEW t \in Clients, RecvNothing(t) PROVE G
  BY <1>0, <1>5 DEF RecvNothing, Goes
<1>6. ASSUME NEW t \in Clients, RecvAnswer(t) PROVE G
  BY <1>0, <1>6 DEF RecvAnswer, Goes
<1>7. CASE UNCHANGED <<pc, counter>>
  BY <1>0, <1>7
<1> QED
  BY <1>1, <1>2, <1>3, <1>4, <1>5, <1>6, <1>7
     DEF Next, ClientStep, ServerStep, Lose, Dispatch, ThreadCount, ThreadAnswer,
         ThreadEnd, clientVars, vars

LEMMA DatagramTypes ==
    ASSUME TypeOK, NEW d \in Datagrams
    PROVE  d.client \in Clients /\ d.n \in Counter /\ d \in Datagram
  BY DEF TypeOK, Datagrams, OnServer, Datagram

\* The datagram Send makes is no copy of one that is on its way.
LEMMA SendMakesNew ==
    ASSUME TypeOK, CounterInv, NEW c \in Clients, Send(c)
    PROVE  \E m : /\ m.client = c /\ m.n = counter[c]
                  /\ toServer' = toServer \cup {m}
                  /\ Datagrams' = Datagrams \cup {m}
                  /\ \A d \in Datagrams : d.client = c => d.n < counter[c]
<1> DEFINE m == [client |-> c, sock |-> sock[c], n |-> counter[c]]
<1>1. m.client = c /\ m.n = counter[c]
  OBVIOUS
<1>2. toServer' = toServer \cup {m} /\ Datagrams' = Datagrams \cup {m}
  BY DEF Send, serverVars, Datagrams, OnServer
<1>3. \A d \in Datagrams : d.client = c => d.n < counter[c]
  BY DEF CounterInv, Send, Goes
<1> QED BY <1>1, <1>2, <1>3

LEMMA CounterInvStep == TypeOK /\ TypeOK' /\ CounterInv /\ [Next]_vars => CounterInv'
<1> SUFFICES ASSUME TypeOK, TypeOK', CounterInv, [Next]_vars PROVE CounterInv'
  OBVIOUS
<1>1. \A c \in Clients : pc'[c] \in {"send", "recv"} => counter'[c] \in 1 .. MaxRetry - 1
  BY CounterMoves
<1>2. \A c \in Clients : counter[c] \in Nat /\ counter'[c] \in Nat
  BY DEF TypeOK, Counter
<1>3. ASSUME NEW d \in Datagrams
      PROVE  /\ 1 <= d.n /\ d.n < MaxRetry /\ d.n <= counter'[d.client]
             /\ pc'[d.client] = "send" => d.n < counter'[d.client]
  <2>1. /\ d.client \in Clients /\ d.n \in Nat
        /\ 1 <= d.n /\ d.n < MaxRetry /\ d.n <= counter[d.client]
        /\ pc[d.client] = "send" => d.n < counter[d.client]
    BY DatagramTypes DEF CounterInv, Counter
  <2>2. /\ counter[d.client] <= counter'[d.client]
        /\ pc'[d.client] = "send" /\ pc[d.client] # "send" =>
              counter[d.client] < counter'[d.client]
    BY <2>1, CounterMoves
  <2> QED BY <1>2, <2>1, <2>2
<1>4. ASSUME NEW c \in Clients, Send(c)
      PROVE  \A d \in Datagrams' : d \in Datagrams \/ (d.client = c /\ d.n = counter[c])
  BY <1>4, SendMakesNew
<1>5. ASSUME NEW c \in Clients, Send(c)
      PROVE  counter[c] \in 1 .. MaxRetry - 1 /\ counter' = counter /\ pc'[c] = "recv"
  BY <1>5 DEF Send, Goes, CounterInv, TypeOK
<1>6. \A d \in Datagrams' :
         /\ 1 <= d.n /\ d.n < MaxRetry /\ d.n <= counter'[d.client]
         /\ pc'[d.client] = "send" => d.n < counter'[d.client]
  <2> TAKE d \in Datagrams'
  <2>1. CASE d \in Datagrams
    BY <2>1, <1>3
  <2>2. CASE d \notin Datagrams
    <3>1. PICK c \in Clients : Send(c)
      BY <2>2, OnlySendMakes
    <3>2. d.client = c /\ d.n = counter[c]
      BY <3>1, <2>2, <1>4
    <3>3. counter[c] \in 1 .. MaxRetry - 1 /\ counter' = counter /\ pc'[c] = "recv"
      BY <3>1, <1>5
    <3>4. MaxRetry \in Nat
      BY ExchangeAssumption
    <3> QED BY <3>2, <3>3, <3>4
  <2> QED BY <2>1, <2>2
<1> QED BY <1>1, <1>6 DEF CounterInv

LEMMA SentOnceStep ==
    TypeOK /\ CounterInv /\ SentOnce /\ [Next]_vars => SentOnce'
<1> SUFFICES ASSUME TypeOK, CounterInv, SentOnce, [Next]_vars PROVE SentOnce'
  OBVIOUS
<1>1. CASE Datagrams' \subseteq Datagrams
  BY <1>1 DEF SentOnce
<1>2. ASSUME NEW c \in Clients, Send(c) PROVE SentOnce'
  <2>1. PICK m : /\ m.client = c /\ m.n = counter[c]
                 /\ Datagrams' = Datagrams \cup {m}
                 /\ \A d \in Datagrams : d.client = c => d.n < counter[c]
    BY <1>2, SendMakesNew
  <2>2. \A d \in Datagrams : d.client = m.client => d.n # m.n
    <3> TAKE d \in Datagrams
    <3>1. d.n \in Nat /\ counter[c] \in Nat
      BY DatagramTypes DEF TypeOK, Counter
    <3> QED BY <2>1, <3>1
  <2> QED BY <2>1, <2>2 DEF SentOnce
<1> QED BY <1>1, <1>2, OnlySendMakes

LEMMA OnePlaceStep == TypeOK /\ CounterInv /\ OnePlace /\ [Next]_vars => OnePlace'
<1> SUFFICES ASSUME TypeOK, CounterInv, OnePlace, [Next]_vars PROVE OnePlace'
  OBVIOUS
<1>1. ASSUME NEW c \in Clients, Send(c) PROVE OnePlace'
  <2>1. PICK m : /\ m.client = c /\ m.n = counter[c]
                 /\ toServer' = toServer \cup {m}
                 /\ \A d \in Datagrams : d.client = c => d.n < counter[c]
    BY <1>1, SendMakesNew
  <2>2. counter[c] \in Nat
    BY DEF TypeOK, Counter
  <2>3. m \notin Datagrams
    BY <2>1, <2>2
  <2>4. UNCHANGED serverVars
    BY <1>1 DEF Send
  <2> QED BY <2>1, <2>3, <2>4 DEF OnePlace, Datagrams, OnServer, serverVars
<1>2. ASSUME NEW d, Dispatch(d) \/ ThreadCount(d) \/ ThreadAnswer(d) \/ ThreadEnd(d)
      PROVE  OnePlace'
  BY <1>2 DEF Dispatch, ThreadCount, ThreadAnswer, ThreadEnd, OnePlace
<1>3. CASE Lose
  BY <1>3 DEF Lose, serverVars, OnePlace
<1>4. CASE UNCHANGED <<toServer, serverVars>>
  BY <1>4 DEF serverVars, OnePlace
<1> QED
  BY <1>1, <1>2, <1>3, <1>4
     DEF Next, ClientStep, ServerStep, Socket, SocketFails, StartOver,
         RecvNothing, RecvAnswer, serverVars, vars

-----------------------------------------------------------------------------
(* Sockets: get_request closes the one it used before it makes another.    *)

LEMMA SocketStep == TypeOK /\ SocketInv /\ [Next]_vars => SocketInv'
<1> SUFFICES ASSUME TypeOK, SocketInv, [Next]_vars PROVE SocketInv'
  OBVIOUS
<1> USE DEF TypeOK, SocketInv
<1>0. \A o \in opened : o[1] \in Clients /\ o = <<o[1], o[2]>>
  OBVIOUS
<1>1. ASSUME NEW c \in Clients, Socket(c) PROVE SocketInv'
  BY <1>0, <1>1 DEF Socket, Goes
<1>2. ASSUME NEW c \in Clients, SocketFails(c) PROVE SocketInv'
  BY <1>2 DEF SocketFails
<1>3. ASSUME NEW c \in Clients, Send(c) PROVE SocketInv'
  BY <1>0, <1>3 DEF Send, Goes
<1>4. ASSUME NEW c \in Clients, StartOver(c) PROVE SocketInv'
  BY <1>0, <1>4 DEF StartOver, Goes
<1>5. ASSUME NEW c \in Clients, RecvNothing(c) PROVE SocketInv'
  BY <1>0, <1>5 DEF RecvNothing, Goes
<1>6. ASSUME NEW c \in Clients, RecvAnswer(c) PROVE SocketInv'
  BY <1>0, <1>6 DEF RecvAnswer, Goes
<1>7. CASE UNCHANGED clientVars
  BY <1>7 DEF clientVars
<1> QED
  BY <1>1, <1>2, <1>3, <1>4, <1>5, <1>6, <1>7
     DEF Next, ClientStep, ServerStep, Lose, Dispatch, ThreadCount, ThreadAnswer,
         ThreadEnd, vars

\* The inductive invariant of the client requests holds in every state.
THEOREM ExchangeInvariance == Spec => []ExchangeInv
<1>1. ExchangeInv /\ [Next]_vars => ExchangeInv'
  BY CountedStep, TypeStep, CounterInvStep, SentOnceStep, OnePlaceStep, SocketStep
     DEF ExchangeInv
<1> QED BY ExchangeInit, <1>1, PTL DEF Spec

-----------------------------------------------------------------------------
(* The properties.                                                         *)

\* The copies of a request have different counts, all of them below MaxRetry.
LEMMA CopiesAreFew ==
    ASSUME ExchangeInv, NEW c \in Clients
    PROVE  Cardinality(Copies(c)) < MaxRetry
<1> DEFINE T == 1 .. MaxRetry - 1
           f == [d \in Copies(c) |-> d.n]
<1>1. \A d \in Copies(c) : d \in Datagrams /\ d.client = c
  BY DEF Copies, Datagrams, OnServer
<1>2. \A d \in Copies(c) : d.n \in T
  BY <1>1, DatagramTypes, ExchangeAssumption DEF ExchangeInv, CounterInv, Counter
<1>3. f \in [Copies(c) -> T]
  BY <1>2
<1>4. \A d, e \in Copies(c) : f[d] = f[e] => d = e
  BY <1>1 DEF ExchangeInv, SentOnce
<1>5. f \in Injection(Copies(c), T)
  BY <1>3, <1>4 DEF Injection, IsInjective
<1>6. IsFiniteSet(T) /\ Cardinality(T) = MaxRetry - 1
  BY FS_Interval, ExchangeAssumption
<1> HIDE DEF T, f
<1>7. IsFiniteSet(Copies(c)) /\ Cardinality(Copies(c)) <= Cardinality(T)
  BY <1>5, <1>6, FS_Injection
<1>8. Cardinality(Copies(c)) \in Nat
  BY <1>7, FS_CardinalityType
<1> QED BY <1>6, <1>7, <1>8, ExchangeAssumption

\* req_count is exact, a request is sent at most MaxRetry - 1 times, get_request
\* returns true only with an answer and with its socket closed, and has at most
\* one socket open: for any number of clients, retries and requests.
THEOREM ExchangeIsSound == Spec => []ExchangeSound
<1>1. ExchangeInv => ExchangeSound
  <2> SUFFICES ASSUME ExchangeInv PROVE ExchangeSound
    OBVIOUS
  <2>1. TypeOK /\ CountExact
    BY DEF ExchangeInv, Counted
  <2>2. SendsBounded
    BY CopiesAreFew DEF SendsBounded
  <2>3. TrueMeansAnswered
    BY DEF ExchangeInv, SocketInv, TrueMeansAnswered
  <2>4. OneSocket
    <3>1. \A o \in opened : o = <<o[1], o[2]>>
      BY DEF ExchangeInv, TypeOK
    <3> QED BY <3>1 DEF ExchangeInv, SocketInv, OneSocket
  <2> QED BY <2>1, <2>2, <2>3, <2>4 DEF ExchangeSound
<1> QED BY <1>1, ExchangeInvariance, PTL

-----------------------------------------------------------------------------
(* Supervision.  While main() starts, the slots behind it have a thread;   *)
(* afterwards all have, but the one whose thread it creates again.         *)

HasThread(s) == phase[s] \in {"starting", "serving", "ended"}

Behind == [control |-> {}, transfer |-> {"control"},
           client |-> {"control", "transfer"}]

SlotsInv ==
    /\ doing = "start" =>
          /\ at \in S!Slots
          /\ \A s \in S!Slots : IF s \in Behind[at] THEN HasThread(s)
                                ELSE phase[s] = "none"
    /\ doing = "loop" => \A s \in S!Slots : HasThread(s)
    /\ doing = "restart" =>
          /\ at \in S!Slots /\ phase[at] = "joined"
          /\ \A s \in S!Slots \ {at} : HasThread(s)

LEMMA SlotsInit == S!MishapsAssumption /\ S!Init => S!TypeOK /\ SlotsInv
  BY DEF S!MishapsAssumption, S!Init, S!TypeOK, S!FirstCreated, S!Slots, S!Roles,
     SlotsInv, HasThread, Behind

LEMMA SlotsStep ==
    S!MishapsAssumption /\ S!TypeOK /\ SlotsInv /\ [S!Next]_S!vars =>
        S!TypeOK' /\ SlotsInv'
<1> SUFFICES ASSUME S!MishapsAssumption, S!TypeOK, SlotsInv, [S!Next]_S!vars
             PROVE  S!TypeOK' /\ SlotsInv'
  OBVIOUS
<1> USE DEF S!MishapsAssumption, S!TypeOK, S!Slots, S!Roles, SlotsInv, HasThread,
        Behind
<1>1. CASE S!Create
  BY <1>1 DEF S!Create, S!Thread, S!NextCreated
<1>2. CASE S!Wake
  BY <1>2 DEF S!Wake, S!FirstJoined
<1>3. CASE S!NotEnded
  BY <1>3 DEF S!NotEnded, S!NextJoined
<1>4. CASE S!Join
  BY <1>4 DEF S!Join
<1>5. CASE S!Restart
  BY <1>5 DEF S!Restart, S!Thread, S!NextJoined
<1>6. ASSUME NEW s \in S!Slots, S!Bind(s) \/ S!BindFails(s) \/ S!CallFails(s)
             \/ S!SelectFails(s)
      PROVE  S!TypeOK' /\ SlotsInv'
  BY <1>6 DEF S!Bind, S!BindFails, S!CallFails, S!SelectFails
<1>7. ASSUME NEW r \in S!Roles, S!Occupy(r) \/ S!Release(r)
      PROVE  S!TypeOK' /\ SlotsInv'
  BY <1>7 DEF S!Occupy, S!Release
<1>8. CASE UNCHANGED S!vars
  BY <1>8 DEF S!vars
<1> QED
  BY <1>1, <1>2, <1>3, <1>4, <1>5, <1>6, <1>7, <1>8
     DEF S!Next, S!MainStep, S!ThreadStep

\* main() joins no thread twice, for any number of ports that other processes
\* take.
THEOREM SlotsAreSound == S!Spec => []SlotsSound
<1>0. S!MishapsAssumption
  BY SupervisorConstants
<1>1. S!Init => S!TypeOK /\ SlotsInv
  BY <1>0, SlotsInit
<1>2. S!TypeOK /\ SlotsInv /\ [S!Next]_S!vars => S!TypeOK' /\ SlotsInv'
  BY <1>0, SlotsStep
<1>3. S!TypeOK /\ SlotsInv => SlotsSound
  BY DEF S!TypeOK, SlotsInv, HasThread, SlotsSound, S!SlotsSound, S!NeverJoinedTwice
<1> QED BY <1>1, <1>2, <1>3, PTL DEF S!Spec

\* A dispatcher that serves the port of a slot keeps it, unless it is the client
\* dispatcher: none is replaced by the control dispatchers created in wrong slots.
THEOREM ServingIsKept == S!Spec => S!ServingKept
<1>0. S!MishapsAssumption
  BY SupervisorConstants
<1> DEFINE Kept == \A s \in S!Slots : phase[s] = "serving" /\ role[s] # "client"
                       => phase'[s] = "serving" /\ role'[s] = role[s]
<1>1. S!Init => S!TypeOK /\ SlotsInv
  BY <1>0, SlotsInit
<1>2. S!TypeOK /\ SlotsInv /\ [S!Next]_S!vars => S!TypeOK' /\ SlotsInv'
  BY <1>0, SlotsStep
<1>3. S!TypeOK /\ SlotsInv /\ [S!Next]_S!vars => Kept
  <2> SUFFICES ASSUME S!TypeOK, SlotsInv, [S!Next]_S!vars PROVE Kept
    OBVIOUS
  <2> USE DEF S!TypeOK, S!Slots, S!Roles, SlotsInv, HasThread, Behind
  <2>1. CASE S!Create \/ S!Restart
    BY <2>1 DEF S!Create, S!Restart, S!Thread
  <2>2. CASE S!Join
    BY <2>2 DEF S!Join
  <2>3. ASSUME NEW s \in S!Slots, S!Bind(s) \/ S!BindFails(s) \/ S!CallFails(s)
             \/ S!SelectFails(s)
        PROVE  Kept
    BY <2>3 DEF S!Bind, S!BindFails, S!CallFails, S!SelectFails
  <2>4. CASE UNCHANGED <<phase, role>>
    BY <2>4
  <2> QED
    BY <2>1, <2>2, <2>3, <2>4
       DEF S!Next, S!MainStep, S!ThreadStep, S!Wake, S!NotEnded, S!Occupy,
           S!Release, S!vars
<1> QED BY <1>1, <1>2, <1>3, PTL DEF S!Spec, S!ServingKept

-----------------------------------------------------------------------------
(* Receiving.  Until recv() fails, the count is what was taken; after that *)
(* it only loses.                                                          *)

CountInv ==
    /\ F!Running /\ ~broken => total = taken /\ total <= length
    /\ F!Running => taken <= length
    /\ part = "length" => length = LengthSize
    /\ part = "message" => length <= MaxLength
    /\ part \in {"message", "received"} /\ ~broken => length = announced
    /\ part = "received" /\ ~broken => taken = announced
    /\ F!CountedArrived /\ F!OverrunAnnounced

LEMMA CountInit == F!FramingAssumption /\ F!Init => F!TypeOK /\ CountInv
<1> SUFFICES ASSUME F!FramingAssumption, F!Init PROVE F!TypeOK /\ CountInv
  OBVIOUS
<1>1. F!TypeOK
  <2>1. broken \in BOOLEAN /\ silent \in BOOLEAN
    BY DEF F!Init
  <2> QED BY <2>1 DEF F!FramingAssumption, F!Init, F!TypeOK
<1>2. CountInv
  BY DEF F!FramingAssumption, F!Init, F!Running, F!Short, F!CountedArrived,
     F!OverrunAnnounced, CountInv
<1> QED BY <1>1, <1>2

LEMMA CountStep ==
    F!FramingAssumption /\ F!TypeOK /\ CountInv /\ [F!Next]_F!vars =>
        F!TypeOK' /\ CountInv'
<1> SUFFICES ASSUME F!FramingAssumption, F!TypeOK, CountInv, [F!Next]_F!vars
             PROVE  F!TypeOK' /\ CountInv'
  OBVIOUS
<1> USE DEF F!FramingAssumption, F!TypeOK, F!Running, F!Short, F!CountedArrived,
        F!OverrunAnnounced, CountInv
<1>1. ASSUME NEW n \in 1 .. length, F!RecvSome(n) PROVE F!TypeOK' /\ CountInv'
  <2>1. total + n \in 0 .. Width - 1 /\ total' = total + n
    BY <1>1 DEF F!RecvSome
  <2> QED BY <1>1, <2>1 DEF F!RecvSome
<1>2. CASE F!RecvClosed
  BY <1>2 DEF F!RecvClosed
<1>3. CASE F!RecvError
  <2>1. total' = IF total = 0 THEN Width - 1 ELSE total - 1
    BY <1>3 DEF F!RecvError
  <2> QED BY <1>3, <2>1 DEF F!RecvError
<1>4. CASE F!LengthDone
  BY <1>4 DEF F!LengthDone
<1>5. CASE F!MessageDone
  BY <1>5 DEF F!MessageDone
<1>6. CASE F!NextMessage
  BY <1>6 DEF F!NextMessage
<1>7. CASE F!FallSilent \/ UNCHANGED F!vars
  BY <1>7 DEF F!FallSilent, F!vars
<1> QED
  BY <1>1, <1>2, <1>3, <1>4, <1>5, <1>6, <1>7 DEF F!Next, F!Step, F!Receive

\* No byte is counted before it came, and unless a recv() failed, a message that
\* is returned is whole and only one that was sent too long overruns the buffer:
\* for any width of the counters, any lengths and any buffer.
THEOREM FramingIsSound == F!Spec => []FramingSound
<1>0. F!FramingAssumption
  BY FramingConstants
<1>1. F!Init => F!TypeOK /\ CountInv
  BY <1>0, CountInit
<1>2. F!TypeOK /\ CountInv /\ [F!Next]_F!vars => F!TypeOK' /\ CountInv'
  BY <1>0, CountStep
<1>3. F!TypeOK /\ CountInv => FramingSound
  BY DEF F!TypeOK, CountInv, FramingSound, F!FramingSound, F!ReceivedWhole
<1> QED BY <1>1, <1>2, <1>3, PTL DEF F!Spec

-----------------------------------------------------------------------------
(* The threads of the agent.  The sources have different paths; what main() *)
(* unregisters stays cancelled until it has been joined.                   *)

SourcesInv ==
    /\ IsInjective(sources)
    /\ \A s, t \in I!Registered : PathOf[s] = PathOf[t] => s = t
    /\ main \in {"connect", "syslog"} => sources = <<>>
    /\ main \in {"lock", "rules"} => tgt \in I!Registered
    /\ main = "join" => tgt \in Sources \ I!Registered
    /\ I!MonitorHasSource
    /\ I!OnlyJoinedCancelled

LEMMA SourcesInit == I!SourceAssumption /\ I!Init => I!TypeOK /\ SourcesInv
<1> SUFFICES ASSUME I!SourceAssumption, I!Init PROVE I!TypeOK /\ SourcesInv
  OBVIOUS
<1>1. I!TypeOK
  BY DEF I!Init, I!TypeOK
<1>2. SourcesInv
  BY DEF I!Init, SourcesInv, IsInjective, I!Registered, I!Range,
     I!MonitorHasSource, I!OnlyJoinedCancelled
<1> QED BY <1>1, <1>2

\* createIS() gives a path its only source.
LEMMA CreateStep ==
    ASSUME I!TypeOK, SourcesInv, NEW s \in Sources, I!CreateIS(s), main # "join",
           main' = "loop", UNCHANGED <<tgt, cancelled>>
    PROVE  /\ sources' \in Seq(Sources) /\ SourcesInv'
           /\ mon' = [mon EXCEPT ![s] = "read"]
           /\ rulesHolder' = [rulesHolder EXCEPT ![s] = "none"]
<1>1. /\ mon[s] = "none" /\ mon' = [mon EXCEPT ![s] = "read"]
      /\ rulesHolder' = [rulesHolder EXCEPT ![s] = "none"]
      /\ sources' = Append(sources, s) /\ sources \in Seq(Sources)
      /\ \A t \in I!Registered : PathOf[t] # PathOf[s]
  BY DEF I!CreateIS, I!TypeOK
<1>2. s \notin Range(sources)
  BY <1>1 DEF SourcesInv, I!MonitorHasSource, I!Registered, I!Range, Range
<1>3. /\ sources' \in Seq(Sources) /\ IsInjective(sources')
      /\ Range(sources') = Range(sources) \cup {s}
  BY <1>1, <1>2, AppendNew DEF SourcesInv
<1>4. I!Registered' = I!Registered \cup {s}
  BY <1>3 DEF I!Registered, I!Range, Range
<1>5. {t \in Sources : mon'[t] # "none"} = {t \in Sources : mon[t] # "none"} \cup {s}
  BY <1>1 DEF I!TypeOK
<1>6. I!MonitorHasSource' /\ I!OnlyJoinedCancelled'
  BY <1>4, <1>5 DEF SourcesInv, I!MonitorHasSource, I!OnlyJoinedCancelled
<1> QED BY <1>1, <1>3, <1>4, <1>6 DEF SourcesInv

LEMMA SourcesStep ==
    I!SourceAssumption /\ I!TypeOK /\ SourcesInv /\ [I!Next]_I!vars =>
        I!TypeOK' /\ SourcesInv'
<1> SUFFICES ASSUME I!SourceAssumption, I!TypeOK, SourcesInv, [I!Next]_I!vars
             PROVE  I!TypeOK' /\ SourcesInv'
  OBVIOUS
<1> USE DEF I!SourceAssumption
<1>1. ASSUME NEW s \in Sources, I!CreateIS(s), main \in {"syslog", "loop"},
             main' = "loop", UNCHANGED <<tgt, cancelled, sockHolder>>
      PROVE  I!TypeOK' /\ SourcesInv'
  <2>1. /\ sources' \in Seq(Sources) /\ SourcesInv'
        /\ mon' = [mon EXCEPT ![s] = "read"]
        /\ rulesHolder' = [rulesHolder EXCEPT ![s] = "none"]
    BY <1>1, CreateStep
  <2> QED BY <1>1, <2>1 DEF I!TypeOK
<1>2. CASE /\ UNCHANGED <<sources, mon, cancelled, sockHolder>>
           /\ \/ I!Connect \/ I!RulesLock \/ I!RulesUnlock \/ I!ForkFails
              \/ I!LeaveLoop \/ I!Disconnect
              \/ \E s \in Sources : I!ChangeRules(s)
  <2>1. I!Registered' = I!Registered
    BY <1>2 DEF I!Registered, I!Range
  <2>2. I!Registered \subseteq Sources
    BY DEF I!TypeOK, I!Registered, I!Range
  <2>3. I!TypeOK'
    BY <1>2, <2>2 DEF I!TypeOK, SourcesInv, I!Connect, I!RulesLock,
       I!RulesUnlock, I!ForkFails, I!LeaveLoop, I!Disconnect, I!ChangeRules,
       I!MainGoes
  <2>4. I!MonitorHasSource' /\ I!OnlyJoinedCancelled'
    BY <1>2, <2>1 DEF SourcesInv, I!MonitorHasSource, I!OnlyJoinedCancelled,
       I!Connect, I!RulesLock, I!RulesUnlock, I!ForkFails, I!LeaveLoop,
       I!Disconnect, I!ChangeRules, I!MainGoes
  <2> QED
    BY <1>2, <2>1, <2>3, <2>4 DEF SourcesInv, I!Connect, I!RulesLock,
       I!RulesUnlock, I!ForkFails, I!LeaveLoop, I!Disconnect, I!ChangeRules,
       I!MainGoes
<1>3. CASE main = "syslog" /\ main' = "loop"
           /\ UNCHANGED <<tgt, sources, mon, cancelled, rulesHolder, sockHolder>>
  BY <1>3 DEF I!TypeOK, SourcesInv, I!Registered, I!MonitorHasSource,
     I!OnlyJoinedCancelled
<1>4. CASE I!Unregister
  <2>1. /\ main = "unregister" /\ main' = "join" /\ sources # <<>>
        /\ tgt' = Head(sources) /\ sources' = Tail(sources)
        /\ cancelled' = cancelled \cup {Head(sources)}
        /\ UNCHANGED <<mon, rulesHolder, sockHolder>>
    BY <1>4 DEF I!Unregister, I!MainGoes
  <2>2. /\ sources' \in Seq(Sources) /\ Head(sources) \in Range(sources)
        /\ IsInjective(sources')
        /\ Range(sources') = Range(sources) \ {Head(sources)}
    BY <2>1, TailOfInjective DEF SourcesInv, I!TypeOK
  <2>3. /\ I!Registered' = I!Registered \ {tgt'}
        /\ tgt' \in I!Registered /\ tgt' \in Sources
    <3>1. Range(sources) = I!Registered /\ Range(sources') = I!Registered'
      BY DEF I!Registered, I!Range, Range
    <3>2. I!Registered \subseteq Sources
      BY DEF I!TypeOK, I!Registered, I!Range
    <3> QED BY <2>1, <2>2, <3>1, <3>2
  <2>4. I!MonitorHasSource' /\ I!OnlyJoinedCancelled'
    BY <2>1, <2>3 DEF SourcesInv, I!MonitorHasSource, I!OnlyJoinedCancelled
  <2> QED BY <2>1, <2>2, <2>3, <2>4 DEF I!TypeOK, SourcesInv
<1>5. CASE I!Join
  <2>1. /\ main = "join" /\ main' = "unregister"
        /\ mon' = [mon EXCEPT ![tgt] = "none"] /\ cancelled' = cancelled \ {tgt}
        /\ tgt' = NoSource /\ UNCHANGED <<sources, rulesHolder, sockHolder>>
    BY <1>5 DEF I!Join, I!MainGoes
  <2>2. I!Registered' = I!Registered /\ tgt \in Sources \ I!Registered
    BY <2>1 DEF I!Registered, SourcesInv
  <2>3. I!MonitorHasSource' /\ I!OnlyJoinedCancelled'
    BY <2>1, <2>2 DEF I!TypeOK, SourcesInv, I!MonitorHasSource,
       I!OnlyJoinedCancelled
  <2> QED BY <2>1, <2>2, <2>3 DEF I!TypeOK, SourcesInv
<1>6. ASSUME NEW s \in Sources, I!MonStep(s) \/ I!Cancelled(s)
      PROVE  I!TypeOK' /\ SourcesInv'
  <2>1. /\ UNCHANGED <<main, tgt, sources, cancelled>> /\ mon[s] # "none"
        /\ \E to \in {"read", "lock", "parse", "wait", "send", "ended"} :
              mon' = [mon EXCEPT ![s] = to]
        /\ \/ UNCHANGED rulesHolder
           \/ \E h \in {"none", "monitor", "left"} :
                 rulesHolder' = [rulesHolder EXCEPT ![s] = h]
        /\ sockHolder' \in {sockHolder, s, NoSource, Left}
    BY <1>6 DEF I!MonStep, I!ReadEntry, I!ParseLock, I!ParseEnd, I!ParseFails,
       I!SendLock, I!SendEnd, I!Cancelled, I!MonGoes
  <2>2. I!TypeOK'
    BY <2>1 DEF I!TypeOK
  <2>3. {t \in Sources : mon'[t] # "none"} = {t \in Sources : mon[t] # "none"}
    BY <2>1 DEF I!TypeOK
  <2> QED
    BY <2>1, <2>2, <2>3 DEF SourcesInv, I!Registered, I!MonitorHasSource,
       I!OnlyJoinedCancelled
<1>7. ASSUME NEW s \in Sources, I!Killed(s) PROVE I!TypeOK' /\ SourcesInv'
  <2>1. /\ main' = "killed" /\ tgt' = NoSource /\ sources' = <<>> /\ cancelled' = {}
        /\ mon' = [t \in Sources |-> "none"] /\ sockHolder' = NoSource
        /\ rulesHolder' = [t \in Sources |-> "none"]
    BY <1>7 DEF I!Killed
  <2>2. I!Registered' = {}
    BY <2>1 DEF I!Registered, I!Range
  <2>3. I!TypeOK'
    BY <2>1 DEF I!TypeOK
  <2>4. I!MonitorHasSource' /\ I!OnlyJoinedCancelled'
    BY <2>1, <2>2 DEF I!MonitorHasSource, I!OnlyJoinedCancelled
  <2>5. IsInjective(sources')
    BY <2>1 DEF IsInjective
  <2> QED BY <2>1, <2>2, <2>3, <2>4, <2>5 DEF SourcesInv
<1>8. CASE UNCHANGED I!vars
  BY <1>8 DEF I!vars, I!TypeOK, SourcesInv, I!Registered, I!MonitorHasSource,
     I!OnlyJoinedCancelled
<1> QED
  BY <1>1, <1>2, <1>3, <1>4, <1>5, <1>6, <1>7, <1>8
     DEF I!Next, I!MainStep, I!Command, I!AddSyslog, I!AddSource, I!MainGoes,
         I!Connect, I!RulesLock, I!RulesUnlock, I!ForkFails, I!LeaveLoop,
         I!Disconnect, I!ChangeRules

\* A log has one monitor, monitors and sources correspond, only what is being
\* destroyed is cancelled, and no monitor outlives the connection of the agent:
\* for any sources, paths and commands.
THEOREM MonitorsAreSound == I!Spec => []MonitorsSound
<1>0. I!SourceAssumption
  BY SourceConstants
<1>1. I!Init => I!TypeOK /\ SourcesInv
  BY <1>0, SourcesInit
<1>2. I!TypeOK /\ SourcesInv /\ [I!Next]_I!vars => I!TypeOK' /\ SourcesInv'
  BY <1>0, SourcesStep
<1>3. I!TypeOK /\ SourcesInv => MonitorsSound
  <2> SUFFICES ASSUME I!TypeOK, SourcesInv PROVE MonitorsSound
    OBVIOUS
  <2>1. I!OneMonitorPerPath
    BY DEF SourcesInv, I!MonitorHasSource, I!OnlyJoinedCancelled,
       I!OneMonitorPerPath
  <2>2. I!NoMonitorAcrossConnections
    BY DEF SourcesInv, I!MonitorHasSource, I!NoMonitorAcrossConnections,
       I!Registered, I!Range
  <2> QED BY <2>1, <2>2 DEF SourcesInv, MonitorsSound, I!MonitorsSound
<1> QED BY <1>1, <1>2, <1>3, PTL DEF I!Spec

-----------------------------------------------------------------------------
(* Rule files.  A rule is written only where a line was begun for it, and  *)
(* under a name that is not in the file.                                   *)

OneRuleEach(f) ==
    \A i, j \in 1 .. Len(f) : f[i] = f[j] /\ f[i] # Malformed => i = j

NameIsNew == \A i \in 1 .. Len(file) : file[i] # name

RuleInv ==
    /\ R!TypeOK
    /\ OneRuleEach(file)
    /\ treatPc \in {"newline", "write"} => NameIsNew
    /\ treatPc = "write" /\ file # <<>> => file[Len(file)] = Malformed

\* What is copied of a file, and that it has no repetitions if there were none.
LEMMA CopyWithout ==
    ASSUME NEW A, NEW s \in Seq(A), NEW l
    PROVE  /\ R!Without(l, s) \in Seq(A)
           /\ \A i \in 1 .. Len(R!Without(l, s)) :
                 /\ R!Without(l, s)[i] # l
                 /\ \E j \in 1 .. Len(s) : s[j] = R!Without(l, s)[i]
           /\ \A j \in 1 .. Len(s) :
                 s[j] # l => \E i \in 1 .. Len(R!Without(l, s)) : s[j] = R!Without(l, s)[i]
           /\ IsInjective(R!Without(l, s)) <=> UniqueBut(l, s, Len(s))
<1> DEFINE f == CHOOSE f : Filters(f, l, s)
<1>1. Filters(f, l, s)
  BY FilterExists, Zenon
<1>2. R!Without(l, s) = f[Len(s)]
  BY DEF R!Without, Filters
<1> HIDE DEF f
<1> QED BY <1>1, <1>2, FilterKeeps

\* Nothing is added, and all is kept if none is left out.
LEMMA WithoutIsShort ==
    ASSUME NEW A, NEW s \in Seq(A), NEW l
    PROVE  /\ R!Without(l, s) \in Seq(A) /\ Len(R!Without(l, s)) <= Len(s)
           /\ (\A i \in 1 .. Len(s) : s[i] # l) => R!Without(l, s) = s
<1> DEFINE f == CHOOSE f : Filters(f, l, s)
<1>1. Filters(f, l, s)
  BY FilterExists, Zenon
<1>2. R!Without(l, s) = f[Len(s)]
  BY DEF R!Without, Filters
<1> HIDE DEF f
<1>3. f[Len(s)] \in Seq(A) /\ Len(f[Len(s)]) <= Len(s)
  BY <1>1, FilterKeeps, FilterShortens
<1>4. (\A i \in 1 .. Len(s) : s[i] # l) => f[Len(s)] = s
  BY <1>1, FilterOfOthers
<1> QED BY <1>2, <1>3, <1>4

LEMMA AllButLast ==
    ASSUME NEW A, NEW s \in Seq(A), s # <<>>
    PROVE  /\ SubSeq(s, 1, Len(s) - 1) \in Seq(A)
           /\ Len(SubSeq(s, 1, Len(s) - 1)) = Len(s) - 1
           /\ \A i \in 1 .. Len(s) - 1 : SubSeq(s, 1, Len(s) - 1)[i] = s[i]
           /\ Len(s) \in Nat \ {0}
<1> DEFINE n == Len(s) - 1
           f == SubSeq(s, 1, n)
<1>1. Len(s) \in Nat \ {0} /\ n \in Int /\ n >= 0 /\ \A i \in 1 .. n : s[i] \in A
  OBVIOUS
<1> HIDE DEF n
<1>2. /\ f \in Seq(A) /\ Len(f) = (IF 1 <= n THEN n - 1 + 1 ELSE 0)
      /\ \A i \in 1 .. n - 1 + 1 : f[i] = s[1 + i - 1]
  <2> HIDE DEF f
  <2> QED BY <1>1, SubSeqProperties DEF f
<1> HIDE DEF f
<1>3. Len(f) = n /\ \A i \in 1 .. n : f[i] = s[i]
  BY <1>1, <1>2
<1> QED BY <1>1, <1>2, <1>3 DEF f, n

LEMMA EntriesAreFile ==
    ASSUME file \in Seq(R!Lines)
    PROVE  /\ R!Entries \in Seq(R!Lines)
           /\ Len(R!Entries) <= Len(file)
           /\ \A i \in 1 .. Len(R!Entries) : R!Entries[i] = file[i]
           /\ \A i \in 1 .. Len(file) : file[i] # Malformed => i \in 1 .. Len(R!Entries)
<1>1. CASE file # <<>> /\ R!Last(file) = Malformed
  <2>1. R!Entries = SubSeq(file, 1, Len(file) - 1)
    BY <1>1 DEF R!Entries, R!Front
  <2>2. file[Len(file)] = Malformed /\ Len(file) \in Nat \ {0}
    BY <1>1 DEF R!Last
  <2>3. /\ SubSeq(file, 1, Len(file) - 1) \in Seq(R!Lines)
        /\ Len(SubSeq(file, 1, Len(file) - 1)) = Len(file) - 1
        /\ \A i \in 1 .. Len(file) - 1 : SubSeq(file, 1, Len(file) - 1)[i] = file[i]
    BY <1>1, AllButLast
  <2> QED BY <2>1, <2>2, <2>3
<1>2. CASE ~(file # <<>> /\ R!Last(file) = Malformed)
  BY <1>2 DEF R!Entries
<1> QED BY <1>1, <1>2

LEMMA HasRuleIsSeen ==
    ASSUME file \in Seq(R!Lines), NEW n \in Names, R!RuleFileAssumption
    PROVE  R!HasRule(n) <=> \E i \in 1 .. Len(file) : file[i] = n
<1>1. n # Malformed
  BY DEF R!RuleFileAssumption
<1>2. R!HasRule(n) <=> \E i \in 1 .. Len(R!Entries) : R!Entries[i] = n
  BY EntriesAreFile DEF R!HasRule, R!Range
<1> QED BY <1>1, <1>2, EntriesAreFile

LEMMA RulesOfEntries ==
    ASSUME file \in Seq(R!Lines)
    PROVE  /\ R!Rules(R!Entries) \in Seq(R!Lines)
           /\ \A i \in 1 .. Len(R!Rules(R!Entries)) : R!Rules(R!Entries)[i] # Malformed
           /\ OneRuleEach(file) => IsInjective(R!Rules(R!Entries))
           /\ \A n \in Names \ {Malformed} :
                 (\E i \in 1 .. Len(file) : file[i] = n)
                    => \E i \in 1 .. Len(R!Rules(R!Entries)) : R!Rules(R!Entries)[i] = n
<1> DEFINE e == R!Entries
           r == R!Rules(e)
<1>1. /\ e \in Seq(R!Lines)
      /\ Len(e) <= Len(file)
      /\ \A i \in 1 .. Len(e) : e[i] = file[i]
      /\ \A i \in 1 .. Len(file) : file[i] # Malformed => i \in 1 .. Len(e)
  BY EntriesAreFile
<1>2. /\ r \in Seq(R!Lines)
      /\ \A i \in 1 .. Len(r) : r[i] # Malformed
      /\ \A j \in 1 .. Len(e) : e[j] # Malformed => \E i \in 1 .. Len(r) : e[j] = r[i]
      /\ IsInjective(r) <=> UniqueBut(Malformed, e, Len(e))
  <2> HIDE DEF e
  <2> QED BY <1>1, CopyWithout DEF R!Rules
<1>3. OneRuleEach(file) => UniqueBut(Malformed, e, Len(e))
  <2> HIDE DEF e
  <2> QED BY <1>1 DEF OneRuleEach, UniqueBut
<1> HIDE DEF e, r
<1>4. \A n \in Names \ {Malformed} :
         (\E i \in 1 .. Len(file) : file[i] = n) => \E i \in 1 .. Len(r) : r[i] = n
  BY <1>1, <1>2
<1> QED BY <1>2, <1>3, <1>4 DEF e, r

\* What mv puts in the place of the file.
LEMMA KeptIsSound ==
    ASSUME file \in Seq(R!Lines), R!RuleFileAssumption
    PROVE  /\ R!Kept \in Seq(R!Lines)
           /\ OneRuleEach(file) => OneRuleEach(R!Kept)
           /\ \A n \in Names \ {name} :
                 (\E i \in 1 .. Len(file) : file[i] = n)
                    => \E i \in 1 .. Len(R!Kept) : R!Kept[i] = n
<1> DEFINE r == R!Rules(R!Entries)
           k == R!Kept
<1>1. /\ r \in Seq(R!Lines)
      /\ OneRuleEach(file) => IsInjective(r)
      /\ \A n \in Names \ {Malformed} :
            (\E i \in 1 .. Len(file) : file[i] = n) => \E i \in 1 .. Len(r) : r[i] = n
  BY RulesOfEntries
<1>2. /\ k \in Seq(R!Lines)
      /\ \A j \in 1 .. Len(r) : r[j] # name => \E i \in 1 .. Len(k) : r[j] = k[i]
      /\ IsInjective(k) <=> UniqueBut(name, r, Len(r))
  <2> HIDE DEF r
  <2>1. k = R!Without(name, r)
    BY DEF R!Kept, r
  <2>2. r \in Seq(R!Lines)
    BY <1>1
  <2> HIDE DEF k
  <2>3. /\ R!Without(name, r) \in Seq(R!Lines)
        /\ \A j \in 1 .. Len(r) :
              r[j] # name => \E i \in 1 .. Len(R!Without(name, r)) :
                                r[j] = R!Without(name, r)[i]
        /\ IsInjective(R!Without(name, r)) <=> UniqueBut(name, r, Len(r))
    BY <2>2, CopyWithout, SMTT(30)
  <2> QED BY <2>1, <2>3, Zenon
<1> HIDE DEF r, k
<1>3. OneRuleEach(file) => OneRuleEach(k)
  <2>1. IsInjective(r) => UniqueBut(name, r, Len(r))
    BY <1>1 DEF IsInjective, UniqueBut
  <2>2. IsInjective(k) => OneRuleEach(k)
    BY <1>2 DEF IsInjective, OneRuleEach
  <2> QED BY <1>1, <1>2, <2>1, <2>2
<1>4. \A n \in Names \ {name} :
         (\E i \in 1 .. Len(file) : file[i] = n) => \E i \in 1 .. Len(k) : k[i] = n
  BY <1>1, <1>2 DEF R!RuleFileAssumption
<1> QED BY <1>2, <1>3, <1>4 DEF k

\* The order of multiples.
LEMMA Multiples ==
    ASSUME NEW a \in Int, NEW b \in Int, NEW d \in Nat \ {0}
    PROVE  /\ a * d \in Int /\ (a + 1) * d = a * d + d
           /\ a <= b <=> a * d <= b * d
<1>1. a * d \in Int /\ b * d \in Int /\ (a + 1) * d = a * d + d
  OBVIOUS
<1>2. \A k \in Nat : k * d >= 0 /\ k * d \in Int
  OBVIOUS
<1>3. a <= b => b - a \in Nat /\ b * d = a * d + (b - a) * d
  OBVIOUS
<1>4. b < a => a - b - 1 \in Nat /\ a * d = b * d + (a - b - 1) * d + d
  OBVIOUS
<1> QED BY <1>1, <1>2, <1>3, <1>4

\* An entry is on the page that its number falls on.
LEMMA OnPageBounds ==
    ASSUME NEW n \in Nat, NEW page \in Nat, R!RuleFileAssumption
    PROVE  R!OnPage(n, page) <=> /\ (page - 1) * EntriesPerPage < n
                                 /\ n <= (page - 1) * EntriesPerPage + EntriesPerPage
<1> DEFINE E == EntriesPerPage
           q == n \div E
           r == n % E
<1>1. E \in Nat \ {0}
  BY DEF R!RuleFileAssumption
<1>2. q \in Nat /\ r \in 0 .. E - 1 /\ n = q * E + r
  BY <1>1, Division
<1>3. R!OnPage(n, page) <=> IF r # 0 THEN q + 1 = page ELSE q + 1 = page + 1
  BY DEF R!OnPage
<1> HIDE DEF E, q, r
<1> DEFINE p == page - 1
<1>4. p \in Int /\ page = p + 1
  OBVIOUS
<1> HIDE DEF p
<1>5. /\ p * E \in Int /\ q * E \in Int
      /\ p <= q <=> p * E <= q * E
      /\ q <= p <=> q * E <= p * E
      /\ p + 1 <= q <=> p * E + E <= q * E
      /\ q <= p + 1 <=> q * E <= p * E + E
      /\ q + 1 <= p <=> q * E + E <= p * E
  <2>1. /\ p * E \in Int /\ (p + 1) * E = p * E + E
        /\ p <= q <=> p * E <= q * E
    BY <1>1, <1>2, <1>4, Multiples
  <2>2. /\ q * E \in Int /\ (q + 1) * E = q * E + E
        /\ q <= p <=> q * E <= p * E
    BY <1>1, <1>2, <1>4, Multiples
  <2>3. p + 1 <= q <=> (p + 1) * E <= q * E
    BY <1>1, <1>2, <1>4, Multiples
  <2>4. q <= p + 1 <=> q * E <= (p + 1) * E
    BY <1>1, <1>2, <1>4, Multiples
  <2>5. q + 1 <= p <=> (q + 1) * E <= p * E
    BY <1>1, <1>2, <1>4, Multiples
  <2> QED BY <2>1, <2>2, <2>3, <2>4, <2>5
<1>6. R!OnPage(n, page) <=> p * E < n /\ n <= p * E + E
  <2> DEFINE pe == p * E
             qe == q * E
  <2>1. /\ pe \in Int /\ qe \in Int /\ n = qe + r
        /\ p <= q <=> pe <= qe
        /\ q <= p <=> qe <= pe
        /\ p + 1 <= q <=> pe + E <= qe
        /\ q <= p + 1 <=> qe <= pe + E
        /\ q + 1 <= p <=> qe + E <= pe
    BY <1>2, <1>5
  <2>2. R!OnPage(n, page) <=> pe < n /\ n <= pe + E
    <3> HIDE DEF pe, qe
    <3>1. CASE r = 0
      <4>1. R!OnPage(n, page) <=> q = p + 1
        BY <1>2, <1>3, <1>4, <3>1
      <4>2. n = qe
        BY <2>1, <3>1
      <4> QED BY <1>1, <1>2, <1>4, <2>1, <4>1, <4>2
    <3>2. CASE r # 0
      <4>1. R!OnPage(n, page) <=> q = p
        BY <1>2, <1>3, <1>4, <3>2
      <4> QED BY <1>1, <1>2, <1>4, <2>1, <3>2, <4>1
    <3> QED BY <3>1, <3>2
  <2> QED BY <2>2
<1> QED BY <1>6 DEF p, E

\* How a page is made: from what it holds before an entry, what it holds behind.
PageAcc == [n : Nat, names : Seq(Names)]
PageStart == [n |-> 0, names |-> <<>>]
PageEntry(acc, l, page) ==
    IF ~R!OnPage(acc.n + 1, page) THEN [acc EXCEPT !.n = @ + 1]
    ELSE IF l = Malformed THEN acc
    ELSE [n |-> acc.n + 1, names |-> Append(acc.names, l)]

Paged(g, e, page) ==
    /\ g[0] = PageStart
    /\ \A i \in 1 .. Len(e) : g[i] = PageEntry(g[i - 1], e[i], page)
    /\ \A i \in 0 .. Len(e) : g[i] \in PageAcc

LEMMA PageIsPaged ==
    ASSUME file \in Seq(R!Lines), NEW page \in Nat
    PROVE  \E g : Paged(g, R!Entries, page) /\ R!Page(page) = g[Len(R!Entries)].names
<1> DEFINE e == R!Entries
           A == [n : Nat, names : Seq(Names)]
           a == [n |-> 0, names |-> <<>>]
           Entry(acc, l) ==
              IF ~R!OnPage(acc.n + 1, page) THEN [acc EXCEPT !.n = @ + 1]
              ELSE IF l = Malformed THEN acc
              ELSE [n |-> acc.n + 1, names |-> Append(acc.names, l)]
           step == [i \in Nat |-> [acc \in A |->
                      IF i \in 1 .. Len(e) THEN Entry(acc, e[i]) ELSE acc]]
           Shown(f) == f = [i \in 0 .. Len(e) |->
                              IF i = 0 THEN a ELSE Entry(f[i - 1], e[i])]
<1>1. e \in Seq(Names \cup {Malformed}) /\ Len(e) \in Nat /\ a \in A
  BY EntriesAreFile DEF R!Lines
<1>2. ASSUME NEW acc \in A, NEW i \in 1 .. Len(e) PROVE Entry(acc, e[i]) \in A
  <2>1. e[i] \in Names \cup {Malformed}
    BY <1>1
  <2>2. acc.n + 1 \in Nat /\ acc.names \in Seq(Names)
    OBVIOUS
  <2>3. [acc EXCEPT !.n = @ + 1] \in A
    OBVIOUS
  <2>4. ASSUME e[i] # Malformed
        PROVE  [n |-> acc.n + 1, names |-> Append(acc.names, e[i])] \in A
    BY <2>1, <2>2, <2>4
  <2> HIDE DEF A, e
  <2> QED BY <2>3, <2>4
<1>3. step \in [Nat -> [A -> A]]
  <2> HIDE DEF A, e, Entry
  <2> QED BY <1>2
<1>4. PICK f : Recurs(f, A, a, step, Len(e))
  <2> HIDE DEF step, A, a, e
  <2> QED BY <1>1, <1>3, RecursionOnRange
<1>5. Shown(f)
  <2> HIDE DEF A, e, Entry
  <2>1. f \in [0 .. Len(e) -> A] /\ f[0] = a
    BY <1>4 DEF Recurs
  <2>2. ASSUME NEW i \in 1 .. Len(e) PROVE f[i] = Entry(f[i - 1], e[i])
    <3>1. f[i - 1] \in A /\ i \in Nat
      BY <1>1, <2>1
    <3>2. f[i] = step[i][f[i - 1]]
      <4> HIDE DEF step
      <4> QED BY <1>4 DEF Recurs
    <3> QED BY <3>1, <3>2
  <2> DEFINE Value(i) == IF i = 0 THEN a ELSE Entry(f[i - 1], e[i])
  <2>3. ASSUME NEW i \in 0 .. Len(e) PROVE f[i] = Value(i)
    <3> HIDE DEF a
    <3>1. CASE i = 0
      BY <2>1, <3>1
    <3>2. CASE i # 0
      <4>1. i \in 1 .. Len(e)
        BY <1>1, <3>2
      <4> QED BY <2>2, <3>2, <4>1
    <3> QED BY <3>1, <3>2
  <2>4. f = [i \in 0 .. Len(e) |-> f[i]]
    BY <2>1
  <2>5. f = [i \in 0 .. Len(e) |-> Value(i)]
    <3> HIDE DEF Value
    <3> QED BY <2>3, <2>4
  <2> QED BY <2>5
<1> DEFINE g == CHOOSE g : Shown(g)
<1>6. Shown(g)
  <2> HIDE DEF Shown
  <2> QED BY <1>5, Zenon
<1>7. R!Page(page) = g[Len(e)].names
  BY DEF R!Page
<1>8. \A n \in 0 .. Len(e) : g[n] \in A
  <2> DEFINE T == {n \in Nat : n <= Len(e) => g[n] \in A}
  <2> HIDE DEF A, e, Entry, a, g
  <2>1. 0 \in T
    BY <1>1, <1>6
  <2>2. ASSUME NEW n \in T PROVE n + 1 \in T
    <3> SUFFICES ASSUME n + 1 <= Len(e) PROVE g[n + 1] \in A
      OBVIOUS
    <3>1. g[n] \in A /\ n + 1 \in 1 .. Len(e)
      BY <1>1
    <3>2. g[n + 1] = Entry(g[n], e[n + 1])
      BY <1>1, <1>6, <3>1
    <3> QED BY <1>2, <3>1, <3>2
  <2>3. T = Nat
    <3>1. T \subseteq Nat
      OBVIOUS
    <3> HIDE DEF T
    <3> QED BY <2>1, <2>2, <3>1, NatSetInduction
  <2> QED BY <1>1, <2>3
<1>9. Paged(g, e, page)
  <2> HIDE DEF e, g, A, Entry, a
  <2>1. g[0] = a /\ \A i \in 1 .. Len(e) : g[i] = Entry(g[i - 1], e[i])
    BY <1>1, <1>6
  <2> QED BY <1>8, <2>1 DEF Paged, A, a, Entry, PageAcc, PageStart, PageEntry
<1> QED
  <2> HIDE DEF g
  <2> QED BY <1>7, <1>9

\* A page holds names.
LEMMA PageOfNames ==
    ASSUME file \in Seq(R!Lines), NEW page \in Nat
    PROVE  R!Page(page) \in Seq(Names)
<1>1. Len(R!Entries) \in Nat
  BY EntriesAreFile
<1> QED BY <1>1, PageIsPaged DEF Paged, PageAcc


\* The names on a page, of the first n entries: those behind the lo entries of
\* the pages before it.
Held(n, lo) == IF n <= lo THEN 0
               ELSE IF n <= lo + EntriesPerPage THEN n - lo ELSE EntriesPerPage

LEMMA PageIsPart ==
    ASSUME file \in Seq(R!Lines), NEW page \in Nat \ {0}, R!RuleFileAssumption,
           \A i \in 1 .. Len(R!Entries) : R!Entries[i] # Malformed
    PROVE  LET e == R!Entries
               lo == (page - 1) * EntriesPerPage
           IN  /\ lo \in Nat
               /\ R!Page(page) \in Seq(Names)
               /\ Len(R!Page(page)) = Held(Len(e), lo)
               /\ \A j \in 1 .. Held(Len(e), lo) : R!Page(page)[j] = e[lo + j]
<1> DEFINE e == R!Entries
           lo == (page - 1) * EntriesPerPage
           E == EntriesPerPage
<1>1. lo \in Nat /\ E \in Nat \ {0}
  BY DEF R!RuleFileAssumption
<1>2. Len(e) \in Nat /\ \A i \in 1 .. Len(e) : e[i] \in Names /\ e[i] # Malformed
  BY EntriesAreFile DEF R!Lines
<1>3. \A n \in Nat : R!OnPage(n, page) <=> lo < n /\ n <= lo + E
  BY OnPageBounds
<1>4. PICK g : Paged(g, e, page) /\ R!Page(page) = g[Len(e)].names
  BY PageIsPaged
<1> DEFINE Part(n) == /\ g[n].n = n
                      /\ Len(g[n].names) = Held(n, lo)
                      /\ \A j \in 1 .. Held(n, lo) : g[n].names[j] = e[lo + j]
           T == {n \in Nat : n <= Len(e) => Part(n)}
<1> HIDE DEF e, lo
<1>5. 0 \in T
  BY <1>1, <1>2, <1>4 DEF Paged, PageStart, Held
<1>6. ASSUME NEW n \in T PROVE n + 1 \in T
  <2> SUFFICES ASSUME n + 1 <= Len(e) PROVE Part(n + 1)
    OBVIOUS
  <2>1. n \in Nat /\ Part(n) /\ n + 1 \in 1 .. Len(e) /\ n \in 0 .. Len(e)
    BY <1>2
  <2>2. g[n + 1] = PageEntry(g[n], e[n + 1], page) /\ g[n] \in PageAcc
    BY <1>4, <2>1 DEF Paged
  <2>3. CASE lo < n + 1 /\ n + 1 <= lo + E
    <3>1. R!OnPage(n + 1, page)
      BY <1>3, <2>1, <2>3
    <3>2. g[n + 1] = [n |-> n + 1, names |-> Append(g[n].names, e[n + 1])]
      BY <1>2, <2>1, <2>2, <3>1 DEF PageEntry
    <3>3. g[n].names \in Seq(Names) /\ e[n + 1] \in Names
      BY <1>2, <2>1, <2>2 DEF PageAcc
    <3>4. Held(n, lo) = n - lo /\ Held(n + 1, lo) = n + 1 - lo
      BY <1>1, <2>1, <2>3 DEF Held
    <3>5. /\ g[n + 1].n = n + 1
          /\ Len(g[n + 1].names) = Len(g[n].names) + 1
          /\ \A j \in 1 .. Len(g[n].names) : g[n + 1].names[j] = g[n].names[j]
          /\ g[n + 1].names[Len(g[n].names) + 1] = e[n + 1]
      <4> DEFINE h == g[n].names
      <4>1. g[n + 1].names = Append(h, e[n + 1]) /\ g[n + 1].n = n + 1
        BY <3>2
      <4>2. h \in Seq(Names)
        BY <3>3
      <4> HIDE DEF h
      <4>3. /\ Len(Append(h, e[n + 1])) = Len(h) + 1
            /\ \A j \in 1 .. Len(h) : Append(h, e[n + 1])[j] = h[j]
            /\ Append(h, e[n + 1])[Len(h) + 1] = e[n + 1]
        BY <3>3, <4>2
      <4> QED BY <4>1, <4>3 DEF h
    <3>6. Len(g[n + 1].names) = Held(n + 1, lo)
      BY <1>1, <2>1, <3>4, <3>5
    <3>7. ASSUME NEW j \in 1 .. Held(n + 1, lo) PROVE g[n + 1].names[j] = e[lo + j]
      <4>1. CASE j = n + 1 - lo
        <5>1. j = Len(g[n].names) + 1 /\ lo + j = n + 1
          BY <1>1, <2>1, <3>4, <4>1
        <5> QED BY <3>5, <5>1
      <4>2. CASE j # n + 1 - lo
        <5>1. j \in 1 .. Held(n, lo)
          BY <1>1, <2>1, <3>4, <3>7, <4>2
        <5> QED BY <2>1, <3>5, <5>1
      <4> QED BY <4>1, <4>2
    <3> QED BY <3>5, <3>6, <3>7
  <2>4. CASE ~(lo < n + 1 /\ n + 1 <= lo + E)
    <3>1. ~R!OnPage(n + 1, page)
      BY <1>3, <2>1, <2>4
    <3>2. g[n + 1] = [g[n] EXCEPT !.n = @ + 1]
      BY <2>1, <2>2, <3>1 DEF PageEntry
    <3>3. g[n + 1].n = n + 1 /\ g[n + 1].names = g[n].names
      BY <2>1, <2>2, <3>2 DEF PageAcc
    <3>4. Held(n + 1, lo) = Held(n, lo)
      BY <1>1, <2>1, <2>4 DEF Held
    <3> QED BY <2>1, <3>3, <3>4
  <2> QED BY <2>3, <2>4
<1>7. T = Nat
  <2>1. T \subseteq Nat
    OBVIOUS
  <2> HIDE DEF T
  <2> QED BY <1>5, <1>6, <2>1, NatSetInduction
<1>8. Part(Len(e))
  BY <1>2, <1>7
<1>9. R!Page(page) \in Seq(Names)
  BY PageOfNames
<1> QED BY <1>1, <1>4, <1>8, <1>9 DEF e, lo

LEMMA RuleInit ==
    ASSUME R!RuleFileAssumption PROVE R!Init => RuleInv
BY DEF R!Init, R!Text, RuleInv, R!TypeOK, R!Lines, OneRuleEach

LEMMA RuleStep ==
    ASSUME R!RuleFileAssumption, RuleInv, [R!Next]_R!vars
    PROVE  RuleInv'
<1>1. /\ file \in Seq(R!Lines) /\ name \in Names
      /\ treatPc \in {"idle", "newline", "write", "mv"}
      /\ answer \in [text : {"none", "Success", "Error", "crash", "pages", "names"},
                       pages : Nat, names : Seq(Names)]
  BY DEF RuleInv, R!TypeOK
<1>2. ASSUME NEW t \in {"none", "Success", "Error", "crash", "pages", "names"}
      PROVE  R!Text(t) \in [text : {"none", "Success", "Error", "crash", "pages", "names"},
                       pages : Nat, names : Seq(Names)]
  BY DEF R!Text
<1>3. ASSUME UNCHANGED file, name' \in Names, treatPc' \in {"idle", "mv"},
             answer' \in [text : {"none", "Success", "Error", "crash", "pages", "names"},
                            pages : Nat, names : Seq(Names)]
      PROVE  RuleInv'
  BY <1>1, <1>3 DEF RuleInv, R!TypeOK, R!Lines, OneRuleEach
<1>4. ASSUME NEW n \in Names, R!AddRule(n) PROVE RuleInv'
  <2>1. CASE R!HasRule(n)
    BY <1>1, <1>2, <1>3, <1>4, <2>1 DEF R!AddRule
  <2>2. CASE ~R!HasRule(n)
    <3>1. /\ name' = n /\ treatPc' = "newline" /\ answer' = R!Text("none")
          /\ UNCHANGED file
      BY <1>4, <2>2 DEF R!AddRule
    <3>2. NameIsNew'
      BY <1>1, <2>2, <3>1, HasRuleIsSeen DEF NameIsNew
    <3> QED BY <1>1, <1>2, <3>1, <3>2 DEF RuleInv, R!TypeOK, R!Lines, OneRuleEach
  <2> QED BY <2>1, <2>2
<1>5. CASE R!AddNewline
  <2>1. /\ treatPc = "newline" /\ treatPc' = "write" /\ UNCHANGED <<name, answer>>
        /\ NameIsNew /\ OneRuleEach(file)
    BY <1>5 DEF R!AddNewline, RuleInv
  <2>2. CASE file = <<>>
    BY <1>1, <1>5, <2>1, <2>2
       DEF R!AddNewline, RuleInv, R!TypeOK, R!Lines, NameIsNew, OneRuleEach
  <2>3. CASE file # <<>>
    <3>1. /\ file' = Append(file, Malformed) /\ Malformed \in R!Lines
          /\ Malformed # name
      BY <1>1, <1>5, <2>3 DEF R!AddNewline, R!Lines, R!RuleFileAssumption
    <3>2. /\ file' \in Seq(R!Lines) /\ Len(file') = Len(file) + 1
          /\ \A i \in 1 .. Len(file) : file'[i] = file[i]
          /\ file'[Len(file')] = Malformed
      BY <1>1, <3>1
    <3>3. OneRuleEach(file)' /\ NameIsNew'
      BY <1>1, <2>1, <3>1, <3>2 DEF OneRuleEach, NameIsNew
    <3> QED BY <1>1, <2>1, <3>2, <3>3 DEF RuleInv, R!TypeOK, R!Lines
  <2> QED BY <2>2, <2>3
<1>6. CASE R!AddWrite
  <2>1. /\ treatPc = "write" /\ treatPc' = "idle" /\ answer' = R!Text("Success")
        /\ UNCHANGED name
        /\ NameIsNew /\ OneRuleEach(file)
    BY <1>6 DEF R!AddWrite, RuleInv
  <2>2. name \in R!Lines
    BY <1>1 DEF R!Lines
  <2>3. CASE file = <<>>
    <3>1. file' = <<name>>
      BY <1>6, <2>3 DEF R!AddWrite
    <3> QED BY <1>1, <1>2, <2>1, <2>2, <3>1 DEF RuleInv, R!TypeOK, R!Lines, OneRuleEach
  <2>4. CASE file # <<>>
    <3> DEFINE front == SubSeq(file, 1, Len(file) - 1)
    <3>1. file' = Append(front, name)
      BY <1>6, <2>4 DEF R!AddWrite, R!Front
    <3>2. /\ front \in Seq(R!Lines) /\ Len(front) = Len(file) - 1
          /\ \A i \in 1 .. Len(file) - 1 : front[i] = file[i]
          /\ Len(file) \in Nat \ {0}
      BY <1>1, <2>4, AllButLast
    <3> HIDE DEF front
    <3>3. /\ file' \in Seq(R!Lines) /\ Len(file') = Len(file)
          /\ \A i \in 1 .. Len(file) - 1 : file'[i] = file[i]
          /\ file'[Len(file)] = name
      <4>1. /\ file' \in Seq(R!Lines) /\ Len(file') = Len(front) + 1
            /\ \A i \in 1 .. Len(front) : file'[i] = front[i]
            /\ file'[Len(front) + 1] = name
        <5>1. front \in Seq(R!Lines)
          BY <3>2
        <5> QED BY <2>2, <3>1, <5>1
      <4>2. Len(front) + 1 = Len(file)
        BY <3>2
      <4> QED BY <3>2, <4>1, <4>2
    <3>4. OneRuleEach(file)'
      <4> DEFINE n == Len(file)
      <4>1. /\ n \in Nat \ {0} /\ Len(file') = n
            /\ \A i \in 1 .. n - 1 : file'[i] = file[i] /\ file'[i] # file'[n]
            /\ \A i, j \in 1 .. n : file[i] = file[j] /\ file[i] # Malformed => i = j
        BY <2>1, <3>2, <3>3 DEF OneRuleEach, NameIsNew
      <4> HIDE DEF n
      <4>2. \A i \in 1 .. n : i = n \/ i \in 1 .. n - 1
        BY <4>1
      <4> QED BY <4>1, <4>2 DEF OneRuleEach
    <3> QED BY <1>1, <1>2, <2>1, <3>3, <3>4 DEF RuleInv, R!TypeOK, R!Lines
  <2> QED BY <2>3, <2>4
<1>7. CASE R!CommandFails \/ R!Restart
  BY <1>1, <1>2, <1>3, <1>7 DEF R!CommandFails, R!Restart
<1>8. ASSUME NEW n \in Names, R!RemoveRule(n) PROVE RuleInv'
  BY <1>1, <1>2, <1>3, <1>8 DEF R!RemoveRule
<1>9. CASE R!RemoveMv
  <2>1. /\ treatPc = "mv" /\ treatPc' = "idle" /\ UNCHANGED name
        /\ file' \in {R!Kept, file}
        /\ answer' \in {R!Text("Success"), R!Text("Error")}
    BY <1>9 DEF R!RemoveMv
  <2>2. file' \in Seq(R!Lines) /\ OneRuleEach(file)'
    BY <1>1, <2>1, KeptIsSound DEF RuleInv, OneRuleEach
  <2> QED BY <1>1, <1>2, <2>1, <2>2 DEF RuleInv, R!TypeOK, R!Lines
<1>10. CASE R!HowManyPages
  <2>1. R!PageCount \in Nat
    <3>1. Len(R!Rules(R!Entries)) \in Nat
      BY <1>1, RulesOfEntries
    <3> QED BY <3>1 DEF R!PageCount, R!RuleFileAssumption
  <2>2. answer' \in [text : {"none", "Success", "Error", "crash", "pages", "names"},
                       pages : Nat, names : Seq(Names)]
    BY <1>2, <1>10, <2>1 DEF R!HowManyPages
  <2> QED BY <1>1, <1>3, <1>10, <2>2 DEF R!HowManyPages
<1>11. ASSUME NEW page \in 1 .. MaxLines, R!ListRulePage(page) PROVE RuleInv'
  <2>1. R!Page(page) \in Seq(Names)
    BY <1>1, PageOfNames
  <2>2. answer' \in [text : {"none", "Success", "Error", "crash", "pages", "names"},
                       pages : Nat, names : Seq(Names)]
    BY <1>2, <1>11, <2>1 DEF R!ListRulePage
  <2> QED BY <1>1, <1>3, <1>11, <2>2 DEF R!ListRulePage
<1>12. ASSUME NEW n \in Names, R!ShowRule(n) PROVE RuleInv'
  <2>1. answer' \in {R!Text("Error"), R!Text("Success"), R!Text("crash")}
    BY <1>12 DEF R!ShowRule
  <2> QED BY <1>1, <1>2, <1>3, <1>12, <2>1 DEF R!ShowRule
<1>13. CASE UNCHANGED R!vars
  BY <1>13 DEF R!vars, RuleInv, R!TypeOK, R!Lines, OneRuleEach, NameIsNew
<1> QED
  BY <1>4, <1>5, <1>6, <1>7, <1>8, <1>9, <1>10, <1>11, <1>12, <1>13 DEF R!Next

\* For any names, pages and bounds: a file holds well-typed lines and at most
\* one rule of a name, whatever was interrupted.
THEOREM FilesAreSound == R!Spec => []FileSound
<1>0. R!RuleFileAssumption
  BY RuleFileConstants
<1>1. R!Init => RuleInv
  BY <1>0, RuleInit
<1>2. RuleInv /\ [R!Next]_R!vars => RuleInv'
  BY <1>0, RuleStep
<1>3. RuleInv => FileSound
  <2> SUFFICES ASSUME RuleInv PROVE R!NamesUnique
    BY DEF FileSound, R!FileSound, RuleInv
  <2>1. UniqueBut(Malformed, file, Len(file))
    BY DEF RuleInv, OneRuleEach, UniqueBut
  <2>2. IsInjective(R!Rules(file))
    BY <2>1, CopyWithout DEF RuleInv, R!TypeOK, R!Rules
  <2> QED BY <2>2 DEF R!NamesUnique, R!IsInjective, IsInjective
<1> QED BY <1>1, <1>2, <1>3, PTL DEF R!Spec

\* For any names: no interrupted or failed command loses a rule; one
\* disappears only when a removal of it is carried out.
THEOREM RulesAreKept == R!Spec => RulesKept
<1>0. R!RuleFileAssumption
  BY RuleFileConstants
<1>1. R!Init => RuleInv
  BY <1>0, RuleInit
<1>2. RuleInv /\ [R!Next]_R!vars => RuleInv'
  BY <1>0, RuleStep
<1>3. RuleInv /\ [R!Next]_R!vars =>
         [\A n \in Names : n \in R!Range(file) /\ n \notin R!Range(file')
                               => treatPc = "mv" /\ name = n]_R!vars
  <2> SUFFICES ASSUME RuleInv, R!Next, NEW n \in Names,
                      n \in R!Range(file), n \notin R!Range(file')
               PROVE  treatPc = "mv" /\ name = n
    OBVIOUS
  <2>1. PICK i \in 1 .. Len(file) : file[i] = n
    BY DEF R!Range, RuleInv, R!TypeOK
  <2>2. n # Malformed /\ file \in Seq(R!Lines)
    BY <1>0 DEF R!RuleFileAssumption, RuleInv, R!TypeOK
  <2>3. file' # file
    BY DEF R!Range
  <2>4. file' \in Seq(R!Lines)
    BY <1>0, RuleStep DEF RuleInv, R!TypeOK
  <2>5. ASSUME NEW k \in 1 .. Len(file') PROVE file'[k] # n
    BY <2>4, <2>5 DEF R!Range
  <2>6. R!AddNewline \/ R!AddWrite \/ R!RemoveMv
    BY <2>3 DEF R!Next, R!AddRule, R!RemoveRule, R!ShowRule, R!CommandFails,
       R!HowManyPages, R!ListRulePage, R!Restart
  <2>7. ~R!AddNewline
    BY <2>1, <2>2, <2>3, <2>5 DEF R!AddNewline
  <2>8. ~R!AddWrite
    <3> SUFFICES ASSUME R!AddWrite PROVE FALSE
      OBVIOUS
    <3>1. file # <<>> /\ file[Len(file)] = Malformed
      BY <2>1, <2>2 DEF R!AddWrite, RuleInv
    <3> DEFINE front == SubSeq(file, 1, Len(file) - 1)
    <3>2. file' = Append(front, name)
      BY <3>1 DEF R!AddWrite, R!Front
    <3>3. /\ front \in Seq(R!Lines) /\ Len(front) = Len(file) - 1
          /\ \A k \in 1 .. Len(file) - 1 : front[k] = file[k]
      BY <2>2, <3>1, AllButLast
    <3> HIDE DEF front
    <3>4. i \in 1 .. Len(file) - 1
      BY <2>1, <2>2, <3>1
    <3>5. Len(file') = Len(front) + 1 /\ file'[i] = n
      BY <2>1, <2>2, <3>2, <3>3, <3>4
    <3> QED BY <2>5, <3>3, <3>4, <3>5
  <2>9. CASE R!RemoveMv
    <3>1. file' = R!Kept /\ treatPc = "mv"
      BY <2>3, <2>9 DEF R!RemoveMv
    <3>2. n \notin Names \ {name}
      BY <1>0, <2>1, <2>2, <2>5, <3>1, KeptIsSound
    <3> QED BY <3>1, <3>2
  <2> QED BY <2>6, <2>7, <2>8, <2>9
<1> QED BY <1>1, <1>2, <1>3, PTL DEF R!Spec, RulesKept, R!RulesKept

-----------------------------------------------------------------------------
(* No command makes a file longer than its bound.                          *)

LinesBounded ==
    /\ Len(file) <= MaxLines
    /\ treatPc = "newline" => Len(file) < MaxLines
    /\ treatPc = "write" => 0 < MaxLines

LEMMA BoundStep ==
    ASSUME R!RuleFileAssumption, R!TypeOK, LinesBounded, [R!Next]_R!vars
    PROVE  LinesBounded'
<1>1. file \in Seq(R!Lines) /\ Len(file) \in Nat /\ MaxLines \in Nat
  BY DEF R!TypeOK, R!RuleFileAssumption
<1>2. ASSUME UNCHANGED file, treatPc' \notin {"newline", "write"} PROVE LinesBounded'
  BY <1>2 DEF LinesBounded
<1>3. ASSUME NEW n \in Names, R!AddRule(n) PROVE LinesBounded'
  BY <1>1, <1>3 DEF R!AddRule, LinesBounded
<1>4. CASE R!AddNewline
  BY <1>1, <1>4 DEF R!AddNewline, LinesBounded
<1>5. CASE R!AddWrite
  <2>1. treatPc' = "idle"
    BY <1>5 DEF R!AddWrite
  <2>2. CASE file = <<>>
    <3>1. file' = <<name>>
      BY <1>5, <2>2 DEF R!AddWrite
    <3>2. Len(file') = 1 /\ 0 < MaxLines
      BY <1>5, <3>1 DEF R!AddWrite, LinesBounded
    <3> QED BY <1>1, <2>1, <3>2 DEF LinesBounded
  <2>3. CASE file # <<>>
    <3> DEFINE front == SubSeq(file, 1, Len(file) - 1)
    <3>1. file' = Append(front, name)
      BY <1>5, <2>3 DEF R!AddWrite, R!Front
    <3>2. front \in Seq(R!Lines) /\ Len(front) = Len(file) - 1
      BY <1>1, <2>3, AllButLast
    <3> HIDE DEF front
    <3>3. Len(file') = Len(file)
      BY <1>1, <3>1, <3>2
    <3> QED BY <2>1, <3>3 DEF LinesBounded
  <2> QED BY <2>2, <2>3
<1>6. CASE R!RemoveMv
  <2>1. R!Entries \in Seq(R!Lines) /\ Len(R!Entries) <= Len(file)
    BY <1>1, EntriesAreFile
  <2> DEFINE e == R!Entries
             r == R!Rules(e)
             k == R!Kept
  <2>2. r \in Seq(R!Lines) /\ Len(r) <= Len(e)
    <3> HIDE DEF e
    <3> QED BY <2>1, WithoutIsShort DEF R!Rules, e
  <2>3. k \in Seq(R!Lines) /\ Len(k) <= Len(r)
    <3>1. k = R!Without(name, r)
      BY DEF R!Kept
    <3> HIDE DEF k, r
    <3> QED BY <2>2, <3>1, WithoutIsShort
  <2>4. file' \in {k, file} /\ treatPc' = "idle"
    BY <1>6 DEF R!RemoveMv
  <2>5. Len(file') <= Len(file)
    <3> HIDE DEF e, r, k
    <3> QED BY <1>1, <2>1, <2>2, <2>3, <2>4 DEF e
  <2>6. Len(file') \in Nat
    <3> HIDE DEF e, r, k
    <3> QED BY <1>1, <2>3, <2>4
  <2> QED BY <1>1, <2>4, <2>5, <2>6 DEF LinesBounded
<1>7. CASE UNCHANGED R!vars
  BY <1>7 DEF R!vars, LinesBounded
<1> QED
  BY <1>2, <1>3, <1>4, <1>5, <1>6, <1>7
     DEF R!Next, R!RemoveRule, R!ShowRule, R!CommandFails, R!HowManyPages,
         R!ListRulePage, R!Restart, LinesBounded

-----------------------------------------------------------------------------
(* The pages.                                                              *)

LEMMA PagesJoined ==
    ASSUME R!RuleFileAssumption, R!TypeOK, Len(file) <= MaxLines,
           \A i \in 1 .. Len(R!Entries) : R!Entries[i] # Malformed
    PROVE  R!FlattenSeq(R!Pages) = R!Entries
<1> DEFINE e == R!Entries
           E == EntriesPerPage
           N == MaxLines
           Upto(lo) == IF Len(e) <= lo THEN Len(e) ELSE lo
<1>1. /\ e \in Seq(R!Lines) /\ Len(e) \in Nat /\ Len(e) <= N
      /\ N \in Nat /\ E \in Nat \ {0}
  BY EntriesAreFile DEF R!TypeOK, R!RuleFileAssumption
<1>2. \A i \in 1 .. Len(e) : e[i] \in Names
  BY <1>1 DEF R!Lines
<1>3. e \in Seq(Names)
  <2>1. DOMAIN e = 1 .. Len(e) /\ e = [i \in 1 .. Len(e) |-> e[i]]
    BY <1>1
  <2> HIDE DEF e
  <2> QED BY <1>1, <1>2, <2>1
<1>4. /\ R!Pages \in Seq(Seq(Names)) /\ Len(R!Pages) = N
      /\ \A p \in 1 .. N : R!Pages[p] = R!Page(p)
  <2>1. \A p \in 1 .. N : R!Page(p) \in Seq(Names)
    BY PageOfNames DEF R!TypeOK
  <2> QED BY <1>1, <2>1 DEF R!Pages
<1>5. PICK h : Joins(h, R!Pages, Names) /\ FlattenSeq(R!Pages) = h[N]
  BY <1>4, FlattenJoins
<1> HIDE DEF e, E, N
<1> DEFINE Joined(k) == /\ Len(h[k]) = Upto(k * E)
                        /\ \A j \in 1 .. Upto(k * E) : h[k][j] = e[j]
           T == {k \in Nat : k <= N => Joined(k)}
<1>6. 0 \in T
  <2>1. h[0] = <<>>
    BY <1>5 DEF Joins
  <2>2. 0 * E = 0 /\ Upto(0) = 0
    BY <1>1
  <2>3. Joined(0)
    BY <2>1, <2>2
  <2> HIDE DEF Joined
  <2> QED BY <2>3
<1>7. ASSUME NEW k \in T PROVE k + 1 \in T
  <2> SUFFICES ASSUME k + 1 <= N PROVE Joined(k + 1)
    <3> HIDE DEF Joined
    <3> QED OBVIOUS
  <2> DEFINE lo == k * E
             q == h[k]
             page == R!Page(k + 1)
             held == Held(Len(e), lo)
  <2>1. /\ k \in Nat /\ k + 1 \in 1 .. N /\ (k + 1) - 1 = k
        /\ lo \in Nat /\ (k + 1) * E = lo + E
    BY <1>1
  <2>2. Len(q) = Upto(lo) /\ \A j \in 1 .. Upto(lo) : q[j] = e[j]
    BY <1>1, <2>1
  <2>3. h[k + 1] = q \o page /\ q \in Seq(Names) /\ page \in Seq(Names)
    <3>1. k + 1 \in 1 .. Len(R!Pages) /\ k \in 0 .. Len(R!Pages)
      BY <1>1, <1>4, <2>1
    <3>2. h[k + 1] = h[(k + 1) - 1] \o R!Pages[k + 1]
      BY <1>5, <3>1 DEF Joins
    <3>3. R!Pages[k + 1] = page
      BY <1>4, <2>1
    <3>4. page \in Seq(Names)
      BY <2>1, PageOfNames DEF R!TypeOK
    <3>5. q \in Seq(Names)
      BY <1>5, <3>1 DEF Joins
    <3> QED BY <2>1, <3>2, <3>3, <3>4, <3>5, Zenon
  <2>4. Len(page) = held /\ \A j \in 1 .. held : page[j] = e[lo + j]
    <3>1. LET c == R!Entries
              l == ((k + 1) - 1) * EntriesPerPage
          IN  /\ Len(R!Page(k + 1)) = Held(Len(c), l)
              /\ \A j \in 1 .. Held(Len(c), l) : R!Page(k + 1)[j] = c[l + j]
      <4>1. k + 1 \in Nat \ {0}
        BY <2>1
      <4> QED BY <4>1, PageIsPart DEF R!TypeOK
    <3> QED BY <2>1, <3>1 DEF e, E
  <2> HIDE DEF lo, q, page, held
  <2>5. /\ held \in Nat /\ Upto(lo) \in Nat /\ Upto(lo + E) = Upto(lo) + held
        /\ held # 0 => Upto(lo) = lo
    BY <1>1, <2>1 DEF Held, held, E
  <2>6. /\ Len(q \o page) = Len(q) + Len(page)
        /\ \A j \in 1 .. Len(q) : (q \o page)[j] = q[j]
        /\ \A j \in 1 .. Len(page) : (q \o page)[Len(q) + j] = page[j]
    BY <2>3
  <2> HIDE DEF Upto
  <2>7. Len(h[k + 1]) = Upto((k + 1) * E)
    BY <2>1, <2>2, <2>3, <2>4, <2>5, <2>6
  <2>8. ASSUME NEW j \in 1 .. Upto((k + 1) * E) PROVE h[k + 1][j] = e[j]
    <3>1. CASE j <= Upto(lo)
      BY <2>1, <2>2, <2>3, <2>5, <2>6, <2>8, <3>1
    <3>2. CASE j > Upto(lo)
      <4>1. j - lo \in 1 .. held /\ Upto(lo) = lo /\ lo + (j - lo) = j
        BY <2>1, <2>5, <2>8, <3>2
      <4>2. (q \o page)[lo + (j - lo)] = page[j - lo] /\ page[j - lo] = e[lo + (j - lo)]
        BY <2>2, <2>4, <2>6, <4>1
      <4> QED BY <2>3, <4>1, <4>2
    <3> QED BY <2>5, <3>1, <3>2
  <2> QED BY <2>7, <2>8
<1>8. T = Nat
  <2>1. T \subseteq Nat
    OBVIOUS
  <2> HIDE DEF T
  <2> QED BY <1>6, <1>7, <2>1, NatSetInduction
<1>9. Joined(N)
  <2>1. N \in T
    BY <1>1, <1>8
  <2> HIDE DEF Joined
  <2> QED BY <1>1, <2>1
<1>10. Upto(N * E) = Len(e)
  <2>1. N <= N * E
    BY <1>1
  <2> QED BY <1>1, <2>1
<1>11. h[N] \in Seq(Names) /\ Len(h[N]) = Len(e) /\ \A j \in 1 .. Len(e) : h[N][j] = e[j]
  <2>1. h[N] \in Seq(Names)
    BY <1>1, <1>4, <1>5 DEF Joins
  <2> HIDE DEF Upto
  <2> QED BY <1>9, <1>10, <2>1
<1>12. h[N] = e
  BY <1>3, <1>11, SeqEqual
<1>13. R!FlattenSeq(R!Pages) = FlattenSeq(R!Pages)
  BY DEF R!FlattenSeq, FlattenSeq
<1> QED BY <1>5, <1>12, <1>13 DEF e, N

\* The pages that are announced are those that hold rules.
LEMMA PagesCounted ==
    ASSUME R!RuleFileAssumption, R!TypeOK, NEW p \in 1 .. MaxLines,
           \A i \in 1 .. Len(R!Entries) : R!Entries[i] # Malformed,
           R!Rules(R!Entries) = R!Entries
    PROVE  p <= R!PageCount <=> R!Page(p) # <<>>
<1> DEFINE n == Len(R!Entries)
           E == EntriesPerPage
           q == n \div E
           r == n % E
           b == p - 1
           be == b * E
           qe == q * E
<1>1. /\ n \in Nat /\ E \in Nat \ {0} /\ MaxLines \in Nat
      /\ p \in Nat \ {0} /\ b \in Int /\ p = b + 1
  BY EntriesAreFile DEF R!TypeOK, R!RuleFileAssumption
<1>2. /\ be \in Nat /\ R!Page(p) \in Seq(Names)
      /\ Len(R!Page(p)) = Held(n, be)
  BY <1>1, PageIsPart DEF R!TypeOK
<1>3. R!Page(p) # <<>> <=> be < n
  <2> HIDE DEF n, be
  <2>1. R!Page(p) # <<>> <=> Len(R!Page(p)) # 0
    BY <1>2
  <2>2. Held(n, be) # 0 <=> be < n
    BY <1>1, <1>2 DEF Held, E
  <2> QED BY <1>2, <2>1, <2>2
<1>4. q \in Nat /\ r \in 0 .. E - 1 /\ n = qe + r
  <2> HIDE DEF n, E
  <2> QED BY <1>1, Division
<1>5. R!PageCount = q + (IF r > 0 THEN 1 ELSE 0)
  BY DEF R!PageCount
<1> HIDE DEF n, E, q, r, b
<1>6. /\ be \in Int /\ qe \in Int
      /\ b <= q <=> be <= qe
      /\ q <= b <=> qe <= be
      /\ q + 1 <= b <=> qe + E <= be
  <2>1. be \in Int /\ (b <= q <=> be <= qe)
    BY <1>1, <1>4, Multiples
  <2>2. qe \in Int /\ (q + 1) * E = qe + E /\ (q <= b <=> qe <= be)
    BY <1>1, <1>4, Multiples
  <2>3. q + 1 <= b <=> (q + 1) * E <= be
    BY <1>1, <1>4, Multiples
  <2> QED BY <2>1, <2>2, <2>3
<1> HIDE DEF be, qe
<1>7. p <= R!PageCount <=> be < n
  BY <1>1, <1>4, <1>5, <1>6
<1> QED BY <1>3, <1>7

\* For any names, pages and bounds: the pages of a file in which nothing was
\* interrupted are its rules, each once and in their order.
THEOREM PagesArePartition == R!Spec => []PagesPartition
<1>0. R!RuleFileAssumption
  BY RuleFileConstants
<1> DEFINE Inv == RuleInv /\ LinesBounded
<1>1. R!Init => Inv
  BY <1>0, RuleInit DEF R!Init, LinesBounded, R!RuleFileAssumption
<1>2. Inv /\ [R!Next]_R!vars => Inv'
  BY <1>0, RuleStep, BoundStep DEF RuleInv
<1>3. Inv => PagesPartition
  <2> SUFFICES ASSUME Inv, Malformed \notin R!Range(R!Entries)
               PROVE  /\ R!FlattenSeq(R!Pages) = R!Rules(R!Entries)
                      /\ \A p \in DOMAIN R!Pages : p <= R!PageCount <=> R!Pages[p] # <<>>
    BY DEF PagesPartition, R!PagesPartition
  <2>0. R!TypeOK
    BY DEF RuleInv
  <2>1. R!Entries \in Seq(R!Lines)
    BY <2>0, EntriesAreFile DEF R!TypeOK
  <2>2. \A i \in 1 .. Len(R!Entries) : R!Entries[i] # Malformed
    BY <2>1 DEF R!Range
  <2>3. R!Rules(R!Entries) = R!Entries
    BY <2>1, <2>2, WithoutIsShort DEF R!Rules
  <2>4. R!FlattenSeq(R!Pages) = R!Entries
    BY <1>0, <2>0, <2>2, PagesJoined DEF LinesBounded
  <2>5. \A p \in 1 .. MaxLines : p <= R!PageCount <=> R!Page(p) # <<>>
    BY <1>0, <2>0, <2>2, <2>3, PagesCounted
  <2> QED BY <2>3, <2>4, <2>5 DEF R!Pages
<1> QED
  <2> HIDE DEF Inv
  <2> QED BY <1>1, <1>2, <1>3, PTL DEF R!Spec
-----------------------------------------------------------------------------
(* Reading a file by line.  The bytes of the file are its lines joined,    *)
(* with their newlines: p tells where they end.  The buffer holds what   *)
(* was read from where the line begins that comes next.                    *)

Byte == 0 .. MaxFileLines

\* The lines of the file, each with the newline that it ends in.
Ended == [i \in DOMAIN lines |-> L!Laid(i)]

\* Does line i end in a newline?
HasNewline(i) == i # Len(lines) \/ terminated

\* The line that a followed log grows by, if it has n bytes.
LongLine(n) == L!Line(Len(lines) + 1, n)

\* The buffer holds the bytes of the file from behind s to the descriptor.
BufferFrom(s) ==
    /\ offset = s + Len(buf)
    /\ \A j \in 1 .. Len(buf) : buf[j] = L!Bytes[s + j]

\* Where the reader is in a file whose i-th line ends at p[i].
ReadUpTo(p) ==
    /\ Len(out) <= Len(lines) /\ \A i \in 1 .. Len(out) : out[i] = lines[i]
    /\ readerPc = "read" => BufferFrom(p[Len(out)])
    /\ readerPc = "call" /\ Len(out) = 0 => buf = <<>> /\ offset = 0
    /\ readerPc = "call" /\ Len(out) # 0
         => \/ L!HasLine(buf) /\ BufferFrom(p[Len(out) - 1])
            \/ /\ ~follow /\ ~L!HasLine(buf) /\ offset = p[Len(out)]
    /\ readerPc = "end" => Len(out) = Len(lines)
    /\ follow => Len(lines) <= Len(out) + 1
    /\ follow /\ readerPc = "call" => offset = p[Len(out)]

Unhurried == L!Fits /\ ~burst

ReaderInv ==
    /\ L!TypeOK
    /\ ~follow => ~burst
    /\ follow => readerPc # "end" /\ terminated
    /\ ~terminated => lines # <<>> /\ lines[Len(lines)] # <<>>
    /\ Unhurried => \E p : Layout(p, Ended, L!Bytes) /\ ReadUpTo(p)

\* A line with its newline is of bytes.
LEMMA LineWithNewline ==
    ASSUME MaxFileLines \in Nat, NEW s \in Seq(1 .. MaxFileLines)
    PROVE  Append(s, 0) \in Seq(Byte)
<1>1. \A i \in 1 .. Len(s) : s[i] \in Byte
  BY DEF Byte
<1>2. s \in Seq(Byte) /\ 0 \in Byte
  BY <1>1 DEF Byte
<1> QED BY <1>2

LEMMA BytesAreJoined == L!Bytes = FlattenSeq(Ended)
BY DEF L!Bytes, L!Laid, L!FlattenSeq, FlattenSeq, Ended

\* The lines of a file have a layout: each ends in its newline, if it has one.
LEMMA FileHasLayout ==
    ASSUME lines \in Seq(Seq(1 .. MaxFileLines)), MaxFileLines \in Nat
    PROVE  /\ Ended \in Seq(Seq(Byte)) /\ Len(Ended) = Len(lines)
           /\ \A i \in 1 .. Len(lines) :
                 Ended[i] = IF HasNewline(i) THEN Append(lines[i], 0) ELSE lines[i]
           /\ L!Bytes \in Seq(Byte)
           /\ \E p : Layout(p, Ended, L!Bytes)
<1>1. /\ Len(lines) \in Nat /\ DOMAIN lines = 1 .. Len(lines)
      /\ \A i \in 1 .. Len(lines) : Append(lines[i], 0) \in Seq(Byte)
  BY LineWithNewline
<1>2. ASSUME NEW i \in 1 .. Len(lines) PROVE lines[i] \in Seq(Byte)
  BY DEF Byte
<1>3. /\ Ended = [i \in 1 .. Len(lines) |-> L!Laid(i)]
      /\ \A i \in 1 .. Len(lines) :
            L!Laid(i) = IF HasNewline(i) THEN Append(lines[i], 0) ELSE lines[i]
  BY <1>1 DEF Ended, L!Laid, L!NL, HasNewline
<1>4. \A i \in 1 .. Len(lines) : L!Laid(i) \in Seq(Byte)
  BY <1>1, <1>2, <1>3
<1>5. /\ Ended \in Seq(Seq(Byte)) /\ Len(Ended) = Len(lines)
      /\ \A i \in 1 .. Len(lines) : Ended[i] = L!Laid(i)
  BY <1>1, <1>3, <1>4
<1> QED BY <1>3, <1>5, BytesAreJoined, FlattenHasLayout

\* What a layout of the file tells of its line i.
LEMMA LineLaid ==
    ASSUME MaxFileLines \in Nat, lines \in Seq(Seq(1 .. MaxFileLines)),
           NEW p, Layout(p, Ended, L!Bytes), NEW i \in 0 .. Len(lines)
    PROVE  /\ p[0] = 0 /\ p[i] \in Nat /\ p[i] <= Len(L!Bytes)
           /\ p[Len(lines)] = Len(L!Bytes)
           /\ i # 0 => /\ i - 1 \in 0 .. Len(lines)
                       /\ p[i - 1] \in Nat
                       /\ lines[i] \in Seq(1 .. MaxFileLines)
                       /\ \A j \in 1 .. Len(lines[i]) :
                             L!Bytes[p[i - 1] + j] = lines[i][j]
           /\ i # 0 /\ HasNewline(i)
                 => /\ p[i] = p[i - 1] + (Len(lines[i]) + 1)
                    /\ L!Bytes[p[i - 1] + (Len(lines[i]) + 1)] = 0
           /\ i # 0 /\ ~HasNewline(i) => p[i] = p[i - 1] + Len(lines[i])
<1> DEFINE n == Len(lines)
<1>1. /\ Ended \in Seq(Seq(Byte)) /\ Len(Ended) = n /\ n \in Nat
      /\ \A k \in 1 .. n :
            Ended[k] = IF HasNewline(k) THEN Append(lines[k], 0) ELSE lines[k]
      /\ L!Bytes \in Seq(Byte)
  <2>1. n \in Nat
    OBVIOUS
  <2> QED BY <2>1, FileHasLayout, Zenon
<1>2. /\ p \in [0 .. n -> Nat] /\ p[0] = 0 /\ p[n] = Len(L!Bytes)
      /\ \A k \in 1 .. n : /\ p[k] = p[k - 1] + Len(Ended[k])
                           /\ \A j \in 1 .. Len(Ended[k]) :
                                 L!Bytes[p[k - 1] + j] = Ended[k][j]
  BY <1>1 DEF Layout
<1>3. p[i] <= p[n]
  BY <1>1, LayoutGrows
<1>4. ASSUME i # 0
      PROVE  /\ i - 1 \in 0 .. n /\ p[i - 1] \in Nat
             /\ lines[i] \in Seq(1 .. MaxFileLines)
             /\ \A j \in 1 .. Len(lines[i]) : L!Bytes[p[i - 1] + j] = lines[i][j]
             /\ HasNewline(i) => /\ p[i] = p[i - 1] + (Len(lines[i]) + 1)
                                 /\ L!Bytes[p[i - 1] + (Len(lines[i]) + 1)] = 0
             /\ ~HasNewline(i) => p[i] = p[i - 1] + Len(lines[i])
  <2> DEFINE t == lines[i]
             e == Ended[i]
  <2>1. i \in 1 .. n /\ i - 1 \in 0 .. n /\ t \in Seq(1 .. MaxFileLines)
    BY <1>1, <1>4
  <2>2. e = IF HasNewline(i) THEN Append(t, 0) ELSE t
    BY <1>1, <2>1
  <2>3. p[i] = p[i - 1] + Len(e) /\ \A j \in 1 .. Len(e) : L!Bytes[p[i - 1] + j] = e[j]
    BY <1>2, <2>1
  <2>4. p[i - 1] \in Nat
    BY <1>2, <2>1
  <2> HIDE DEF t, e, n
  <2>5. CASE HasNewline(i)
    <3>0. e = Append(t, 0)
      BY <2>2, <2>5
    <3>1. /\ Len(e) = Len(t) + 1 /\ Len(t) \in Nat /\ e[Len(t) + 1] = 0
          /\ \A j \in 1 .. Len(t) : e[j] = t[j]
      BY <2>1, <3>0
    <3>2. Len(t) + 1 \in 1 .. Len(e) /\ \A j \in 1 .. Len(t) : j \in 1 .. Len(e)
      BY <3>1
    <3>3. L!Bytes[p[i - 1] + (Len(t) + 1)] = e[Len(t) + 1]
      BY <2>3, <3>2
    <3>4. \A j \in 1 .. Len(t) : L!Bytes[p[i - 1] + j] = e[j]
      BY <2>3, <3>2
    <3>5. /\ \A j \in 1 .. Len(t) : L!Bytes[p[i - 1] + j] = t[j]
          /\ L!Bytes[p[i - 1] + (Len(t) + 1)] = 0
      BY <3>1, <3>3, <3>4
    <3> QED BY <2>1, <2>3, <2>4, <2>5, <3>1, <3>5 DEF t, n
  <2>6. CASE ~HasNewline(i)
    <3>1. e = t
      BY <2>2, <2>6
    <3> QED BY <2>1, <2>3, <2>4, <2>6, <3>1 DEF t, n
  <2> QED BY <2>5, <2>6
<1> QED BY <1>1, <1>2, <1>3, <1>4

\* A buffer of which line t and a newline come first.
LEMMA FirstNewline ==
    ASSUME NEW b \in Seq(Byte), NEW t \in Seq(1 .. MaxFileLines), MaxFileLines \in Nat,
           \A j \in 1 .. Len(b) : /\ j <= Len(t) => b[j] = t[j]
                                  /\ j = Len(t) + 1 => b[j] = 0
    PROVE  /\ L!HasLine(b) => /\ L!Newline(b) = Len(t) + 1
                              /\ Len(t) + 1 \in 1 .. Len(b)
                              /\ L!Entry(b) = t
           /\ ~L!HasLine(b) => Len(b) <= Len(t)
<1> DEFINE l == Len(t)
<1>1. /\ l \in Nat /\ Len(b) \in Nat /\ DOMAIN b = 1 .. Len(b)
      /\ \A j \in 1 .. l : t[j] # 0
  OBVIOUS
<1>2. L!HasLine(b) <=> \E k \in 1 .. Len(b) : b[k] = 0
  BY <1>1 DEF L!HasLine, L!Range, L!NL
<1>3. /\ \A j \in 1 .. Len(b) : j <= l => b[j] = t[j]
      /\ l + 1 <= Len(b) => b[l + 1] = 0
  BY <1>1
<1> HIDE DEF l
<1>4. ASSUME NEW j \in 1 .. Len(b), b[j] = 0 PROVE l + 1 <= j
  <2>1. ~(j <= l)
    <3> SUFFICES ASSUME j <= l PROVE FALSE
      OBVIOUS
    <3>1. j \in 1 .. l
      BY <1>1
    <3>2. b[j] = t[j] /\ t[j] # 0
      BY <1>1, <1>3, <3>1
    <3> QED BY <1>4, <3>2
  <2> QED BY <1>1, <2>1
<1>5. ASSUME ~L!HasLine(b) PROVE Len(b) <= l
  <2>1. ~(l + 1 <= Len(b))
    <3> SUFFICES ASSUME l + 1 <= Len(b) PROVE FALSE
      OBVIOUS
    <3>1. l + 1 \in 1 .. Len(b) /\ b[l + 1] = 0
      BY <1>1, <1>3
    <3> QED BY <1>2, <1>5, <3>1
  <2> QED BY <1>1, <2>1
<1>6. ASSUME L!HasLine(b)
      PROVE  L!Newline(b) = l + 1 /\ l + 1 \in 1 .. Len(b) /\ L!Entry(b) = t
  <2>1. PICK z \in 1 .. Len(b) : b[z] = 0
    BY <1>2, <1>6
  <2>2. l + 1 <= z
    BY <1>4, <2>1
  <2>3. l + 1 \in 1 .. Len(b) /\ b[l + 1] = 0
    BY <1>1, <1>3, <2>1, <2>2
  <2>4. \A j \in 1 .. (l + 1) - 1 : b[j] # 0
    <3> SUFFICES ASSUME NEW j \in 1 .. (l + 1) - 1, b[j] = 0 PROVE FALSE
      OBVIOUS
    <3>1. j \in 1 .. Len(b) /\ ~(l + 1 <= j)
      BY <1>1, <2>3
    <3> QED BY <1>4, <3>1
  <2>5. ASSUME NEW k \in 1 .. Len(b), b[k] = 0, \A j \in 1 .. k - 1 : b[j] # 0
        PROVE  k = l + 1
    <3>1. l + 1 <= k
      BY <1>4, <2>5
    <3>2. ~(l + 1 \in 1 .. k - 1)
      BY <2>3, <2>5
    <3> QED BY <1>1, <3>1, <3>2
  <2>6. L!Newline(b) = l + 1
    BY <1>1, <2>3, <2>4, <2>5 DEF L!Newline, L!NL
  <2> DEFINE u == SubSeq(b, 1, l)
  <2>7. L!Entry(b) = u
    BY <1>1, <1>6, <2>6 DEF L!Entry
  <2>8. u \in Seq(Byte) /\ Len(u) = l /\ \A j \in 1 .. l : u[j] = b[j]
    BY <1>1, <2>3
  <2>9. \A j \in 1 .. l : b[j] = t[j]
    BY <1>1, <1>3, <2>3
  <2> HIDE DEF u
  <2>10. u = t
    BY <1>1, <2>8, <2>9 DEF l
  <2> QED BY <2>3, <2>6, <2>7, <2>10
<1> QED BY <1>5, <1>6 DEF l

\* A buffer that begins where line i begins holds that line when it holds any
\* newline; without one it holds less, or the last line, which needs none.
LEMMA FirstLine ==
    ASSUME MaxFileLines \in Nat, lines \in Seq(Seq(1 .. MaxFileLines)),
           NEW p, Layout(p, Ended, L!Bytes), NEW m \in 0 .. Len(lines),
           buf \in Seq(Byte), offset \in 0 .. Len(L!Bytes), BufferFrom(p[m])
    PROVE  /\ L!HasLine(buf)
                => /\ m < Len(lines) /\ m + 1 \in 1 .. Len(lines)
                   /\ L!Newline(buf) = Len(lines[m + 1]) + 1
                   /\ L!Newline(buf) \in 1 .. Len(buf)
                   /\ L!Entry(buf) = lines[m + 1]
                   /\ p[m + 1] = p[m] + L!Newline(buf)
           /\ ~L!HasLine(buf)
                => \/ m = Len(lines) /\ buf = <<>>
                   \/ /\ m + 1 \in 1 .. Len(lines) /\ Len(buf) <= Len(lines[m + 1])
                      /\ offset < Len(L!Bytes)
                   \/ /\ ~terminated /\ m + 1 = Len(lines)
                      /\ buf = lines[m + 1] /\ offset = p[Len(lines)]
<1> DEFINE n == Len(lines)
           b == L!Bytes
           l == Len(lines[m + 1])
<1>1. /\ n \in Nat /\ m \in Nat /\ Len(buf) \in Nat /\ p[m] \in Nat
      /\ p[m] <= Len(b) /\ p[n] = Len(b) /\ offset \in Nat /\ offset <= Len(b)
      /\ offset = p[m] + Len(buf)
      /\ \A j \in 1 .. Len(buf) : buf[j] = b[p[m] + j]
      /\ Len(b) \in Nat
  BY LineLaid, FileHasLayout DEF BufferFrom
<1>2. ASSUME m < n
      PROVE  /\ m + 1 \in 1 .. n /\ l \in Nat
             /\ p[m + 1] <= Len(b) /\ p[m + 1] \in Nat
             /\ lines[m + 1] \in Seq(1 .. MaxFileLines)
             /\ \A j \in 1 .. l : b[p[m] + j] = lines[m + 1][j]
             /\ HasNewline(m + 1) => /\ p[m + 1] = p[m] + (l + 1)
                                     /\ b[p[m] + (l + 1)] = 0
             /\ ~HasNewline(m + 1) => p[m + 1] = p[m] + l
  <2>0. m \in Nat /\ n \in Nat
    BY <1>1
  <2>1. m + 1 \in 0 .. n /\ m + 1 # 0 /\ (m + 1) - 1 = m /\ m + 1 \in 1 .. n
    BY <1>2, <2>0
  <2>2. /\ p[m + 1] \in Nat /\ p[m + 1] <= Len(b)
        /\ lines[m + 1] \in Seq(1 .. MaxFileLines)
        /\ \A j \in 1 .. l : b[p[(m + 1) - 1] + j] = lines[m + 1][j]
        /\ HasNewline(m + 1) => /\ p[m + 1] = p[(m + 1) - 1] + (l + 1)
                                /\ b[p[(m + 1) - 1] + (l + 1)] = 0
        /\ ~HasNewline(m + 1) => p[m + 1] = p[(m + 1) - 1] + l
    BY <2>1, LineLaid
  <2> HIDE DEF n, b
  <2> QED BY <2>1, <2>2
<1>3. ASSUME m = n PROVE buf = <<>>
  <2>1. Len(buf) = 0
    BY <1>1, <1>3
  <2> QED BY <2>1
<1>4. ~L!HasLine(<<>>)
  BY DEF L!HasLine, L!Range, L!NL
<1> HIDE DEF n, b
<1>5. ASSUME m < n, ~HasNewline(m + 1)
      PROVE  ~terminated /\ m + 1 = n /\ Len(buf) <= l /\ p[n] = p[m] + l
  <2>1. ~terminated /\ m + 1 = n
    BY <1>5 DEF HasNewline, n
  <2>2. p[n] = p[m] + l /\ l \in Nat
    BY <1>2, <1>5, <2>1
  <2> HIDE DEF l
  <2> QED BY <1>1, <2>1, <2>2
<1>6. ASSUME m < n
      PROVE  /\ L!HasLine(buf) => /\ L!Newline(buf) = l + 1 /\ l + 1 \in 1 .. Len(buf)
                                  /\ L!Entry(buf) = lines[m + 1] /\ HasNewline(m + 1)
             /\ ~L!HasLine(buf) => Len(buf) <= l
             /\ \A j \in 1 .. Len(buf) : j <= l => buf[j] = lines[m + 1][j]
  <2> DEFINE t == lines[m + 1]
  <2>1. t \in Seq(1 .. MaxFileLines) /\ l = Len(t)
    BY <1>2, <1>6
  <2>0. /\ ~HasNewline(m + 1) => Len(buf) <= l
        /\ l \in Nat
    BY <1>2, <1>5, <1>6
  <2> HIDE DEF t, l
  <2>2. ASSUME NEW j \in 1 .. Len(buf)
        PROVE  /\ j <= l => buf[j] = t[j]
               /\ j = l + 1 => buf[j] = 0
    <3>1. buf[j] = b[p[m] + j] /\ l \in Nat
      BY <1>1, <2>0
    <3>2. j <= l => j \in 1 .. l
      BY <3>1
    <3>3. j <= l => b[p[m] + j] = t[j]
      BY <1>2, <1>6, <3>2 DEF t
    <3>4. j = l + 1 => HasNewline(m + 1)
      BY <1>1, <2>0
    <3>5. HasNewline(m + 1) => b[p[m] + (l + 1)] = 0
      BY <1>2, <1>6
    <3> QED BY <3>1, <3>3, <3>4, <3>5
  <2>3. \A j \in 1 .. Len(buf) : /\ j <= Len(t) => buf[j] = t[j]
                                 /\ j = Len(t) + 1 => buf[j] = 0
    BY <2>1, <2>2
  <2>4. /\ L!HasLine(buf) => /\ L!Newline(buf) = Len(t) + 1 /\ Len(t) + 1 \in 1 .. Len(buf)
                             /\ L!Entry(buf) = t
        /\ ~L!HasLine(buf) => Len(buf) <= Len(t)
    BY <2>1, <2>3, FirstNewline
  <2>5. L!HasLine(buf) => HasNewline(m + 1)
    <3> SUFFICES ASSUME L!HasLine(buf), ~HasNewline(m + 1) PROVE FALSE
      OBVIOUS
    <3>1. Len(buf) <= l /\ l + 1 \in 1 .. Len(buf) /\ l \in Nat
      BY <2>0, <2>1, <2>4
    <3> QED BY <1>1, <3>1
  <2> QED BY <2>1, <2>2, <2>4, <2>5 DEF t
<1>7. m < n \/ (m = n /\ buf = <<>>)
  BY <1>1, <1>3 DEF n
<1>8. ASSUME L!HasLine(buf) PROVE m < n
  BY <1>4, <1>7, <1>8
<1>9. ASSUME ~L!HasLine(buf), m < n
      PROVE  \/ m + 1 \in 1 .. n /\ Len(buf) <= l /\ offset < Len(b)
             \/ ~terminated /\ m + 1 = n /\ buf = lines[m + 1] /\ offset = p[n]
  <2> DEFINE t == lines[m + 1]
  <2>1. /\ Len(buf) <= l /\ l \in Nat /\ m + 1 \in 1 .. n /\ l = Len(t)
        /\ t \in Seq(1 .. MaxFileLines)
        /\ \A j \in 1 .. Len(buf) : j <= l => buf[j] = t[j]
    BY <1>2, <1>6, <1>9
  <2>2. /\ p[m + 1] <= Len(b) /\ p[m + 1] \in Nat
        /\ HasNewline(m + 1) => p[m + 1] = p[m] + (l + 1)
    BY <1>2, <1>9
  <2>3. /\ p[m] \in Nat /\ Len(buf) \in Nat /\ offset = p[m] + Len(buf)
        /\ Len(b) \in Nat /\ p[n] = Len(b)
    BY <1>1
  <2>4. ~HasNewline(m + 1) => ~terminated /\ m + 1 = n /\ p[n] = p[m] + l
    BY <1>5, <1>9
  <2> HIDE DEF l, t
  <2>5. ASSUME NEW x \in Nat, NEW y \in Nat, NEW q \in Nat, NEW end \in Nat,
               y <= x, q + (x + 1) <= end
        PROVE  q + y < end
    BY <2>5
  <2>6. CASE HasNewline(m + 1)
    <3>1. p[m] + (l + 1) <= Len(b)
      BY <2>2, <2>6
    <3>2. p[m] + Len(buf) < Len(b)
      BY <2>1, <2>3, <2>5, <3>1
    <3> QED BY <2>1, <2>3, <3>2
  <2>7. CASE ~HasNewline(m + 1) /\ Len(buf) < l
    <3>1. p[n] = p[m] + l /\ Len(buf) < l
      BY <2>4, <2>7
    <3>2. ASSUME NEW x \in Nat, NEW y \in Nat, NEW q \in Nat, NEW end \in Nat,
                 y < x, end = q + x
          PROVE  q + y < end
      BY <3>2
    <3>3. p[m] + Len(buf) < Len(b)
      BY <2>1, <2>3, <3>1, <3>2
    <3>4. offset < Len(b)
      BY <2>3, <3>3
    <3> QED BY <2>1, <3>4
  <2>8. CASE ~HasNewline(m + 1) /\ ~(Len(buf) < l)
    <3>1. Len(buf) = l
      BY <2>1, <2>3, <2>8
    <3>2. Len(buf) = Len(t) /\ \A j \in 1 .. Len(buf) : buf[j] = t[j]
      BY <2>1, <3>1
    <3>3. t \in Seq(Byte) /\ buf \in Seq(Byte)
      <4>1. \A j \in 1 .. Len(t) : t[j] \in Byte
        BY <2>1 DEF Byte
      <4> QED BY <2>1, <4>1
    <3>4. buf = t
      BY <3>2, <3>3, EqualLists
    <3>5. offset = p[n]
      BY <2>3, <2>4, <2>8, <3>1
    <3> QED BY <2>4, <2>8, <3>4, <3>5 DEF t
  <2> QED BY <2>6, <2>7, <2>8
<1>10. ASSUME L!HasLine(buf)
       PROVE  /\ m + 1 \in 1 .. n /\ L!Newline(buf) = l + 1
              /\ L!Newline(buf) \in 1 .. Len(buf) /\ L!Entry(buf) = lines[m + 1]
              /\ p[m + 1] = p[m] + L!Newline(buf)
  <2>1. m < n
    BY <1>8, <1>10
  <2>2. /\ L!Newline(buf) = l + 1 /\ l + 1 \in 1 .. Len(buf)
        /\ L!Entry(buf) = lines[m + 1] /\ HasNewline(m + 1)
    BY <1>6, <1>10, <2>1
  <2>3. m + 1 \in 1 .. n /\ p[m + 1] = p[m] + (l + 1)
    BY <1>2, <2>1, <2>2
  <2> HIDE DEF l
  <2> QED BY <2>2, <2>3
<1> QED BY <1>7, <1>8, <1>9, <1>10 DEF n, b

\* The smaller of two numbers.
LEMMA MinOfTwo ==
    ASSUME NEW x \in Int, NEW y \in Int
    PROVE  /\ L!Min({x, y}) \in {x, y}
           /\ L!Min({x, y}) <= x /\ L!Min({x, y}) <= y
<1>1. \E m \in {x, y} : \A k \in {x, y} : m <= k
  OBVIOUS
<1> QED BY <1>1 DEF L!Min

\* What the operators on a buffer make of it.
LEMMA BufferParts ==
    ASSUME NEW b \in Seq(Byte), MaxFileLines \in Nat
    PROVE  /\ ~L!HasLine(b) => b \in Seq(1 .. MaxFileLines)
           /\ L!HasLine(b) =>
                 /\ L!Newline(b) \in 1 .. Len(b)
                 /\ L!Entry(b) \in Seq(1 .. MaxFileLines)
                 /\ L!Beyond(b) \in Seq(Byte)
                 /\ Len(L!Beyond(b)) = Len(b) - L!Newline(b)
                 /\ \A j \in 1 .. Len(b) - L!Newline(b) :
                       L!Beyond(b)[j] = b[L!Newline(b) + j]
                 /\ L!CopiedBackwards(b) \in Seq(Byte)
                 /\ Len(L!CopiedBackwards(b)) = Len(b) - L!Newline(b)
<1>1. /\ Len(b) \in Nat /\ DOMAIN b = 1 .. Len(b)
      /\ \A j \in 1 .. Len(b) : b[j] \in Byte
  OBVIOUS
<1>2. L!HasLine(b) <=> \E k \in 1 .. Len(b) : b[k] = 0
  BY <1>1 DEF L!HasLine, L!Range, L!NL
<1>3. ASSUME ~L!HasLine(b) PROVE b \in Seq(1 .. MaxFileLines)
  <2>1. \A j \in 1 .. Len(b) : b[j] \in 1 .. MaxFileLines
    BY <1>1, <1>2, <1>3 DEF Byte
  <2> QED BY <2>1
<1>4. ASSUME L!HasLine(b)
      PROVE  /\ L!Newline(b) \in 1 .. Len(b)
             /\ \A j \in 1 .. L!Newline(b) - 1 : b[j] # 0
  <2> DEFINE T == {k \in 1 .. Len(b) : b[k] = 0}
  <2>1. T \in SUBSET Nat /\ T # {}
    BY <1>2, <1>4
  <2>2. PICK z \in T : \A k \in T : z <= k
    BY <2>1, LeastNumber
  <2>3. z \in 1 .. Len(b) /\ b[z] = 0 /\ \A j \in 1 .. z - 1 : b[j] # 0
    BY <1>1, <2>2
  <2> QED BY <1>1, <2>3 DEF L!Newline, L!NL
<1> DEFINE z == L!Newline(b)
           len == Len(b) - z
<1>5. ASSUME L!HasLine(b) PROVE L!Entry(b) \in Seq(1 .. MaxFileLines)
  <2> DEFINE u == SubSeq(b, 1, z - 1)
  <2>1. L!Entry(b) = u
    BY <1>5 DEF L!Entry
  <2>2. z \in 1 .. Len(b) /\ \A j \in 1 .. z - 1 : b[j] # 0
    BY <1>4, <1>5
  <2> HIDE DEF z
  <2>3. u \in Seq(Byte) /\ Len(u) = z - 1 /\ \A j \in 1 .. z - 1 : u[j] = b[j]
    BY <1>1, <2>2
  <2>4. \A j \in 1 .. z - 1 : b[j] \in 1 .. MaxFileLines
    BY <1>1, <2>2 DEF Byte
  <2> HIDE DEF u
  <2>5. \A j \in 1 .. Len(u) : u[j] \in 1 .. MaxFileLines
    BY <2>3, <2>4
  <2>6. u \in Seq(1 .. MaxFileLines)
    BY <2>3, <2>5
  <2> QED BY <2>1, <2>6
<1>6. ASSUME L!HasLine(b)
      PROVE  /\ L!Beyond(b) \in Seq(Byte) /\ Len(L!Beyond(b)) = len
             /\ \A j \in 1 .. len : L!Beyond(b)[j] = b[z + j]
  <2>1. z \in 1 .. Len(b) /\ L!Beyond(b) = SubSeq(b, z + 1, Len(b))
    BY <1>4, <1>6 DEF L!Beyond
  <2> HIDE DEF z
  <2>2. z \in Nat /\ z <= Len(b) /\ Len(b) \in Nat /\ Len(b) <= Len(b)
    BY <1>1, <2>1
  <2> HIDE DEF len
  <2>3. /\ SubSeq(b, z + 1, Len(b)) \in Seq(Byte)
        /\ Len(SubSeq(b, z + 1, Len(b))) = Len(b) - z
        /\ \A j \in 1 .. Len(b) - z : SubSeq(b, z + 1, Len(b))[j] = b[z + j]
    BY <2>2, PartOfList
  <2> QED BY <2>1, <2>3 DEF len
<1>7. ASSUME L!HasLine(b)
      PROVE  L!CopiedBackwards(b) \in Seq(Byte) /\ Len(L!CopiedBackwards(b)) = len
  <2> DEFINE u == SubSeq(b, 1, z)
             v == SubSeq(b, 1, len)
  <2>1. z \in 1 .. Len(b) /\ L!CopiedBackwards(b) = SubSeq(u \o v, 1, len)
    BY <1>4, <1>6, <1>7 DEF L!CopiedBackwards
  <2> HIDE DEF z
  <2>2. z \in Nat /\ z <= Len(b) /\ len \in Nat /\ len <= Len(b)
    BY <1>1, <2>1
  <2> HIDE DEF len
  <2>3. /\ u \in Seq(Byte) /\ Len(u) = z
        /\ v \in Seq(Byte) /\ Len(v) = len
    BY <2>2
  <2> HIDE DEF u, v
  <2>4. u \o v \in Seq(Byte) /\ len <= Len(u \o v)
    BY <2>2, <2>3
  <2>5. SubSeq(u \o v, 1, len) \in Seq(Byte) /\ Len(SubSeq(u \o v, 1, len)) = len
    BY <2>2, <2>4
  <2> QED BY <2>1, <2>5
<1> HIDE DEF z, len
<1> QED BY <1>3, <1>4, <1>5, <1>6, <1>7 DEF z, len

\* What is said of the file stays true while the file stays.
LEMMA FileKept ==
    ASSUME UNCHANGED <<lines, terminated>>
    PROVE  L!Bytes' = L!Bytes /\ Ended' = Ended /\ (L!Fits' <=> L!Fits)
BY DEF L!Bytes, L!Laid, Ended, L!Fits

\* The steps that leave the file alone.
LEMMA StepInFile ==
    ASSUME ReaderInv, UNCHANGED <<follow, burst, lines, terminated>>, L!TypeOK',
           readerPc' = "end" => ~follow,
           \A p : L!Fits /\ ~burst /\ Layout(p, Ended, L!Bytes) /\ ReadUpTo(p)
                     => ReadUpTo(p)'
    PROVE  ReaderInv'
<1>1. ASSUME Unhurried'
      PROVE  \E p : Layout(p, Ended', L!Bytes') /\ ReadUpTo(p)'
  <2>1. L!Fits /\ ~burst
    BY <1>1, FileKept DEF Unhurried
  <2>2. PICK p : Layout(p, Ended, L!Bytes) /\ ReadUpTo(p)
    BY <2>1 DEF ReaderInv, Unhurried
  <2>3. ReadUpTo(p)'
    BY <2>1, <2>2
  <2> QED BY <2>2, <2>3, FileKept
<1>2. /\ (~follow => ~burst)' /\ (follow => readerPc # "end" /\ terminated)'
      /\ (~terminated => lines # <<>> /\ lines[Len(lines)] # <<>>)'
  BY DEF ReaderInv
<1> QED BY <1>1, <1>2 DEF ReaderInv

LEMMA CallFmtKeeps ==
    ASSUME L!ReaderAssumption, ReaderInv, L!CallFmt
    PROVE  ReaderInv'
<1>1. /\ MaxFileLines \in Nat /\ Cap \in Nat /\ buf \in Seq(Byte) /\ Len(buf) <= Cap
      /\ lines \in Seq(Seq(1 .. MaxFileLines)) /\ out \in Seq(Seq(1 .. MaxFileLines))
      /\ offset \in 0 .. Len(L!Bytes)
  BY DEF L!ReaderAssumption, ReaderInv, L!TypeOK, Byte
<1>2. /\ ~follow /\ readerPc = "call" /\ readerPc' = "read"
      /\ buf' = IF L!HasLine(buf) THEN L!Beyond(buf) ELSE <<>>
      /\ UNCHANGED <<follow, burst, lines, terminated, offset, out>>
  BY DEF L!CallFmt, L!fileVars
<1>3. buf' \in Seq(Byte) /\ Len(buf') <= Cap
  <2>1. CASE L!HasLine(buf)
    BY <1>1, <1>2, <2>1, BufferParts
  <2>2. CASE ~L!HasLine(buf)
    BY <1>1, <1>2, <2>2
  <2> QED BY <2>1, <2>2
<1>4. L!TypeOK'
  BY <1>2, <1>3, FileKept DEF ReaderInv, L!TypeOK, Byte
<1>5. ASSUME NEW p, Layout(p, Ended, L!Bytes), ReadUpTo(p) PROVE ReadUpTo(p)'
  <2> DEFINE m == Len(out)
             z == L!Newline(buf)
  <2>1. BufferFrom(p[m])'
    <3>1. CASE m = 0
      <4>1. buf = <<>> /\ offset = 0 /\ p[m] = 0
        BY <1>1, <1>2, <1>5, <3>1, LineLaid DEF ReadUpTo
      <4>2. ~L!HasLine(<<>>)
        BY DEF L!HasLine, L!Range
      <4> QED BY <1>2, <4>1, <4>2 DEF BufferFrom
    <3>2. CASE m # 0 /\ ~L!HasLine(buf)
      <4>1. m \in 0 .. Len(lines) /\ offset = p[m]
        BY <1>1, <1>2, <1>5, <3>2 DEF ReadUpTo
      <4>2. p[m] \in Nat
        BY <1>1, <1>5, <4>1, LineLaid
      <4> HIDE DEF m
      <4>3. buf' = <<>> /\ offset' = p[m] + 0
        BY <1>2, <3>2, <4>1, <4>2
      <4> QED BY <1>2, <4>3 DEF BufferFrom, m
    <3>3. CASE m # 0 /\ L!HasLine(buf)
      <4>1. /\ L!HasLine(buf) /\ BufferFrom(p[m - 1])
            /\ m - 1 \in 0 .. Len(lines) /\ m \in 0 .. Len(lines) /\ (m - 1) + 1 = m
        BY <1>1, <1>2, <1>5, <3>3 DEF ReadUpTo
      <4>2. z \in 1 .. Len(buf) /\ p[(m - 1) + 1] = p[m - 1] + z
        BY <1>1, <1>5, <4>1, FirstLine
      <4>3. /\ buf' = L!Beyond(buf) /\ Len(buf') = Len(buf) - z
            /\ \A j \in 1 .. Len(buf) - z : buf'[j] = buf[z + j]
        BY <1>1, <1>2, <4>1, BufferParts
      <4>4. p[m - 1] \in Nat /\ p[m] \in Nat /\ Len(buf) \in Nat /\ offset \in Nat
        <5>1. p[m - 1] \in Nat /\ p[m] \in Nat
          BY <1>1, <1>5, <4>1, LineLaid
        <5>2. Len(buf) \in Nat /\ offset \in Nat
          BY <1>1, <4>1 DEF BufferFrom
        <5> QED BY <5>1, <5>2
      <4>5. p[m] = p[m - 1] + z
        BY <4>1, <4>2
      <4> HIDE DEF z, m
      <4>6. offset = p[m - 1] + Len(buf) /\ \A j \in 1 .. Len(buf) : buf[j] = L!Bytes[p[m - 1] + j]
        BY <4>1 DEF BufferFrom
      <4>7. offset = p[m] + Len(buf')
        BY <4>2, <4>3, <4>4, <4>5, <4>6
      <4>8. ASSUME NEW j \in 1 .. Len(buf') PROVE buf'[j] = L!Bytes[p[m] + j]
        <5>1. /\ z + j \in 1 .. Len(buf) /\ j \in 1 .. Len(buf) - z
              /\ p[m] + j = p[m - 1] + (z + j)
          BY <4>2, <4>3, <4>4, <4>5
        <5> QED BY <4>3, <4>6, <5>1
      <4> QED BY <1>2, <4>7, <4>8, FileKept DEF BufferFrom, m
    <3> QED BY <3>1, <3>2, <3>3
  <2> QED BY <1>2, <1>5, <2>1 DEF ReadUpTo
<1> QED BY <1>2, <1>4, <1>5, StepInFile

LEMMA CallFollowKeeps ==
    ASSUME L!ReaderAssumption, ReaderInv, L!CallFollow
    PROVE  ReaderInv'
<1>1. /\ MaxFileLines \in Nat /\ Cap \in Nat /\ buf \in Seq(Byte) /\ Len(buf) <= Cap
      /\ lines \in Seq(Seq(1 .. MaxFileLines)) /\ out \in Seq(Seq(1 .. MaxFileLines))
      /\ offset \in 0 .. Len(L!Bytes)
  BY DEF L!ReaderAssumption, ReaderInv, L!TypeOK, Byte
<1>2. /\ follow /\ readerPc = "call" /\ readerPc' = "read"
      /\ buf' = IF L!HasLine(buf) THEN L!CopiedBackwards(buf) ELSE buf
      /\ UNCHANGED <<follow, burst, lines, terminated, offset, out>>
  BY DEF L!CallFollow, L!fileVars
<1>3. buf' \in Seq(Byte) /\ Len(buf') <= Cap
  <2>1. CASE L!HasLine(buf)
    BY <1>1, <1>2, <2>1, BufferParts
  <2>2. CASE ~L!HasLine(buf)
    BY <1>1, <1>2, <2>2
  <2> QED BY <2>1, <2>2
<1>4. L!TypeOK'
  BY <1>2, <1>3, FileKept DEF ReaderInv, L!TypeOK, Byte
<1>5. ASSUME NEW p, Layout(p, Ended, L!Bytes), ReadUpTo(p) PROVE ReadUpTo(p)'
  <2> DEFINE m == Len(out)
             z == L!Newline(buf)
  <2>1. offset = p[m] /\ buf' = <<>>
    <3>1. CASE m = 0
      <4>1. buf = <<>> /\ offset = p[m]
        BY <1>2, <1>5, <3>1 DEF ReadUpTo
      <4>2. ~L!HasLine(<<>>)
        BY DEF L!HasLine, L!Range
      <4> QED BY <1>2, <4>1, <4>2
    <3>2. CASE m # 0
      <4>1. /\ L!HasLine(buf) /\ BufferFrom(p[m - 1]) /\ offset = p[m]
            /\ m - 1 \in 0 .. Len(lines) /\ m \in 0 .. Len(lines) /\ (m - 1) + 1 = m
        BY <1>1, <1>2, <1>5, <3>2 DEF ReadUpTo
      <4>2. z \in 1 .. Len(buf) /\ p[(m - 1) + 1] = p[m - 1] + z
        BY <1>1, <1>5, <4>1, FirstLine
      <4>3. buf' \in Seq(Byte) /\ Len(buf') = Len(buf) - z
        BY <1>1, <1>2, <4>1, BufferParts
      <4>4. p[m - 1] \in Nat /\ p[m] \in Nat
        BY <1>1, <1>5, <4>1, LineLaid
      <4>5. p[m] = p[m - 1] + z /\ offset = p[m - 1] + Len(buf) /\ Len(buf) \in Nat
        BY <1>1, <4>1, <4>2 DEF BufferFrom
      <4> HIDE DEF z, m
      <4>6. Len(buf') = 0
        BY <4>1, <4>2, <4>3, <4>4, <4>5
      <4> QED BY <4>1, <4>3, <4>6
    <3> QED BY <3>1, <3>2
  <2>2. BufferFrom(p[m])'
    BY <1>1, <1>2, <2>1 DEF BufferFrom
  <2> QED BY <1>2, <1>5, <2>2 DEF ReadUpTo
<1> QED BY <1>2, <1>4, <1>5, StepInFile

LEMMA ReadKeeps ==
    ASSUME L!ReaderAssumption, ReaderInv, L!Read
    PROVE  ReaderInv'
<1> DEFINE b == L!Bytes
           n == L!Min({Cap - Len(buf), Len(b) - offset})
           more == SubSeq(b, offset + 1, offset + n)
<1>1. /\ MaxFileLines \in Nat /\ Cap \in Nat /\ buf \in Seq(Byte) /\ Len(buf) <= Cap
      /\ lines \in Seq(Seq(1 .. MaxFileLines)) /\ out \in Seq(Seq(1 .. MaxFileLines))
      /\ offset \in 0 .. Len(L!Bytes)
  BY DEF L!ReaderAssumption, ReaderInv, L!TypeOK, Byte
<1>2. /\ readerPc = "read" /\ n > 0
      /\ buf' = buf \o more /\ offset' = offset + n
      /\ UNCHANGED <<follow, burst, lines, terminated, readerPc, out>>
  BY DEF L!Read, L!fileVars
<1>3. /\ b \in Seq(Byte) /\ Len(b) \in Nat /\ Len(buf) \in Nat /\ offset \in Nat
      /\ offset <= Len(b)
  BY <1>1, FileHasLayout
<1>4. /\ n \in Nat /\ n <= Cap - Len(buf) /\ n <= Len(b) - offset
  <2>1. Cap - Len(buf) \in Int /\ Len(b) - offset \in Int
    BY <1>1, <1>3
  <2>2. /\ n \in {Cap - Len(buf), Len(b) - offset}
        /\ n <= Cap - Len(buf) /\ n <= Len(b) - offset
    BY <2>1, MinOfTwo
  <2> HIDE DEF n, b
  <2> QED BY <1>2, <2>1, <2>2
<1> HIDE DEF n, b
<1>5. /\ more \in Seq(Byte) /\ Len(more) = n
      /\ \A j \in 1 .. n : more[j] = b[offset + j]
  <2>1. offset + n \in Nat /\ offset <= offset + n /\ offset + n <= Len(b)
    BY <1>3, <1>4
  <2>2. /\ more \in Seq(Byte) /\ Len(more) = (offset + n) - offset
        /\ \A j \in 1 .. (offset + n) - offset : more[j] = b[offset + j]
    BY <1>3, <2>1, PartOfList
  <2>3. (offset + n) - offset = n
    BY <1>3, <1>4
  <2> HIDE DEF more
  <2> QED BY <2>2, <2>3
<1> HIDE DEF more
<1>6. /\ buf' \in Seq(Byte) /\ Len(buf') = Len(buf) + n
      /\ \A j \in 1 .. Len(buf) : buf'[j] = buf[j]
      /\ \A j \in 1 .. n : buf'[Len(buf) + j] = more[j]
  <2> DEFINE joined == buf \o more
  <2>1. /\ joined \in Seq(Byte) /\ Len(joined) = Len(buf) + n
        /\ \A j \in 1 .. Len(buf) : joined[j] = buf[j]
        /\ \A j \in 1 .. n : joined[Len(buf) + j] = more[j]
    <3>1. /\ joined \in Seq(Byte) /\ Len(joined) = Len(buf) + Len(more)
          /\ \A j \in 1 .. Len(buf) : joined[j] = buf[j]
          /\ \A j \in 1 .. Len(more) : joined[Len(buf) + j] = more[j]
      <4>1. buf \in Seq(Byte) /\ more \in Seq(Byte)
        BY <1>1, <1>5
      <4>2. /\ buf \o more \in Seq(Byte) /\ Len(buf \o more) = Len(buf) + Len(more)
            /\ \A j \in 1 .. Len(buf) : (buf \o more)[j] = buf[j]
            /\ \A j \in 1 .. Len(more) : (buf \o more)[Len(buf) + j] = more[j]
        BY <4>1, JoinedLists
      <4> QED BY <4>2, Zenon
    <3> HIDE DEF joined
    <3> QED BY <1>5, <3>1, Zenon
  <2>2. buf' = joined
    BY <1>2
  <2> HIDE DEF joined
  <2> QED BY <2>1, <2>2, Zenon
<1>7. L!TypeOK'
  <2>1. Len(buf') <= Cap
    BY <1>1, <1>3, <1>4, <1>6
  <2>2. offset' \in 0 .. Len(b)
    BY <1>1, <1>2, <1>3, <1>4
  <2> QED BY <1>2, <1>6, <2>1, <2>2, FileKept DEF ReaderInv, L!TypeOK, Byte, b
<1>8. ASSUME NEW p, Layout(p, Ended, L!Bytes), ReadUpTo(p) PROVE ReadUpTo(p)'
  <2> DEFINE s == p[Len(out)]
  <2>1. BufferFrom(s) /\ Len(out) \in 0 .. Len(lines)
    BY <1>1, <1>2, <1>8 DEF ReadUpTo
  <2>2. s \in Nat
    BY <1>1, <1>8, <2>1, LineLaid
  <2> HIDE DEF s
  <2>3. offset = s + Len(buf) /\ \A j \in 1 .. Len(buf) : buf[j] = b[s + j]
    BY <2>1 DEF BufferFrom, b
  <2>4. offset' = s + Len(buf')
    BY <1>2, <1>3, <1>4, <1>6, <2>2, <2>3
  <2>5. ASSUME NEW j \in 1 .. Len(buf') PROVE buf'[j] = b[s + j]
    <3>1. CASE j <= Len(buf)
      <4>1. j \in 1 .. Len(buf)
        BY <1>3, <3>1
      <4> QED BY <1>6, <2>3, <4>1
    <3>2. CASE ~(j <= Len(buf))
      <4> DEFINE k == j - Len(buf)
      <4>1. k \in 1 .. n /\ Len(buf) + k = j /\ offset + k = s + j
        BY <1>3, <1>4, <1>6, <2>2, <2>3, <3>2
      <4> HIDE DEF k
      <4>2. buf'[Len(buf) + k] = b[offset + k]
        BY <1>5, <1>6, <4>1
      <4> QED BY <4>1, <4>2
    <3> QED BY <3>1, <3>2
  <2>6. BufferFrom(s)'
    BY <1>2, <2>4, <2>5, FileKept DEF BufferFrom, b, s
  <2> QED BY <1>2, <1>8, <2>6 DEF ReadUpTo, s
<1> QED BY <1>2, <1>7, <1>8, StepInFile DEF ReaderInv

LEMMA ReadNothingKeeps ==
    ASSUME L!ReaderAssumption, ReaderInv, L!ReadNothing
    PROVE  ReaderInv'
<1>1. /\ MaxFileLines \in Nat /\ Cap \in Nat \ {0} /\ buf \in Seq(Byte) /\ Len(buf) <= Cap
      /\ lines \in Seq(Seq(1 .. MaxFileLines)) /\ out \in Seq(Seq(1 .. MaxFileLines))
      /\ offset \in 0 .. Len(L!Bytes)
  BY DEF L!ReaderAssumption, ReaderInv, L!TypeOK, Byte
<1>2. /\ ~follow /\ readerPc = "read" /\ ~L!HasLine(buf)
      /\ Len(buf) = Cap \/ offset = Len(L!Bytes)
      /\ buf = <<>> => readerPc' = "end" /\ out' = out
      /\ buf # <<>> => readerPc' = "call" /\ out' = Append(out, buf)
      /\ UNCHANGED <<follow, burst, lines, terminated, offset, buf>>
  BY DEF L!ReadNothing, L!fileVars
<1>3. buf \in Seq(1 .. MaxFileLines)
  BY <1>1, <1>2, BufferParts
<1>4. out' \in Seq(Seq(1 .. MaxFileLines)) /\ readerPc' \in {"call", "end"}
  <2>1. Append(out, buf) \in Seq(Seq(1 .. MaxFileLines))
    BY <1>1, <1>3
  <2>2. readerPc' \in {"call", "end"} /\ (out' = out \/ out' = Append(out, buf))
    BY <1>2
  <2> QED BY <1>1, <2>1, <2>2
<1>5. L!TypeOK'
  BY <1>2, <1>4, FileKept DEF ReaderInv, L!TypeOK
<1>6. ASSUME L!Fits, NEW p, Layout(p, Ended, L!Bytes), ReadUpTo(p) PROVE ReadUpTo(p)'
  <2> DEFINE m == Len(out)
  <2>1. BufferFrom(p[m]) /\ m \in 0 .. Len(lines)
    BY <1>1, <1>2, <1>6 DEF ReadUpTo
  <2>2. \/ m = Len(lines) /\ buf = <<>>
        \/ /\ m + 1 \in 1 .. Len(lines) /\ Len(buf) <= Len(lines[m + 1])
           /\ offset < Len(L!Bytes)
        \/ /\ ~terminated /\ m + 1 = Len(lines)
           /\ buf = lines[m + 1] /\ offset = p[Len(lines)]
    BY <1>1, <1>2, <1>6, <2>1, FirstLine
  <2>3. ~(m + 1 \in 1 .. Len(lines) /\ Len(buf) <= Len(lines[m + 1]) /\ offset < Len(L!Bytes))
    <3> SUFFICES ASSUME m + 1 \in 1 .. Len(lines), Len(buf) <= Len(lines[m + 1]),
                        offset < Len(L!Bytes)
                 PROVE  FALSE
      OBVIOUS
    <3>1. Len(lines[m + 1]) < Cap /\ Len(lines[m + 1]) \in Nat
      BY <1>1, <1>6 DEF L!Fits
    <3>2. Len(L!Bytes) \in Nat
      BY <1>1, FileHasLayout
    <3> QED BY <1>1, <1>2, <3>1, <3>2
  <2>4. CASE m = Len(lines) /\ buf = <<>>
    BY <1>2, <1>6, <2>4 DEF ReadUpTo
  <2>5. CASE /\ ~terminated /\ m + 1 = Len(lines)
             /\ buf = lines[m + 1] /\ offset = p[Len(lines)]
    <3>1. buf # <<>>
      BY <2>5 DEF ReaderInv
    <3>2. /\ readerPc' = "call" /\ out' = Append(out, buf)
          /\ m \in Nat /\ Len(lines) \in Nat
      BY <1>1, <1>2, <3>1
    <3>3. /\ Len(out') = m + 1 /\ out'[m + 1] = buf
          /\ \A i \in 1 .. m : out'[i] = out[i]
      BY <1>1, <1>3, <3>2
    <3>4. \A i \in 1 .. m : out[i] = lines[i]
      BY <1>6 DEF ReadUpTo
    <3>5. ~follow' /\ ~L!HasLine(buf') /\ offset' = offset /\ lines' = lines
      BY <1>2
    <3> HIDE DEF m
    <3>6. \A i \in 1 .. Len(out') : out'[i] = lines[i]
      <4> SUFFICES ASSUME NEW i \in 1 .. m + 1 PROVE out'[i] = lines[i]
        BY <3>3
      <4>1. i \in 1 .. m \/ i = m + 1
        BY <3>2
      <4> QED BY <2>5, <3>3, <3>4, <4>1
    <3>7. /\ Len(out') <= Len(lines') /\ Len(out') # 0
          /\ offset' = p[Len(out')]
      BY <2>5, <3>2, <3>3, <3>5
    <3> QED BY <3>2, <3>5, <3>6, <3>7 DEF ReadUpTo, L!HasLine
  <2> QED BY <2>2, <2>3, <2>4, <2>5
<1> QED BY <1>2, <1>5, <1>6, StepInFile

LEMMA ReturnKeeps ==
    ASSUME L!ReaderAssumption, ReaderInv, L!Return
    PROVE  ReaderInv'
<1>1. /\ MaxFileLines \in Nat /\ buf \in Seq(Byte)
      /\ lines \in Seq(Seq(1 .. MaxFileLines)) /\ out \in Seq(Seq(1 .. MaxFileLines))
      /\ offset \in 0 .. Len(L!Bytes) /\ Len(L!Bytes) \in Nat /\ Len(buf) \in Nat
  BY FileHasLayout DEF L!ReaderAssumption, ReaderInv, L!TypeOK, Byte
<1>2. /\ readerPc = "read" /\ L!HasLine(buf) /\ readerPc' = "call"
      /\ out' = Append(out, L!Entry(buf))
      /\ UNCHANGED <<follow, burst, lines, terminated, offset, buf>>
  BY DEF L!Return, L!fileVars
<1>3. L!Entry(buf) \in Seq(1 .. MaxFileLines)
  BY <1>1, <1>2, BufferParts
<1>4. /\ out' \in Seq(Seq(1 .. MaxFileLines)) /\ Len(out') = Len(out) + 1
      /\ \A i \in 1 .. Len(out) : out'[i] = out[i]
      /\ out'[Len(out) + 1] = L!Entry(buf)
      /\ Len(out) \in Nat
  <2> DEFINE e == L!Entry(buf)
             more == Append(out, e)
  <2>1. e \in Seq(1 .. MaxFileLines)
    BY <1>3
  <2> HIDE DEF e
  <2>2. /\ more \in Seq(Seq(1 .. MaxFileLines)) /\ Len(more) = Len(out) + 1
        /\ \A i \in 1 .. Len(out) : more[i] = out[i]
        /\ more[Len(out) + 1] = e
        /\ Len(out) \in Nat
    BY <1>1, <2>1
  <2>3. out' = more
    BY <1>2 DEF e
  <2> HIDE DEF more
  <2> QED BY <2>2, <2>3, Zenon DEF e
<1>5. L!TypeOK'
  BY <1>2, <1>4, FileKept DEF ReaderInv, L!TypeOK
<1>6. ASSUME NEW p, Layout(p, Ended, L!Bytes), ReadUpTo(p) PROVE ReadUpTo(p)'
  <2> DEFINE z == L!Newline(buf)
  <2>0. PICK m : m = Len(out)
    OBVIOUS
  <2>1. /\ BufferFrom(p[m]) /\ m \in 0 .. Len(lines) /\ m \in Nat /\ Len(lines) \in Nat
        /\ \A i \in 1 .. m : out[i] = lines[i]
        /\ follow => Len(lines) <= m + 1
    BY <1>1, <1>2, <1>6, <2>0 DEF ReadUpTo
  <2>2. /\ m + 1 \in 1 .. Len(lines) /\ z \in 1 .. Len(buf)
        /\ L!Entry(buf) = lines[m + 1] /\ p[m + 1] = p[m] + z
    BY <1>1, <1>2, <1>6, <2>1, FirstLine
  <2>3. p[m] \in Nat /\ p[Len(lines)] = Len(L!Bytes)
    BY <1>1, <1>6, <2>1, LineLaid
  <2>4. offset = p[m] + Len(buf)
    BY <2>1 DEF BufferFrom
  <2> HIDE DEF z
  <2>5. ASSUME follow PROVE offset = p[m + 1]
    <3>1. m + 1 = Len(lines)
      BY <2>1, <2>2, <2>5
    <3>2. p[m + 1] = Len(L!Bytes)
      BY <2>3, <3>1
    <3>3. /\ p[m] \in Nat /\ Len(buf) \in Nat /\ Len(L!Bytes) \in Nat
          /\ offset <= Len(L!Bytes) /\ z <= Len(buf) /\ z \in Nat
      BY <1>1, <2>2, <2>3
    <3> QED BY <2>2, <2>4, <3>2, <3>3
  <2>6. Len(out') = m + 1 /\ Len(out') - 1 = m /\ Len(out') # 0
    BY <1>4, <2>0, <2>1
  <2>7. \A i \in 1 .. Len(out') : out'[i] = lines[i]
    <3> SUFFICES ASSUME NEW i \in 1 .. Len(out') PROVE out'[i] = lines[i]
      OBVIOUS
    <3>1. i \in 1 .. m \/ i = m + 1
      BY <2>1, <2>6
    <3> QED BY <1>4, <2>0, <2>1, <2>2, <3>1
  <2>8. BufferFrom(p[m])'
    BY <1>2, <2>1, FileKept DEF BufferFrom
  <2>9. /\ Len(out') <= Len(lines)
        /\ L!HasLine(buf)' /\ offset' = offset
        /\ follow => Len(lines) <= Len(out') + 1 /\ offset = p[Len(out')]
    BY <1>2, <2>1, <2>2, <2>5, <2>6
  <2>10. BufferFrom(p[Len(out) - 1])'
    BY <2>6, <2>8 DEF BufferFrom
  <2> QED BY <1>2, <2>6, <2>7, <2>9, <2>10 DEF ReadUpTo
<1> QED BY <1>2, <1>5, <1>6, StepInFile

\* A line has no newline in it.
LEMMA LineIsText ==
    ASSUME MaxFileLines \in Nat, NEW i \in 1 .. MaxFileLines, NEW n \in Nat
    PROVE  L!Line(i, n) \in Seq(1 .. MaxFileLines)
BY DEF L!Line

LEMMA GrowKeeps ==
    ASSUME L!ReaderAssumption, ReaderInv, L!Grow
    PROVE  ReaderInv'
<1>1. /\ MaxFileLines \in Nat /\ MaxBody \in Nat /\ buf \in Seq(Byte)
      /\ lines \in Seq(Seq(1 .. MaxFileLines)) /\ out \in Seq(Seq(1 .. MaxFileLines))
      /\ Len(lines) \in Nat /\ Len(out) \in Nat
      /\ offset \in 0 .. Len(L!Bytes)
  BY DEF L!ReaderAssumption, ReaderInv, L!TypeOK, Byte
<1>2. PICK n \in 0 .. MaxBody : lines' = Append(lines, LongLine(n))
  BY DEF L!Grow, LongLine
<1>3. /\ follow /\ Len(lines) < MaxFileLines
      /\ burst' = (burst \/ Len(out) < Len(lines))
      /\ UNCHANGED <<follow, terminated, offset, buf, readerPc, out>>
      /\ terminated
  BY DEF L!Grow, ReaderInv
<1> DEFINE t == LongLine(n)
           e == Append(t, 0)
           N == Len(lines)
<1>4. t \in Seq(1 .. MaxFileLines)
  <2>1. n \in Nat /\ N + 1 \in 1 .. MaxFileLines
    BY <1>1, <1>2, <1>3
  <2> QED BY <1>1, <2>1, LineIsText DEF LongLine
<1> HIDE DEF t
<1>5. e \in Seq(Byte)
  BY <1>1, <1>4, LineWithNewline
<1> HIDE DEF e
<1>6. /\ lines' \in Seq(Seq(1 .. MaxFileLines)) /\ Len(lines') = N + 1
      /\ \A i \in 1 .. N : lines'[i] = lines[i]
      /\ lines'[N + 1] = t
  <2> DEFINE more == Append(lines, t)
  <2>1. /\ more \in Seq(Seq(1 .. MaxFileLines)) /\ Len(more) = N + 1
        /\ \A i \in 1 .. N : more[i] = lines[i]
        /\ more[N + 1] = t
    BY <1>1, <1>4
  <2>2. lines' = more
    BY <1>2 DEF t
  <2> HIDE DEF more
  <2> QED BY <2>1, <2>2, Zenon
<1>7. /\ Ended \in Seq(Seq(Byte)) /\ Len(Ended) = N /\ L!Bytes \in Seq(Byte)
      /\ \A i \in 1 .. N : Ended[i] = Append(lines[i], 0)
  BY <1>1, <1>3, FileHasLayout DEF HasNewline
<1>8. Ended' = Append(Ended, e)
  <2>1. Ended' = [i \in DOMAIN lines' |-> Append(lines'[i], 0)]
    BY <1>3 DEF Ended, L!Laid, L!NL
  <2>2. DOMAIN lines' = 1 .. N + 1
    BY <1>6
  <2>3. ASSUME NEW i \in 1 .. N + 1 PROVE Append(lines'[i], 0) = Append(Ended, e)[i]
    <3>1. N \in Nat
      BY <1>1
    <3>2. i \in 1 .. N \/ i = N + 1
      BY <3>1
    <3>3. CASE i \in 1 .. N
      <4>1. Append(Ended, e)[i] = Ended[i]
        BY <1>5, <1>7, <3>3
      <4> QED BY <1>6, <1>7, <3>3, <4>1, Zenon
    <3>4. CASE i = N + 1
      <4>1. Append(Ended, e)[i] = e
        BY <1>5, <1>7, <3>4
      <4> QED BY <1>6, <3>4, <4>1, Zenon DEF e
    <3> QED BY <3>2, <3>3, <3>4
  <2>4. /\ Append(Ended, e) \in Seq(Seq(Byte)) /\ Len(Append(Ended, e)) = N + 1
        /\ DOMAIN Append(Ended, e) = 1 .. N + 1
    BY <1>5, <1>7
  <2> DEFINE more == Append(Ended, e)
  <2>5. more = [i \in 1 .. N + 1 |-> more[i]]
    <3>1. more \in Seq(Seq(Byte)) /\ DOMAIN more = 1 .. N + 1
      BY <2>4
    <3> HIDE DEF more
    <3> QED BY <3>1
  <2> QED BY <2>1, <2>2, <2>3, <2>5
<1>9. L!Bytes' = L!Bytes \o e
  <2>1. L!Bytes' = FlattenSeq(Ended')
    BY DEF L!Bytes, L!Laid, L!FlattenSeq, FlattenSeq, Ended
  <2>2. FlattenSeq(Append(Ended, e)) = FlattenSeq(Ended) \o e
    BY <1>5, <1>7, FlattenOfAppend
  <2> QED BY <1>8, <2>1, <2>2, BytesAreJoined
<1>10. /\ Len(L!Bytes) \in Nat /\ Len(L!Bytes') \in Nat /\ Len(L!Bytes) <= Len(L!Bytes')
       /\ \A j \in 1 .. Len(L!Bytes) : L!Bytes'[j] = L!Bytes[j]
  <2> DEFINE b == L!Bytes
  <2>1. b \in Seq(Byte)
    BY <1>7
  <2> HIDE DEF b
  <2>2. /\ Len(b) \in Nat /\ Len(b \o e) \in Nat /\ Len(b) <= Len(b \o e)
        /\ \A j \in 1 .. Len(b) : (b \o e)[j] = b[j]
    BY <1>5, <2>1
  <2> QED BY <1>9, <2>2 DEF b
<1>11. L!TypeOK'
  <2>1. burst' \in BOOLEAN
    BY <1>3 DEF ReaderInv, L!TypeOK
  <2>2. offset' \in 0 .. Len(L!Bytes')
    BY <1>1, <1>3, <1>10
  <2> QED BY <1>3, <1>6, <2>1, <2>2 DEF ReaderInv, L!TypeOK
<1>12. ASSUME L!Fits', ~burst'
       PROVE  \E q : Layout(q, Ended', L!Bytes') /\ ReadUpTo(q)'
  <2>1. L!Fits /\ ~burst /\ N <= Len(out)
    <3>1. ~burst /\ ~(Len(out) < N)
      BY <1>3, <1>12
    <3>2. ASSUME NEW i \in DOMAIN lines PROVE Len(lines[i]) < Cap
      <4>1. i \in 1 .. N /\ i \in DOMAIN lines'
        BY <1>1, <1>6
      <4> QED BY <1>6, <1>12, <4>1 DEF L!Fits
    <3> QED BY <1>1, <3>1, <3>2 DEF L!Fits
  <2>2. PICK p : Layout(p, Ended, L!Bytes) /\ ReadUpTo(p)
    BY <2>1 DEF ReaderInv, Unhurried
  <2>3. PICK q : /\ Layout(q, Append(Ended, e), L!Bytes \o e)
                 /\ \A i \in 0 .. Len(Ended) : q[i] = p[i]
    BY <1>5, <1>7, <2>2, LayoutOfAppend
  <2>4. PICK m : m = Len(out)
    OBVIOUS
  <2>5. /\ m = N /\ \A i \in 1 .. m : out[i] = lines[i]
        /\ m \in Nat
    BY <1>1, <2>1, <2>2, <2>4 DEF ReadUpTo
  <2>6. q[m] = p[m] /\ (m # 0 => q[m - 1] = p[m - 1])
    BY <1>7, <2>3, <2>5
  <2>7. /\ p[m] \in Nat
        /\ m # 0 => p[m - 1] \in Nat
    BY <1>1, <2>2, <2>5, LineLaid
  <2>8. ASSUME NEW s \in Nat, BufferFrom(s) PROVE BufferFrom(s)'
    <3>1. /\ offset' = offset /\ buf' = buf /\ offset = s + Len(buf) /\ Len(buf) \in Nat
          /\ offset <= Len(L!Bytes)
          /\ \A j \in 1 .. Len(buf) : buf[j] = L!Bytes[s + j]
      BY <1>1, <1>3, <2>8 DEF BufferFrom
    <3>2. ASSUME NEW j \in 1 .. Len(buf) PROVE buf[j] = L!Bytes'[s + j]
      <4>1. s + j \in 1 .. Len(L!Bytes)
        BY <1>10, <3>1
      <4> QED BY <1>10, <3>1, <4>1
    <3> QED BY <3>1, <3>2 DEF BufferFrom
  <2>9. readerPc = "read" => BufferFrom(q[m])'
    <3>1. readerPc = "read" => BufferFrom(p[m])
      BY <2>2, <2>4 DEF ReadUpTo
    <3>2. BufferFrom(p[m]) => BufferFrom(p[m])'
      BY <2>7, <2>8
    <3> QED BY <2>6, <3>1, <3>2
  <2>10. readerPc = "call" /\ m # 0 => L!HasLine(buf) /\ BufferFrom(q[m - 1])'
    <3>1. readerPc = "call" /\ m # 0 => L!HasLine(buf) /\ BufferFrom(p[m - 1])
      BY <1>3, <2>2, <2>4 DEF ReadUpTo
    <3>2. m # 0 /\ BufferFrom(p[m - 1]) => BufferFrom(p[m - 1])'
      BY <2>7, <2>8
    <3> QED BY <2>6, <3>1, <3>2
  <2>11. /\ readerPc = "call" /\ m = 0 => buf = <<>> /\ offset = 0
         /\ readerPc # "end"
         /\ readerPc = "call" => offset = q[m]
    BY <1>3, <2>2, <2>4, <2>6 DEF ReadUpTo, ReaderInv
  <2>12. ReadUpTo(q)'
    <3>1. Len(out') = m /\ out' = out /\ m <= Len(lines') /\ Len(lines') <= m + 1
      BY <1>1, <1>3, <1>6, <2>4, <2>5
    <3>2. \A i \in 1 .. m : out[i] = lines'[i]
      BY <1>6, <2>5
    <3>3. BufferFrom(q[Len(out)])' <=> BufferFrom(q[m])'
      BY <3>1 DEF BufferFrom
    <3>4. BufferFrom(q[Len(out) - 1])' <=> BufferFrom(q[m - 1])'
      BY <3>1 DEF BufferFrom
    <3> QED BY <1>3, <2>9, <2>10, <2>11, <3>1, <3>2, <3>3, <3>4 DEF ReadUpTo
  <2> QED BY <1>8, <1>9, <2>3, <2>12
<1> QED BY <1>3, <1>11, <1>12 DEF ReaderInv, Unhurried

LEMMA ReaderInit == L!ReaderAssumption /\ L!Init => ReaderInv
<1> SUFFICES ASSUME L!ReaderAssumption, L!Init PROVE ReaderInv
  OBVIOUS
<1>1. /\ MaxFileLines \in Nat /\ MaxBody \in Nat /\ Cap \in Nat
      /\ follow \in BOOLEAN /\ burst = FALSE
      /\ offset = 0 /\ buf = <<>> /\ readerPc = "call" /\ out = <<>>
  BY DEF L!ReaderAssumption, L!Init
<1>2. /\ follow => lines = <<>>
      /\ terminated \in BOOLEAN
      /\ ~terminated => lines # <<>> /\ L!Last(lines) # <<>>
  BY DEF L!Init
<1>3. lines \in Seq(Seq(1 .. MaxFileLines))
  <2>1. CASE follow
    BY <1>2, <2>1
  <2>2. CASE ~follow
    <3>1. PICK m \in 0 .. MaxFileLines :
            lines \in {[i \in 1 .. m |-> L!Line(i, len[i])] :
                         len \in [1 .. m -> 0 .. MaxBody]}
      BY <2>2 DEF L!Init
    <3>2. PICK len \in [1 .. m -> 0 .. MaxBody] :
            lines = [i \in 1 .. m |-> L!Line(i, len[i])]
      BY <3>1
    <3>3. ASSUME NEW i \in 1 .. m PROVE L!Line(i, len[i]) \in Seq(1 .. MaxFileLines)
      <4>1. i \in 1 .. MaxFileLines /\ len[i] \in Nat
        BY <1>1, <3>1, <3>2
      <4> QED BY <1>1, <4>1, LineIsText
    <3>4. m \in Nat
      BY <1>1
    <3> QED BY <3>2, <3>3, <3>4
  <2> QED BY <1>1, <2>1, <2>2
<1>4. PICK p : Layout(p, Ended, L!Bytes)
  BY <1>1, <1>3, FileHasLayout
<1>5. L!Bytes \in Seq(Byte) /\ Len(lines) \in Nat
  BY <1>1, <1>3, FileHasLayout
<1>6. L!TypeOK
  <2>1. offset \in 0 .. Len(L!Bytes)
    BY <1>1, <1>5
  <2>2. buf \in Seq(0 .. MaxFileLines) /\ Len(buf) <= Cap
    BY <1>1
  <2>3. out \in Seq(Seq(1 .. MaxFileLines))
    BY <1>1
  <2> QED BY <1>1, <1>2, <1>3, <2>1, <2>2, <2>3 DEF L!TypeOK
<1>7. ReadUpTo(p)
  <2>1. p[0] = 0
    BY <1>4 DEF Layout
  <2>2. Len(out) = 0 /\ Len(out) <= Len(lines) /\ (follow => Len(lines) <= Len(out) + 1)
    BY <1>1, <1>2, <1>5
  <2> QED BY <1>1, <2>1, <2>2 DEF ReadUpTo
<1> QED BY <1>1, <1>2, <1>4, <1>6, <1>7 DEF ReaderInv, L!Last

LEMMA ReaderStepKeeps == L!ReaderAssumption /\ ReaderInv /\ [L!Next]_L!vars => ReaderInv'
<1> SUFFICES ASSUME L!ReaderAssumption, ReaderInv, [L!Next]_L!vars PROVE ReaderInv'
  OBVIOUS
<1>1. CASE UNCHANGED L!vars
  <2>1. UNCHANGED <<follow, burst, lines, terminated, offset, buf, readerPc, out>>
    BY <1>1 DEF L!vars, L!fileVars
  <2>2. L!TypeOK'
    BY <2>1, FileKept DEF ReaderInv, L!TypeOK
  <2>3. ASSUME NEW p, ReadUpTo(p) PROVE ReadUpTo(p)'
    BY <2>1, <2>3, FileKept DEF ReadUpTo, BufferFrom
  <2> QED BY <2>1, <2>2, <2>3, StepInFile DEF ReaderInv
<1>2. CASE L!Next
  BY <1>2, CallFmtKeeps, CallFollowKeeps, ReadKeeps, ReadNothingKeeps, ReturnKeeps,
     GrowKeeps DEF L!Next, L!ReaderStep
<1> QED BY <1>1, <1>2

\* For any lines, buffer and growth: the readers return the lines of the file,
\* whole and in their order, if lines fit the buffer and the log grows no faster
\* than it is read; and a file that was read to its end was returned in full.
THEOREM ReadersAreSound == L!Spec => []ReaderSound
<1>0. L!ReaderAssumption
  BY ReaderConstants
<1>1. L!Init => ReaderInv
  BY <1>0, ReaderInit
<1>2. ReaderInv /\ [L!Next]_L!vars => ReaderInv'
  BY <1>0, ReaderStepKeeps
<1>3. ReaderInv => ReaderSound
  <2> SUFFICES ASSUME ReaderInv PROVE ReaderSound
    OBVIOUS
  <2>1. /\ lines \in Seq(Seq(1 .. MaxFileLines)) /\ out \in Seq(Seq(1 .. MaxFileLines))
        /\ Len(out) \in Nat /\ Len(lines) \in Nat
    BY DEF ReaderInv, L!TypeOK
  <2>2. ASSUME L!Fits, ~burst
        PROVE  /\ Len(out) <= Len(lines) /\ \A i \in 1 .. Len(out) : out[i] = lines[i]
               /\ readerPc = "end" => Len(out) = Len(lines)
    BY <2>2 DEF ReaderInv, Unhurried, ReadUpTo
  <2>3. L!EntriesAreLines
    <3> SUFFICES ASSUME L!Fits, ~burst PROVE L!IsPrefix(out, lines)
      BY DEF L!EntriesAreLines
    <3> DEFINE m == Len(out)
               u == SubSeq(out, 1, m)
               v == SubSeq(lines, 1, m)
    <3>1. m \in Nat /\ m <= Len(lines)
      BY <2>1, <2>2
    <3> HIDE DEF m
    <3>2. /\ u \in Seq(Seq(1 .. MaxFileLines)) /\ Len(u) = m
          /\ \A i \in 1 .. m : u[i] = out[i]
      BY <2>1, <3>1 DEF m
    <3>3. /\ v \in Seq(Seq(1 .. MaxFileLines)) /\ Len(v) = m
          /\ \A i \in 1 .. m : v[i] = lines[i]
      BY <2>1, <3>1
    <3>4. \A i \in 1 .. m : out[i] = lines[i]
      BY <2>2 DEF m
    <3> HIDE DEF u, v
    <3>5. u = v
      <4>1. Len(u) = Len(v) /\ \A i \in 1 .. Len(u) : u[i] = v[i]
        BY <3>2, <3>3, <3>4
      <4> QED BY <3>2, <3>3, <4>1, EqualLists, Zenon
    <3> QED BY <3>1, <3>5 DEF L!IsPrefix, m, u, v
  <2>4. L!EndAfterAll
    <3> SUFFICES ASSUME readerPc = "end", L!Fits PROVE out = lines
      BY DEF L!EndAfterAll
    <3>1. ~burst
      BY DEF ReaderInv
    <3> QED BY <2>1, <2>2, <3>1
  <2> QED BY <2>3, <2>4 DEF ReaderSound, L!ReaderSound, ReaderInv
<1> QED BY <1>1, <1>2, <1>3, PTL DEF L!Spec
=============================================================================
