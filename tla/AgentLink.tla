------------------------------ MODULE AgentLink ------------------------------
(***************************************************************************)
(* One agent and the server: how the agent connects, logs in, opens a      *)
(* transfer connection and waits for its acknowledgement, listens for      *)
(* commands, and starts over (Agent.cpp: init_*_connection, login,         *)
(* init_comms_to_server, main).  The server's side is AgentSession, whose  *)
(* peer here is this agent.                                                *)
(*                                                                         *)
(* The acknowledgement of a transfer connection is a single byte on the    *)
(* control connection, between messages that carry their length.           *)
(***************************************************************************)
EXTENDS Naturals, Sequences

CONSTANTS Sessions, Conns, HostOf, NoSession, NoConn,
          MaxRetries,    \* transfer connections that are tried (10)
          MaxPending     \* bound: unread bytes and requests per connection

ASSUME LinkAssumption == /\ NoSession \notin Sessions /\ NoConn \notin Conns
                         /\ MaxRetries \in Nat \ {0} /\ MaxPending \in Nat

VARIABLES agentList, clreqHolder, mem, creator, ctl, trl, dtor, ackTo, tsd, on,
          ctlOpen, ctlUp, conn, connUp,
          apc,           \* the main thread of the agent
          cur,           \* the session at the other end of control_sd
          tconn,         \* transfer_sd, NoConn when it was closed
          retries,
          down,          \* per session: acks and requests sent, not yet read
          up,            \* sessions with an unread message from the agent
          hasty          \* has a side timed out before the other had its turn?

AS == INSTANCE AgentSession

serverVars == <<agentList, clreqHolder, mem, creator, ctl, trl, dtor, ackTo, tsd,
                on, ctlOpen, ctlUp, conn, connUp>>
agentVars == <<apc, cur, tconn, retries>>
vars == <<serverVars, agentVars, down, up, hasty>>

TypeOK ==
    /\ AS!TypeOK
    /\ apc \in {"connect", "login", "open", "wait", "loop", "garbled", "quit", "close"}
    /\ cur \in Sessions \cup {NoSession}
    /\ tconn \in Conns \cup {NoConn}
    /\ retries \in 0 .. MaxRetries
    /\ down \in [Sessions -> Seq({"ack", "req"})]
    /\ up \subseteq Sessions
    /\ hasty \in BOOLEAN

Init ==
    /\ AS!Init
    /\ apc = "connect" /\ cur = NoSession /\ tconn = NoConn /\ retries = 0
    /\ down = [s \in Sessions |-> <<>>]
    /\ up = {}
    /\ hasty = FALSE

Goes(from, to) == apc = from /\ apc' = to

-----------------------------------------------------------------------------
(* The agent.                                                              *)

\* init_control_connection().
Connect(s) ==
    /\ Goes("connect", "login")
    /\ AS!AcceptControl(s) /\ s \in ctlUp'
    /\ cur' = s
    /\ UNCHANGED <<tconn, retries, down, up, hasty>>

Login ==
    /\ Goes("login", "open")
    /\ up' = up \cup {cur}
    /\ retries' = 0
    /\ UNCHANGED <<serverVars, cur, tconn, down, hasty>>

\* One turn of the loop in init_transfer_connection(): connect,
OpenTransfer(c) ==
    /\ Goes("open", "wait") /\ retries < MaxRetries
    /\ AS!ConnOpen(c)
    /\ tconn' = c
    /\ UNCHANGED <<cur, retries, down, up, hasty>>

\* and wait a second for a byte.  Any but the ack gives the connections up.
ReceiveByte ==
    /\ apc = "wait" /\ down[cur] # <<>>
    /\ IF Head(down[cur]) = "ack" THEN Goes("wait", "loop") ELSE Goes("wait", "quit")
    /\ down' = [down EXCEPT ![cur] = Tail(@)]
    /\ UNCHANGED <<serverVars, cur, tconn, retries, up, hasty>>

\* Mutant of WaitedInVain: it waits no time.
WaitedNot ==
    /\ Goes("wait", "open")
    /\ AS!ConnClose(tconn)
    /\ tconn' = NoConn
    /\ retries' = retries + 1
    /\ UNCHANGED <<cur, down, up, hasty>>

\* The server has taken the connection or refused it, and its ack was read.
Answered == /\ conn[tconn] # "backlog" /\ ackTo # cur
            /\ down[cur] = <<>> /\ cur \in ctlOpen

WaitedInVain ==
    /\ Goes("wait", "open")
    /\ AS!ConnClose(tconn)
    /\ tconn' = NoConn
    /\ retries' = retries + 1
    /\ hasty' = (hasty \/ ~Answered)
    /\ UNCHANGED <<cur, down, up>>

\* After the last try the function returns true all the same.
OutOfRetries ==
    /\ Goes("open", "loop") /\ retries = MaxRetries
    /\ UNCHANGED <<serverVars, cur, tconn, retries, down, up, hasty>>

\* Five seconds without a command.
Heartbeat ==
    /\ apc = "loop"
    /\ up' = up \cup {cur}
    /\ UNCHANGED <<serverVars, agentVars, down, hasty>>

\* A command is received and answered; a request to restart ends the loop.
TreatCommand ==
    /\ apc = "loop" /\ apc' \in {"loop", "quit"}
    /\ down[cur] # <<>> /\ Head(down[cur]) = "req"
    /\ down' = [down EXCEPT ![cur] = Tail(@)]
    /\ up' = up \cup {cur}
    /\ UNCHANGED <<serverVars, cur, tconn, retries, hasty>>

\* An ack is taken for the first half of a length, the byte that follows for the
\* other: recv_varmsg then waits for more than any message has.
TakeAckForLength ==
    /\ Goes("loop", "garbled")
    /\ down[cur] # <<>> /\ Head(down[cur]) = "ack"
    /\ down' = [down EXCEPT ![cur] = Tail(@)]
    /\ UNCHANGED <<serverVars, cur, tconn, retries, up, hasty>>

\* A length of 24832 or more: bzero runs over command, which ends the agent or
\* lets it wait on.
OverrunCommand ==
    /\ apc = "garbled" /\ apc' \in {"garbled", "quit"}
    /\ down[cur] # <<>>
    /\ down' = [down EXCEPT ![cur] = Tail(@)]
    /\ UNCHANGED <<serverVars, cur, tconn, retries, up, hasty>>

\* Mutant of ControlLost: noticed only while it waits or listens.
ControlLostBetween ==
    /\ Goes("wait", "quit") \/ Goes("loop", "quit")
    /\ cur \notin ctlOpen /\ down[cur] = <<>>
    /\ UNCHANGED <<serverVars, cur, tconn, retries, down, up, hasty>>

\* The server has closed the control connection.
ControlLost ==
    /\ Goes("wait", "quit") \/ Goes("loop", "quit") \/ Goes("garbled", "quit")
    /\ cur \notin ctlOpen /\ down[cur] = <<>>
    /\ UNCHANGED <<serverVars, cur, tconn, retries, down, up, hasty>>

\* The dispatcher has yet to accept the transfer connection.
Untaken == tconn # NoConn /\ conn[tconn] = "backlog"

\* The agent loses the connection by itself, or ends: killed by somebody, or by
\* the SIGPIPE of a second send().
LostAlone ==
    /\ \E here \in {"login", "open", "wait", "loop", "garbled"} : Goes(here, "quit")
    /\ hasty' = (hasty \/ Untaken)
    /\ UNCHANGED <<serverVars, cur, tconn, retries, down, up>>

\* Both sockets are closed, one after the other, by the agent or by the system.
CloseTransfer ==
    /\ Goes("quit", "close")
    /\ IF tconn \in connUp THEN AS!ConnClose(tconn) ELSE UNCHANGED serverVars
    /\ tconn' = NoConn
    /\ UNCHANGED <<cur, retries, down, up, hasty>>

CloseControl ==
    /\ Goes("close", "connect")
    /\ AS!PeerClose(cur)
    /\ cur' = NoSession
    /\ UNCHANGED <<tconn, retries, down, up, hasty>>

\* login() fails before anything is sent.
LoginFails ==
    /\ Goes("login", "close")
    /\ UNCHANGED <<serverVars, cur, tconn, retries, down, up, hasty>>

-----------------------------------------------------------------------------
(* The server.                                                             *)

CreatorStep(s) ==
    /\ AS!CreatorStep(s)
    /\ up' = IF creator[s] = "login" /\ creator'[s] = "push" THEN up \ {s} ELSE up
    /\ up' # up => s \in up
    /\ creator[s] = "login" /\ creator'[s] = "push" => s \in up
    /\ UNCHANGED <<agentVars, down, hasty>>

ListenerReceive(s) ==
    /\ AS!ListenerReceive(s) /\ s \in up
    /\ up' = up \ {s}
    /\ UNCHANGED <<agentVars, down, hasty>>

\* Ten seconds of silence: an agent in its loop would have sent a heartbeat.  End
\* of file comes after what is left to read.
ListenerBreak(s) ==
    /\ AS!ListenerBreak(s) /\ s \notin up
    /\ hasty' = (hasty \/ (cur = s /\ apc = "loop"))
    /\ UNCHANGED <<agentVars, down, up>>

ListenerStep(s) ==
    \/ ListenerReceive(s) \/ ListenerBreak(s)
    \/ AS!ListenerCheck(s) /\ UNCHANGED <<agentVars, down, up, hasty>>

\* Mutant of SendDown: what is sent is sent twice.
SendDownTwice(s, what) ==
    down' = IF s \in ctlOpen \cap ctlUp THEN [down EXCEPT ![s] = @ \o <<what, what>>]
            ELSE down

\* What is sent reaches the agent while the connection is open.
SendDown(s, what) ==
    down' = IF s \in ctlOpen \cap ctlUp THEN [down EXCEPT ![s] = Append(@, what)]
            ELSE down

SendAck ==
    /\ AS!SendAck
    /\ SendDown(ackTo, "ack")
    /\ UNCHANGED <<agentVars, up, hasty>>

\* send_request(), once the creator has released clreq_mutex.
SendRequest(s) ==
    /\ creator[s] = "end" /\ s \in AS!Listed /\ Len(down[s]) < MaxPending
    /\ SendDown(s, "req")
    /\ UNCHANGED <<serverVars, agentVars, up, hasty>>

OtherServerStep ==
    /\ \/ \E s \in Sessions : AS!DtorStep(s) \/ AS!TransferStep(s)
       \/ \E c \in Conns : AS!DispatchTransfer(c)
    /\ UNCHANGED <<agentVars, down, up, hasty>>

-----------------------------------------------------------------------------
\* What the agent does without anybody's help.
AgentRuns ==
    \/ \E c \in Conns : OpenTransfer(c)
    \/ Login \/ LoginFails \/ ReceiveByte \/ WaitedInVain \/ OutOfRetries
    \/ TakeAckForLength \/ OverrunCommand \/ ControlLost
    \/ CloseTransfer \/ CloseControl

AgentStep ==
    \/ AgentRuns \/ Heartbeat \/ TreatCommand \/ LostAlone
    \/ \E s \in Sessions : Connect(s)

ServerStep ==
    \/ \E s \in Sessions : CreatorStep(s) \/ ListenerStep(s) \/ SendRequest(s)
    \/ SendAck \/ OtherServerStep

Next == AgentStep \/ ServerStep

Spec == Init /\ [][Next]_vars

\* login() waits, without a timeout.
Waits(s) == creator[s] = "login" /\ s \in ctlUp \ up

\* The agent, the creators, the control listeners and the destructors run; an
\* agent that ended need not be started again, and no property needs more of the
\* other threads.
FairSpec ==
    /\ Spec
    /\ WF_vars(AgentRuns)
    /\ \A s \in Sessions :
          /\ WF_vars(~Waits(s) /\ CreatorStep(s)) /\ WF_vars(ListenerStep(s))
          /\ WF_vars(AS!DtorStep(s) /\ UNCHANGED <<agentVars, down, up, hasty>>)

-----------------------------------------------------------------------------
(* Properties.                                                             *)

\* Commands are read from where they begin: the bytes of the control
\* connection that are not messages have all been taken before, as long as
\* neither side was given up too soon.
CommandsAligned == apc = "garbled" => hasty

\* The place of both sides in the control connection.
LinkSound == TypeOK /\ CommandsAligned

\* Once a session serves the agent, both mean the same transfer connection,
\* under the same provision.
SamePipe ==
    /\ apc = "loop" /\ cur \in ctlOpen /\ ~hasty
    /\ ctl[cur] = "select" /\ tsd[cur] # NoConn
    => tsd[cur] = tconn

\* However transfer connections replace each other, the one a session holds is
\* open and is no other session's.
SocketsTracked == AS!ConnectionsOwned

\* The agent is in treat(), which may wait for a monitor that does not end.
Treating == apc = "loop" /\ down[cur] # <<>> /\ Head(down[cur]) = "req"

\* An agent whose control connection the server has closed, or which waits for a
\* message that nobody sends, gives the connection up or dies of it, unless a
\* command keeps it for ever.
LossNoticed ==
    \/ apc \in {"wait", "loop"} /\ cur \notin ctlOpen
    \/ apc = "garbled"
    ~> apc \notin {"wait", "loop", "garbled"} \/ []Treating
=============================================================================
