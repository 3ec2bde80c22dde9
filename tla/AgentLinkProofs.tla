--------------------------- MODULE AgentLinkProofs ---------------------------
(***************************************************************************)
(* Safety of the connection between an agent and the server, for any       *)
(* number of sessions, transfer connections and tries: the server's side   *)
(* behaves as AgentSession by itself, and unless a side gave up too soon,  *)
(* the agent takes no acknowledgement for a message and both sides mean    *)
(* the same transfer connection.                                           *)
(***************************************************************************)
EXTENDS AgentLink, ListLemmas, TLAPS

ASP == INSTANCE AgentSessionProofs

-----------------------------------------------------------------------------
(* AS and ASP instantiate the same module: each definition of one expands   *)
(* to the formula of the other.                                            *)

LEMMA SameSessions ==
    (AS!Init <=> ASP!Init) /\ ([AS!Next]_AS!vars <=> [ASP!Next]_ASP!vars)
<1>1. AS!Init <=> ASP!Init
  BY DEF AS!Init, ASP!Init
<1>2. [AS!Next]_AS!vars <=> [ASP!Next]_ASP!vars
  BY DEF AS!Next, AS!vars, AS!sessVars, AS!connVars, AS!Listed, AS!Range,
         AS!RemoveAt, AS!AcceptControl, AS!CreatorStep, AS!CreatorGoes,
         AS!CreatorFails, AS!CreatorLock, AS!LoginOk, AS!LoginFails,
         AS!PushAgent, AS!WaitOk, AS!WaitTimeout, AS!SpawnControl,
         AS!SpawnTransfer, AS!CreatorUnlock, AS!ListenerStep,
         AS!ListenerReceive, AS!ListenerCheck, AS!ListenerDeletes,
         AS!ListenerBreak, AS!DtorStep, AS!DtorGoes, AS!DtorJoin, AS!DtorClose,
         AS!DtorErase, AS!DtorFree, AS!TransferStep, AS!TransferCall,
         AS!TransferMessage, AS!TransferBreak, AS!TransferExit,
         AS!DispatcherStep, AS!DispatchTransfer, AS!IsFirstMatch,
         AS!AttachTransfer, AS!RefuseTransfer, AS!SendAck, AS!PeerStep,
         AS!PeerClose, AS!ConnOpen, AS!ConnClose,
         ASP!Next, ASP!vars, ASP!sessVars, ASP!connVars, ASP!Listed, ASP!Range,
         ASP!RemoveAt, ASP!AcceptControl, ASP!CreatorStep, ASP!CreatorGoes,
         ASP!CreatorFails, ASP!CreatorLock, ASP!LoginOk, ASP!LoginFails,
         ASP!PushAgent, ASP!WaitOk, ASP!WaitTimeout, ASP!SpawnControl,
         ASP!SpawnTransfer, ASP!CreatorUnlock, ASP!ListenerStep,
         ASP!ListenerReceive, ASP!ListenerCheck, ASP!ListenerDeletes,
         ASP!ListenerBreak, ASP!DtorStep, ASP!DtorGoes, ASP!DtorJoin,
         ASP!DtorClose, ASP!DtorErase, ASP!DtorFree, ASP!TransferStep,
         ASP!TransferCall, ASP!TransferMessage, ASP!TransferBreak,
         ASP!TransferExit, ASP!DispatcherStep, ASP!DispatchTransfer,
         ASP!IsFirstMatch, ASP!AttachTransfer, ASP!RefuseTransfer, ASP!SendAck,
         ASP!PeerStep, ASP!PeerClose, ASP!ConnOpen, ASP!ConnClose
<1> QED BY <1>1, <1>2

\* What the agent does to the network is what some peer may do, and requests
\* that are sent down change nothing of a session.
LEMMA SessionsRefined == ASP!IInv /\ [Next]_vars => [AS!Next]_AS!vars
<1> SUFFICES ASSUME ASP!IInv, [Next]_vars PROVE [AS!Next]_AS!vars
  OBVIOUS
<1>0. ctlUp \subseteq Sessions /\ connUp \subseteq Conns
  BY DEF ASP!IInv, ASP!TypeOK
<1>1. CASE AgentStep
  BY <1>0, <1>1 DEF AgentStep, AgentRuns, Connect, OpenTransfer, Login, LoginFails,
     ReceiveByte, WaitedInVain, OutOfRetries, Heartbeat, TreatCommand,
     TakeAckForLength, OverrunCommand, ControlLost, LostAlone, CloseTransfer,
     CloseControl, serverVars, AS!Next, AS!PeerStep, AS!ConnOpen,
     AS!ConnClose, AS!PeerClose, AS!vars, AS!sessVars, AS!connVars
<1>2. CASE ServerStep
  BY <1>2 DEF ServerStep, CreatorStep, ListenerStep, ListenerReceive,
     ListenerBreak, SendRequest, SendAck, OtherServerStep, serverVars, AS!Next,
     AS!ListenerStep, AS!DispatcherStep, AS!vars, AS!sessVars, AS!connVars
<1>3. CASE UNCHANGED vars
  BY <1>3 DEF vars, serverVars, AS!vars, AS!sessVars, AS!connVars
<1> QED BY <1>1, <1>2, <1>3 DEF Next

LEMMA SessionInvInit == Init => ASP!IInv
<1>1. ASP!SessionAssumption
  BY LinkAssumption DEF ASP!SessionAssumption
<1> QED BY <1>1, ASP!InvInit, SameSessions DEF Init

LEMMA SessionInvStep == ASP!IInv /\ [Next]_vars => ASP!IInv'
<1>1. ASP!SessionAssumption
  BY LinkAssumption DEF ASP!SessionAssumption
<1> QED BY <1>1, ASP!InvStep, SameSessions, SessionsRefined

\* The server's side of the connection behaves as AgentSession by itself.
THEOREM LinkImplementsSessions == Spec => AS!Spec
<1>1. Init => AS!Init
  BY DEF Init
<1> QED
  BY <1>1, SessionsRefined, SessionInvInit, SessionInvStep, PTL DEF Spec, AS!Spec

\* However transfer connections replace each other, the one a session holds is
\* open and is no other session's.
THEOREM SocketsAreTracked == Spec => []SocketsTracked
<1>1. ASP!IInv => SocketsTracked
  BY DEF ASP!IInv, ASP!ConnsHeld, ASP!TransferUnshared, ASP!HeldSocketOpen,
     SocketsTracked, AS!ConnectionsOwned, AS!TransferUnshared, AS!HeldSocketOpen
<1> QED BY <1>1, SessionInvInit, SessionInvStep, PTL DEF Spec

-----------------------------------------------------------------------------
(* Type correctness.                                                       *)

Known ==
    /\ \A s \in Sessions :
          /\ mem[s] = "none" <=> creator[s] = "none"
          /\ creator[s] \in ASP!BeforeListeners => ctl[s] = "none" /\ dtor[s] = "none"
          /\ creator[s] = "destroy" => ctl[s] = "none" /\ dtor[s] \in ASP!Dying
          /\ dtor[s] \in ASP!Dying => creator[s] = "destroy" \/ ctl[s] = "destroy"
          /\ ctl[s] \in {"select", "treat"} => dtor[s] = "none"
          /\ creator[s] \in ASP!Setup => clreqHolder = s
    /\ \A s \in AS!Listed :
          /\ s \in Sessions /\ creator[s] \notin {"none", "lock", "login", "push"}
          /\ dtor[s] # "done"
    /\ \A c \in Conns : conn[c] = "backlog" => \A s \in Sessions : tsd[s] # c

LEMMA SessionFacts == ASP!IInv => AS!TypeOK /\ Known
<1> SUFFICES ASSUME ASP!IInv PROVE AS!TypeOK /\ Known
  OBVIOUS
<1>1. AS!TypeOK
  BY DEF ASP!IInv, ASP!TypeOK, ASP!CreatorPC, ASP!CtlPC, ASP!TrlPC, ASP!DtorPC,
     AS!TypeOK, AS!CreatorPC, AS!CtlPC, AS!TrlPC, AS!DtorPC
<1>2. \A s \in Sessions :
          /\ mem[s] = "none" <=> creator[s] = "none"
          /\ creator[s] \in ASP!BeforeListeners => ctl[s] = "none" /\ dtor[s] = "none"
          /\ creator[s] = "destroy" => ctl[s] = "none" /\ dtor[s] \in ASP!Dying
          /\ dtor[s] \in ASP!Dying => creator[s] = "destroy" \/ ctl[s] = "destroy"
          /\ ctl[s] \in {"select", "treat"} => dtor[s] = "none"
          /\ creator[s] \in ASP!Setup => clreqHolder = s
  BY DEF ASP!IInv, ASP!LifeInv, ASP!Life, ASP!LockHeld
<1>3. \A s \in AS!Listed :
          /\ s \in Sessions /\ creator[s] \notin {"none", "lock", "login", "push"}
          /\ dtor[s] # "done"
  BY <1>1 DEF ASP!IInv, ASP!ListOrder, ASP!MayBeListed, ASP!Listed, ASP!Range,
     AS!Listed, AS!Range, AS!TypeOK
<1>4. \A c \in Conns : conn[c] = "backlog" => \A s \in Sessions : tsd[s] # c
  BY DEF ASP!IInv, ASP!ConnsHeld
<1> QED BY <1>1, <1>2, <1>3, <1>4 DEF Known

\* Where the agent is, and what it holds there.
PlaceInv ==
    /\ apc = "connect" <=> cur = NoSession
    /\ apc # "connect" => cur \in ctlUp
    /\ apc = "wait" => tconn \in Conns /\ retries < MaxRetries
    /\ apc \in {"connect", "login", "open", "close"} => tconn = NoConn

\* What is sent to a session is behind what it has not read yet.
LEMMA Sent ==
    ASSUME TypeOK, NEW s \in Sessions, NEW what \in {"ack", "req"}, SendDown(s, what)
    PROVE  /\ down' \in [Sessions -> Seq({"ack", "req"})]
           /\ \A t \in Sessions \ {s} : down'[t] = down[t]
           /\ s \notin ctlOpen \cap ctlUp => down' = down
           /\ s \in ctlOpen \cap ctlUp => down'[s] = Append(down[s], what)
  BY DEF TypeOK, SendDown

LEMMA TypeStep == TypeOK /\ PlaceInv /\ ASP!IInv /\ [Next]_vars => TypeOK'
<1> SUFFICES ASSUME TypeOK, PlaceInv, ASP!IInv, [Next]_vars PROVE TypeOK'
  OBVIOUS
<1>0. apc # "connect" => cur \in Sessions
  BY DEF TypeOK, PlaceInv
<1>1. AS!TypeOK'
  BY SessionInvStep, SessionFacts, PTL
<1>2. CASE AgentStep
  <2>1. ASSUME NEW s \in Sessions, Connect(s) PROVE TypeOK'
    BY <1>1, <2>1 DEF Connect, Goes, TypeOK
  <2>2. ASSUME NEW c \in Conns, OpenTransfer(c) PROVE TypeOK'
    BY <1>1, <2>2 DEF OpenTransfer, Goes, TypeOK
  <2>3. CASE Login
    BY <1>0, <1>1, <2>3, LinkAssumption DEF Login, Goes, TypeOK
  <2>4. CASE LoginFails
    BY <1>1, <2>4 DEF LoginFails, Goes, TypeOK
  <2>5. CASE ReceiveByte
    BY <1>0, <1>1, <2>5 DEF ReceiveByte, Goes, TypeOK
  <2>6. CASE WaitedInVain
    BY <1>0, <1>1, <2>6, LinkAssumption DEF PlaceInv, WaitedInVain, Goes, TypeOK
  <2>7. CASE OutOfRetries
    BY <1>1, <2>7 DEF OutOfRetries, Goes, TypeOK
  <2>8. CASE TreatCommand
    BY <1>0, <1>1, <2>8 DEF TreatCommand, Goes, TypeOK
  <2>9. CASE TakeAckForLength
    BY <1>0, <1>1, <2>9 DEF TakeAckForLength, Goes, TypeOK
  <2>15. CASE OverrunCommand
    BY <1>0, <1>1, <2>15 DEF OverrunCommand, Goes, TypeOK
  <2>10. CASE ControlLost
    BY <1>1, <2>10 DEF ControlLost, Goes, TypeOK
  <2>13. CASE LostAlone
    BY <1>1, <2>13 DEF LostAlone, Goes, TypeOK
  <2>14. CASE Heartbeat
    BY <1>0, <1>1, <2>14 DEF Heartbeat, agentVars, TypeOK
  <2>11. CASE CloseTransfer
    BY <1>1, <2>11 DEF CloseTransfer, Goes, TypeOK
  <2>12. CASE CloseControl
    BY <1>1, <2>12 DEF CloseControl, Goes, TypeOK
  <2> QED
    BY <1>2, <2>1, <2>2, <2>3, <2>4, <2>5, <2>6, <2>7, <2>8, <2>9, <2>10, <2>11,
       <2>12, <2>13, <2>14, <2>15 DEF AgentStep, AgentRuns
<1>4. CASE ServerStep
  <2>1. ASSUME NEW s \in Sessions, CreatorStep(s) \/ ListenerStep(s) PROVE TypeOK'
    BY <1>1, <2>1 DEF CreatorStep, ListenerStep, ListenerReceive, ListenerBreak,
       agentVars, TypeOK
  <2>2. ASSUME NEW s \in Sessions, SendRequest(s) PROVE TypeOK'
    BY <1>1, <2>2, Sent DEF SendRequest, agentVars, TypeOK
  <2>3. CASE SendAck
    <3>1. ackTo \in Sessions
      BY <2>3 DEF SendAck, AS!SendAck, TypeOK, AS!TypeOK
    <3> QED BY <1>1, <2>3, <3>1, Sent DEF SendAck, agentVars, TypeOK
  <2>4. CASE OtherServerStep
    BY <1>1, <2>4 DEF OtherServerStep, agentVars, TypeOK
  <2> QED BY <1>4, <2>1, <2>2, <2>3, <2>4 DEF ServerStep
<1>5. CASE UNCHANGED vars
  BY <1>1, <1>5 DEF vars, agentVars, TypeOK
<1> QED BY <1>2, <1>4, <1>5 DEF Next

-----------------------------------------------------------------------------
(* What the threads of the server do to a session that has no transfer     *)
(* connection, and to a set-up that failed: nothing that helps it on.      *)

EndInv ==
    \A s \in Sessions :
        /\ creator[s] \in {"spawnTr", "unlock"} => ctl[s] # "none"
        /\ creator[s] = "end" /\ ctl[s] = "none" =>
              dtor[s] = "done" /\ clreqHolder = s
        /\ dtor[s] = "done" /\ ctl[s] = "none" => creator[s] = "end"
        /\ s \in ctlUp \ ctlOpen => dtor[s] \in {"erase", "free", "done"}

SetUpFailed ==
    clreqHolder # NoSession /\ creator[clreqHolder] \in {"destroy", "end"}

Helpless ==
    /\ UNCHANGED <<ackTo, ctlUp>>
    /\ ctlOpen' \subseteq ctlOpen
    /\ \A c \in Conns : conn'[c] = "backlog" => conn[c] = "backlog"
    /\ \A s \in Sessions :
          /\ tsd'[s] \in {tsd[s], NoConn}
          /\ mem'[s] = "none" => mem[s] = "none"
          /\ tsd[s] = NoConn /\ ctl[s] = "none" /\ creator[s] # "spawnCtl" =>
                ctl'[s] = "none" /\ creator'[s] # "spawnCtl"
    /\ SetUpFailed => /\ SetUpFailed' /\ clreqHolder' = clreqHolder
                      /\ \A s \in Sessions : creator[s] = "lock" =>
                            creator'[s] = "lock"

LEMMA ThreadStep ==
    ASSUME AS!TypeOK, Known, EndInv, NEW s \in Sessions,
           \/ AS!CreatorStep(s) \/ AS!ListenerStep(s) \/ AS!DtorStep(s)
           \/ AS!TransferStep(s)
    PROVE  EndInv' /\ Helpless
<1> USE LinkAssumption DEF AS!sessVars, AS!connVars, AS!TypeOK, Known, EndInv,
        Helpless, SetUpFailed, ASP!BeforeListeners, ASP!Dying, ASP!Setup
<1>1. CASE AS!CreatorLock(s)
  BY <1>1 DEF AS!CreatorLock, AS!CreatorGoes
<1>2. CASE AS!LoginOk(s)
  BY <1>2 DEF AS!LoginOk, AS!CreatorGoes
<1>3. CASE AS!LoginFails(s)
  BY <1>3 DEF AS!LoginFails, AS!CreatorFails, AS!CreatorGoes
<1>4. CASE AS!PushAgent(s)
  BY <1>4 DEF AS!PushAgent, AS!CreatorGoes
<1>5. CASE AS!WaitOk(s)
  BY <1>5 DEF AS!WaitOk, AS!CreatorGoes
<1>6. CASE AS!WaitTimeout(s)
  BY <1>6 DEF AS!WaitTimeout, AS!CreatorFails, AS!CreatorGoes
<1>7. CASE AS!SpawnControl(s)
  BY <1>7 DEF AS!SpawnControl, AS!CreatorGoes
<1>8. CASE AS!SpawnTransfer(s)
  BY <1>8 DEF AS!SpawnTransfer, AS!CreatorGoes
<1>9. CASE AS!CreatorUnlock(s)
  BY <1>9 DEF AS!CreatorUnlock, AS!CreatorGoes
<1>10. CASE AS!ListenerReceive(s)
  BY <1>10 DEF AS!ListenerReceive
<1>11. CASE AS!ListenerCheck(s)
  BY <1>11 DEF AS!ListenerCheck, AS!ListenerDeletes
<1>12. CASE AS!ListenerBreak(s)
  BY <1>12 DEF AS!ListenerBreak, AS!ListenerDeletes
<1>13. CASE AS!DtorJoin(s)
  BY <1>13 DEF AS!DtorJoin, AS!DtorGoes
<1>14. CASE AS!DtorClose(s)
  BY <1>14 DEF AS!DtorClose, AS!DtorGoes
<1>15. CASE AS!DtorErase(s)
  BY <1>15 DEF AS!DtorErase, AS!DtorGoes
<1>16. CASE AS!DtorFree(s)
  BY <1>16 DEF AS!DtorFree, AS!DtorGoes
<1>17. CASE AS!TransferCall(s)
  BY <1>17 DEF AS!TransferCall
<1>18. CASE AS!TransferMessage(s)
  BY <1>18 DEF AS!TransferMessage
<1>19. CASE AS!TransferBreak(s)
  BY <1>19 DEF AS!TransferBreak
<1>20. CASE AS!TransferExit(s)
  BY <1>20 DEF AS!TransferExit
<1> QED
  BY <1>1, <1>2, <1>3, <1>4, <1>5, <1>6, <1>7, <1>8, <1>9, <1>10, <1>11, <1>12, <1>13, <1>14, <1>15, <1>16, <1>17, <1>18, <1>19, <1>20
     DEF AS!CreatorStep, AS!ListenerStep, AS!DtorStep, AS!TransferStep

-----------------------------------------------------------------------------
(* The inductive invariant.  While no side has given up too soon, at most   *)
(* one connection waits to be attached to the session of the agent, and an  *)
(* acknowledgement is on its way exactly when that one was attached.  An    *)
(* older connection still in the backlog was left after a set-up that       *)
(* failed, which keeps clreq_mutex: no later session is ever listed for it. *)

FreshInv ==
    \A s \in Sessions : mem[s] = "none" =>
        tsd[s] = NoConn /\ ackTo # s /\ down[s] = <<>> /\ s \notin ctlUp

AcksIn(q) == {i \in 1 .. Len(q) : q[i] = "ack"}

Unserved ==
    /\ tsd[cur] = NoConn /\ ackTo # cur /\ down[cur] = <<>>
    /\ ctl[cur] = "none" /\ creator[cur] # "spawnCtl"

Served ==
    /\ conn[tconn] # "backlog" /\ tsd[cur] \in {tconn, NoConn}
    /\ \A i, j \in AcksIn(down[cur]) : i = j
    /\ ackTo = cur => AcksIn(down[cur]) = {}
    /\ ackTo # cur /\ cur \in ctlOpen => AcksIn(down[cur]) # {}

LeftBehind ==
    /\ SetUpFailed
    /\ \/ cur = clreqHolder /\ apc \in {"quit", "close"}
       \/ cur = NoSession
       \/ cur \in Sessions /\ creator[cur] = "lock"

BacklogInv ==
    \A c \in Conns : conn[c] = "backlog" => (apc = "wait" /\ c = tconn) \/ LeftBehind

PhaseInv ==
    /\ apc \in {"login", "open"} => Unserved
    /\ apc = "wait" => Unserved \/ Served
    /\ apc = "loop" => /\ ackTo # cur /\ AcksIn(down[cur]) = {}
                       /\ tsd[cur] \in {tconn, NoConn}

InTime == BacklogInv /\ PhaseInv

LinkInv ==
    /\ EndInv /\ FreshInv /\ PlaceInv
    /\ ~hasty => InTime
    /\ CommandsAligned

LEMMA AcksRead ==
    ASSUME NEW q \in Seq({"ack", "req"})
    PROVE  /\ AcksIn(<<>>) = {}
           /\ AcksIn(Append(q, "ack")) = AcksIn(q) \cup {Len(q) + 1}
           /\ AcksIn(Append(q, "req")) = AcksIn(q)
           /\ q # <<>> =>
                 /\ Head(q) = "ack" <=> 1 \in AcksIn(q)
                 /\ \A i : i \in AcksIn(Tail(q)) => i # 0 /\ i + 1 \in AcksIn(q)
  BY DEF AcksIn

LEMMA LinkInit == Init => LinkInv
<1> SUFFICES ASSUME Init PROVE LinkInv
  OBVIOUS
<1>1. EndInv /\ FreshInv
  BY LinkAssumption DEF Init, AS!Init, EndInv, FreshInv
<1>2. PlaceInv /\ CommandsAligned /\ InTime
  BY LinkAssumption DEF Init, AS!Init, PlaceInv, CommandsAligned, InTime,
     BacklogInv, PhaseInv
<1> QED BY <1>1, <1>2 DEF LinkInv

\* The threads of the server keep what the agent waits for.
LEMMA ThreadsKeep ==
    ASSUME TypeOK, LinkInv, EndInv', Helpless, UNCHANGED <<agentVars, down>>,
           ~hasty' => ~hasty
    PROVE  LinkInv'
<1>1. FreshInv'
  BY DEF Helpless, LinkInv, FreshInv
<1>2. PlaceInv'
  BY DEF Helpless, LinkInv, PlaceInv, agentVars
<1>3. ASSUME InTime PROVE BacklogInv'
  <2>1. LeftBehind => LeftBehind'
    BY DEF Helpless, LeftBehind, agentVars
  <2> QED BY <1>3, <2>1 DEF InTime, BacklogInv, Helpless, agentVars
<1>4. ASSUME InTime, apc # "connect" PROVE PhaseInv'
  <2>1. cur \in Sessions
    BY <1>4 DEF LinkInv, PlaceInv, TypeOK
  <2>2. Unserved => Unserved'
    BY <2>1 DEF Unserved, Helpless, agentVars
  <2>3. apc = "wait" /\ Served => Served'
    BY <2>1 DEF Served, Helpless, LinkInv, PlaceInv, agentVars
  <2>4. apc = "loop" => /\ ackTo' # cur' /\ AcksIn(down'[cur']) = {}
                        /\ tsd'[cur'] \in {tconn', NoConn}
    BY <1>4, <2>1 DEF InTime, PhaseInv, Helpless, agentVars
  <2> QED BY <1>4, <2>2, <2>3, <2>4 DEF InTime, PhaseInv, agentVars
<1>5. ASSUME apc = "connect" PROVE PhaseInv'
  BY <1>5 DEF PhaseInv, agentVars
<1>6. CommandsAligned'
  BY DEF LinkInv, CommandsAligned, agentVars, TypeOK
<1> QED BY <1>1, <1>2, <1>3, <1>4, <1>5, <1>6 DEF LinkInv, InTime

\* A connection is attached to the session of the agent only while the agent
\* waits for this one.
LEMMA DispatchKeeps ==
    ASSUME TypeOK, Known, LinkInv, NEW c \in Conns, AS!DispatchTransfer(c),
           UNCHANGED <<agentVars, down, hasty>>
    PROVE  LinkInv'
<1> USE LinkAssumption DEF AS!TypeOK, AS!sessVars, AS!connVars, agentVars
<1>1. CASE AS!RefuseTransfer(c)
  <2>1. EndInv'
    BY <1>1 DEF AS!RefuseTransfer, LinkInv, EndInv
  <2>2. Helpless
    BY <1>1 DEF AS!RefuseTransfer, TypeOK, Helpless, SetUpFailed
  <2> QED BY <2>1, <2>2, ThreadsKeep
<1>2. CASE AS!AttachTransfer(c)
  <2>1. PICK s \in AS!Listed :
           /\ ackTo = NoSession /\ conn[c] = "backlog" /\ ackTo' = s
           /\ tsd' = [tsd EXCEPT ![s] = c]
           /\ conn' = [d \in Conns |-> IF d = c THEN "open"
                                       ELSE IF d = tsd[s] THEN "closed"
                                       ELSE conn[d]]
           /\ UNCHANGED <<clreqHolder, mem, creator, ctl, dtor, ctlOpen, ctlUp>>
    <3>1. PICK i \in DOMAIN agentList :
             /\ ackTo = NoSession /\ conn[c] = "backlog"
             /\ ackTo' = agentList[i]
             /\ tsd' = [tsd EXCEPT ![agentList[i]] = c]
             /\ conn' = [d \in Conns |-> IF d = c THEN "open"
                                         ELSE IF d = tsd[agentList[i]] THEN "closed"
                                         ELSE conn[d]]
             /\ UNCHANGED <<clreqHolder, mem, creator, ctl, dtor, ctlOpen, ctlUp>>
      BY <1>2 DEF AS!AttachTransfer
    <3>2. agentList[i] \in AS!Listed
      BY DEF AS!Listed, AS!Range
    <3> QED BY <3>1, <3>2
  <2>2. s \in Sessions /\ creator[s] \notin {"none", "lock", "login", "push"}
    BY DEF Known
  <2>3. EndInv' /\ PlaceInv' /\ CommandsAligned'
    BY <2>1 DEF LinkInv, EndInv, PlaceInv, CommandsAligned
  <2>4. FreshInv'
    BY <2>1, <2>2 DEF TypeOK, Known, LinkInv, FreshInv
  <2>5. ASSUME ~hasty PROVE BacklogInv'
    <3>1. \A d \in Conns : conn'[d] = "backlog" => conn[d] = "backlog"
      BY <2>1
    <3>2. LeftBehind' <=> LeftBehind
      BY <2>1 DEF LeftBehind, SetUpFailed
    <3> QED BY <2>5, <3>1, <3>2 DEF LinkInv, InTime, BacklogInv
  <2>6. ASSUME ~hasty, cur # s PROVE PhaseInv'
    BY <2>1, <2>2, <2>6 DEF TypeOK, LinkInv, PlaceInv, InTime, PhaseInv, Unserved,
       Served
  <2>7. ASSUME ~hasty, cur = s, apc # "quit", apc # "close" PROVE PhaseInv'
    <3>1. apc = "wait" /\ c = tconn /\ Unserved
      BY <2>1, <2>2, <2>7 DEF LinkInv, PlaceInv, InTime, BacklogInv, PhaseInv,
         LeftBehind, Served
    <3>2. Served'
      BY <2>1, <2>2, <2>7, <3>1, AcksRead DEF TypeOK, Unserved, Served
    <3> QED BY <3>1, <3>2 DEF PhaseInv
  <2>8. ASSUME apc \in {"quit", "close"} PROVE PhaseInv'
    BY <2>8 DEF PhaseInv
  <2> QED BY <2>3, <2>4, <2>5, <2>6, <2>7, <2>8 DEF LinkInv, InTime
<1> QED BY <1>1, <1>2 DEF AS!DispatchTransfer

\* The acknowledgement that was under way is on the connection, or the
\* connection is closed.
LEMMA AckKeeps == TypeOK /\ Known /\ LinkInv /\ SendAck => LinkInv'
<1> SUFFICES ASSUME TypeOK, Known, LinkInv, SendAck PROVE LinkInv'
  OBVIOUS
<1> USE LinkAssumption DEF AS!TypeOK, AS!sessVars, AS!connVars, agentVars
<1>1. /\ ackTo \in Sessions /\ ackTo' = NoSession /\ SendDown(ackTo, "ack")
      /\ UNCHANGED <<clreqHolder, mem, creator, ctl, dtor, tsd, ctlOpen, ctlUp,
                     conn, apc, cur, tconn, retries, hasty>>
  BY DEF SendAck, AS!SendAck, TypeOK
<1>2. /\ \A t \in Sessions \ {ackTo} : down'[t] = down[t]
      /\ ackTo \notin ctlOpen \cap ctlUp => down' = down
      /\ ackTo \in ctlOpen \cap ctlUp => down'[ackTo] = Append(down[ackTo], "ack")
  BY <1>1, Sent
<1>3. EndInv' /\ PlaceInv' /\ CommandsAligned'
  BY <1>1 DEF LinkInv, EndInv, PlaceInv, CommandsAligned
<1>4. FreshInv'
  BY <1>1, <1>2 DEF LinkInv, FreshInv
<1>5. ASSUME ~hasty PROVE BacklogInv'
  BY <1>1, <1>5 DEF LinkInv, InTime, BacklogInv, LeftBehind, SetUpFailed
<1>6. ASSUME ~hasty, ackTo # cur PROVE PhaseInv'
  BY <1>1, <1>2, <1>6 DEF TypeOK, LinkInv, PlaceInv, InTime, PhaseInv, Unserved,
     Served
<1>7. ASSUME ~hasty, ackTo = cur PROVE PhaseInv'
  <2>1. apc \in {"login", "open", "loop"} => FALSE
    BY <1>7 DEF LinkInv, InTime, PhaseInv, Unserved
  <2>2. ASSUME apc = "wait" PROVE Served'
    <3>1. Served /\ cur \in ctlUp
      BY <1>7, <2>2 DEF LinkInv, PlaceInv, InTime, PhaseInv, Unserved
    <3>2. AcksIn(down[cur]) = {}
      BY <1>7, <3>1 DEF Served
    <3>3. IF cur \in ctlOpen THEN AcksIn(down'[cur]) = {Len(down[cur]) + 1}
          ELSE AcksIn(down'[cur]) = {}
      <4>1. AcksIn(Append(down[cur], "ack")) = {Len(down[cur]) + 1}
        BY <1>1, <1>7, <3>2, AcksRead DEF TypeOK
      <4> QED BY <1>2, <1>7, <3>1, <3>2, <4>1
    <3> QED BY <1>1, <1>7, <3>1, <3>3 DEF Served
  <2> QED BY <1>1, <2>1, <2>2 DEF PhaseInv
<1> QED BY <1>1, <1>3, <1>4, <1>5, <1>6, <1>7 DEF LinkInv, InTime

\* Requests are sent to sessions that are set up: the acknowledgements stay
\* what they were.
LEMMA RequestKeeps ==
    ASSUME TypeOK, Known, LinkInv, NEW s \in Sessions, SendRequest(s)
    PROVE  LinkInv'
<1> USE LinkAssumption DEF AS!TypeOK, serverVars, agentVars
<1>1. /\ creator[s] = "end" /\ s \in AS!Listed /\ SendDown(s, "req")
      /\ UNCHANGED <<clreqHolder, mem, creator, ctl, dtor, tsd, ctlOpen, ctlUp,
                     conn, ackTo, apc, cur, tconn, retries, hasty>>
  BY DEF SendRequest
<1>2. /\ down' \in [Sessions -> Seq({"ack", "req"})]
      /\ \A t \in Sessions \ {s} : down'[t] = down[t]
      /\ down'[s] = down[s] \/ down'[s] = Append(down[s], "req")
  BY <1>1, Sent
<1>3. \A t \in Sessions : AcksIn(down'[t]) = AcksIn(down[t])
  BY <1>2, AcksRead DEF TypeOK
<1>4. ctl[s] # "none" /\ mem[s] # "none"
  BY <1>1 DEF Known, LinkInv, EndInv
<1>5. EndInv' /\ PlaceInv' /\ CommandsAligned'
  BY <1>1 DEF LinkInv, EndInv, PlaceInv, CommandsAligned
<1>6. FreshInv'
  BY <1>1, <1>2, <1>4 DEF LinkInv, FreshInv
<1>7. ASSUME ~hasty PROVE BacklogInv'
  BY <1>1, <1>7 DEF LinkInv, InTime, BacklogInv, LeftBehind, SetUpFailed
<1>8. ASSUME ~hasty PROVE PhaseInv'
  <2>1. apc # "connect" => cur \in Sessions
    BY DEF LinkInv, PlaceInv, TypeOK
  <2>2. apc # "connect" /\ Unserved => Unserved'
    BY <1>1, <1>2, <1>4, <2>1 DEF Unserved
  <2>3. apc # "connect" /\ Served => Served'
    BY <1>1, <1>3, <2>1 DEF Served
  <2> QED
    BY <1>1, <1>3, <1>8, <2>1, <2>2, <2>3 DEF LinkInv, InTime, PhaseInv
<1> QED BY <1>1, <1>5, <1>6, <1>7, <1>8 DEF LinkInv, InTime

\* A new session is waited for by nobody.
LEMMA ConnectKeeps ==
    ASSUME TypeOK, Known, LinkInv, NEW s \in Sessions, Connect(s)
    PROVE  LinkInv'
<1> USE LinkAssumption DEF AS!TypeOK
<1>1. /\ mem[s] = "none" /\ creator[s] = "none" /\ ctl[s] = "none"
      /\ creator' = [creator EXCEPT ![s] = "lock"] /\ cur' = s
      /\ mem' = [mem EXCEPT ![s] = "live"]
      /\ ctlOpen' = ctlOpen \cup {s} /\ ctlUp' = ctlUp \cup {s}
      /\ apc = "connect" /\ apc' = "login"
      /\ UNCHANGED <<clreqHolder, ctl, dtor, tsd, conn, ackTo, down, tconn,
                     retries, hasty>>
  BY DEF Connect, Goes, AS!AcceptControl, AS!connVars, Known, LinkInv,
     FreshInv, ASP!BeforeListeners
<1>2. EndInv' /\ FreshInv'
  BY <1>1 DEF TypeOK, LinkInv, EndInv, FreshInv
<1>3. PlaceInv' /\ CommandsAligned'
  BY <1>1 DEF LinkInv, PlaceInv, CommandsAligned
<1>4. ASSUME ~hasty PROVE BacklogInv'
  <2>1. LeftBehind => LeftBehind'
    BY <1>1 DEF LeftBehind, SetUpFailed, TypeOK
  <2> QED BY <1>1, <1>4, <2>1 DEF LinkInv, InTime, BacklogInv
<1>5. Unserved'
  BY <1>1 DEF LinkInv, FreshInv, Unserved, TypeOK
<1>6. PhaseInv'
  BY <1>1, <1>5 DEF PhaseInv
<1> QED BY <1>1, <1>2, <1>3, <1>4, <1>6 DEF LinkInv, InTime

LEMMA IdleKeeps ==
    LinkInv /\ UNCHANGED <<serverVars, agentVars, down, hasty>> => LinkInv'
<1> SUFFICES ASSUME LinkInv, UNCHANGED <<serverVars, agentVars, down, hasty>>
             PROVE  LinkInv'
  OBVIOUS
<1>1. EndInv' /\ FreshInv' /\ PlaceInv' /\ CommandsAligned'
  BY DEF LinkInv, EndInv, FreshInv, PlaceInv, CommandsAligned, serverVars, agentVars
<1>2. InTime => InTime'
  BY DEF InTime, BacklogInv, PhaseInv, Unserved, Served, LeftBehind, SetUpFailed,
     serverVars, agentVars
<1> QED BY <1>1, <1>2 DEF LinkInv

LEMMA AgentKeeps == TypeOK /\ Known /\ LinkInv /\ AgentStep => LinkInv'
<1> SUFFICES ASSUME TypeOK, Known, LinkInv, AgentStep PROVE LinkInv'
  OBVIOUS
<1> USE LinkAssumption DEF AS!TypeOK, serverVars
<1>0. apc # "connect" => cur \in Sessions
  BY DEF TypeOK, LinkInv, PlaceInv
<1>1. ASSUME NEW c \in Conns, OpenTransfer(c) PROVE LinkInv'
  <2>1. /\ apc = "open" /\ apc' = "wait" /\ tconn' = c /\ retries < MaxRetries
        /\ conn' = [conn EXCEPT ![c] = "backlog"]
        /\ UNCHANGED <<clreqHolder, mem, creator, ctl, dtor, tsd, ctlOpen, ctlUp,
                       ackTo, down, cur, retries, hasty>>
    BY <1>1 DEF OpenTransfer, Goes, AS!ConnOpen, AS!sessVars
  <2>2. EndInv' /\ FreshInv' /\ PlaceInv' /\ CommandsAligned'
    BY <2>1 DEF LinkInv, EndInv, FreshInv, PlaceInv, CommandsAligned
  <2>3. ASSUME InTime PROVE BacklogInv'
    BY <1>0, <2>1, <2>3 DEF TypeOK, InTime, BacklogInv, LeftBehind, SetUpFailed
  <2>4. ASSUME InTime PROVE PhaseInv'
    BY <2>1, <2>4 DEF InTime, PhaseInv, Unserved
  <2> QED BY <2>1, <2>2, <2>3, <2>4 DEF LinkInv, InTime
<1>2. CASE Login \/ LoginFails \/ OutOfRetries
  <2>1. /\ apc \in {"login", "open"} /\ apc' \in {"open", "close", "loop"}
        /\ apc' = "open" => apc = "login" /\ retries' = 0
        /\ UNCHANGED <<serverVars, down, cur, tconn, hasty>>
    BY <1>2 DEF Login, LoginFails, OutOfRetries, Goes
  <2>2. EndInv' /\ FreshInv' /\ PlaceInv' /\ CommandsAligned'
    BY <2>1 DEF LinkInv, EndInv, FreshInv, PlaceInv, CommandsAligned
  <2>3. ASSUME InTime PROVE BacklogInv'
    BY <2>1, <2>3 DEF InTime, BacklogInv, LeftBehind, SetUpFailed
  <2>4. ASSUME InTime PROVE PhaseInv'
    <3>1. Unserved /\ AcksIn(<<>>) = {}
      BY <2>1, <2>4, AcksRead DEF InTime, PhaseInv, AcksIn
    <3> QED BY <2>1, <3>1 DEF PhaseInv, Unserved
  <2> QED BY <2>1, <2>2, <2>3, <2>4 DEF LinkInv, InTime
<1>3. CASE ReceiveByte \/ TreatCommand \/ TakeAckForLength
  <2>1. /\ apc \in {"wait", "loop"} /\ apc' \in {"loop", "quit", "garbled"}
        /\ down[cur] # <<>> /\ down' = [down EXCEPT ![cur] = Tail(@)]
        /\ apc = "wait" => apc' = IF Head(down[cur]) = "ack" THEN "loop" ELSE "quit"
        /\ apc = "loop" => (apc' = "garbled" <=> Head(down[cur]) = "ack")
        /\ UNCHANGED <<serverVars, cur, tconn, retries, hasty>>
    BY <1>3 DEF ReceiveByte, TreatCommand, TakeAckForLength, Goes
  <2>2. /\ down[cur] \in Seq({"ack", "req"})
        /\ down'[cur] = Tail(down[cur])
        /\ \A t \in Sessions \ {cur} : down'[t] = down[t]
    BY <1>0, <2>1 DEF TypeOK
  <2>3. /\ Head(down[cur]) = "ack" <=> 1 \in AcksIn(down[cur])
        /\ \A i : i \in AcksIn(down'[cur]) => i # 0 /\ i + 1 \in AcksIn(down[cur])
    BY <2>1, <2>2, AcksRead
  <2>4. ASSUME InTime, apc = "wait", apc' = "loop"
        PROVE  Served /\ ackTo # cur /\ AcksIn(down'[cur]) = {}
    <3>1. Served /\ 1 \in AcksIn(down[cur])
      BY <2>1, <2>3, <2>4 DEF InTime, PhaseInv, Unserved
    <3>2. \A i \in AcksIn(down'[cur]) : i \in Nat
      BY DEF AcksIn
    <3> QED BY <2>3, <3>1, <3>2 DEF Served
  <2>5. ASSUME InTime, apc = "loop"
        PROVE  apc' # "garbled" /\ AcksIn(down'[cur]) = {}
    BY <2>1, <2>3, <2>5 DEF InTime, PhaseInv
  <2>6. mem[cur] # "none"
    BY <1>0, <2>1 DEF LinkInv, PlaceInv, FreshInv
  <2>7. EndInv' /\ FreshInv' /\ PlaceInv'
    BY <2>1, <2>2, <2>6 DEF LinkInv, EndInv, FreshInv, PlaceInv
  <2>8. CommandsAligned'
    BY <2>1, <2>5 DEF LinkInv, CommandsAligned
  <2>9. ASSUME InTime PROVE BacklogInv'
    <3>1. apc = "wait" => conn[tconn] # "backlog"
      BY <2>1, <2>9 DEF InTime, PhaseInv, Unserved, Served
    <3> QED BY <2>1, <2>9, <3>1 DEF InTime, BacklogInv, LeftBehind, SetUpFailed
  <2>10. ASSUME InTime PROVE PhaseInv'
    BY <2>1, <2>4, <2>5, <2>10 DEF InTime, PhaseInv, Served
  <2> QED BY <2>1, <2>7, <2>8, <2>9, <2>10 DEF LinkInv, InTime
<1>4. CASE WaitedInVain
  <2>1. /\ apc = "wait" /\ apc' = "open" /\ tconn' = NoConn
        /\ hasty' = (hasty \/ ~Answered)
        /\ UNCHANGED <<clreqHolder, mem, creator, ctl, dtor, tsd, ctlOpen, ctlUp,
                       conn, ackTo, down, cur>>
    BY <1>4 DEF WaitedInVain, Goes, AS!ConnClose, AS!sessVars
  <2>2. EndInv' /\ FreshInv' /\ PlaceInv' /\ CommandsAligned'
    BY <2>1 DEF LinkInv, EndInv, FreshInv, PlaceInv, CommandsAligned
  <2>3. ASSUME InTime, Answered PROVE Unserved
    <3>1. AcksIn(<<>>) = {}
      BY AcksRead DEF AcksIn
    <3> QED BY <2>1, <2>3, <3>1 DEF InTime, PhaseInv, Served, Answered
  <2>4. ASSUME InTime, Answered PROVE InTime'
    BY <2>1, <2>3, <2>4 DEF InTime, BacklogInv, PhaseInv, Answered, Unserved,
       LeftBehind, SetUpFailed
  <2> QED BY <2>1, <2>2, <2>4 DEF LinkInv
<1>5. CASE ControlLost
  <2>1. /\ apc \in {"wait", "loop", "garbled"} /\ apc' = "quit"
        /\ cur \notin ctlOpen
        /\ UNCHANGED <<serverVars, cur, tconn, retries, down, hasty>>
    BY <1>5 DEF ControlLost, Goes
  <2>2. EndInv' /\ FreshInv' /\ PlaceInv' /\ CommandsAligned'
    BY <2>1 DEF LinkInv, EndInv, FreshInv, PlaceInv, CommandsAligned
  <2>3. ASSUME apc = "wait", Unserved PROVE SetUpFailed /\ cur = clreqHolder
    <3>1. dtor[cur] \in {"erase", "free", "done"} /\ ctl[cur] = "none"
      BY <1>0, <2>1, <2>3 DEF LinkInv, PlaceInv, EndInv, Unserved
    <3>2. creator[cur] \in {"destroy", "end"} /\ clreqHolder = cur
      BY <1>0, <2>1, <3>1 DEF Known, LinkInv, EndInv, ASP!Dying, ASP!Setup
    <3> QED BY <1>0, <2>1, <3>2 DEF SetUpFailed
  <2>4. ASSUME InTime PROVE BacklogInv'
    <3>1. apc = "wait" /\ ~Unserved => conn[tconn] # "backlog"
      BY <2>4 DEF InTime, PhaseInv, Served
    <3> QED
      BY <2>1, <2>3, <2>4, <3>1 DEF InTime, BacklogInv, LeftBehind, SetUpFailed
  <2>5. PhaseInv'
    BY <2>1 DEF PhaseInv
  <2> QED BY <2>1, <2>2, <2>4, <2>5 DEF LinkInv, InTime
<1>6. CASE CloseTransfer
  <2>1. /\ apc = "quit" /\ apc' = "close" /\ tconn' = NoConn
        /\ UNCHANGED <<clreqHolder, mem, creator, ctl, dtor, tsd, ctlOpen, ctlUp,
                       conn, ackTo, down, cur, hasty>>
    BY <1>6 DEF CloseTransfer, Goes, AS!ConnClose, AS!sessVars
  <2>2. EndInv' /\ FreshInv' /\ PlaceInv' /\ CommandsAligned'
    BY <2>1 DEF LinkInv, EndInv, FreshInv, PlaceInv, CommandsAligned
  <2>3. InTime => InTime'
    BY <2>1 DEF InTime, BacklogInv, PhaseInv, LeftBehind, SetUpFailed
  <2> QED BY <2>1, <2>2, <2>3 DEF LinkInv
<1>7. CASE CloseControl
  <2>1. /\ apc = "close" /\ apc' = "connect" /\ cur' = NoSession
        /\ ctlUp' = ctlUp \ {cur}
        /\ UNCHANGED <<clreqHolder, mem, creator, ctl, dtor, tsd, ctlOpen, conn,
                       ackTo, down, tconn, hasty>>
    BY <1>7 DEF CloseControl, Goes, AS!PeerClose, AS!sessVars, AS!connVars
  <2>2. EndInv' /\ FreshInv' /\ PlaceInv' /\ CommandsAligned'
    BY <2>1 DEF LinkInv, EndInv, FreshInv, PlaceInv, CommandsAligned
  <2>3. InTime => InTime'
    BY <2>1 DEF InTime, BacklogInv, PhaseInv, LeftBehind, SetUpFailed
  <2> QED BY <2>1, <2>2, <2>3 DEF LinkInv
<1>8. CASE LostAlone
  <2>1. /\ apc # "connect" /\ apc' = "quit" /\ apc \notin {"quit", "close"}
        /\ hasty' = (hasty \/ Untaken)
        /\ UNCHANGED <<serverVars, cur, tconn, retries, down>>
    BY <1>8 DEF LostAlone, Goes
  <2>2. EndInv' /\ FreshInv' /\ PlaceInv' /\ CommandsAligned'
    BY <2>1 DEF LinkInv, EndInv, FreshInv, PlaceInv, CommandsAligned
  <2>3. ASSUME InTime, ~Untaken PROVE BacklogInv'
    <3>1. apc = "wait" => tconn # NoConn
      BY DEF LinkInv, PlaceInv
    <3> QED BY <2>1, <2>3, <3>1 DEF InTime, BacklogInv, LeftBehind, SetUpFailed, Untaken
  <2>4. PhaseInv'
    BY <2>1 DEF PhaseInv
  <2> QED BY <2>1, <2>2, <2>3, <2>4 DEF LinkInv, InTime
<1>9. CASE OverrunCommand
  <2>1. /\ apc = "garbled" /\ apc' \in {"garbled", "quit"}
        /\ down' = [down EXCEPT ![cur] = Tail(@)]
        /\ UNCHANGED <<serverVars, cur, tconn, retries, hasty>>
    BY <1>9 DEF OverrunCommand
  <2>2. hasty
    BY <2>1 DEF LinkInv, CommandsAligned
  <2>3. mem[cur] # "none" /\ \A t \in Sessions \ {cur} : down'[t] = down[t]
    BY <1>0, <2>1 DEF LinkInv, PlaceInv, FreshInv, TypeOK
  <2> QED BY <2>1, <2>2, <2>3 DEF LinkInv, EndInv, FreshInv, PlaceInv, CommandsAligned
<1>10. CASE Heartbeat
  <2>1. UNCHANGED <<serverVars, agentVars, down, hasty>>
    BY <1>10 DEF Heartbeat
  <2> QED BY <2>1, IdleKeeps
<1> QED
  BY ConnectKeeps, <1>1, <1>2, <1>3, <1>4, <1>5, <1>6, <1>7, <1>8, <1>9, <1>10
     DEF AgentStep, AgentRuns

LEMMA ServerKeeps == TypeOK /\ Known /\ LinkInv /\ ServerStep => LinkInv'
<1> SUFFICES ASSUME TypeOK, Known, LinkInv, ServerStep PROVE LinkInv'
  OBVIOUS
<1>1. ASSUME NEW s \in Sessions, UNCHANGED <<agentVars, down>>, ~hasty' => ~hasty,
             \/ AS!CreatorStep(s) \/ AS!ListenerStep(s) \/ AS!DtorStep(s)
             \/ AS!TransferStep(s)
      PROVE  LinkInv'
  <2>1. EndInv' /\ Helpless
    BY <1>1, ThreadStep DEF TypeOK, LinkInv
  <2> QED BY <1>1, <2>1, ThreadsKeep
<1>2. ASSUME NEW s \in Sessions, CreatorStep(s) \/ ListenerStep(s) PROVE LinkInv'
  <2>1. UNCHANGED <<agentVars, down>>
    BY <1>2 DEF CreatorStep, ListenerStep, ListenerReceive, ListenerBreak
  <2>2. ~hasty' => ~hasty
    BY <1>2 DEF CreatorStep, ListenerStep, ListenerReceive, ListenerBreak
  <2>3. AS!CreatorStep(s) \/ AS!ListenerStep(s)
    BY <1>2 DEF CreatorStep, ListenerStep, ListenerReceive, ListenerBreak,
       AS!ListenerStep
  <2> QED BY <1>1, <2>1, <2>2, <2>3
<1>3. CASE OtherServerStep
  BY <1>1, <1>3, DispatchKeeps DEF OtherServerStep
<1> QED BY <1>2, <1>3, RequestKeeps, AckKeeps DEF ServerStep

LEMMA LinkStep == TypeOK /\ Known /\ LinkInv /\ [Next]_vars => LinkInv'
<1> SUFFICES ASSUME TypeOK, Known, LinkInv, [Next]_vars PROVE LinkInv'
  OBVIOUS
<1>1. CASE UNCHANGED vars
  BY <1>1, IdleKeeps DEF vars
<1> QED BY <1>1, AgentKeeps, ServerKeeps DEF Next

\* The inductive invariant of the connection holds in every state: what the
\* agent and the server know of it, and what is in the backlog, agree.
THEOREM LinkInvariance == Spec => [](TypeOK /\ ASP!IInv /\ LinkInv)
<1>1. Init => TypeOK /\ ASP!IInv /\ LinkInv
  <2>1. Init => ASP!IInv /\ LinkInv
    BY SessionInvInit, LinkInit
  <2>2. Init => TypeOK
    <3>1. Init => AS!TypeOK
      BY <2>1, SessionFacts
    <3>2. Init => hasty \in BOOLEAN
      BY DEF Init
    <3> QED BY <3>1, <3>2, LinkAssumption DEF Init, TypeOK
  <2> QED BY <2>1, <2>2
<1>2. TypeOK /\ ASP!IInv /\ LinkInv /\ [Next]_vars => TypeOK' /\ ASP!IInv' /\ LinkInv'
  BY SessionInvStep, SessionFacts, TypeStep, LinkStep DEF LinkInv
<1> QED BY <1>1, <1>2, PTL DEF Spec

\* Commands are read from where they begin, unless a side gave up too soon.
THEOREM LinkIsSound == Spec => []LinkSound
<1>1. TypeOK /\ LinkInv => LinkSound
  BY DEF LinkInv, LinkSound
<1> QED BY <1>1, LinkInvariance, PTL

\* The transfer connection by which a session serves the agent is the one the
\* agent writes to, unless a side gave up too soon.
THEOREM PipeIsSame == Spec => []SamePipe
<1>1. TypeOK /\ LinkInv => SamePipe
  BY DEF LinkInv, InTime, PhaseInv, SamePipe
<1> QED BY <1>1, LinkInvariance, PTL
=============================================================================
