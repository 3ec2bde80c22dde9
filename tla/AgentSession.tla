---------------------------- MODULE AgentSession ----------------------------
(***************************************************************************)
(* The server's side of the agents: one Agent object ("session") for each  *)
(* accepted control connection, the threads that build, serve and destroy  *)
(* it, and the transfer dispatcher that attaches transfer connections to   *)
(* the sessions of agent_list (src/Server/Agent.h, AgentDispatcher.cpp).   *)
(*                                                                         *)
(* Threads and their program counters:                                     *)
(*   creator[s]  fnc_agent_creator of session s                            *)
(*   ctl[s]      fnc_agent_control_listener of s                           *)
(*   trl[s]      fnc_agent_transfer_listener of s                          *)
(*   dtor[s]     ~Agent, run by the creator or by the control listener     *)
(*   ackTo       the transfer dispatcher: the session it still has to      *)
(*               acknowledge, NoSession when it is back in accept()        *)
(* A critical section of agent_list_lock blocks on nothing, so each one is *)
(* a single action; clreq_mutex is held across blocking calls and is a     *)
(* variable, clreqHolder.                                                  *)
(***************************************************************************)
EXTENDS Naturals, FiniteSets, SequencesExt

CONSTANTS Sessions,      \* Agent objects; each is allocated at most once
          Conns,         \* transfer connections
          HostOf,        \* IP address of the peer of a session or a connection
          NoSession,
          NoConn         \* the value -1 of agent_transfer_sd

ASSUME SessionAssumption == /\ NoSession \notin Sessions
                            /\ NoConn \notin Conns

VARIABLES agentList,     \* agent_list, pointers in the order of registration
          clreqHolder,   \* the session whose creator holds clreq_mutex
          mem,           \* allocation state of the Agent object
          creator, ctl, trl, dtor, ackTo,
          tsd,           \* agent_transfer_sd
          on,            \* the descriptor the transfer listener passed to recv
          ctlOpen,       \* sessions whose control socket the server has open
          ctlUp,         \* sessions whose peer has the control socket open
          conn,          \* server's end of each transfer connection
          connUp         \* transfer connections whose peer end is open

sessVars == <<mem, creator, ctl, trl, dtor, tsd, on, ctlOpen>>
connVars == <<conn, connUp>>
vars == <<agentList, clreqHolder, sessVars, ackTo, ctlUp, connVars>>

CreatorPC == {"none", "lock", "login", "push", "wait", "spawnCtl", "spawnTr",
              "unlock", "destroy", "end"}
CtlPC == {"none", "select", "treat", "destroy", "end"}
TrlPC == {"none", "call", "recv", "exit", "end"}
DtorPC == {"none", "join", "close", "erase", "free", "done"}

TypeOK ==
    /\ agentList \in Seq(Sessions)
    /\ clreqHolder \in Sessions \cup {NoSession}
    /\ ackTo \in Sessions \cup {NoSession}
    /\ mem \in [Sessions -> {"none", "live", "freed"}]
    /\ creator \in [Sessions -> CreatorPC]
    /\ ctl \in [Sessions -> CtlPC]
    /\ trl \in [Sessions -> TrlPC]
    /\ dtor \in [Sessions -> DtorPC]
    /\ tsd \in [Sessions -> Conns \cup {NoConn}]
    /\ on \in [Sessions -> Conns \cup {NoConn}]
    /\ ctlOpen \subseteq Sessions
    /\ ctlUp \subseteq Sessions
    /\ conn \in [Conns -> {"none", "backlog", "open", "closed"}]
    /\ connUp \subseteq Conns

Listed == Range(agentList)

Init ==
    /\ agentList = <<>>
    /\ clreqHolder = NoSession
    /\ ackTo = NoSession
    /\ mem = [s \in Sessions |-> "none"]
    /\ creator = [s \in Sessions |-> "none"]
    /\ ctl = [s \in Sessions |-> "none"]
    /\ trl = [s \in Sessions |-> "none"]
    /\ dtor = [s \in Sessions |-> "none"]
    /\ tsd = [s \in Sessions |-> NoConn]
    /\ on = [s \in Sessions |-> NoConn]
    /\ ctlOpen = {} /\ ctlUp = {}
    /\ conn = [c \in Conns |-> "none"]
    /\ connUp = {}

-----------------------------------------------------------------------------
(* The network and the peers.                                              *)

\* A peer ends its control connection.
PeerClose(s) ==
    /\ s \in ctlUp
    /\ ctlUp' = ctlUp \ {s}
    /\ UNCHANGED <<agentList, clreqHolder, sessVars, ackTo, connVars>>

\* An agent opens a transfer connection.  The label of a connection closed at
\* both ends that no session refers to stands for a fresh one.
ConnOpen(c) ==
    /\ conn[c] \in {"none", "closed"} /\ c \notin connUp
    /\ \A s \in Sessions : tsd[s] # c /\ on[s] # c
    /\ conn' = [conn EXCEPT ![c] = "backlog"]
    /\ connUp' = connUp \cup {c}
    /\ UNCHANGED <<agentList, clreqHolder, sessVars, ackTo, ctlUp>>

ConnClose(c) ==
    /\ c \in connUp
    /\ connUp' = connUp \ {c}
    /\ UNCHANGED <<agentList, clreqHolder, sessVars, ackTo, ctlUp, conn>>

-----------------------------------------------------------------------------
(* The control dispatcher.                                                 *)

\* A connection is accepted, or accept() fails and the object is built around
\* descriptor -1 all the same.
AcceptControl(s) ==
    /\ mem[s] = "none"
    /\ mem' = [mem EXCEPT ![s] = "live"]
    /\ creator' = [creator EXCEPT ![s] = "lock"]
    /\ \/ ctlOpen' = ctlOpen \cup {s} /\ ctlUp' = ctlUp \cup {s}
       \/ UNCHANGED <<ctlOpen, ctlUp>>
    /\ UNCHANGED <<agentList, clreqHolder, ctl, trl, dtor, tsd, on, ackTo,
                   connVars>>

-----------------------------------------------------------------------------
(* The creator of s.                                                       *)

CreatorGoes(s, from, to) ==
    /\ creator[s] = from
    /\ creator' = [creator EXCEPT ![s] = to]

CreatorLock(s) ==
    /\ clreqHolder = NoSession
    /\ CreatorGoes(s, "lock", "login")
    /\ clreqHolder' = s
    /\ UNCHANGED <<agentList, mem, ctl, trl, dtor, tsd, on, ctlOpen, ackTo,
                   ctlUp, connVars>>

LoginOk(s) ==
    /\ s \in ctlOpen
    /\ CreatorGoes(s, "login", "push")
    /\ UNCHANGED <<agentList, clreqHolder, mem, ctl, trl, dtor, tsd, on,
                   ctlOpen, ackTo, ctlUp, connVars>>

\* The creator deletes the object; clreq_mutex stays locked.
CreatorFails(s, from) ==
    /\ CreatorGoes(s, from, "destroy")
    /\ dtor' = [dtor EXCEPT ![s] = "join"]
    /\ UNCHANGED <<agentList, clreqHolder, mem, ctl, trl, tsd, on, ctlOpen,
                   ackTo, ctlUp, connVars>>

LoginFails(s) == CreatorFails(s, "login")

PushAgent(s) ==
    /\ CreatorGoes(s, "push", "wait")
    /\ agentList' = Append(agentList, s)
    /\ UNCHANGED <<clreqHolder, mem, ctl, trl, dtor, tsd, on, ctlOpen, ackTo,
                   ctlUp, connVars>>

\* One of the five polls finds a transfer connection.
WaitOk(s) ==
    /\ tsd[s] # NoConn
    /\ CreatorGoes(s, "wait", "spawnCtl")
    /\ UNCHANGED <<agentList, clreqHolder, mem, ctl, trl, dtor, tsd, on,
                   ctlOpen, ackTo, ctlUp, connVars>>

\* None does: the connection may come between the last poll and the return.
WaitTimeout(s) == CreatorFails(s, "wait")

SpawnControl(s) ==
    /\ CreatorGoes(s, "spawnCtl", "spawnTr")
    /\ ctl' = [ctl EXCEPT ![s] = "select"]
    /\ UNCHANGED <<agentList, clreqHolder, mem, trl, dtor, tsd, on, ctlOpen,
                   ackTo, ctlUp, connVars>>

\* Runs whatever the control listener has done to the object meanwhile.
SpawnTransfer(s) ==
    /\ CreatorGoes(s, "spawnTr", "unlock")
    /\ trl' = [trl EXCEPT ![s] = "call"]
    /\ UNCHANGED <<agentList, clreqHolder, mem, ctl, dtor, tsd, on, ctlOpen,
                   ackTo, ctlUp, connVars>>

\* Mutant of CreatorUnlock: the mutex stays locked.
CreatorUnlockNot(s) ==
    /\ CreatorGoes(s, "unlock", "end")
    /\ UNCHANGED <<agentList, clreqHolder, mem, ctl, trl, dtor, tsd, on, ctlOpen,
                   ackTo, ctlUp, connVars>>

CreatorUnlock(s) ==
    /\ CreatorGoes(s, "unlock", "end")
    /\ clreqHolder' = NoSession
    /\ UNCHANGED <<agentList, mem, ctl, trl, dtor, tsd, on, ctlOpen, ackTo,
                   ctlUp, connVars>>

-----------------------------------------------------------------------------
(* The control listener of s.                                              *)

\* select() and recv_varmsg() return a message, which treat() handles.  Messages
\* may be left to read after the peer has closed.
ListenerReceive(s) ==
    /\ ctl[s] = "select" /\ s \in ctlOpen
    /\ ctl' = [ctl EXCEPT ![s] = "treat"]
    /\ UNCHANGED <<agentList, clreqHolder, mem, creator, trl, dtor, tsd, on,
                   ctlOpen, ackTo, ctlUp, connVars>>

\* Mutant of ListenerDeletes: the listener goes on after "delete".
ListenerDeletesOnly(s) == dtor' = [dtor EXCEPT ![s] = "join"] /\ UNCHANGED ctl

ListenerDeletes(s) ==
    /\ ctl' = [ctl EXCEPT ![s] = "destroy"]
    /\ dtor' = [dtor EXCEPT ![s] = "join"]

\* After the message: go on only while there is a transfer connection.
ListenerCheck(s) ==
    /\ ctl[s] = "treat"
    /\ IF tsd[s] = NoConn
       THEN ListenerDeletes(s)
       ELSE ctl' = [ctl EXCEPT ![s] = "select"] /\ UNCHANGED dtor
    /\ UNCHANGED <<agentList, clreqHolder, mem, creator, trl, tsd, on, ctlOpen,
                   ackTo, ctlUp, connVars>>

\* Mutant of ListenerBreak: the end of file is not noticed.
ListenerBreakTimeout(s) ==
    /\ ctl[s] = "select" /\ s \in ctlUp
    /\ ListenerDeletes(s)
    /\ UNCHANGED <<agentList, clreqHolder, mem, creator, trl, tsd, on, ctlOpen,
                   ackTo, ctlUp, connVars>>

\* Ten seconds of silence, end of file or an error.
ListenerBreak(s) ==
    /\ ctl[s] = "select"
    /\ ListenerDeletes(s)
    /\ UNCHANGED <<agentList, clreqHolder, mem, creator, trl, tsd, on, ctlOpen,
                   ackTo, ctlUp, connVars>>

-----------------------------------------------------------------------------
(* ~Agent, by whichever thread deletes s.                                  *)

DtorGoes(s, from, to) ==
    /\ dtor[s] = from
    /\ dtor' = [dtor EXCEPT ![s] = to]

\* Cancels and joins the transfer listener, if its tid has been stored.
DtorJoin(s) ==
    /\ DtorGoes(s, "join", "close")
    /\ IF trl[s] = "none"
       THEN UNCHANGED <<trl, on>>
       ELSE /\ trl' = [trl EXCEPT ![s] = "end"]
            /\ on' = [on EXCEPT ![s] = NoConn]
    /\ UNCHANGED <<agentList, clreqHolder, mem, creator, ctl, tsd, ctlOpen,
                   ackTo, ctlUp, connVars>>

\* close() of both sockets; agent_transfer_sd keeps its value.
DtorClose(s) ==
    /\ DtorGoes(s, "close", "erase")
    /\ conn' = [c \in Conns |-> IF c = tsd[s] THEN "closed" ELSE conn[c]]
    /\ ctlOpen' = ctlOpen \ {s}
    /\ UNCHANGED <<agentList, clreqHolder, mem, creator, ctl, trl, tsd, on,
                   ackTo, ctlUp, connUp>>

\* Mutants of DtorErase: nothing is erased; the newest entry is.
DtorEraseNone(s) ==
    /\ DtorGoes(s, "erase", "free")
    /\ UNCHANGED <<agentList, clreqHolder, mem, creator, ctl, trl, tsd, on,
                   ctlOpen, ackTo, ctlUp, connVars>>

DtorEraseLast(s) ==
    /\ DtorGoes(s, "erase", "free")
    /\ agentList' = IF s \in Listed THEN Front(agentList) ELSE agentList
    /\ UNCHANGED <<clreqHolder, mem, creator, ctl, trl, tsd, on, ctlOpen,
                   ackTo, ctlUp, connVars>>

DtorErase(s) ==
    /\ DtorGoes(s, "erase", "free")
    /\ IF s \in Listed
       THEN \E i \in DOMAIN agentList : /\ agentList[i] = s
                                        /\ agentList' = RemoveAt(agentList, i)
       ELSE UNCHANGED agentList
    /\ UNCHANGED <<clreqHolder, mem, creator, ctl, trl, tsd, on, ctlOpen,
                   ackTo, ctlUp, connVars>>

\* The memory is released and the deleting thread ends.
DtorFree(s) ==
    /\ DtorGoes(s, "free", "done")
    /\ mem' = [mem EXCEPT ![s] = "freed"]
    /\ IF creator[s] = "destroy"
       THEN creator' = [creator EXCEPT ![s] = "end"] /\ UNCHANGED ctl
       ELSE ctl' = [ctl EXCEPT ![s] = "end"] /\ UNCHANGED creator
    /\ UNCHANGED <<agentList, clreqHolder, trl, tsd, on, ctlOpen, ackTo, ctlUp,
                   connVars>>

-----------------------------------------------------------------------------
(* The transfer listener of s.                                             *)

\* recv() is called on the descriptor the object holds now.
TransferCall(s) ==
    /\ trl[s] = "call"
    /\ trl' = [trl EXCEPT ![s] = "recv"]
    /\ on' = [on EXCEPT ![s] = tsd[s]]
    /\ UNCHANGED <<agentList, clreqHolder, mem, creator, ctl, dtor, tsd,
                   ctlOpen, ackTo, ctlUp, connVars>>

\* A log entry arrives and is appended to the agent's log.
TransferMessage(s) ==
    /\ trl[s] = "recv" /\ on[s] \in connUp
    /\ trl' = [trl EXCEPT ![s] = "call"]
    /\ on' = [on EXCEPT ![s] = NoConn]
    /\ UNCHANGED <<agentList, clreqHolder, mem, creator, ctl, dtor, tsd,
                   ctlOpen, ackTo, ctlUp, connVars>>

\* Mutant of TransferBreak: the descriptor is closed before it is forgotten.
TransferBreakCloses(s) ==
    /\ trl[s] = "recv" /\ ~(on[s] \in connUp /\ conn[on[s]] = "open")
    /\ trl' = [trl EXCEPT ![s] = "exit"]
    /\ on' = [on EXCEPT ![s] = NoConn]
    /\ conn' = [c \in Conns |-> IF c = on[s] THEN "closed" ELSE conn[c]]
    /\ UNCHANGED <<agentList, clreqHolder, mem, creator, ctl, dtor, tsd,
                   ctlOpen, ackTo, ctlUp, connUp>>

\* End of file, or a descriptor that was closed or is -1.
TransferBreak(s) ==
    /\ trl[s] = "recv"
    /\ ~(on[s] \in connUp /\ conn[on[s]] = "open")
    /\ trl' = [trl EXCEPT ![s] = "exit"]
    /\ on' = [on EXCEPT ![s] = NoConn]
    /\ UNCHANGED <<agentList, clreqHolder, mem, creator, ctl, dtor, tsd,
                   ctlOpen, ackTo, ctlUp, connVars>>

\* Mutant of TransferExit: 0 stands for no connection.
TransferExitZero(s) ==
    /\ trl[s] = "exit"
    /\ trl' = [trl EXCEPT ![s] = "end"]
    /\ tsd' = [tsd EXCEPT ![s] = 0]
    /\ UNCHANGED <<agentList, clreqHolder, mem, creator, ctl, dtor, on,
                   ctlOpen, ackTo, ctlUp, connVars>>

\* agent_transfer_sd = -1, without close(), whatever it holds by now.
TransferExit(s) ==
    /\ trl[s] = "exit"
    /\ trl' = [trl EXCEPT ![s] = "end"]
    /\ tsd' = [tsd EXCEPT ![s] = NoConn]
    /\ UNCHANGED <<agentList, clreqHolder, mem, creator, ctl, dtor, on,
                   ctlOpen, ackTo, ctlUp, connVars>>

-----------------------------------------------------------------------------
(* The transfer dispatcher.                                                *)

\* The first session of agent_list with the host of c.
IsFirstMatch(i, c) ==
    /\ HostOf[agentList[i]] = HostOf[c]
    /\ \A j \in 1 .. i - 1 : HostOf[agentList[j]] # HostOf[c]

\* Mutant of AttachTransfer: a session that has a connection keeps it while the
\* old one is closed.
AttachTransferKeeps(c) ==
    /\ ackTo = NoSession /\ conn[c] = "backlog"
    /\ \E i \in DOMAIN agentList :
          /\ IsFirstMatch(i, c)
          /\ LET s == agentList[i] IN
             /\ tsd' = IF tsd[s] = NoConn THEN [tsd EXCEPT ![s] = c] ELSE tsd
             /\ conn' = [d \in Conns |-> IF d = c THEN "open"
                                         ELSE IF d = tsd[s] THEN "closed"
                                         ELSE conn[d]]
             /\ ackTo' = s
    /\ UNCHANGED <<agentList, clreqHolder, mem, creator, ctl, trl, dtor, on,
                   ctlOpen, ctlUp, connUp>>

\* accept(), then the search under agent_list_lock: the session found takes
\* the connection over, the one it had is closed.
AttachTransfer(c) ==
    /\ ackTo = NoSession /\ conn[c] = "backlog"
    /\ \E i \in DOMAIN agentList :
          /\ IsFirstMatch(i, c)
          /\ LET s == agentList[i] IN
             /\ tsd' = [tsd EXCEPT ![s] = c]
             /\ conn' = [d \in Conns |-> IF d = c THEN "open"
                                         ELSE IF d = tsd[s] THEN "closed"
                                         ELSE conn[d]]
             /\ ackTo' = s
    /\ UNCHANGED <<agentList, clreqHolder, mem, creator, ctl, trl, dtor, on,
                   ctlOpen, ctlUp, connUp>>

RefuseTransfer(c) ==
    /\ ackTo = NoSession /\ conn[c] = "backlog"
    /\ \A i \in DOMAIN agentList : HostOf[agentList[i]] # HostOf[c]
    /\ conn' = [conn EXCEPT ![c] = "closed"]
    /\ UNCHANGED <<agentList, clreqHolder, sessVars, ackTo, ctlUp, connUp>>

\* The ack byte goes out after agent_list_lock was released.
SendAck ==
    /\ ackTo # NoSession
    /\ ackTo' = NoSession
    /\ UNCHANGED <<agentList, clreqHolder, sessVars, ctlUp, connVars>>

-----------------------------------------------------------------------------
CreatorStep(s) ==
    \/ CreatorLock(s) \/ LoginOk(s) \/ LoginFails(s) \/ PushAgent(s)
    \/ WaitOk(s) \/ WaitTimeout(s) \/ SpawnControl(s) \/ SpawnTransfer(s)
    \/ CreatorUnlock(s)

\* The recv() of login() has no timeout: it returns for certain only when the
\* peer has gone.
Silent(s) == creator[s] = "login" /\ s \in ctlUp
CreatorRuns(s) == ~Silent(s) /\ CreatorStep(s)

ListenerStep(s) == ListenerReceive(s) \/ ListenerCheck(s) \/ ListenerBreak(s)

DtorStep(s) == DtorJoin(s) \/ DtorClose(s) \/ DtorErase(s) \/ DtorFree(s)

TransferStep(s) ==
    TransferCall(s) \/ TransferMessage(s) \/ TransferBreak(s) \/ TransferExit(s)

DispatchTransfer(c) == AttachTransfer(c) \/ RefuseTransfer(c)

DispatcherStep == SendAck \/ \E c \in Conns : DispatchTransfer(c)

PeerStep ==
    \/ \E s \in Sessions : PeerClose(s)
    \/ \E c \in Conns : ConnOpen(c) \/ ConnClose(c)

Next ==
    \/ \E s \in Sessions : \/ AcceptControl(s) \/ CreatorStep(s)
                           \/ ListenerStep(s) \/ DtorStep(s) \/ TransferStep(s)
    \/ DispatcherStep
    \/ PeerStep

Spec == Init /\ [][Next]_vars

\* The creators, the control listeners and the destructors they call run; the
\* peers owe nothing, not even a login, and no property needs more of the other
\* threads.  SF: a peer that has gone left finitely many messages, so a listener
\* that comes back to recv() again and again meets the end of file.
FairSpec ==
    /\ Spec
    /\ \A s \in Sessions : /\ WF_vars(CreatorRuns(s))
                           /\ WF_vars(ListenerStep(s))
                           /\ SF_vars(s \notin ctlUp /\ ListenerBreak(s))
                           /\ WF_vars(DtorStep(s))

-----------------------------------------------------------------------------
(* Properties.                                                             *)

\* agent_list never holds a pointer to an object that is not allocated: the
\* dispatcher dereferences every entry under agent_list_lock.
ListedAlive == \A s \in Listed : mem[s] = "live"

\* A session is in agent_list once: the erasing loop of ~Agent relies on it.
ListedOnce == IsInjective(agentList)

\* The session that waits for its transfer connection is the newest entry of
\* agent_list: no other session is registered during a setup.
InWait == {"wait", "spawnCtl"}
WaiterIsNewest ==
    \A s \in Sessions : creator[s] \in InWait => /\ agentList # <<>>
                                                 /\ Last(agentList) = s

\* agent_list is the order of registration, each session that is alive once.
ListSound == ListedAlive /\ ListedOnce /\ WaiterIsNewest

\* No transfer connection belongs to two sessions.
TransferUnshared ==
    \A s, t \in Sessions : s # t /\ tsd[s] # NoConn => tsd[s] # tsd[t]

\* The descriptor a session holds is open until its destructor closes it.
HeldSocketOpen ==
    \A s \in Sessions :
        /\ dtor[s] \in {"none", "join", "close"}
        /\ tsd[s] # NoConn
        => conn[tsd[s]] = "open"

\* A session and its transfer connection belong to each other.
ConnectionsOwned == TransferUnshared /\ HeldSocketOpen

\* A session is destroyed by its own control listener, or by its creator when
\* it has none: the branch of ~Agent that calls itself useless is not taken.
DestroyedByItself ==
    \A s \in Sessions : creator[s] = "destroy" => ctl[s] = "none"

\* A session leaves agent_list only through its own destructor: erasing by
\* position takes out no other entry.
OnlyOwnEntryErased ==
    [][\A s \in Sessions : s \in Listed /\ s \notin Listed' => dtor[s] = "erase"]_vars

\* A control listener runs only while its session is allocated and nobody
\* else is destroying it.
ListenerHasAgent ==
    \A s \in Sessions : ctl[s] \in {"select", "treat"} => /\ mem[s] = "live"
                                                         /\ dtor[s] = "none"

\* One thread destroys a session, and its control listener does nothing else
\* then.
DestructionOwn == DestroyedByItself /\ ListenerHasAgent

\* An agent whose control connection ended leaves agent_list.
DeadAgentUnlisted ==
    \A s \in Sessions : (s \in Listed /\ s \notin ctlUp) ~> s \notin Listed

\* A creator failed, and left clreq_mutex locked.
Wedged == /\ clreqHolder # NoSession
          /\ dtor[clreqHolder] # "none" /\ ctl[clreqHolder] = "none"

\* A session that was accepted is set up, however many are set up before it,
\* unless the set-up of one of them fails, or its peer keeps the connection and
\* sends no login: either stops all later ones, as it keeps clreq_mutex.
SetupCompletes ==
    \A s \in Sessions : creator[s] = "lock" ~>
        creator[s] = "end" \/ Wedged \/ \E t \in Sessions : []Silent(t)
=============================================================================
