---------------------------- MODULE ServerProofs ----------------------------
(***************************************************************************)
(* The server process implements its two components, and what they promise *)
(* each other: no request passes through a session that is being set up,   *)
(* no answer through one that is being destroyed.                          *)
(***************************************************************************)
EXTENDS Server, ListLemmas, TLAPS

ASP == INSTANCE AgentSessionProofs
RRP == INSTANCE RequestRoutingProofs

-----------------------------------------------------------------------------
(* AS and ASP instantiate the same module, and so do RR and RRP: each pair  *)
(* of specifications expands to one formula.                               *)

LEMMA SameSessions ==
    (AS!Init <=> ASP!Init) /\ ([AS!Next]_AS!vars <=> [ASP!Next]_ASP!vars)
<1>1. AS!Init <=> ASP!Init
  BY DEF AS!Init, ASP!Init
<1>2. [AS!Next]_AS!vars <=> [ASP!Next]_ASP!vars
  BY DEF AS!Next, AS!vars, AS!sessVars, AS!connVars, AS!Listed, AS!Range,
         AS!RemoveAt, AS!AcceptControl, AS!CreatorStep, AS!CreatorGoes,
         AS!CreatorFails, AS!CreatorLock, AS!LoginOk, AS!LoginFails,
         AS!PushAgent, AS!WaitOk, AS!WaitTimeout, AS!SpawnControl,
         AS!SpawnTransfer, AS!CreatorUnlock, AS!ListenerStep,
         AS!ListenerReceive, AS!ListenerCheck, AS!ListenerDeletes,
         AS!ListenerBreak, AS!DtorStep, AS!DtorGoes, AS!DtorJoin, AS!DtorClose,
         AS!DtorErase, AS!DtorFree, AS!TransferStep, AS!TransferCall,
         AS!TransferMessage, AS!TransferBreak, AS!TransferExit,
         AS!DispatcherStep, AS!DispatchTransfer, AS!IsFirstMatch,
         AS!AttachTransfer, AS!RefuseTransfer, AS!SendAck, AS!PeerStep,
         AS!PeerClose, AS!ConnOpen, AS!ConnClose,
         ASP!Next, ASP!vars, ASP!sessVars, ASP!connVars, ASP!Listed, ASP!Range,
         ASP!RemoveAt, ASP!AcceptControl, ASP!CreatorStep, ASP!CreatorGoes,
         ASP!CreatorFails, ASP!CreatorLock, ASP!LoginOk, ASP!LoginFails,
         ASP!PushAgent, ASP!WaitOk, ASP!WaitTimeout, ASP!SpawnControl,
         ASP!SpawnTransfer, ASP!CreatorUnlock, ASP!ListenerStep,
         ASP!ListenerReceive, ASP!ListenerCheck, ASP!ListenerDeletes,
         ASP!ListenerBreak, ASP!DtorStep, ASP!DtorGoes, ASP!DtorJoin,
         ASP!DtorClose, ASP!DtorErase, ASP!DtorFree, ASP!TransferStep,
         ASP!TransferCall, ASP!TransferMessage, ASP!TransferBreak,
         ASP!TransferExit, ASP!DispatcherStep, ASP!DispatchTransfer,
         ASP!IsFirstMatch, ASP!AttachTransfer, ASP!RefuseTransfer, ASP!SendAck,
         ASP!PeerStep, ASP!PeerClose, ASP!ConnOpen, ASP!ConnClose
<1> QED BY <1>1, <1>2

LEMMA SameRequests ==
    (RR!Init <=> RRP!Init) /\ ([RR!Next]_RR!vars <=> [RRP!Next]_RRP!vars)
<1>1. RR!Init <=> RRP!Init
  BY DEF RR!Init, RR!Nothing, RR!Idle, RRP!Init, RRP!Nothing, RRP!Idle
<1>2. [RR!Next]_RR!vars <=> [RRP!Next]_RRP!vars
  BY DEF RR!Next, RR!vars, RR!reqVars, RR!handVars, RR!Range, RR!RemoveAt,
         RR!Alive, RR!Goes, RR!Nothing, RR!Offline, RR!Idle, RR!Spawn,
         RR!LookupBegin, RR!Matching, RR!LastMatch, RR!Found, RR!LookupEnd,
         RR!Register, RR!SendRequest, RR!Poll, RR!Unregister, RR!Reply,
         RR!ReceiveAck, RR!WithTid, RR!Searched, RR!SearchEnd, RR!WriteTo,
         RR!CopyHalf, RR!CopyRest, RR!EnvList, RR!EnvLock, RR!EnvStep,
         RR!ThreadStep,
         RRP!Next, RRP!vars, RRP!reqVars, RRP!handVars, RRP!Range, RRP!RemoveAt,
         RRP!Alive, RRP!Goes, RRP!Nothing, RRP!Offline, RRP!Idle, RRP!Spawn,
         RRP!LookupBegin, RRP!Matching, RRP!LastMatch, RRP!Found,
         RRP!LookupEnd, RRP!Register, RRP!SendRequest, RRP!Poll,
         RRP!Unregister, RRP!Reply, RRP!ReceiveAck, RRP!WithTid, RRP!Searched,
         RRP!SearchEnd, RRP!WriteTo, RRP!CopyHalf, RRP!CopyRest, RRP!EnvList,
         RRP!EnvLock, RRP!EnvStep, RRP!ThreadStep
<1> QED BY <1>1, <1>2

-----------------------------------------------------------------------------
(* The server implements AgentSession: the threads that treat requests     *)
(* leave all of its variables alone.                                       *)

LEMMA RequestsKeepSessions ==
    /\ \A r \in Requests : TreatStep(r) \/ Spawn(r) => UNCHANGED AS!vars
    /\ \A s \in Sessions : ListenerCopy(s) => UNCHANGED AS!vars
  BY DEF TreatStep, SendRequest, OtherThreadStep, Spawn, ListenerCopy, agentVars,
     RR!LookupBegin, RR!LookupEnd, RR!Register, RR!SendRequest, RR!Poll,
     RR!Unregister, RR!Reply, RR!Spawn, RR!handVars, RR!SearchEnd, RR!CopyHalf, RR!CopyRest,
     AS!vars, AS!sessVars, AS!connVars

LEMMA SessionsRefined == [Next]_vars => [AS!Next]_AS!vars
<1>1. ASSUME SessionStep PROVE AS!Next
  BY <1>1 DEF SessionStep, AS!Next
<1>2. ASSUME NEW s \in Sessions, ListenerStep(s) PROVE [AS!Next]_AS!vars
  BY <1>2, RequestsKeepSessions DEF ListenerStep, ListenerReceive, ListenerCheck,
     ListenerBreak, AS!Next, AS!ListenerStep
<1>3. ASSUME UNCHANGED vars PROVE UNCHANGED AS!vars
  BY <1>3 DEF vars, agentVars, AS!vars, AS!sessVars, AS!connVars
<1> QED BY <1>1, <1>2, <1>3, RequestsKeepSessions DEF Next

\* The agents' side of the server behaves as AgentSession by itself.
THEOREM ImplementsSessions == Spec => AS!Spec
<1>1. Init => AS!Init
  BY DEF Init
<1> QED BY <1>1, SessionsRefined, PTL DEF Spec, AS!Spec

LEMMA SessionInvariance == Spec => []ASP!IInv
<1>0. ASP!SessionAssumption
  BY ServerAssumption DEF ASP!SessionAssumption
<1>1. Init => ASP!IInv
  BY <1>0, ASP!InvInit, SameSessions DEF Init
<1>2. ASP!IInv /\ [Next]_vars => ASP!IInv'
  BY <1>0, ASP!InvStep, SameSessions, SessionsRefined
<1> QED BY <1>1, <1>2, PTL DEF Spec

-----------------------------------------------------------------------------
(* The server implements RequestRouting: the agents' side appends to       *)
(* agent_list only what is not in it, and takes and releases clreq_mutex   *)
(* in turn, because of its own invariant.                                  *)

LEMMA SessionsAreEnv ==
    ASSUME ASP!IInv, SessionStep
    PROVE  \/ RR!EnvStep
           \/ UNCHANGED <<agentList, clreqHolder, requestVars>>
<1>1. UNCHANGED requestVars
  BY DEF SessionStep
<1>2. SUFFICES \/ RR!EnvList \/ RR!EnvLock
               \/ UNCHANGED <<agentList, clreqHolder>>
  BY <1>1 DEF requestVars, RR!EnvStep, RR!reqVars, RR!handVars
<1>3. ASSUME NEW s \in Sessions, AS!CreatorLock(s) PROVE RR!EnvLock
  BY <1>3 DEF AS!CreatorLock, RR!EnvLock
<1>4. ASSUME NEW s \in Sessions, AS!CreatorUnlock(s) PROVE RR!EnvLock
  BY <1>4, ServerAssumption DEF AS!CreatorUnlock, AS!CreatorGoes, RR!EnvLock,
     ASP!IInv, ASP!LockHeld, ASP!Setup
<1>5. ASSUME NEW s \in Sessions, AS!PushAgent(s) PROVE RR!EnvList
  BY <1>5 DEF AS!PushAgent, AS!CreatorGoes, RR!EnvList, RR!Range, ASP!IInv,
     ASP!ListOrder, ASP!MayBeListed, ASP!Listed, ASP!Range
<1>6. ASSUME NEW s \in Sessions, AS!DtorErase(s)
      PROVE  RR!EnvList \/ UNCHANGED <<agentList, clreqHolder>>
  BY <1>6 DEF AS!DtorErase, AS!RemoveAt, RR!EnvList, RR!RemoveAt
<1> QED
  BY <1>3, <1>4, <1>5, <1>6
     DEF SessionStep, AS!AcceptControl, AS!CreatorStep, AS!LoginOk, AS!LoginFails,
         AS!CreatorFails, AS!WaitOk, AS!WaitTimeout, AS!SpawnControl,
         AS!SpawnTransfer, AS!DtorStep, AS!DtorJoin, AS!DtorClose, AS!DtorFree,
         AS!TransferStep, AS!TransferCall, AS!TransferMessage, AS!TransferBreak,
         AS!TransferExit, AS!DispatcherStep, AS!DispatchTransfer,
         AS!AttachTransfer, AS!RefuseTransfer, AS!SendAck, AS!PeerStep,
         AS!PeerClose, AS!ConnOpen, AS!ConnClose

LEMMA RequestsRefined == ASP!IInv /\ [Next]_vars => [RR!Next]_RR!vars
<1> SUFFICES ASSUME ASP!IInv, [Next]_vars PROVE [RR!Next]_RR!vars
  OBVIOUS
<1>1. CASE SessionStep
  BY <1>1, SessionsAreEnv DEF RR!Next, RR!vars, RR!reqVars, RR!handVars, requestVars
<1>2. ASSUME NEW s \in Sessions, ListenerReceive(s) PROVE [RR!Next]_RR!vars
  BY <1>2 DEF ListenerReceive, AS!ListenerReceive, RR!Next, RR!vars, RR!reqVars, RR!handVars,
     requestVars
<1>3. ASSUME NEW s \in Sessions, ListenerCopy(s) PROVE RR!Next
  BY <1>3 DEF ListenerCopy, RR!Next
<1>4. ASSUME NEW s \in Sessions, ListenerCheck(s) \/ ListenerBreak(s)
      PROVE  UNCHANGED RR!vars
  BY <1>4 DEF ListenerCheck, ListenerBreak, AS!ListenerCheck, AS!ListenerBreak,
     RR!vars, RR!reqVars, RR!handVars, requestVars
<1>5. ASSUME NEW r \in Requests, TreatStep(r) \/ Spawn(r) PROVE RR!Next
  BY <1>5 DEF TreatStep, SendRequest, OtherThreadStep, Spawn, RR!Next,
     RR!ThreadStep
<1>6. CASE UNCHANGED vars
  BY <1>6 DEF vars, requestVars, RR!vars, RR!reqVars, RR!handVars
<1> QED BY <1>1, <1>2, <1>3, <1>4, <1>5, <1>6 DEF Next, ListenerStep

\* The server implements both of its components.
THEOREM ComponentsImplemented == Spec => ImplementsComponents
<1>1. Init => RR!Init
  BY DEF Init
<1>2. Spec => RR!Spec
  BY <1>1, RequestsRefined, SessionInvariance, PTL DEF Spec, RR!Spec
<1> QED BY <1>2, ImplementsSessions DEF ImplementsComponents

LEMMA RequestInvariance == Spec => []RRP!IInv
<1>0. RRP!RoutingAssumption
  BY ServerAssumption DEF RRP!RoutingAssumption
<1>1. Init => RRP!IInv
  BY <1>0, RRP!InvInit, SameRequests DEF Init
<1>2. ASP!IInv /\ RRP!IInv /\ [Next]_vars => RRP!IInv'
  <2>1. RRP!IInv /\ [RRP!Next]_RRP!vars => RRP!IInv'
    BY <1>0, RRP!TypeStep, RRP!ThreadInvStep, RRP!RegistryStep DEF RRP!IInv
  <2> QED BY <2>1, SameRequests, RequestsRefined
<1> QED BY <1>1, <1>2, SessionInvariance, PTL DEF Spec

-----------------------------------------------------------------------------
(* Sessions are used between set-up and destruction.  SetUp: clreq_mutex   *)
(* stays with the creator that failed.  SeenPushed: whatever a traversal   *)
(* read, however stale, has been registered.  TargetInv: hence the session *)
(* a thread chose is set up once the thread gets the mutex.                *)

Pushed(s) == creator[s] \notin {"none", "lock", "login", "push"}

IsSetUp(s) == s \in Sessions /\ creator[s] = "end" /\ ctl[s] # "none"

SetUp ==
    \A s \in Sessions :
        /\ creator[s] \in {"spawnTr", "unlock"} => ctl[s] # "none"
        /\ creator[s] = "end" /\ ctl[s] = "none" => clreqHolder = s

SeenPushed ==
    \A r \in Requests : \A s \in Range(seen[r]) : s \in Sessions /\ Pushed(s)

TargetInv ==
    \A r \in Requests :
        /\ rpc[r] = "register" => Pushed(target[r])
        /\ rpc[r] \in {"send", "poll"} => IsSetUp(target[r])

CopyInv == \A s \in Sessions : hand[s].step # "idle" => ctl[s] = "treat"

UseInv == SetUp /\ SeenPushed /\ TargetInv /\ CopyInv

LEMMA UseInit == Init => UseInv
  BY DEF Init, AS!Init, RR!Init, RR!Idle, UseInv, SetUp, SeenPushed, TargetInv,
     CopyInv, Range

\* What a step of a creator, a listener or a destructor does to the program
\* counters that UseInv reads.
LEMMA SessionPcs ==
    ASSUME ASP!IInv, UseInv, [AS!Next]_AS!vars
    PROVE  /\ SetUp'
           /\ \A s \in Sessions : /\ Pushed(s) => Pushed(s)'
                                  /\ IsSetUp(s) => IsSetUp(s)'
<1> DEFINE G == /\ SetUp'
                /\ \A s \in Sessions : /\ Pushed(s) => Pushed(s)'
                                       /\ IsSetUp(s) => IsSetUp(s)'
<1> SUFFICES G
  OBVIOUS
<1> USE ServerAssumption DEF ASP!IInv, ASP!TypeOK, ASP!LifeInv, ASP!Life,
        ASP!LockHeld, ASP!Setup, ASP!BeforeListeners, ASP!Dying, UseInv, SetUp,
        Pushed, IsSetUp
<1>1. ASSUME NEW t \in Sessions, AS!AcceptControl(t) PROVE G
  BY <1>1 DEF AS!AcceptControl
<1>2. ASSUME NEW t \in Sessions, AS!CreatorLock(t) PROVE G
  BY <1>2 DEF AS!CreatorLock, AS!CreatorGoes
<1>3. ASSUME NEW t \in Sessions, AS!LoginOk(t) PROVE G
  BY <1>3 DEF AS!LoginOk, AS!CreatorGoes
<1>4. ASSUME NEW t \in Sessions, AS!LoginFails(t) PROVE G
  BY <1>4 DEF AS!LoginFails, AS!CreatorFails, AS!CreatorGoes
<1>5. ASSUME NEW t \in Sessions, AS!PushAgent(t) PROVE G
  BY <1>5 DEF AS!PushAgent, AS!CreatorGoes
<1>6. ASSUME NEW t \in Sessions, AS!WaitOk(t) PROVE G
  BY <1>6 DEF AS!WaitOk, AS!CreatorGoes
<1>7. ASSUME NEW t \in Sessions, AS!WaitTimeout(t) PROVE G
  BY <1>7 DEF AS!WaitTimeout, AS!CreatorFails, AS!CreatorGoes
<1>8. ASSUME NEW t \in Sessions, AS!SpawnControl(t) PROVE G
  BY <1>8 DEF AS!SpawnControl, AS!CreatorGoes
<1>9. ASSUME NEW t \in Sessions, AS!SpawnTransfer(t) PROVE G
  BY <1>9 DEF AS!SpawnTransfer, AS!CreatorGoes
<1>10. ASSUME NEW t \in Sessions, AS!CreatorUnlock(t) PROVE G
  BY <1>10 DEF AS!CreatorUnlock, AS!CreatorGoes
<1>11. ASSUME NEW t \in Sessions, AS!ListenerReceive(t) PROVE G
  BY <1>11 DEF AS!ListenerReceive
<1>12. ASSUME NEW t \in Sessions, AS!ListenerCheck(t) PROVE G
  BY <1>12 DEF AS!ListenerCheck, AS!ListenerDeletes
<1>13. ASSUME NEW t \in Sessions, AS!ListenerBreak(t) PROVE G
  BY <1>13 DEF AS!ListenerBreak, AS!ListenerDeletes
<1>14. ASSUME NEW t \in Sessions, AS!DtorFree(t) PROVE G
  BY <1>14 DEF AS!DtorFree, AS!DtorGoes
<1>15. CASE UNCHANGED <<clreqHolder, creator, ctl>>
  BY <1>15
<1> QED
  BY <1>1, <1>2, <1>3, <1>4, <1>5, <1>6, <1>7, <1>8, <1>9, <1>10, <1>11, <1>12,
     <1>13, <1>14, <1>15
     DEF AS!Next, AS!vars, AS!sessVars, AS!CreatorStep, AS!ListenerStep,
         AS!DtorStep, AS!DtorJoin, AS!DtorClose, AS!DtorErase, AS!TransferStep,
         AS!TransferCall, AS!TransferMessage, AS!TransferBreak, AS!TransferExit,
         AS!DispatcherStep, AS!DispatchTransfer, AS!AttachTransfer,
         AS!RefuseTransfer, AS!SendAck, AS!PeerStep, AS!PeerClose, AS!ConnOpen,
         AS!ConnClose

\* Nobody but its own listener takes a session out of treat().
LEMMA TreatStays ==
    ASSUME ASP!IInv, SessionStep, NEW s \in Sessions, ctl[s] = "treat"
    PROVE  ctl'[s] = "treat"
<1> USE DEF ASP!IInv, ASP!TypeOK, ASP!LifeInv, ASP!Life, ASP!BeforeListeners,
        ASP!Dying
<1>1. ASSUME NEW t \in Sessions, AS!SpawnControl(t) PROVE ctl'[s] = "treat"
  BY <1>1 DEF AS!SpawnControl, AS!CreatorGoes
<1>2. ASSUME NEW t \in Sessions, AS!DtorFree(t) PROVE ctl'[s] = "treat"
  BY <1>2 DEF AS!DtorFree, AS!DtorGoes
<1>3. CASE UNCHANGED ctl
  BY <1>3
<1> QED
  BY <1>1, <1>2, <1>3
     DEF SessionStep, AS!AcceptControl, AS!CreatorStep, AS!CreatorLock,
         AS!LoginOk, AS!LoginFails, AS!CreatorFails, AS!PushAgent, AS!WaitOk,
         AS!WaitTimeout, AS!SpawnTransfer, AS!CreatorUnlock, AS!DtorStep,
         AS!DtorJoin, AS!DtorClose, AS!DtorErase, AS!TransferStep,
         AS!TransferCall, AS!TransferMessage, AS!TransferBreak, AS!TransferExit,
         AS!DispatcherStep, AS!DispatchTransfer, AS!AttachTransfer,
         AS!RefuseTransfer, AS!SendAck, AS!PeerStep, AS!PeerClose, AS!ConnOpen,
         AS!ConnClose, AS!sessVars

LEMMA CopyStep == ASP!IInv /\ RRP!IInv /\ CopyInv /\ [Next]_vars => CopyInv'
<1> SUFFICES ASSUME ASP!IInv, RRP!IInv, CopyInv, [Next]_vars PROVE CopyInv'
  OBVIOUS
<1>0. ctl \in [Sessions -> AS!CtlPC] /\ hand \in [Sessions -> RRP!Hand]
  BY DEF ASP!IInv, ASP!TypeOK, ASP!CtlPC, AS!CtlPC, RRP!IInv, RRP!TypeOK
<1> USE <1>0
<1>1. CASE SessionStep
  BY <1>1, TreatStays DEF SessionStep, requestVars, CopyInv
<1>2. ASSUME NEW t \in Sessions, ListenerReceive(t) PROVE CopyInv'
  BY <1>2 DEF ListenerReceive, AS!ListenerReceive, RR!ReceiveAck, requestVars,
     CopyInv
<1>3. ASSUME NEW t \in Sessions, ListenerCopy(t) PROVE CopyInv'
  BY <1>3 DEF ListenerCopy, RR!SearchEnd, RR!CopyHalf, RR!CopyRest, RR!Idle,
     agentVars, CopyInv
<1>4. ASSUME NEW t \in Sessions, ListenerCheck(t) PROVE CopyInv'
  BY <1>4 DEF ListenerCheck, AS!ListenerCheck, AS!ListenerDeletes, RR!Idle,
     requestVars, CopyInv
<1>5. ASSUME NEW t \in Sessions, ListenerBreak(t) PROVE CopyInv'
  BY <1>5 DEF ListenerBreak, AS!ListenerBreak, AS!ListenerDeletes, requestVars,
     CopyInv
<1>6. CASE UNCHANGED <<hand, ctl>>
  BY <1>6 DEF CopyInv
<1> QED
  BY <1>1, <1>2, <1>3, <1>4, <1>5, <1>6
     DEF Next, ListenerStep, TreatStep, SendRequest, OtherThreadStep, Spawn,
         RR!LookupBegin, RR!LookupEnd, RR!Register, RR!SendRequest, RR!Poll,
         RR!Unregister, RR!Reply, RR!Spawn, RR!handVars, vars, requestVars,
         agentVars

\* The thread's traversal, however it read agent_list, chooses a session that
\* has been registered.
LEMMA FoundArePushed ==
    ASSUME ASP!IInv, SeenPushed, NEW r \in Requests, NEW s \in RR!Found(r),
           s # NoSession
    PROVE  s \in Sessions /\ Pushed(s)
<1>1. \A t \in Range(agentList) : t \in Sessions /\ Pushed(t)
  BY DEF ASP!IInv, ASP!TypeOK, ASP!ListOrder, ASP!MayBeListed, ASP!Listed,
     ASP!Range, Range, Pushed
<1>2. s \in Range(seen[r]) \/ s \in Range(agentList)
  BY DEF RR!Found, RR!Matching, RR!LastMatch, RR!Range, Range
<1> QED BY <1>1, <1>2 DEF SeenPushed

LEMMA ThreadStepUse ==
    ASSUME ASP!IInv, RRP!IInv, UseInv, NEW r \in Requests,
           TreatStep(r) \/ Spawn(r)
    PROVE  SeenPushed' /\ TargetInv'
<1>0. /\ rpc \in [Requests -> RRP!PC]
      /\ seen \in [Requests -> Seq(Sessions)]
      /\ target \in [Requests -> Sessions \cup {NoSession}]
  BY DEF RRP!IInv, RRP!TypeOK
<1>1. /\ UNCHANGED <<agentList, creator, ctl>>
      /\ \A s : Pushed(s)' = Pushed(s) /\ IsSetUp(s)' = IsSetUp(s)
  BY RequestsKeepSessions DEF AS!vars, AS!sessVars, Pushed, IsSetUp
<1>2. CASE RR!LookupBegin(r)
  <2>1. \A s \in Range(agentList) : s \in Sessions /\ Pushed(s)
    BY DEF ASP!IInv, ASP!TypeOK, ASP!ListOrder, ASP!MayBeListed, ASP!Listed,
       ASP!Range, Range, Pushed
  <2>2. SeenPushed'
    BY <1>0, <1>1, <1>2, <2>1 DEF RR!LookupBegin, UseInv, SeenPushed
  <2> QED BY <1>0, <1>1, <1>2, <2>2 DEF RR!LookupBegin, RR!Goes, UseInv, TargetInv
<1>3. CASE RR!LookupEnd(r)
  <2>1. PICK s \in RR!Found(r) :
           /\ target' = [target EXCEPT ![r] = s]
           /\ rpc' = [rpc EXCEPT ![r] = IF s = NoSession THEN "reply"
                                        ELSE "register"]
    BY <1>3 DEF RR!LookupEnd, RR!Goes
  <2>2. s # NoSession => s \in Sessions /\ Pushed(s)
    BY FoundArePushed DEF UseInv
  <2>3. TargetInv'
    BY <1>0, <1>1, <2>1, <2>2 DEF UseInv, TargetInv
  <2>4. SeenPushed'
    BY <1>0, <1>1, <1>3 DEF RR!LookupEnd, UseInv, SeenPushed, Range
  <2> QED BY <2>3, <2>4
<1>4. CASE RR!Register(r)
  <2>1. /\ clreqHolder = NoSession /\ rpc[r] = "register"
        /\ rpc' = [rpc EXCEPT ![r] = "send"] /\ UNCHANGED <<seen, target>>
    BY <1>4 DEF RR!Register, RR!Goes
  <2>2. target[r] \in Sessions /\ Pushed(target[r])
    BY <2>1 DEF RRP!IInv, RRP!PCInv, UseInv, TargetInv
  <2>3. IsSetUp(target[r])
    BY <2>1, <2>2, ServerAssumption
       DEF UseInv, SetUp, IsSetUp, Pushed, ASP!IInv, ASP!LockHeld, ASP!Setup,
           ASP!TypeOK, ASP!CreatorPC
  <2> QED BY <1>0, <1>1, <2>1, <2>3 DEF UseInv, SeenPushed, TargetInv
<1>5. CASE SendRequest(r)
  BY <1>0, <1>1, <1>5 DEF SendRequest, RR!SendRequest, RR!Goes, UseInv, SeenPushed,
     TargetInv
<1>6. CASE RR!Poll(r) \/ RR!Unregister(r) \/ RR!Reply(r) \/ Spawn(r)
  BY <1>0, <1>1, <1>6 DEF RR!Poll, RR!Unregister, RR!Reply, Spawn, RR!Spawn,
     RR!Goes, UseInv, SeenPushed, TargetInv
<1> QED
  BY <1>2, <1>3, <1>4, <1>5, <1>6 DEF TreatStep, OtherThreadStep

LEMMA UseStep == ASP!IInv /\ RRP!IInv /\ UseInv /\ [Next]_vars => UseInv'
<1> SUFFICES ASSUME ASP!IInv, RRP!IInv, UseInv, [Next]_vars PROVE UseInv'
  OBVIOUS
<1>1. /\ SetUp' /\ CopyInv'
      /\ \A s \in Sessions : /\ Pushed(s) => Pushed(s)'
                             /\ IsSetUp(s) => IsSetUp(s)'
  BY SessionsRefined, SessionPcs, CopyStep DEF UseInv
<1>2. ASSUME UNCHANGED <<rpc, seen, target>> PROVE SeenPushed' /\ TargetInv'
  <2>1. \A r \in Requests : rpc[r] = "register" => target[r] \in Sessions
    BY DEF RRP!IInv, RRP!PCInv
  <2> QED BY <1>1, <1>2, <2>1 DEF UseInv, SeenPushed, TargetInv, IsSetUp
<1>3. ASSUME NEW r \in Requests, TreatStep(r) \/ Spawn(r)
      PROVE  SeenPushed' /\ TargetInv'
  BY <1>3, ThreadStepUse
<1>4. SeenPushed' /\ TargetInv'
  BY <1>2, <1>3 DEF Next, SessionStep, ListenerStep, ListenerReceive,
     ListenerCopy, ListenerCheck, ListenerBreak, RR!ReceiveAck, RR!SearchEnd, RR!CopyHalf,
     RR!CopyRest, RR!reqVars, RR!handVars, requestVars, vars
<1> QED BY <1>1, <1>4 DEF UseInv

\* A request is sent and awaited only through a session whose set-up
\* succeeded, and an answer is copied only while its session is not being
\* destroyed: in spite of the unlocked traversal of agent_list.
THEOREM SessionsAreUsedInTime == Spec => []SessionsUsedInTime
<1>1. ASP!IInv /\ RRP!IInv /\ UseInv => SessionsUsedInTime
  <2>1. UseInv => RequestsFollowSetup
    BY DEF UseInv, TargetInv, IsSetUp, RequestsFollowSetup
  <2>2. ASP!IInv /\ UseInv => CopyInsideTreat
    BY DEF ASP!IInv, ASP!TypeOK, ASP!LifeInv, ASP!Life, ASP!BeforeListeners, UseInv,
       CopyInv, CopyInsideTreat
  <2> QED BY <2>1, <2>2 DEF SessionsUsedInTime
<1> QED
  BY <1>1, UseInit, UseStep, SessionInvariance, RequestInvariance, PTL DEF Spec
=============================================================================
