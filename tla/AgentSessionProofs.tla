------------------------- MODULE AgentSessionProofs -------------------------
(***************************************************************************)
(* Safety of AgentSession for every set of sessions, connections and       *)
(* hosts, and whether or not setups may fail.                              *)
(***************************************************************************)
EXTENDS AgentSession, ListLemmas, TLAPS

-----------------------------------------------------------------------------
(* Type correctness.                                                       *)

LEMMA TypeInit == Init => TypeOK
  BY SessionAssumption DEF Init, TypeOK, CreatorPC, CtlPC, TrlPC, DtorPC

LEMMA TypeStep == TypeOK /\ [Next]_vars => TypeOK'
<1> SUFFICES ASSUME TypeOK, [Next]_vars PROVE TypeOK'
  OBVIOUS
<1>1. ASSUME NEW s \in Sessions, AcceptControl(s) PROVE TypeOK'
  BY <1>1 DEF AcceptControl, sessVars, connVars, TypeOK, CreatorPC, CtlPC,
     TrlPC, DtorPC
<1>2. ASSUME NEW s \in Sessions, CreatorLock(s) PROVE TypeOK'
  BY <1>2 DEF CreatorLock, CreatorGoes, sessVars, connVars, TypeOK,
     CreatorPC, CtlPC, TrlPC, DtorPC
<1>3. ASSUME NEW s \in Sessions, LoginOk(s) PROVE TypeOK'
  BY <1>3 DEF LoginOk, CreatorGoes, sessVars, connVars, TypeOK, CreatorPC,
     CtlPC, TrlPC, DtorPC
<1>4. ASSUME NEW s \in Sessions, LoginFails(s) PROVE TypeOK'
  BY <1>4 DEF LoginFails, CreatorFails, CreatorGoes, sessVars, connVars,
     TypeOK, CreatorPC, CtlPC, TrlPC, DtorPC
<1>5. ASSUME NEW s \in Sessions, PushAgent(s) PROVE TypeOK'
  BY <1>5 DEF PushAgent, CreatorGoes, sessVars, connVars, TypeOK, CreatorPC,
     CtlPC, TrlPC, DtorPC
<1>6. ASSUME NEW s \in Sessions, WaitOk(s) PROVE TypeOK'
  BY <1>6 DEF WaitOk, CreatorGoes, sessVars, connVars, TypeOK, CreatorPC,
     CtlPC, TrlPC, DtorPC
<1>7. ASSUME NEW s \in Sessions, WaitTimeout(s) PROVE TypeOK'
  BY <1>7 DEF WaitTimeout, CreatorFails, CreatorGoes, sessVars, connVars,
     TypeOK, CreatorPC, CtlPC, TrlPC, DtorPC
<1>8. ASSUME NEW s \in Sessions, SpawnControl(s) PROVE TypeOK'
  BY <1>8 DEF SpawnControl, CreatorGoes, sessVars, connVars, TypeOK,
     CreatorPC, CtlPC, TrlPC, DtorPC
<1>9. ASSUME NEW s \in Sessions, SpawnTransfer(s) PROVE TypeOK'
  BY <1>9 DEF SpawnTransfer, CreatorGoes, sessVars, connVars, TypeOK,
     CreatorPC, CtlPC, TrlPC, DtorPC
<1>10. ASSUME NEW s \in Sessions, CreatorUnlock(s) PROVE TypeOK'
  BY <1>10 DEF CreatorUnlock, CreatorGoes, sessVars, connVars, TypeOK,
     CreatorPC, CtlPC, TrlPC, DtorPC
<1>11. ASSUME NEW s \in Sessions, ListenerReceive(s) PROVE TypeOK'
  BY <1>11 DEF ListenerReceive, sessVars, connVars, TypeOK, CreatorPC, CtlPC,
     TrlPC, DtorPC
<1>12. ASSUME NEW s \in Sessions, ListenerCheck(s) PROVE TypeOK'
  BY SMTT(30), <1>12 DEF ListenerCheck, ListenerDeletes, sessVars, connVars, TypeOK,
     CreatorPC, CtlPC, TrlPC, DtorPC
<1>13. ASSUME NEW s \in Sessions, ListenerBreak(s) PROVE TypeOK'
  BY <1>13 DEF ListenerBreak, ListenerDeletes, sessVars, connVars, TypeOK,
     CreatorPC, CtlPC, TrlPC, DtorPC
<1>14. ASSUME NEW s \in Sessions, DtorJoin(s) PROVE TypeOK'
  BY <1>14 DEF DtorJoin, DtorGoes, sessVars, connVars, TypeOK, CreatorPC,
     CtlPC, TrlPC, DtorPC
<1>15. ASSUME NEW s \in Sessions, DtorClose(s) PROVE TypeOK'
  BY <1>15 DEF DtorClose, DtorGoes, sessVars, connVars, TypeOK, CreatorPC,
     CtlPC, TrlPC, DtorPC
<1>16. ASSUME NEW s \in Sessions, DtorErase(s) PROVE TypeOK'
  <2>1. agentList' \in Seq(Sessions)
    BY <1>16, RemoveAtIsShift DEF DtorErase, TypeOK
  <2> QED
    BY <1>16, <2>1 DEF DtorErase, DtorGoes, sessVars, connVars, TypeOK,
       CreatorPC, CtlPC, TrlPC, DtorPC
<1>17. ASSUME NEW s \in Sessions, DtorFree(s) PROVE TypeOK'
  BY <1>17 DEF DtorFree, DtorGoes, sessVars, connVars, TypeOK, CreatorPC,
     CtlPC, TrlPC, DtorPC
<1>18. ASSUME NEW s \in Sessions, TransferCall(s) PROVE TypeOK'
  BY <1>18 DEF TransferCall, sessVars, connVars, TypeOK, CreatorPC, CtlPC,
     TrlPC, DtorPC
<1>19. ASSUME NEW s \in Sessions, TransferMessage(s) PROVE TypeOK'
  BY <1>19 DEF TransferMessage, sessVars, connVars, TypeOK, CreatorPC, CtlPC,
     TrlPC, DtorPC
<1>20. ASSUME NEW s \in Sessions, TransferBreak(s) PROVE TypeOK'
  BY <1>20 DEF TransferBreak, sessVars, connVars, TypeOK, CreatorPC, CtlPC,
     TrlPC, DtorPC
<1>21. ASSUME NEW s \in Sessions, TransferExit(s) PROVE TypeOK'
  BY <1>21 DEF TransferExit, sessVars, connVars, TypeOK, CreatorPC, CtlPC,
     TrlPC, DtorPC
<1>22. ASSUME NEW c \in Conns, AttachTransfer(c) PROVE TypeOK'
  BY <1>22 DEF AttachTransfer, sessVars, connVars, TypeOK, CreatorPC, CtlPC,
     TrlPC, DtorPC
<1>23. ASSUME NEW c \in Conns, RefuseTransfer(c) PROVE TypeOK'
  BY <1>23 DEF RefuseTransfer, sessVars, connVars, TypeOK, CreatorPC, CtlPC,
     TrlPC, DtorPC
<1>24. ASSUME SendAck PROVE TypeOK'
  BY <1>24 DEF SendAck, sessVars, connVars, TypeOK, CreatorPC, CtlPC, TrlPC,
     DtorPC
<1>25. ASSUME NEW s \in Sessions, PeerClose(s) PROVE TypeOK'
  BY <1>25 DEF PeerClose, sessVars, connVars, TypeOK, CreatorPC, CtlPC,
     TrlPC, DtorPC
<1>26. ASSUME NEW c \in Conns, ConnOpen(c) PROVE TypeOK'
  BY <1>26 DEF ConnOpen, sessVars, connVars, TypeOK, CreatorPC, CtlPC, TrlPC,
     DtorPC
<1>27. ASSUME NEW c \in Conns, ConnClose(c) PROVE TypeOK'
  BY <1>27 DEF ConnClose, sessVars, connVars, TypeOK, CreatorPC, CtlPC,
     TrlPC, DtorPC
<1>28. CASE UNCHANGED vars
  BY <1>28 DEF vars, sessVars, connVars, TypeOK, CreatorPC, CtlPC, TrlPC,
     DtorPC
<1> QED
  BY <1>1, <1>2, <1>3, <1>4, <1>5, <1>6, <1>7, <1>8, <1>9, <1>10, <1>11,
     <1>12, <1>13, <1>14, <1>15, <1>16, <1>17, <1>18, <1>19, <1>20, <1>21,
     <1>22, <1>23, <1>24, <1>25, <1>26, <1>27, <1>28
     DEF Next, CreatorStep, ListenerStep, DtorStep, TransferStep,
         DispatcherStep, DispatchTransfer, PeerStep

\* The variables keep their types, for all values of the constants.
THEOREM TypeCorrect == Spec => []TypeOK
<1>1. Init => TypeOK
  BY TypeInit
<1>2. TypeOK /\ [Next]_vars => TypeOK'
  BY TypeStep
<1> QED BY <1>1, <1>2, PTL DEF Spec

-----------------------------------------------------------------------------
(* The inductive invariant.  Life relates the program counters of the      *)
(* threads of one session; LockHeld ties the set-up to clreq_mutex;        *)
(* ListOrder and ConnsHeld are what agent_list and the transfer            *)
(* connections need to be preserved.                                       *)

Dying == {"join", "close", "erase", "free"}
Setup == {"login", "push", "wait", "spawnCtl", "spawnTr", "unlock", "destroy"}
BeforeListeners == {"none", "lock", "login", "push", "wait", "spawnCtl"}

Life(s) ==
    /\ mem[s] = "none" <=> creator[s] = "none"
    /\ mem[s] = "freed" <=> dtor[s] = "done"
    /\ creator[s] \in BeforeListeners => ctl[s] = "none" /\ dtor[s] = "none"
    /\ creator[s] = "destroy" => ctl[s] = "none" /\ dtor[s] \in Dying
    /\ ctl[s] = "destroy" => dtor[s] \in Dying
    /\ ctl[s] \in {"select", "treat"} => dtor[s] = "none"
    /\ dtor[s] \in Dying => creator[s] = "destroy" \/ ctl[s] = "destroy"

LifeInv == \A s \in Sessions : Life(s)

LockHeld == \A s \in Sessions : creator[s] \in Setup => clreqHolder = s

MayBeListed(s) ==
    /\ creator[s] \notin {"none", "lock", "login", "push"}
    /\ dtor[s] \in {"none", "join", "close", "erase"}

ListOrder == /\ ListedOnce
             /\ \A s \in Listed : MayBeListed(s)
             /\ WaiterIsNewest

ConnsHeld == /\ TransferUnshared
             /\ HeldSocketOpen
             /\ \A c \in Conns : conn[c] \in {"none", "backlog"} =>
                                    \A s \in Sessions : tsd[s] # c

IInv == TypeOK /\ LifeInv /\ LockHeld /\ ListOrder /\ ConnsHeld

LEMMA InvInit == Init => IInv
<1> SUFFICES ASSUME Init PROVE IInv
  OBVIOUS
<1>1. TypeOK
  BY TypeInit
<1>2. LifeInv /\ LockHeld
  BY DEF Init, LifeInv, Life, LockHeld, Dying, Setup, BeforeListeners
<1>3. ListOrder
  BY DEF Init, ListOrder, ListedOnce, Listed, WaiterIsNewest, InWait,
     IsInjective, Range
<1>4. ConnsHeld
  BY SessionAssumption DEF Init, ConnsHeld, TransferUnshared, HeldSocketOpen
<1> QED BY <1>1, <1>2, <1>3, <1>4 DEF IInv

LEMMA LifeStep == TypeOK /\ LifeInv /\ [Next]_vars => LifeInv'
<1> SUFFICES ASSUME TypeOK, LifeInv, [Next]_vars PROVE LifeInv'
  OBVIOUS
<1>1. ASSUME NEW t \in Sessions, AcceptControl(t) PROVE LifeInv'
  BY <1>1 DEF AcceptControl, sessVars, connVars, TypeOK, LifeInv, Life,
     Dying, BeforeListeners
<1>2. ASSUME NEW t \in Sessions, CreatorLock(t) PROVE LifeInv'
  BY <1>2 DEF CreatorLock, CreatorGoes, sessVars, connVars, TypeOK, LifeInv,
     Life, Dying, BeforeListeners
<1>3. ASSUME NEW t \in Sessions, LoginOk(t) PROVE LifeInv'
  BY <1>3 DEF LoginOk, CreatorGoes, sessVars, connVars, TypeOK, LifeInv,
     Life, Dying, BeforeListeners
<1>4. ASSUME NEW t \in Sessions, LoginFails(t) PROVE LifeInv'
  BY <1>4 DEF LoginFails, CreatorFails, CreatorGoes, sessVars, connVars,
     TypeOK, LifeInv, Life, Dying, BeforeListeners
<1>5. ASSUME NEW t \in Sessions, PushAgent(t) PROVE LifeInv'
  BY <1>5 DEF PushAgent, CreatorGoes, sessVars, connVars, TypeOK, LifeInv,
     Life, Dying, BeforeListeners
<1>6. ASSUME NEW t \in Sessions, WaitOk(t) PROVE LifeInv'
  BY <1>6 DEF WaitOk, CreatorGoes, sessVars, connVars, TypeOK, LifeInv, Life,
     Dying, BeforeListeners
<1>7. ASSUME NEW t \in Sessions, WaitTimeout(t) PROVE LifeInv'
  BY <1>7 DEF WaitTimeout, CreatorFails, CreatorGoes, sessVars, connVars,
     TypeOK, LifeInv, Life, Dying, BeforeListeners
<1>8. ASSUME NEW t \in Sessions, SpawnControl(t) PROVE LifeInv'
  BY <1>8 DEF SpawnControl, CreatorGoes, sessVars, connVars, TypeOK, LifeInv,
     Life, Dying, BeforeListeners
<1>9. ASSUME NEW t \in Sessions, SpawnTransfer(t) PROVE LifeInv'
  BY <1>9 DEF SpawnTransfer, CreatorGoes, sessVars, connVars, TypeOK,
     LifeInv, Life, Dying, BeforeListeners
<1>10. ASSUME NEW t \in Sessions, CreatorUnlock(t) PROVE LifeInv'
  BY <1>10 DEF CreatorUnlock, CreatorGoes, sessVars, connVars, TypeOK,
     LifeInv, Life, Dying, BeforeListeners
<1>11. ASSUME NEW t \in Sessions, ListenerReceive(t) PROVE LifeInv'
  BY <1>11 DEF ListenerReceive, sessVars, connVars, TypeOK, LifeInv, Life,
     Dying, BeforeListeners
<1>12. ASSUME NEW t \in Sessions, ListenerCheck(t) PROVE LifeInv'
  BY <1>12 DEF ListenerCheck, ListenerDeletes, sessVars, connVars, TypeOK,
     LifeInv, Life, Dying, BeforeListeners
<1>13. ASSUME NEW t \in Sessions, ListenerBreak(t) PROVE LifeInv'
  BY <1>13 DEF ListenerBreak, ListenerDeletes, sessVars, connVars, TypeOK,
     LifeInv, Life, Dying, BeforeListeners
<1>14. ASSUME NEW t \in Sessions, DtorJoin(t) PROVE LifeInv'
  BY <1>14 DEF DtorJoin, DtorGoes, sessVars, connVars, TypeOK, LifeInv, Life,
     Dying, BeforeListeners
<1>15. ASSUME NEW t \in Sessions, DtorClose(t) PROVE LifeInv'
  BY <1>15 DEF DtorClose, DtorGoes, sessVars, connVars, TypeOK, LifeInv,
     Life, Dying, BeforeListeners
<1>16. ASSUME NEW t \in Sessions, DtorErase(t) PROVE LifeInv'
  BY <1>16 DEF DtorErase, DtorGoes, sessVars, connVars, TypeOK, LifeInv,
     Life, Dying, BeforeListeners
<1>17. ASSUME NEW t \in Sessions, DtorFree(t) PROVE LifeInv'
  BY <1>17 DEF DtorFree, DtorGoes, sessVars, connVars, TypeOK, LifeInv, Life,
     Dying, BeforeListeners
<1>18. CASE UNCHANGED <<mem, creator, ctl, dtor>>
  BY <1>18 DEF LifeInv, Life
<1> QED
  BY <1>1, <1>2, <1>3, <1>4, <1>5, <1>6, <1>7, <1>8, <1>9, <1>10, <1>11,
     <1>12, <1>13, <1>14, <1>15, <1>16, <1>17, <1>18
     DEF Next, CreatorStep, ListenerStep, DtorStep, TransferStep,
         DispatcherStep, DispatchTransfer, PeerStep, TransferCall,
         TransferMessage, TransferBreak, TransferExit, AttachTransfer,
         RefuseTransfer, SendAck, PeerClose, ConnOpen, ConnClose, vars,
         sessVars, connVars

LEMMA LockStep ==
    TypeOK /\ LockHeld /\ [Next]_vars => LockHeld'
<1> SUFFICES ASSUME TypeOK, LockHeld, [Next]_vars PROVE LockHeld'
  OBVIOUS
<1> USE SessionAssumption
<1>1. ASSUME NEW t \in Sessions, AcceptControl(t) PROVE LockHeld'
  BY <1>1 DEF AcceptControl, sessVars, connVars, TypeOK, LockHeld, Setup
<1>2. ASSUME NEW t \in Sessions, CreatorLock(t) PROVE LockHeld'
  BY <1>2 DEF CreatorLock, CreatorGoes, sessVars, connVars, TypeOK, LockHeld,
     Setup
<1>3. ASSUME NEW t \in Sessions, LoginOk(t) PROVE LockHeld'
  BY <1>3 DEF LoginOk, CreatorGoes, sessVars, connVars, TypeOK, LockHeld,
     Setup
<1>4. ASSUME NEW t \in Sessions, LoginFails(t) PROVE LockHeld'
  BY <1>4 DEF LoginFails, CreatorFails, CreatorGoes, sessVars, connVars,
     TypeOK, LockHeld, Setup
<1>5. ASSUME NEW t \in Sessions, PushAgent(t) PROVE LockHeld'
  BY <1>5 DEF PushAgent, CreatorGoes, sessVars, connVars, TypeOK, LockHeld,
     Setup
<1>6. ASSUME NEW t \in Sessions, WaitOk(t) PROVE LockHeld'
  BY <1>6 DEF WaitOk, CreatorGoes, sessVars, connVars, TypeOK, LockHeld, Setup
<1>7. ASSUME NEW t \in Sessions, WaitTimeout(t) PROVE LockHeld'
  BY <1>7 DEF WaitTimeout, CreatorFails, CreatorGoes, sessVars, connVars,
     TypeOK, LockHeld, Setup
<1>8. ASSUME NEW t \in Sessions, SpawnControl(t) PROVE LockHeld'
  BY <1>8 DEF SpawnControl, CreatorGoes, sessVars, connVars, TypeOK,
     LockHeld, Setup
<1>9. ASSUME NEW t \in Sessions, SpawnTransfer(t) PROVE LockHeld'
  BY <1>9 DEF SpawnTransfer, CreatorGoes, sessVars, connVars, TypeOK,
     LockHeld, Setup
<1>10. ASSUME NEW t \in Sessions, CreatorUnlock(t) PROVE LockHeld'
  BY <1>10 DEF CreatorUnlock, CreatorGoes, sessVars, connVars, TypeOK,
     LockHeld, Setup
<1>11. ASSUME NEW t \in Sessions, DtorFree(t) PROVE LockHeld'
  BY <1>11 DEF DtorFree, DtorGoes, sessVars, connVars, TypeOK, LockHeld, Setup
<1>12. CASE UNCHANGED <<creator, clreqHolder>>
  BY <1>12 DEF LockHeld
<1> QED
  BY <1>1, <1>2, <1>3, <1>4, <1>5, <1>6, <1>7, <1>8, <1>9, <1>10, <1>11, <1>12
     DEF Next, CreatorStep, ListenerStep, DtorStep, TransferStep,
         DispatcherStep, DispatchTransfer, PeerStep, ListenerReceive,
         ListenerCheck, ListenerBreak, DtorJoin, DtorClose, DtorErase,
         TransferCall, TransferMessage, TransferBreak, TransferExit,
         AttachTransfer, RefuseTransfer, SendAck, PeerClose, ConnOpen,
         ConnClose, vars, sessVars, connVars

LEMMA ListStep == IInv /\ [Next]_vars => ListOrder'
<1> SUFFICES ASSUME TypeOK, LifeInv, LockHeld, ListOrder, [Next]_vars
             PROVE  ListOrder'
  BY DEF IInv
<1>0. \A s \in Listed : s \in Sessions
  BY DEF TypeOK, Listed, Range
<1>1. ASSUME NEW t \in Sessions, AcceptControl(t) PROVE ListOrder'
  BY <1>1, <1>0 DEF AcceptControl, sessVars, connVars, TypeOK, LifeInv, Life,
     Dying, BeforeListeners, ListOrder, ListedOnce, Listed, MayBeListed,
     WaiterIsNewest, InWait
<1>2. ASSUME NEW t \in Sessions, CreatorLock(t) PROVE ListOrder'
  BY <1>2, <1>0 DEF CreatorLock, CreatorGoes, sessVars, connVars, TypeOK,
     LifeInv, Life, Dying, BeforeListeners, ListOrder, ListedOnce, Listed,
     MayBeListed, WaiterIsNewest, InWait
<1>3. ASSUME NEW t \in Sessions, LoginOk(t) PROVE ListOrder'
  BY <1>3, <1>0 DEF LoginOk, CreatorGoes, sessVars, connVars, TypeOK,
     LifeInv, Life, Dying, BeforeListeners, ListOrder, ListedOnce, Listed,
     MayBeListed, WaiterIsNewest, InWait
<1>4. ASSUME NEW t \in Sessions, LoginFails(t) PROVE ListOrder'
  BY <1>4, <1>0 DEF LoginFails, CreatorFails, CreatorGoes, sessVars,
     connVars, TypeOK, LifeInv, Life, Dying, BeforeListeners, ListOrder,
     ListedOnce, Listed, MayBeListed, WaiterIsNewest, InWait
<1>5. ASSUME NEW t \in Sessions, PushAgent(t) PROVE ListOrder'
  <2>1. t \notin Listed /\ agentList \in Seq(Sessions)
    BY <1>5 DEF PushAgent, CreatorGoes, ListOrder, MayBeListed, TypeOK
  <2>2. agentList' = Append(agentList, t)
    BY <1>5 DEF PushAgent
  <2>3. /\ DOMAIN agentList' = 1 .. Len(agentList) + 1
        /\ Len(agentList') = Len(agentList) + 1
        /\ \A i \in 1 .. Len(agentList) : agentList'[i] = agentList[i]
        /\ agentList'[Len(agentList) + 1] = t
    BY <2>1, <2>2
  <2>4. ListedOnce'
    BY <2>1, <2>3 DEF ListOrder, ListedOnce, IsInjective, Listed, Range
  <2>5. Listed' = Listed \cup {t} /\ agentList' # <<>> /\ Last(agentList') = t
    BY <2>1, <2>2, <2>3 DEF Listed, Range, Last
  <2>6. \A s \in Listed' : MayBeListed(s)'
    BY <1>5, <2>5 DEF PushAgent, CreatorGoes, ListOrder, MayBeListed, TypeOK,
       LifeInv, Life, BeforeListeners, CreatorPC
  <2>7. \A s \in Sessions : creator'[s] \in InWait => s = t
    BY <1>5 DEF PushAgent, CreatorGoes, LockHeld, Setup, InWait, TypeOK
  <2> QED BY <2>4, <2>5, <2>6, <2>7 DEF ListOrder, WaiterIsNewest
<1>6. ASSUME NEW t \in Sessions, WaitOk(t) PROVE ListOrder'
  BY <1>6, <1>0 DEF WaitOk, CreatorGoes, sessVars, connVars, TypeOK, LifeInv,
     Life, Dying, BeforeListeners, ListOrder, ListedOnce, Listed,
     MayBeListed, WaiterIsNewest, InWait
<1>7. ASSUME NEW t \in Sessions, WaitTimeout(t) PROVE ListOrder'
  BY <1>7, <1>0 DEF WaitTimeout, CreatorFails, CreatorGoes, sessVars,
     connVars, TypeOK, LifeInv, Life, Dying, BeforeListeners, ListOrder,
     ListedOnce, Listed, MayBeListed, WaiterIsNewest, InWait
<1>8. ASSUME NEW t \in Sessions, SpawnControl(t) PROVE ListOrder'
  BY <1>8, <1>0 DEF SpawnControl, CreatorGoes, sessVars, connVars, TypeOK,
     LifeInv, Life, Dying, BeforeListeners, ListOrder, ListedOnce, Listed,
     MayBeListed, WaiterIsNewest, InWait
<1>9. ASSUME NEW t \in Sessions, SpawnTransfer(t) PROVE ListOrder'
  BY <1>9, <1>0 DEF SpawnTransfer, CreatorGoes, sessVars, connVars, TypeOK,
     LifeInv, Life, Dying, BeforeListeners, ListOrder, ListedOnce, Listed,
     MayBeListed, WaiterIsNewest, InWait
<1>10. ASSUME NEW t \in Sessions, CreatorUnlock(t) PROVE ListOrder'
  BY <1>10, <1>0 DEF CreatorUnlock, CreatorGoes, sessVars, connVars, TypeOK,
     LifeInv, Life, Dying, BeforeListeners, ListOrder, ListedOnce, Listed,
     MayBeListed, WaiterIsNewest, InWait
<1>11. ASSUME NEW t \in Sessions, ListenerCheck(t) PROVE ListOrder'
  BY <1>11, <1>0 DEF ListenerCheck, ListenerDeletes, sessVars, connVars,
     TypeOK, LifeInv, Life, Dying, BeforeListeners, ListOrder, ListedOnce,
     Listed, MayBeListed, WaiterIsNewest, InWait
<1>12. ASSUME NEW t \in Sessions, ListenerBreak(t) PROVE ListOrder'
  BY <1>12, <1>0 DEF ListenerBreak, ListenerDeletes, sessVars, connVars,
     TypeOK, LifeInv, Life, Dying, BeforeListeners, ListOrder, ListedOnce,
     Listed, MayBeListed, WaiterIsNewest, InWait
<1>13. ASSUME NEW t \in Sessions, DtorJoin(t) PROVE ListOrder'
  BY <1>13, <1>0 DEF DtorJoin, DtorGoes, sessVars, connVars, TypeOK, LifeInv,
     Life, Dying, BeforeListeners, ListOrder, ListedOnce, Listed,
     MayBeListed, WaiterIsNewest, InWait
<1>14. ASSUME NEW t \in Sessions, DtorClose(t) PROVE ListOrder'
  BY <1>14, <1>0 DEF DtorClose, DtorGoes, sessVars, connVars, TypeOK,
     LifeInv, Life, Dying, BeforeListeners, ListOrder, ListedOnce, Listed,
     MayBeListed, WaiterIsNewest, InWait
<1>15. ASSUME NEW t \in Sessions, DtorErase(t) PROVE ListOrder'
  <2>1. CASE t \notin Listed
    BY <1>15, <2>1 DEF DtorErase, DtorGoes, ListOrder, ListedOnce, WaiterIsNewest,
       InWait, MayBeListed, Listed, TypeOK
  <2>2. CASE t \in Listed
    <3>1. PICK i \in DOMAIN agentList : /\ agentList[i] = t
                                        /\ agentList' = RemoveAt(agentList, i)
      BY <1>15, <2>2 DEF DtorErase
    <3>2. /\ IsInjective(agentList')
          /\ Range(agentList') = Range(agentList) \ {t}
          /\ Last(agentList) # t => /\ agentList' # <<>>
                                    /\ Last(agentList') = Last(agentList)
      BY <3>1, RemoveAtOfInjective DEF TypeOK, ListOrder, ListedOnce
    <3>3. creator[t] \notin InWait
      BY <1>15 DEF DtorErase, DtorGoes, LifeInv, Life, BeforeListeners, InWait
    <3>4. \A s \in Listed' : MayBeListed(s)'
      BY <1>15, <3>2 DEF DtorErase, DtorGoes, Listed, ListOrder, MayBeListed, TypeOK
    <3>5. WaiterIsNewest'
      BY <1>15, <3>2, <3>3 DEF DtorErase, ListOrder, WaiterIsNewest
    <3> QED BY <3>2, <3>4, <3>5 DEF ListOrder, ListedOnce
  <2> QED BY <2>1, <2>2
<1>16. ASSUME NEW t \in Sessions, DtorFree(t) PROVE ListOrder'
  BY <1>16, <1>0 DEF DtorFree, DtorGoes, sessVars, connVars, TypeOK, LifeInv,
     Life, Dying, BeforeListeners, ListOrder, ListedOnce, Listed,
     MayBeListed, WaiterIsNewest, InWait
<1>17. CASE UNCHANGED <<agentList, creator, dtor>>
  BY <1>17, <1>0 DEF ListOrder, ListedOnce, Listed, MayBeListed,
     WaiterIsNewest
<1> QED
  BY <1>1, <1>2, <1>3, <1>4, <1>5, <1>6, <1>7, <1>8, <1>9, <1>10, <1>11,
     <1>12, <1>13, <1>14, <1>15, <1>16, <1>17
     DEF Next, CreatorStep, ListenerStep, DtorStep, TransferStep,
         DispatcherStep, DispatchTransfer, PeerStep, ListenerReceive,
         TransferCall, TransferMessage, TransferBreak, TransferExit,
         AttachTransfer, RefuseTransfer, SendAck, PeerClose, ConnOpen,
         ConnClose, vars, sessVars, connVars

LEMMA ConnStep == IInv /\ [Next]_vars => ConnsHeld'
<1> SUFFICES ASSUME TypeOK, LifeInv, ConnsHeld, [Next]_vars
             PROVE  ConnsHeld'
  BY DEF IInv
<1>1. ASSUME NEW t \in Sessions, LoginFails(t) PROVE ConnsHeld'
  BY <1>1, SessionAssumption DEF LoginFails, CreatorFails, CreatorGoes,
     sessVars, connVars, TypeOK, ConnsHeld, TransferUnshared, HeldSocketOpen,
     LifeInv, Life, BeforeListeners
<1>2. ASSUME NEW t \in Sessions, WaitTimeout(t) PROVE ConnsHeld'
  BY <1>2, SessionAssumption DEF WaitTimeout, CreatorFails, CreatorGoes,
     sessVars, connVars, TypeOK, ConnsHeld, TransferUnshared, HeldSocketOpen,
     LifeInv, Life, BeforeListeners
<1>3. ASSUME NEW t \in Sessions, ListenerCheck(t) PROVE ConnsHeld'
  BY <1>3, SessionAssumption DEF ListenerCheck, ListenerDeletes, sessVars,
     connVars, TypeOK, ConnsHeld, TransferUnshared, HeldSocketOpen,
     LifeInv, Life, BeforeListeners
<1>4. ASSUME NEW t \in Sessions, ListenerBreak(t) PROVE ConnsHeld'
  BY <1>4, SessionAssumption DEF ListenerBreak, ListenerDeletes, sessVars,
     connVars, TypeOK, ConnsHeld, TransferUnshared, HeldSocketOpen,
     LifeInv, Life, BeforeListeners
<1>5. ASSUME NEW t \in Sessions, DtorJoin(t) PROVE ConnsHeld'
  BY <1>5, SessionAssumption DEF DtorJoin, DtorGoes, sessVars, connVars,
     TypeOK, ConnsHeld, TransferUnshared, HeldSocketOpen
<1>6. ASSUME NEW t \in Sessions, DtorClose(t) PROVE ConnsHeld'
  BY <1>6, SessionAssumption DEF DtorClose, DtorGoes, sessVars, connVars,
     TypeOK, ConnsHeld, TransferUnshared, HeldSocketOpen
<1>7. ASSUME NEW t \in Sessions, DtorErase(t) PROVE ConnsHeld'
  BY <1>7, SessionAssumption DEF DtorErase, DtorGoes, sessVars, connVars,
     TypeOK, ConnsHeld, TransferUnshared, HeldSocketOpen
<1>8. ASSUME NEW t \in Sessions, DtorFree(t) PROVE ConnsHeld'
  BY <1>8, SessionAssumption DEF DtorFree, DtorGoes, sessVars, connVars,
     TypeOK, ConnsHeld, TransferUnshared, HeldSocketOpen
<1>9. ASSUME NEW t \in Sessions, TransferExit(t) PROVE ConnsHeld'
  BY <1>9, SessionAssumption DEF TransferExit, sessVars, connVars, TypeOK,
     ConnsHeld, TransferUnshared, HeldSocketOpen
<1>10. ASSUME NEW c \in Conns, AttachTransfer(c) PROVE ConnsHeld'
  <2>1. PICK i \in DOMAIN agentList :
           /\ tsd' = [tsd EXCEPT ![agentList[i]] = c]
           /\ conn' = [d \in Conns |-> IF d = c THEN "open"
                                       ELSE IF d = tsd[agentList[i]]
                                            THEN "closed" ELSE conn[d]]
    BY <1>10 DEF AttachTransfer
  <2>2. agentList[i] \in Sessions
    BY DEF TypeOK
  <2>3. conn[c] = "backlog" /\ UNCHANGED dtor
    BY <1>10 DEF AttachTransfer
  <2>4. \A s \in Sessions : tsd[s] # c
    BY <2>3 DEF ConnsHeld
  <2> QED BY <2>1, <2>2, <2>3, <2>4, SessionAssumption
          DEF ConnsHeld, TransferUnshared, HeldSocketOpen, TypeOK
<1>11. ASSUME NEW c \in Conns, RefuseTransfer(c) PROVE ConnsHeld'
  BY <1>11, SessionAssumption DEF RefuseTransfer, sessVars, connVars, TypeOK,
     ConnsHeld, TransferUnshared, HeldSocketOpen
<1>12. ASSUME NEW c \in Conns, ConnOpen(c) PROVE ConnsHeld'
  BY <1>12, SessionAssumption DEF ConnOpen, sessVars, connVars, TypeOK,
     ConnsHeld, TransferUnshared, HeldSocketOpen
<1>13. CASE UNCHANGED <<dtor, tsd, conn>>
  BY <1>13 DEF ConnsHeld, TransferUnshared, HeldSocketOpen
<1> QED
  BY <1>1, <1>2, <1>3, <1>4, <1>5, <1>6, <1>7, <1>8, <1>9, <1>10, <1>11,
     <1>12, <1>13
     DEF Next, CreatorStep, ListenerStep, DtorStep, TransferStep,
         DispatcherStep, DispatchTransfer, PeerStep, AcceptControl,
         CreatorLock, LoginOk, PushAgent, WaitOk, SpawnControl,
         SpawnTransfer, CreatorUnlock, ListenerReceive, TransferCall,
         TransferMessage, TransferBreak, SendAck, PeerClose, ConnClose, vars,
         sessVars, connVars

LEMMA InvStep == IInv /\ [Next]_vars => IInv'
  BY TypeStep, LifeStep, LockStep, ListStep, ConnStep DEF IInv

\* The inductive invariant holds in every state, for all values of the
\* constants.
THEOREM Invariance == Spec => []IInv
  BY InvInit, InvStep, PTL DEF Spec

-----------------------------------------------------------------------------
(* The properties.                                                         *)

\* No entry of agent_list points to an object that is not allocated.
LEMMA ListedAreAlive == IInv => ListedAlive
  BY DEF IInv, ListOrder, MayBeListed, LifeInv, Life, TypeOK, ListedAlive,
     Listed, Range, Dying

\* agent_list has no duplicates, points to no object that is not allocated, and
\* whoever waits for a transfer connection is its newest entry.
THEOREM ListSoundHolds == Spec => []ListSound
<1>1. IInv => ListedAlive
  BY ListedAreAlive
<1>2. IInv => ListedOnce /\ WaiterIsNewest
  BY DEF IInv, ListOrder
<1> QED BY <1>1, <1>2, Invariance, PTL DEF ListSound

\* A transfer connection has at most one session, which holds it open.
THEOREM ConnectionsHold == Spec => []ConnectionsOwned
<1>1. IInv => ConnectionsOwned
  BY DEF IInv, ConnsHeld, ConnectionsOwned
<1> QED BY <1>1, Invariance, PTL

\* A session is destroyed by its own threads, and not under its control
\* listener's feet.
THEOREM DestructionIsOwn == Spec => []DestructionOwn
<1>1. IInv => DestructionOwn
  BY DEF IInv, DestructionOwn, LifeInv, Life, BeforeListeners, TypeOK, DestroyedByItself,
     ListenerHasAgent
<1> QED BY <1>1, Invariance, PTL

\* Only the destructor of a session takes it out of agent_list.
THEOREM ErasesOwnEntry == Spec => OnlyOwnEntryErased
<1> DEFINE A == \A s \in Sessions :
                  s \in Listed /\ s \notin Listed' => dtor[s] = "erase"
<1>1. IInv /\ [Next]_vars => A
  <2> SUFFICES ASSUME IInv, [Next]_vars, NEW s \in Sessions,
                      s \in Listed, s \notin Listed'
               PROVE  dtor[s] = "erase"
    OBVIOUS
  <2>1. ASSUME NEW t \in Sessions, PushAgent(t) PROVE FALSE
    <3>1. /\ agentList' = Append(agentList, t)
          /\ agentList \in Seq(Sessions)
      BY <2>1 DEF PushAgent, IInv, TypeOK
    <3>2. Range(agentList) \subseteq Range(agentList')
      BY <3>1 DEF Range
    <3> QED BY <3>2 DEF Listed
  <2>2. ASSUME NEW t \in Sessions, DtorErase(t) PROVE dtor[s] = "erase"
    <3>1. t \in Listed
      BY <2>2 DEF DtorErase, Listed
    <3>2. PICK i \in DOMAIN agentList : /\ agentList[i] = t
                                        /\ agentList' = RemoveAt(agentList, i)
      BY <2>2, <3>1 DEF DtorErase
    <3>3. Range(agentList') = Range(agentList) \ {t}
      BY <3>2, RemoveAtOfInjective DEF IInv, TypeOK, ListOrder, ListedOnce
    <3>4. s = t
      BY <3>3 DEF Listed
    <3> QED BY <2>2, <3>4 DEF DtorErase, DtorGoes
  <2>3. CASE UNCHANGED agentList
    BY <2>3 DEF Listed
  <2> QED
    BY <2>1, <2>2, <2>3 DEF Next, AcceptControl, CreatorStep, CreatorLock,
       LoginOk, LoginFails, CreatorFails, WaitOk, WaitTimeout, SpawnControl,
       SpawnTransfer, CreatorUnlock, ListenerStep, ListenerReceive,
       ListenerCheck, ListenerBreak, DtorStep, DtorJoin, DtorClose, DtorFree,
       TransferStep, TransferCall, TransferMessage, TransferBreak,
       TransferExit, DispatcherStep, DispatchTransfer, AttachTransfer,
       RefuseTransfer, SendAck, PeerStep, PeerClose, ConnOpen, ConnClose, vars
<1> QED BY <1>1, Invariance, PTL DEF Spec, OnlyOwnEntryErased
=============================================================================
