------------------------------- MODULE Server -------------------------------
(***************************************************************************)
(* The server process: AgentSession and RequestRouting share agent_list,   *)
(* clreq_mutex and the control listeners.  A listener in treat() runs the  *)
(* steps of RequestRouting; a thread that treats a request waits for       *)
(* clreq_mutex, which a creator holds during a whole set-up.               *)
(***************************************************************************)
EXTENDS Naturals, Sequences

CONSTANTS Sessions, Conns, HostOf, NoSession, NoConn,
          Requests, NoRequest, Tids, NoTid, IdOf, WantedId, MaxTries

ASSUME ServerAssumption ==
    /\ NoSession \notin Sessions /\ NoConn \notin Conns
    /\ NoRequest \notin Requests /\ NoTid \notin Tids
    /\ MaxTries \in Nat \ {0}

VARIABLES agentList, clreqHolder,
          mem, creator, ctl, trl, dtor, ackTo, tsd, on, ctlOpen, ctlUp, conn,
          connUp,
          rpc, tid, seen, target, tries, rsp, reply, registry, pipe, walk, hand

AS == INSTANCE AgentSession
RR == INSTANCE RequestRouting

agentVars == <<mem, creator, ctl, trl, dtor, ackTo, tsd, on, ctlOpen, ctlUp,
               conn, connUp>>
requestVars == <<rpc, tid, seen, target, tries, rsp, reply, registry, pipe,
                 walk, hand>>
vars == <<agentList, clreqHolder, agentVars, requestVars>>

Init == AS!Init /\ RR!Init

\* Everything on the agents' side but the control listeners.
SessionStep ==
    /\ \/ \E s \in Sessions : \/ AS!AcceptControl(s) \/ AS!CreatorStep(s)
                              \/ AS!DtorStep(s) \/ AS!TransferStep(s)
       \/ AS!DispatcherStep
       \/ AS!PeerStep
    /\ UNCHANGED requestVars

\* A heartbeat, or an answer that treat() looks up.
ListenerReceive(s) ==
    /\ AS!ListenerReceive(s)
    /\ RR!ReceiveAck(s) \/ UNCHANGED requestVars

ListenerCopy(s) ==
    /\ ctl[s] = "treat"
    /\ RR!SearchEnd(s) \/ RR!CopyHalf(s) \/ RR!CopyRest(s)
    /\ UNCHANGED agentVars

\* Mutant of ListenerCheck: it goes back to select() without looking for the
\* transfer connection.
ListenerCheckNot(s) ==
    /\ hand[s] = RR!Idle /\ ctl[s] = "treat"
    /\ ctl' = [ctl EXCEPT ![s] = "select"]
    /\ UNCHANGED <<agentList, clreqHolder, mem, creator, trl, dtor, ackTo, tsd,
                   on, ctlOpen, ctlUp, conn, connUp, requestVars>>

\* treat() has returned.
ListenerCheck(s) ==
    /\ hand[s] = RR!Idle
    /\ AS!ListenerCheck(s)
    /\ UNCHANGED requestVars

ListenerBreak(s) == AS!ListenerBreak(s) /\ UNCHANGED requestVars

ListenerStep(s) == \/ ListenerReceive(s) \/ ListenerCopy(s)
                   \/ ListenerCheck(s) \/ ListenerBreak(s)

\* send_request uses the object the thread found before it registered: what it
\* sends arrives only while both ends of the control connection are open.
SendRequest(r) ==
    /\ RR!SendRequest(r)
    /\ (pipe' # pipe) <=> (target[r] \in ctlOpen \cap ctlUp)
    /\ UNCHANGED agentVars

OtherThreadStep(r) ==
    /\ \/ RR!LookupBegin(r) \/ RR!LookupEnd(r) \/ RR!Register(r) \/ RR!Poll(r)
       \/ RR!Unregister(r) \/ RR!Reply(r)
    /\ UNCHANGED agentVars

TreatStep(r) == SendRequest(r) \/ OtherThreadStep(r)

Spawn(r) == \E t \in Tids : RR!Spawn(r, t) /\ UNCHANGED agentVars

Next ==
    \/ SessionStep
    \/ \E s \in Sessions : ListenerStep(s)
    \/ \E r \in Requests : TreatStep(r) \/ Spawn(r)

Spec == Init /\ [][Next]_vars

\* send() has no timeout: it returns for certain only when the connection is gone.
Unread(r) == rpc[r] = "send" /\ target[r] \in ctlOpen \cap ctlUp
TreatRuns(r) == ~Unread(r) /\ TreatStep(r)

\* The creators and the threads that treat requests run; the agents owe nothing,
\* neither a login nor that they read, and no property needs more of the other
\* threads.
FairSpec ==
    /\ Spec
    /\ \A s \in Sessions : WF_vars(AS!CreatorRuns(s) /\ UNCHANGED requestVars)
    /\ \A r \in Requests : WF_vars(TreatRuns(r))

-----------------------------------------------------------------------------
(* Properties.                                                             *)

\* The server implements both of its components.
ImplementsComponents == AS!Spec /\ RR!Spec

\* A request is sent only through a session whose set-up succeeded: the thread
\* cannot register before the creator has released clreq_mutex, and a creator
\* that fails never releases it.
RequestsFollowSetup ==
    \A r \in Requests : rpc[r] \in {"send", "poll"} =>
                           /\ creator[target[r]] = "end"
                           /\ ctl[target[r]] # "none"

\* A listener copies an answer only while its session is not being destroyed.
CopyInsideTreat ==
    \A s \in Sessions : hand[s].step # "idle" => ctl[s] = "treat" /\ mem[s] = "live"

\* Requests and answers pass through sessions between set-up and destruction.
SessionsUsedInTime == RequestsFollowSetup /\ CopyInsideTreat

\* What a thread may wait for without a timeout: that a silent agent's creator gives
\* clreq_mutex back, or that its own agent reads.
Held(r) == Unread(r) \/ \E s \in Sessions : AS!Silent(s)

\* A thread that treats a request ends, and frees its resources: it gives up
\* waiting for the agent's answer, but neither for clreq_mutex, which a failed
\* set-up keeps and a silent agent's too, nor in send(), if the agent reads nothing.
TreatThreadEnds ==
    \A r \in Requests : rpc[r] = "start" ~> rpc[r] = "done" \/ AS!Wedged \/ []Held(r)
=============================================================================
