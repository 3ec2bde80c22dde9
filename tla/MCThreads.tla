------------------------------ MODULE MCThreads ------------------------------
\* The main threads of both processes, which share nothing: that of the server with
\* its dispatchers, that of an agent with its monitors.  One run checks either.
EXTENDS SupervisorClaims, InfoSourcesClaims, TLC

CONSTANTS a, b, c      \* sources
VARIABLE component

supervisorVars == <<doing, at, role, phase, owner, mishaps>>
sourceVars == <<main, tgt, sources, mon, cancelled, rulesHolder, sockHolder>>

\* Two objects for the default log, one for another.
Paths == a :> "syslog" @@ b :> "syslog" @@ c :> "other"

\* The server while the agent is checked.
ServerRuns ==
    /\ doing = "loop" /\ at = "sleep" /\ mishaps = 0
    /\ role = [r \in S!Roles |-> r] /\ owner = [r \in S!Roles |-> r]
    /\ phase = [r \in S!Roles |-> "serving"]

InServer == component = "server" /\ UNCHANGED <<component, sourceVars>>
InAgent == component = "agent" /\ UNCHANGED <<component, supervisorVars>>

MCInit ==
    /\ component \in {"server", "agent"}
    /\ IF component = "server" THEN S!Init ELSE ServerRuns
    /\ I!Init

MCNext ==
    \/ InServer /\ S!Next
    \/ InAgent /\ I!Next

\* With the fairness of either.
MCSpec ==
    /\ MCInit /\ [][MCNext]_<<component, supervisorVars, sourceVars>>
    /\ WF_supervisorVars(InServer /\ S!MainStep)
    /\ \A s \in S!Slots : WF_supervisorVars(InServer /\ S!ThreadStep(s))
    /\ \A r \in S!Roles : WF_supervisorVars(InServer /\ S!Release(r))
    /\ WF_sourceVars(InAgent /\ I!MainStep)
    /\ \A s \in Sources :
          /\ WF_sourceVars(InAgent /\ mon[s] \notin {"read", "send"} /\ I!MonStep(s))
          /\ SF_sourceVars(InAgent /\ I!Cancelled(s))
=============================================================================
