----------------------------- MODULE Supervisor -----------------------------
(***************************************************************************)
(* The main thread of the server (Server.cpp): it creates the three        *)
(* dispatchers, and every ten seconds joins the ones that ended and        *)
(* creates threads in their place.  A dispatcher ends when it cannot get its *)
(* port: another process holds it, or a call fails.                        *)
(*                                                                         *)
(* A slot is a pthread_t variable of main(), named for the dispatcher it   *)
(* is meant to hold; role says what the thread in it runs.                 *)
(***************************************************************************)
EXTENDS Naturals

CONSTANT MaxMishaps    \* bound: how often a port is taken or a call fails

\* What the constants are assumed to be.
MishapsAssumption ==
    MaxMishaps \in Nat

Roles == {"control", "transfer", "client"}
Slots == Roles

\* The order in which main() creates and examines the slots.
FirstCreated == "control"
NextCreated == [control |-> "transfer", transfer |-> "client", client |-> "sleep"]
FirstJoined == "transfer"

NextJoined == [transfer |-> "control", control |-> "client", client |-> "sleep"]

VARIABLES doing,      \* main(): creating, looping or creating again
          at,         \* the slot it has reached, or "sleep"
          role,       \* what the thread of a slot runs
          phase,      \* how far it is
          owner,      \* the slot whose thread is bound to the port of a role
          mishaps     \* how often another process took a port, or a call failed

vars == <<doing, at, role, phase, owner, mishaps>>

TypeOK ==
    /\ doing \in {"start", "loop", "restart"}
    /\ at \in Slots \cup {"sleep"}
    /\ role \in [Slots -> Roles]
    /\ phase \in [Slots -> {"none", "starting", "serving", "ended", "joined"}]
    /\ owner \in [Roles -> Slots \cup {"free", "other"}]
    /\ mishaps \in 0 .. MaxMishaps

Init ==
    /\ doing = "start" /\ at = FirstCreated
    /\ role = [s \in Slots |-> s]
    /\ phase = [s \in Slots |-> "none"]
    /\ owner \in [Roles -> {"free", "other"}]
    /\ mishaps = 0

-----------------------------------------------------------------------------
(* main().                                                                 *)

\* pthread_create into slot s.
Thread(s, r) ==
    /\ role' = [role EXCEPT ![s] = r]
    /\ phase' = [phase EXCEPT ![s] = "starting"]

Create ==
    /\ doing = "start" /\ at # "sleep"
    /\ Thread(at, at)
    /\ at' = NextCreated[at]
    /\ doing' = IF at' = "sleep" THEN "loop" ELSE doing
    /\ UNCHANGED <<owner, mishaps>>

Wake ==
    /\ doing = "loop" /\ at = "sleep"
    /\ at' = FirstJoined
    /\ UNCHANGED <<doing, role, phase, owner, mishaps>>

\* pthread_tryjoin_np finds the thread running.
NotEnded ==
    /\ doing = "loop" /\ at # "sleep" /\ phase[at] # "ended"
    /\ at' = NextJoined[at]
    /\ UNCHANGED <<doing, role, phase, owner, mishaps>>

\* Mutants of Join: nothing is created afterwards; a thread that runs is
\* joined, too.
JoinOnly ==
    /\ doing = "loop" /\ at # "sleep" /\ phase[at] = "ended"
    /\ phase' = [phase EXCEPT ![at] = "joined"]
    /\ at' = NextJoined[at]
    /\ UNCHANGED <<doing, role, owner, mishaps>>

JoinAny ==
    /\ doing = "loop" /\ at # "sleep"
    /\ phase' = [phase EXCEPT ![at] = "joined"]
    /\ doing' = "restart"
    /\ UNCHANGED <<at, role, owner, mishaps>>

Join ==
    /\ doing = "loop" /\ at # "sleep" /\ phase[at] = "ended"
    /\ phase' = [phase EXCEPT ![at] = "joined"]
    /\ doing' = "restart"
    /\ UNCHANGED <<at, role, owner, mishaps>>

\* create_agent_dispatcher(&tid, nullptr), whichever slot it is for: the first
\* parameter is the one that gets a control dispatcher.
Restart ==
    /\ doing = "restart"
    /\ Thread(at, "control")
    /\ at' = NextJoined[at]
    /\ doing' = "loop"
    /\ UNCHANGED <<owner, mishaps>>

-----------------------------------------------------------------------------
(* The dispatchers.                                                        *)

\* init_server_to_port(), init_server_to_port_UDP().
Bind(s) ==
    /\ phase[s] = "starting" /\ owner[role[s]] = "free"
    /\ owner' = [owner EXCEPT ![role[s]] = s]
    /\ phase' = [phase EXCEPT ![s] = "serving"]
    /\ UNCHANGED <<doing, at, role, mishaps>>

BindFails(s) ==
    /\ phase[s] = "starting" /\ owner[role[s]] # "free"
    /\ phase' = [phase EXCEPT ![s] = "ended"]
    /\ UNCHANGED <<doing, at, role, owner, mishaps>>

\* socket(), bind() or listen() fails whoever has the port.
CallFails(s) ==
    /\ phase[s] = "starting" /\ mishaps < MaxMishaps
    /\ phase' = [phase EXCEPT ![s] = "ended"]
    /\ mishaps' = mishaps + 1
    /\ UNCHANGED <<doing, at, role, owner>>

\* select() fails in the client dispatcher, the only one that then ends.  Its
\* socket is not closed, so the port stays bound.
SelectFails(s) ==
    /\ phase[s] = "serving" /\ role[s] = "client"
    /\ phase' = [phase EXCEPT ![s] = "ended"]
    /\ UNCHANGED <<doing, at, role, owner, mishaps>>

-----------------------------------------------------------------------------
(* Other processes.                                                        *)

Occupy(r) ==
    /\ owner[r] = "free" /\ mishaps < MaxMishaps
    /\ owner' = [owner EXCEPT ![r] = "other"]
    /\ mishaps' = mishaps + 1
    /\ UNCHANGED <<doing, at, role, phase>>

Release(r) ==
    /\ owner[r] = "other"
    /\ owner' = [owner EXCEPT ![r] = "free"]
    /\ UNCHANGED <<doing, at, role, phase, mishaps>>

-----------------------------------------------------------------------------
MainStep == Create \/ Wake \/ NotEnded \/ Join \/ Restart
ThreadStep(s) == Bind(s) \/ BindFails(s)

Next == \/ MainStep
        \/ \E s \in Slots : ThreadStep(s) \/ CallFails(s) \/ SelectFails(s)
        \/ \E r \in Roles : Occupy(r) \/ Release(r)

Spec == Init /\ [][Next]_vars

\* The threads run, no other process keeps a port for ever, and the calls do not
\* always fail.
FairSpec == /\ Spec
            /\ WF_vars(MainStep)
            /\ \A s \in Slots : WF_vars(ThreadStep(s))
            /\ \A r \in Roles : WF_vars(Release(r))

-----------------------------------------------------------------------------
(* Properties.                                                             *)

Serves(r) == \E s \in Slots : role[s] = r /\ phase[s] = "serving"

\* A thread is joined once: joining it again would be undefined, so main()
\* never reaches a slot whose thread it has joined.
NeverJoinedTwice ==
    at # "sleep" /\ doing = "loop" => phase[at] \in {"starting", "serving", "ended"}

\* The slots are what main() takes them for when it joins.
SlotsSound == TypeOK /\ NeverJoinedTwice

\* A slot whose dispatcher is serving its own port keeps it: the control
\* dispatchers created in the wrong slots push nobody out.
ServingKept ==
    [][\A s \in Slots : phase[s] = "serving" /\ role[s] # "client"
                          => phase'[s] = "serving" /\ role'[s] = role[s]]_vars

\* Whatever main() creates in whichever slot, agents find a control
\* dispatcher in the end, and for good.
ControlServed == <>[]Serves("control") /\ ServingKept

\* main() restarts the dispatchers that fell.
DispatchersRestarted == \A r \in Roles : phase[r] = "ended" ~> Serves(r)
=============================================================================
