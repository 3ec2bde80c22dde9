--------------------------- MODULE AgentDirectory ---------------------------
(***************************************************************************)
(* Which agents the server knows (get_all_agents, CLMSG_AGLIST and         *)
(* CLMSG_AGPROP in ClientDispatcher.cpp): each request forks a child that  *)
(* makes a script where there is none and becomes the shell that runs it,  *)
(* listing the directories that logins have made (Agent.h).  The thread    *)
(* waits for the child before it reads, so a request and its child are one *)
(* sequence of steps.                                                      *)
(*                                                                         *)
(* What was read is walked with strtok(), whose pointer into the text is   *)
(* one for the process: requests that walk at a time go on in the text of  *)
(* whoever called it with a text last, and so do count queries, which walk *)
(* their conditions with it.  Ids are taken in any order.                  *)
(***************************************************************************)
EXTENDS Naturals, FiniteSets

CONSTANTS Requests, NoRequest, Agents,
          Old,        \* agents that an earlier run of the server has known
          Asked,      \* bound: the agents whose properties are asked for
          All,        \* what a request for the list asks about
          NoAgent,    \* also a piece of text that is the id of no agent
          ReadCap,    \* ids that one read() of MSG_MAX_SIZE bytes takes
          PipeCap     \* ids that a pipe holds

\* What the constants are assumed to be.
DirectoryAssumption ==
    /\ IsFiniteSet(Agents) /\ Old \subseteq Agents /\ Asked \subseteq Agents
    /\ All \notin Agents \cup {NoAgent} /\ NoAgent \notin Agents
    /\ NoRequest \notin Requests
    /\ ReadCap \in Nat /\ PipeCap \in Nat

VARIABLES script,          \* aglist_script
          dirs,            \* directories under logs/
          info,            \* the file "info" in them
          login, loginAt,  \* the agent that logs in (clreq_mutex: one at a time)
          rpc, ask,        \* of each request: where, and about whom
          out,             \* what its child printed, or the ids it came across
          saved,           \* strtok's pointer: whose text, and what is left of it
          result,          \* what it was answered
          since            \* agents it has to find: there from its beginning

loginVars == <<dirs, info, login, loginAt>>
vars == <<script, loginVars, rpc, ask, out, saved, result, since>>

Pieces == Agents \cup {NoAgent}

\* The pointer leads into the conditions of a query, or the stack of a thread that
\* has ended.
Nobodys == [of |-> NoRequest, left |-> {}]

TypeOK ==
    /\ script \in {"absent", "empty", "full"}
    /\ dirs \subseteq Agents
    /\ info \in [Agents -> {"absent", "empty", "full"}]
    /\ login \in IF loginAt \in {"none", "wedged"} THEN {NoAgent} ELSE Agents
    /\ loginAt \in {"none", "dir", "open", "write", "wedged"}
    /\ rpc \in [Requests -> {"access", "open", "write", "exec", "run",
                             "print", "read", "walk", "info", "infoRead", "done"}]
    /\ ask \in [Requests -> Agents \cup {All}]
    /\ out \in [Requests -> SUBSET Pieces]
    /\ saved \in [of : Requests \cup {NoRequest}, left : SUBSET Pieces]
    /\ result \in [Requests -> {"none", "failed", "list", "info", "unable", "unknown"}]
    /\ since \in [Requests -> SUBSET Agents]

Init ==
    /\ script \in {"absent", "full"}
    /\ dirs = Old
    /\ info = [a \in Agents |-> IF a \in Old THEN "full" ELSE "absent"]
    /\ login = NoAgent /\ loginAt = "none"
    /\ rpc = [r \in Requests |-> "done"]
    /\ ask = [r \in Requests |-> All]
    /\ out = [r \in Requests |-> {}]
    /\ saved = Nobodys
    /\ result = [r \in Requests |-> "none"]
    /\ since = [r \in Requests |-> {}]

-----------------------------------------------------------------------------
(* Agent::login, run with clreq_mutex locked.                              *)

LoginGoes(from, to) == loginAt = from /\ loginAt' = to

BeginLogin(a) ==
    /\ LoginGoes("none", "dir") /\ login' = a
    /\ UNCHANGED <<script, dirs, info, rpc, ask, out, saved, result, since>>

MakeDir ==
    /\ LoginGoes("dir", "open")
    /\ dirs' = dirs \cup {login}
    /\ UNCHANGED <<script, info, login, rpc, ask, out, saved, result, since>>

\* O_TRUNC: from here on a request may find the file empty.
OpenInfo ==
    /\ LoginGoes("open", "write")
    /\ info' = [info EXCEPT ![login] = "empty"]
    /\ since' = [r \in Requests |->
                    IF ask[r] = login /\ rpc[r] # "done" THEN {} ELSE since[r]]
    /\ UNCHANGED <<script, dirs, login, rpc, ask, out, saved, result>>

WriteInfo ==
    /\ LoginGoes("write", "none")
    /\ info' = [info EXCEPT ![login] = "full"]
    /\ login' = NoAgent
    /\ UNCHANGED <<script, dirs, rpc, ask, out, saved, result, since>>

\* Any call may fail, and clreq_mutex stays locked.
LoginFails ==
    /\ loginAt \in {"dir", "open", "write"} /\ loginAt' = "wedged"
    /\ login' = NoAgent
    /\ UNCHANGED <<script, dirs, info, rpc, ask, out, saved, result, since>>

-----------------------------------------------------------------------------
(* A request and its child.                                                *)

\* Somebody is about to make the script anew, or has it open for writing.
Making == {r \in Requests : rpc[r] \in {"open", "write"}}
Settled == script = "full" /\ Making = {}

Goes(r, from, to) == rpc[r] = from /\ rpc' = [rpc EXCEPT ![r] = to]

\* The text that request r has walked ends with it.
Ends(r, from, how) ==
    /\ Goes(r, from, "done")
    /\ result' = [result EXCEPT ![r] = how]
    /\ saved' = IF saved.of = r THEN Nobodys ELSE saved

Begin(r, a) ==
    /\ rpc[r] = "done" /\ rpc' = [rpc EXCEPT ![r] = "access"]
    /\ ask' = [ask EXCEPT ![r] = a]
    /\ out' = [out EXCEPT ![r] = {}]
    /\ result' = [result EXCEPT ![r] = "none"]
    /\ since' = [since EXCEPT ![r] =
                    IF ~Settled THEN {}
                    ELSE IF a = All THEN dirs
                    ELSE {b \in dirs : b = a /\ info[b] = "full"}]
    /\ UNCHANGED <<script, loginVars, saved>>

\* Mutant of Access: the script is made anew by each request.
AccessNot(r) ==
    /\ Goes(r, "access", "open")
    /\ UNCHANGED <<script, loginVars, ask, out, saved, result, since>>

Access(r) ==
    /\ Goes(r, "access", IF script = "absent" THEN "open" ELSE "exec")
    /\ UNCHANGED <<script, loginVars, ask, out, saved, result, since>>

\* An open() that fails is tried again, whatever the reason.
OpenScript(r) ==
    /\ Goes(r, "open", "write")
    /\ script' = "empty"
    /\ UNCHANGED <<loginVars, ask, out, saved, result, since>>

\* Written and closed.
WriteScript(r) ==
    /\ Goes(r, "write", "exec")
    /\ script' = "full"
    /\ UNCHANGED <<loginVars, ask, out, saved, result, since>>

\* A file that is open for writing is not executed (ETXTBSY).
Exec(r) ==
    /\ \A s \in Requests : rpc[s] # "write"
    /\ Goes(r, "exec", "run")
    /\ UNCHANGED <<script, loginVars, ask, out, saved, result, since>>

\* fork, write, close, dup2, exec, open or read fails.
Fails(r) ==
    /\ rpc[r] \in {"access", "write", "exec", "read", "info", "infoRead"}
    /\ Ends(r, rpc[r], "failed")
    /\ out' = [out EXCEPT ![r] = {}]
    /\ since' = [since EXCEPT ![r] = {}]
    /\ UNCHANGED <<script, loginVars, ask>>

\* The shell reads the script, of which nothing may be left, and runs it.
Run(r) ==
    /\ Goes(r, "run", "print")
    /\ out' = [out EXCEPT ![r] = IF script = "full" THEN dirs ELSE {}]
    /\ UNCHANGED <<script, loginVars, ask, saved, result, since>>

\* Mutant of ChildPrints: it needs room that is never there.
ChildPrintsLess(r) ==
    /\ Cardinality(out[r]) < PipeCap
    /\ Goes(r, "print", "read")
    /\ UNCHANGED <<script, loginVars, ask, out, saved, result, since>>

\* Nobody reads while it prints: the thread waits for the child to end.
ChildPrints(r) ==
    /\ Cardinality(out[r]) <= PipeCap
    /\ Goes(r, "print", "read")
    /\ UNCHANGED <<script, loginVars, ask, out, saved, result, since>>

\* One read(), whatever it leaves.
Readable(r) ==
    IF Cardinality(out[r]) <= ReadCap THEN {out[r]}
    ELSE {list \in SUBSET out[r] : Cardinality(list) = ReadCap}

\* Requests in whose walk another thread calls strtok() may miss ids.
Disturbs(r) ==
    since' = [q \in Requests |-> IF q # r /\ rpc[q] = "walk" THEN {} ELSE since[q]]

\* strtok() returned piece.
Takes(r, from, piece) ==
    /\ Goes(r, from, IF piece = ask[r] THEN "info" ELSE "walk")
    /\ UNCHANGED result

\* strtok() returned null.
WalkEnds(r, from) == Ends(r, from, IF ask[r] = All THEN "list" ELSE "unknown")

\* read() and strtok(buf, ..).
ReadList(r) ==
    /\ \E list \in Readable(r) :
          \/ \E piece \in list : /\ Takes(r, "read", piece)
                                 /\ out' = [out EXCEPT ![r] = {piece}]
                                 /\ saved' = [of |-> r, left |-> list \ {piece}]
          \/ list = {} /\ WalkEnds(r, "read") /\ UNCHANGED out
    /\ Disturbs(r)
    /\ UNCHANGED <<script, loginVars, ask>>

\* strtok(nullptr, ..).  In a text that is nobody's it may find anything: the id
\* that is looked for, or something else.
NextToken(r) ==
    /\ \/ \E piece \in IF saved = Nobodys THEN Pieces \cap {ask[r], NoAgent}
                        ELSE saved.left :
             /\ Takes(r, "walk", piece)
             /\ out' = [out EXCEPT ![r] = @ \cup {piece}]
             /\ saved' = [saved EXCEPT !.left = @ \ {piece}]
       \/ saved.left = {} /\ WalkEnds(r, "walk") /\ UNCHANGED out
    /\ Disturbs(r)
    /\ UNCHANGED <<script, loginVars, ask>>

\* A count query calls strtok() with its conditions, or takes the rest of a list,
\* which has no quotation mark, for a piece of them.
QueryToken ==
    /\ saved' \in {Nobodys, [saved EXCEPT !.left = {}]}
    /\ Disturbs(NoRequest)
    /\ UNCHANGED <<script, loginVars, rpc, ask, out, result>>

OpenInfoOf(r) ==
    /\ rpc[r] = "info"
    /\ IF info[ask[r]] = "absent" THEN Ends(r, "info", "unable")
       ELSE Goes(r, "info", "infoRead") /\ UNCHANGED <<saved, result>>
    /\ UNCHANGED <<script, loginVars, ask, out, since>>

\* An empty answer is taken for an agent that was not found.
ReadInfoOf(r) ==
    /\ rpc[r] = "infoRead"
    /\ Ends(r, "infoRead", IF info[ask[r]] = "full" THEN "info" ELSE "unknown")
    /\ UNCHANGED <<script, loginVars, ask, out, since>>

LoginStep ==
    (\E a \in Agents : BeginLogin(a)) \/ MakeDir \/ OpenInfo \/ WriteInfo \/ LoginFails

\* All that a request does but opening the script, which may fail for ever.
RequestStep(r) ==
    \/ Access(r) \/ WriteScript(r) \/ Exec(r) \/ Fails(r)
    \/ Run(r) \/ ChildPrints(r) \/ ReadList(r) \/ NextToken(r)
    \/ OpenInfoOf(r) \/ ReadInfoOf(r)

Next ==
    \/ LoginStep \/ QueryToken
    \/ \E r \in Requests : \/ \E a \in Asked \cup {All} : Begin(r, a)
                           \/ RequestStep(r) \/ OpenScript(r)

Spec == Init /\ [][Next]_vars

\* The children and the threads that wait for them run.
FairSpec == Spec /\ \A r \in Requests : WF_vars(RequestStep(r))

-----------------------------------------------------------------------------
(* Properties.                                                             *)

\* A request that began when the script was complete and nobody was making it
\* anew, that no call failed and in whose walk nobody else called strtok(), lists
\* every agent known then, or shows the properties of the one asked for unless
\* that one logged in again meanwhile.
KnownAreFound ==
    \A r \in Requests :
        rpc[r] = "done" /\ Cardinality(dirs) <= ReadCap =>
            /\ since[r] \subseteq out[r]
            /\ ask[r] \in since[r] => result[r] = "info"

\* A request is answered, unless its child can not open the script, or prints
\* more than the pipe holds: both stop it and its thread for ever; or its walk finds
\* no end in texts that are not its own.
RequestAnswered ==
    \A r \in Requests :
        rpc[r] # "done" ~> \/ rpc[r] = "done"
                           \/ [](rpc[r] = "open")
                           \/ [](rpc[r] = "print" /\ Cardinality(out[r]) > PipeCap)
                           \/ [](rpc[r] = "walk") /\ []<>(saved.of # r)
=============================================================================
