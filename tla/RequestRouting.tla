--------------------------- MODULE RequestRouting ---------------------------
(***************************************************************************)
(* A client request that an agent has to answer: the thread that treats it *)
(* (default branch of fnc_treat_client), the list of waiting requests      *)
(* (ag_cl_common.h), Agent::send_request, and treat(), by which an agent's *)
(* control listener hands an answer to the waiting thread.                 *)
(*                                                                         *)
(* The thread names itself to the agent by its pthread_t, which the answer *)
(* brings back, and lends the listener a buffer on its stack.  After the   *)
(* thread ended, the pthread_t and the stack may serve a new thread.       *)
(*                                                                         *)
(* agentList and clreqHolder belong to the agents' side; here they change  *)
(* as EnvStep lets them, in Server as AgentSession does.                   *)
(***************************************************************************)
EXTENDS Naturals, FiniteSets, SequencesExt

CONSTANTS Sessions, NoSession,
          Requests, NoRequest,
          Tids, NoTid,
          IdOf,          \* the id an agent logged in with, by session
          WantedId,      \* the agent id a request names
          MaxTries       \* polls of the answer, one second apart (4)

ASSUME RoutingAssumption ==
    /\ NoSession \notin Sessions
    /\ NoRequest \notin Requests
    /\ NoTid \notin Tids
    /\ MaxTries \in Nat \ {0}

VARIABLES agentList, clreqHolder,
          rpc,           \* program counter of the thread treating a request
          tid,           \* its pthread_t, kept after its end
          seen,          \* agent_list when its unlocked traversal began
          target,        \* my_agent
          tries,
          rsp,           \* its response buffer
          reply,         \* what the client was sent
          registry,      \* requests_list
          pipe,          \* per session: requests sent, answers not yet read
          walk,          \* per session: requests_list when the search began
          hand           \* per session: the copy its listener is making

reqVars == <<rpc, tid, seen, target, tries, rsp, reply>>
handVars == <<pipe, walk, hand>>
vars == <<agentList, clreqHolder, reqVars, registry, handVars>>

PC == {"idle", "start", "lookup", "register", "send", "poll", "unregister",
       "reply", "done"}

\* What a buffer holds: nothing, the error text, part or all of an answer.
Text == [kind : {"none", "offline", "part", "whole"},
         of : Requests \cup {NoRequest}]
Nothing == [kind |-> "none", of |-> NoRequest]
Offline == [kind |-> "offline", of |-> NoRequest]

\* step: the Request is searched, was found, or half of the answer is copied.
Hand == [step : {"idle", "search", "found", "half"}, to : Requests \cup {NoRequest},
         of : Requests \cup {NoRequest}]
Idle == [step |-> "idle", to |-> NoRequest, of |-> NoRequest]

TypeOK ==
    /\ agentList \in Seq(Sessions)
    /\ clreqHolder \in Sessions \cup {NoSession}
    /\ rpc \in [Requests -> PC]
    /\ tid \in [Requests -> Tids \cup {NoTid}]
    /\ seen \in [Requests -> Seq(Sessions)]
    /\ target \in [Requests -> Sessions \cup {NoSession}]
    /\ tries \in [Requests -> 0 .. MaxTries]
    /\ rsp \in [Requests -> Text]
    /\ reply \in [Requests -> Text]
    /\ registry \in Seq(Requests)
    /\ pipe \in [Sessions -> Seq(Requests)]
    /\ walk \in [Sessions -> Seq(Requests)]
    /\ hand \in [Sessions -> Hand]

Init ==
    /\ agentList = <<>>
    /\ clreqHolder = NoSession
    /\ rpc = [r \in Requests |-> "idle"]
    /\ tid = [r \in Requests |-> NoTid]
    /\ seen = [r \in Requests |-> <<>>]
    /\ target = [r \in Requests |-> NoSession]
    /\ tries = [r \in Requests |-> 0]
    /\ rsp = [r \in Requests |-> Nothing]
    /\ reply = [r \in Requests |-> Nothing]
    /\ registry = <<>>
    /\ pipe = [s \in Sessions |-> <<>>]
    /\ walk = [s \in Sessions |-> <<>>]
    /\ hand = [s \in Sessions |-> Idle]

Alive(r) == rpc[r] \notin {"idle", "done"}

Goes(r, from, to) == rpc[r] = from /\ rpc' = [rpc EXCEPT ![r] = to]

-----------------------------------------------------------------------------
(* The thread that treats request r.                                       *)

\* pthread_create: no two living threads share a pthread_t.
Spawn(r, t) ==
    /\ \A q \in Requests : tid[q] = t => ~Alive(q)
    /\ Goes(r, "idle", "start")
    /\ tid' = [tid EXCEPT ![r] = t]
    /\ UNCHANGED <<agentList, clreqHolder, seen, target, tries, rsp, reply,
                   registry, handVars>>

\* agent_list is walked without agent_list_lock.
LookupBegin(r) ==
    /\ Goes(r, "start", "lookup")
    /\ seen' = [seen EXCEPT ![r] = agentList]
    /\ UNCHANGED <<agentList, clreqHolder, tid, target, tries, rsp, reply,
                   registry, handVars>>

Matching(r, list) == {s \in Range(list) : IdOf[s] = WantedId[r]}

\* The loop has no break: the last match counts.
LastMatch(r, list) ==
    {list[i] : i \in {k \in DOMAIN list :
                        /\ list[k] \in Matching(r, list)
                        /\ \A j \in k + 1 .. Len(list) :
                              list[j] \notin Matching(r, list)}}

\* When the vector changed meanwhile, entries may have been skipped or read
\* from where they were before.
Found(r) ==
    IF seen[r] # agentList
    THEN Matching(r, seen[r]) \cup Matching(r, agentList) \cup {NoSession}
    ELSE IF Matching(r, agentList) = {} THEN {NoSession}
    ELSE LastMatch(r, agentList)

LookupEnd(r) ==
    /\ \E s \in Found(r) :
          /\ target' = [target EXCEPT ![r] = s]
          /\ IF s = NoSession
             THEN Goes(r, "lookup", "reply") /\ rsp' = [rsp EXCEPT ![r] = Offline]
             ELSE Goes(r, "lookup", "register") /\ UNCHANGED rsp
    /\ seen' = [seen EXCEPT ![r] = <<>>]
    /\ UNCHANGED <<agentList, clreqHolder, tid, tries, reply, registry,
                   handVars>>

\* Mutant of Register: the mutex is not waited for.
RegisterFree(r) ==
    /\ Goes(r, "register", "send")
    /\ registry' = Append(registry, r)
    /\ UNCHANGED <<agentList, clreqHolder, tid, seen, target, tries, rsp,
                   reply, handVars>>

Register(r) ==
    /\ clreqHolder = NoSession
    /\ Goes(r, "register", "send")
    /\ registry' = Append(registry, r)
    /\ UNCHANGED <<agentList, clreqHolder, tid, seen, target, tries, rsp,
                   reply, handVars>>

\* The request reaches the agent, or the connection is gone.
SendRequest(r) ==
    /\ Goes(r, "send", "poll")
    /\ \/ pipe' = [pipe EXCEPT ![target[r]] = Append(@, r)]
       \/ UNCHANGED pipe
    /\ UNCHANGED <<agentList, clreqHolder, tid, seen, target, tries, rsp,
                   reply, registry, walk, hand>>

\* Mutants of Poll: one try more; the tries are not counted.
PollOnceMore(r) ==
    /\ rpc[r] = "poll"
    /\ tries' = [tries EXCEPT ![r] = @ + 1]
    /\ IF rsp[r].kind # "none" \/ tries[r] >= MaxTries
       THEN Goes(r, "poll", "unregister")
       ELSE UNCHANGED rpc
    /\ UNCHANGED <<agentList, clreqHolder, tid, seen, target, rsp, reply,
                   registry, handVars>>

PollUncounted(r) ==
    /\ rsp[r].kind # "none"
    /\ Goes(r, "poll", "unregister")
    /\ UNCHANGED <<agentList, clreqHolder, tid, seen, target, tries, rsp, reply,
                   registry, handVars>>

\* One turn of the loop: sleep a second, look at the buffer, count.
Poll(r) ==
    /\ rpc[r] = "poll"
    /\ tries' = [tries EXCEPT ![r] = @ + 1]
    /\ IF rsp[r].kind # "none" \/ tries[r] + 1 >= MaxTries
       THEN Goes(r, "poll", "unregister")
       ELSE UNCHANGED rpc
    /\ UNCHANGED <<agentList, clreqHolder, tid, seen, target, rsp, reply,
                   registry, handVars>>

\* Mutant of Unregister: the entry stays.
UnregisterNot(r) ==
    /\ clreqHolder = NoSession
    /\ Goes(r, "unregister", "reply")
    /\ UNCHANGED <<agentList, clreqHolder, tid, seen, target, tries, rsp,
                   reply, registry, handVars>>

Unregister(r) ==
    /\ clreqHolder = NoSession
    /\ Goes(r, "unregister", "reply")
    /\ \E i \in DOMAIN registry : /\ registry[i] = r
                                  /\ registry' = RemoveAt(registry, i)
    /\ UNCHANGED <<agentList, clreqHolder, tid, seen, target, tries, rsp,
                   reply, handVars>>

\* An empty buffer is not sent; then the thread ends.
Reply(r) ==
    /\ Goes(r, "reply", "done")
    /\ reply' = [reply EXCEPT ![r] = rsp[r]]
    /\ UNCHANGED <<agentList, clreqHolder, tid, seen, target, tries, rsp,
                   registry, handVars>>

-----------------------------------------------------------------------------
(* The control listener of session s in treat().                           *)

\* An answer arrives, in the order the agent got the requests, and get_Request
\* begins to walk requests_list, without clreq_mutex.
ReceiveAck(s) ==
    /\ hand[s] = Idle /\ pipe[s] # <<>>
    /\ pipe' = [pipe EXCEPT ![s] = Tail(@)]
    /\ walk' = [walk EXCEPT ![s] = registry]
    /\ hand' = [hand EXCEPT ![s] = [step |-> "search", to |-> NoRequest,
                                    of |-> Head(pipe[s])]]
    /\ UNCHANGED <<agentList, clreqHolder, reqVars, registry>>

\* Mutant of WithTid: whatever is registered is taken for the one meant.
WithTidAny(t, list) == Range(list)

\* Living threads differ in their ids: at most one of a list that stayed as it was.
WithTid(t, list) == {r \in Range(list) : tid[r] = t}

\* When the list changed meanwhile, an entry may have been missed, or met after
\* it had left.
Searched(s) ==
    LET t == tid[hand[s].of]
        met == WithTid(t, walk[s]) \cup WithTid(t, registry)
    IN  IF walk[s] # registry \/ met = {} THEN met \cup {NoRequest} ELSE met

SearchEnd(s) ==
    /\ hand[s].step = "search"
    /\ \E r \in Searched(s) :
          hand' = [hand EXCEPT ![s] = IF r = NoRequest THEN Idle
                                      ELSE [step |-> "found", to |-> r, of |-> hand[s].of]]
    /\ walk' = [walk EXCEPT ![s] = <<>>]
    /\ UNCHANGED <<agentList, clreqHolder, reqVars, registry, pipe>>

\* Mutant of WriteTo: the threads share their buffer.
WriteToAll(r, text) ==
    rsp' = [q \in Requests |-> IF Alive(q) THEN text ELSE rsp[q]]

\* bcopy writes to a stack: it reaches the thread that lives on it now.
WriteTo(r, text) ==
    rsp' = [q \in Requests |-> IF Alive(q) /\ tid[q] = tid[r] THEN text
                               ELSE rsp[q]]

CopyHalf(s) ==
    /\ hand[s].step = "found"
    /\ WriteTo(hand[s].to, [kind |-> "part", of |-> hand[s].of])
    /\ hand' = [hand EXCEPT ![s].step = "half"]
    /\ UNCHANGED <<agentList, clreqHolder, rpc, tid, seen, target, tries,
                   reply, registry, pipe, walk>>

CopyRest(s) ==
    /\ hand[s].step = "half"
    /\ WriteTo(hand[s].to, [kind |-> "whole", of |-> hand[s].of])
    /\ hand' = [hand EXCEPT ![s] = Idle]
    /\ UNCHANGED <<agentList, clreqHolder, rpc, tid, seen, target, tries,
                   reply, registry, pipe, walk>>

-----------------------------------------------------------------------------
(* The agents' side, as far as this side can tell.                         *)

EnvList ==
    /\ \/ \E s \in Sessions \ Range(agentList) : agentList' = Append(agentList, s)
       \/ \E i \in DOMAIN agentList : agentList' = RemoveAt(agentList, i)
    /\ UNCHANGED clreqHolder

EnvLock ==
    /\ IF clreqHolder = NoSession
       THEN clreqHolder' \in Sessions
       ELSE clreqHolder' = NoSession
    /\ UNCHANGED agentList

EnvStep == (EnvList \/ EnvLock) /\ UNCHANGED <<reqVars, registry, handVars>>

ThreadStep(r) ==
    \/ LookupBegin(r) \/ LookupEnd(r) \/ Register(r) \/ SendRequest(r)
    \/ Poll(r) \/ Unregister(r) \/ Reply(r)

Next ==
    \/ \E r \in Requests : ThreadStep(r) \/ \E t \in Tids : Spawn(r, t)
    \/ \E s \in Sessions : \/ ReceiveAck(s) \/ SearchEnd(s)
                           \/ CopyHalf(s) \/ CopyRest(s)
    \/ EnvStep

Spec == Init /\ [][Next]_vars

-----------------------------------------------------------------------------
(* Properties.                                                             *)

\* requests_list holds the threads between register_Request and
\* unregister_Request, each once: it never keeps a pointer into the stack of a
\* thread that ended.
Waiting == {"send", "poll", "unregister"}
RegistryExact ==
    /\ IsInjective(registry)
    /\ Range(registry) = {r \in Requests : rpc[r] \in Waiting}

\* get_Request is unambiguous: the registered threads have different ids.
RegistryUnambiguous ==
    \A i, j \in DOMAIN registry : tid[registry[i]] = tid[registry[j]] => i = j

\* requests_list tells who waits, and which of them an answer is for.
RegistrySound == RegistryExact /\ RegistryUnambiguous

\* Request q gave up before it had its answer, and the thread of r got the id
\* and the stack that q had.
TakenOver(q, r) == /\ rpc[q] = "done" /\ tid[q] = tid[r]
                   /\ reply[q] # [kind |-> "whole", of |-> q]

\* The Request that get_Request finds is the one the answer is for, unless the
\* answer comes too late and the asker's thread id has a new owner: an answer
\* never goes astray while its asker waits for it.
HandedToAsker ==
    \A s \in Sessions : hand[s].step \in {"found", "half"} =>
        hand[s].to = hand[s].of \/ TakenOver(hand[s].of, hand[s].to)

\* A client is answered with the answer to its own request, or with one that came
\* too late for the former owner of the thread's id.
AnswerOwn ==
    \A r \in Requests : reply[r].kind \in {"part", "whole"} =>
        reply[r].of = r \/ TakenOver(reply[r].of, r)

\* What the documentation says of the control listener: it passes an answer on to the
\* thread with the given id if that is still alive.  (It may end between the search
\* and the copy.)
HandedToLiving ==
    \A s \in Sessions : hand[s].step \in {"found", "half"} => Alive(hand[s].to)
=============================================================================
