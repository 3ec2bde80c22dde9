------------------------ MODULE RequestRoutingProofs ------------------------
(***************************************************************************)
(* Safety of RequestRouting for every set of sessions, requests and        *)
(* thread ids, which threads take over from those that ended.              *)
(***************************************************************************)
EXTENDS RequestRouting, ListLemmas, TLAPS

-----------------------------------------------------------------------------
(* The inductive invariant.                                                *)

PCInv ==
    \A r \in Requests :
        /\ rpc[r] = "idle" <=> tid[r] = NoTid
        /\ rpc[r] \in {"register", "send"} => target[r] \in Sessions
        /\ rpc[r] \in {"idle", "start", "lookup", "register", "send"} => tries[r] = 0
        /\ rpc[r] = "poll" => tries[r] < MaxTries

TidInv ==
    \A q, r \in Requests : Alive(q) /\ Alive(r) /\ tid[q] = tid[r] => q = r

IInv == TypeOK /\ PCInv /\ TidInv /\ RegistryExact

LEMMA InvInit == Init => IInv
<1> SUFFICES ASSUME Init PROVE IInv
  OBVIOUS
<1>1. TypeOK
  BY RoutingAssumption DEF Init, TypeOK, PC, Text, Hand, Nothing, Idle
<1>2. PCInv /\ TidInv
  BY RoutingAssumption DEF Init, PCInv, TidInv, Alive
<1>3. RegistryExact
  BY DEF Init, RegistryExact, IsInjective, Range, Waiting
<1> QED BY <1>1, <1>2, <1>3 DEF IInv

LEMMA FoundIsSession ==
    ASSUME TypeOK, NEW r \in Requests
    PROVE  Found(r) \subseteq Sessions \cup {NoSession}
<1>1. ASSUME NEW list \in Seq(Sessions) PROVE Range(list) \subseteq Sessions
  BY DEF Range
<1>2. \A list \in Seq(Sessions) : Matching(r, list) \subseteq Sessions
  BY <1>1 DEF Matching
<1>3. LastMatch(r, agentList) \subseteq Sessions
  BY DEF TypeOK, LastMatch
<1>4. agentList \in Seq(Sessions) /\ seen[r] \in Seq(Sessions)
  BY DEF TypeOK
<1> QED BY <1>2, <1>3, <1>4 DEF Found

LEMMA SearchedAreRequests ==
    ASSUME TypeOK, NEW u \in Sessions
    PROVE  /\ Searched(u) \subseteq Requests \cup {NoRequest}
           /\ \A r \in Searched(u) : r # NoRequest =>
                 /\ r \in Range(walk[u]) \cup Range(registry)
                 /\ tid[r] = tid[hand[u].of]
<1>1. \A list \in Seq(Requests) : Range(list) \subseteq Requests
  BY DEF Range
<1>2. walk[u] \in Seq(Requests) /\ registry \in Seq(Requests)
  BY DEF TypeOK
<1> QED BY <1>1, <1>2 DEF Searched, WithTid

LEMMA TypeStep == IInv /\ [Next]_vars => TypeOK'
<1> SUFFICES ASSUME TypeOK, PCInv, RegistryExact, [Next]_vars PROVE TypeOK'
  BY DEF IInv
<1> USE RoutingAssumption
<1>1. ASSUME NEW q \in Requests, NEW t \in Tids, Spawn(q, t) PROVE TypeOK'
  BY <1>1 DEF Spawn, Goes, TypeOK, PC, Text, Hand, handVars, Nothing, Offline,
     Idle, PCInv
<1>2. ASSUME NEW q \in Requests, LookupBegin(q) PROVE TypeOK'
  BY <1>2 DEF LookupBegin, Goes, handVars, TypeOK, PC, Text, Hand, Nothing,
     Offline, Idle, PCInv
<1>3. ASSUME NEW q \in Requests, LookupEnd(q) PROVE TypeOK'
  <2>1. PICK s \in Sessions \cup {NoSession} :
           /\ target' = [target EXCEPT ![q] = s]
           /\ IF s = NoSession
              THEN Goes(q, "lookup", "reply") /\ rsp' = [rsp EXCEPT ![q] = Offline]
              ELSE Goes(q, "lookup", "register") /\ UNCHANGED rsp
    BY <1>3, FoundIsSession DEF LookupEnd
  <2> QED
    <3>1. Offline \in Text
      BY DEF Offline, Text
    <3>2. rpc' \in [Requests -> PC]
      <4>1. \/ rpc' = [rpc EXCEPT ![q] = "reply"]
            \/ rpc' = [rpc EXCEPT ![q] = "register"]
        BY <2>1 DEF Goes
      <4> QED BY <4>1 DEF TypeOK, PC
    <3>3. rsp' \in [Requests -> Text]
      BY <2>1, <3>1 DEF TypeOK
    <3>4. target' \in [Requests -> Sessions \cup {NoSession}]
      BY <2>1 DEF TypeOK
    <3>5. seen' \in [Requests -> Seq(Sessions)]
      BY <1>3 DEF LookupEnd, TypeOK
    <3> QED BY <1>3, <3>2, <3>3, <3>4, <3>5 DEF LookupEnd, handVars, TypeOK
<1>4. ASSUME NEW q \in Requests, Register(q) PROVE TypeOK'
  <2>1. registry' \in Seq(Requests) /\ rpc' \in [Requests -> PC]
    BY <1>4 DEF Register, Goes, TypeOK, PC
  <2> QED BY <1>4, <2>1 DEF Register, handVars, TypeOK
<1>5. ASSUME NEW q \in Requests, SendRequest(q) PROVE TypeOK'
  <2>1. target[q] \in Sessions
    BY <1>5 DEF SendRequest, Goes, TypeOK, PCInv
  <2>2. pipe' \in [Sessions -> Seq(Requests)]
    <3>1. \/ pipe' = [pipe EXCEPT ![target[q]] = Append(pipe[target[q]], q)]
          \/ pipe' = pipe
      BY <1>5 DEF SendRequest
    <3>2. Append(pipe[target[q]], q) \in Seq(Requests)
      BY <2>1 DEF TypeOK
    <3> QED BY <2>1, <3>1, <3>2 DEF TypeOK
  <2>3. rpc' \in [Requests -> PC]
    BY <1>5 DEF SendRequest, Goes, TypeOK, PC
  <2> QED BY <1>5, <2>2, <2>3 DEF SendRequest, TypeOK
<1>6. ASSUME NEW q \in Requests, Poll(q) PROVE TypeOK'
  <2>1. tries' \in [Requests -> 0 .. MaxTries]
    BY <1>6 DEF Poll, TypeOK, PCInv
  <2>2. rpc' \in [Requests -> PC]
    BY <1>6, ZenonT(30) DEF Poll, Goes, TypeOK, PC
  <2> QED BY <1>6, <2>1, <2>2 DEF Poll, handVars, TypeOK
<1>7. ASSUME NEW q \in Requests, Unregister(q) PROVE TypeOK'
  <2>1. registry' \in Seq(Requests)
    BY <1>7, RemoveAtIsShift DEF Unregister, TypeOK
  <2> QED BY <1>7, <2>1 DEF Unregister, Goes, handVars, TypeOK, PC
<1>8. ASSUME NEW q \in Requests, Reply(q) PROVE TypeOK'
  BY <1>8 DEF Reply, Goes, handVars, TypeOK, PC, Text, Hand, Nothing, Offline,
     Idle, PCInv
<1>9. ASSUME NEW u \in Sessions, ReceiveAck(u) PROVE TypeOK'
  <2>1. Head(pipe[u]) \in Requests /\ pipe' \in [Sessions -> Seq(Requests)]
    BY <1>9 DEF ReceiveAck, TypeOK
  <2>2. [step |-> "search", to |-> NoRequest, of |-> Head(pipe[u])] \in Hand
    BY <2>1 DEF Hand
  <2>3. hand' \in [Sessions -> Hand]
    BY <1>9, <2>2 DEF ReceiveAck, TypeOK
  <2>4. walk' \in [Sessions -> Seq(Requests)]
    BY <1>9 DEF ReceiveAck, TypeOK
  <2> QED BY <1>9, <2>1, <2>3, <2>4 DEF ReceiveAck, reqVars, handVars, TypeOK
<1>14. ASSUME NEW u \in Sessions, SearchEnd(u) PROVE TypeOK'
  <2>1. PICK r \in Requests \cup {NoRequest} :
           hand' = [hand EXCEPT ![u] = IF r = NoRequest THEN Idle
                                      ELSE [step |-> "found", to |-> r, of |-> hand[u].of]]
    BY <1>14, SearchedAreRequests DEF SearchEnd
  <2>2. hand[u].of \in Requests \cup {NoRequest}
    BY DEF TypeOK, Hand
  <2>3. hand' \in [Sessions -> Hand]
    BY <2>1, <2>2 DEF TypeOK, Hand, Idle
  <2>4. walk' \in [Sessions -> Seq(Requests)]
    BY <1>14 DEF SearchEnd, TypeOK
  <2> QED BY <1>14, <2>3, <2>4 DEF SearchEnd, reqVars, handVars, TypeOK
<1>10. ASSUME NEW u \in Sessions, CopyHalf(u) PROVE TypeOK'
  BY <1>10, ZenonT(30) DEF CopyHalf, WriteTo, TypeOK, PC, Text, Hand, Nothing,
     Offline, Idle, PCInv
<1>11. ASSUME NEW u \in Sessions, CopyRest(u) PROVE TypeOK'
  BY <1>11 DEF CopyRest, WriteTo, TypeOK, PC, Text, Hand, Nothing,
     Offline, Idle, PCInv
<1>12. ASSUME EnvStep PROVE TypeOK'
  <2>1. ASSUME NEW i \in DOMAIN agentList
        PROVE  RemoveAt(agentList, i) \in Seq(Sessions)
    BY RemoveAtIsShift DEF TypeOK
  <2>2. agentList' \in Seq(Sessions)
    <3>1. CASE EnvList
      <4>1. ASSUME NEW s \in Sessions, agentList' = Append(agentList, s)
            PROVE  agentList' \in Seq(Sessions)
        BY <4>1 DEF TypeOK
      <4>2. ASSUME NEW i \in DOMAIN agentList, agentList' = RemoveAt(agentList, i)
            PROVE  agentList' \in Seq(Sessions)
        BY <4>2, <2>1
      <4> QED BY <3>1, <4>1, <4>2 DEF EnvList
    <3>2. CASE EnvLock
      BY <3>2 DEF EnvLock, TypeOK
    <3> QED BY <1>12, <3>1, <3>2 DEF EnvStep
  <2> QED BY <1>12, <2>2 DEF EnvStep, EnvList, EnvLock, reqVars, handVars, TypeOK
<1>13. CASE UNCHANGED vars
  BY <1>13 DEF vars, reqVars, handVars, TypeOK, PC, Text, Hand, Nothing,
     Offline, Idle, PCInv
<1> QED
  BY <1>1, <1>2, <1>3, <1>4, <1>5, <1>6, <1>7, <1>8, <1>9, <1>10, <1>11,
     <1>12, <1>13, <1>14
     DEF Next, ThreadStep

LEMMA ThreadInvStep == IInv /\ [Next]_vars => PCInv' /\ TidInv'
<1> SUFFICES ASSUME TypeOK, PCInv, TidInv, [Next]_vars PROVE PCInv' /\ TidInv'
  BY DEF IInv
<1> USE RoutingAssumption
<1>1. ASSUME NEW q \in Requests, NEW t \in Tids, Spawn(q, t) PROVE PCInv' /\ TidInv'
  BY <1>1 DEF Spawn, Goes, TypeOK, PCInv, TidInv, Alive
<1>2. ASSUME NEW q \in Requests, LookupBegin(q) PROVE PCInv' /\ TidInv'
  BY <1>2 DEF LookupBegin, Goes, TypeOK, PCInv, TidInv, Alive
<1>3. ASSUME NEW q \in Requests, LookupEnd(q) PROVE PCInv' /\ TidInv'
  <2>1. PICK s \in Sessions \cup {NoSession} :
           /\ target' = [target EXCEPT ![q] = s]
           /\ rpc[q] = "lookup"
           /\ rpc' = [rpc EXCEPT ![q] = IF s = NoSession THEN "reply"
                                        ELSE "register"]
    BY <1>3, FoundIsSession DEF LookupEnd, Goes
  <2> QED
    BY <1>3, <2>1 DEF LookupEnd, TypeOK, PCInv, TidInv, Alive
<1>4. ASSUME NEW q \in Requests, Register(q) PROVE PCInv' /\ TidInv'
  BY <1>4 DEF Register, Goes, TypeOK, PCInv, TidInv, Alive
<1>5. ASSUME NEW q \in Requests, SendRequest(q) PROVE PCInv' /\ TidInv'
  BY <1>5 DEF SendRequest, Goes, TypeOK, PCInv, TidInv, Alive
<1>6. ASSUME NEW q \in Requests, Poll(q) PROVE PCInv' /\ TidInv'
  <2>1. TidInv'
    BY <1>6 DEF Poll, Goes, TypeOK, TidInv, Alive
  <2>2. /\ tries[q] \in Nat /\ tries' = [tries EXCEPT ![q] = tries[q] + 1]
        /\ UNCHANGED <<tid, target>>
        /\ \/ rpc' = [rpc EXCEPT ![q] = "unregister"]
           \/ rpc' = rpc /\ tries[q] + 1 < MaxTries
    BY <1>6 DEF Poll, Goes, TypeOK
  <2>3. PCInv'
    BY <1>6, <2>2 DEF Poll, TypeOK, PCInv
  <2> QED BY <2>1, <2>3
<1>7. ASSUME NEW q \in Requests, Unregister(q) PROVE PCInv' /\ TidInv'
  BY <1>7 DEF Unregister, Goes, TypeOK, PCInv, TidInv, Alive
<1>8. ASSUME NEW q \in Requests, Reply(q) PROVE PCInv' /\ TidInv'
  BY <1>8 DEF Reply, Goes, TypeOK, PCInv, TidInv, Alive
<1>9. CASE UNCHANGED <<rpc, tid, target, tries>>
  BY <1>9 DEF PCInv, TidInv, Alive
<1> QED
  BY <1>1, <1>2, <1>3, <1>4, <1>5, <1>6, <1>7, <1>8, <1>9
     DEF Next, ThreadStep, ReceiveAck, SearchEnd, CopyHalf, CopyRest, EnvStep, vars,
         reqVars, handVars

LEMMA RegistryStep == IInv /\ [Next]_vars => RegistryExact'
<1> SUFFICES ASSUME TypeOK, RegistryExact, [Next]_vars PROVE RegistryExact'
  BY DEF IInv
<1>1. ASSUME NEW q \in Requests, NEW t \in Tids, Spawn(q, t) PROVE RegistryExact'
  BY <1>1 DEF Spawn, Goes, TypeOK, RegistryExact, Waiting
<1>2. ASSUME NEW q \in Requests, LookupBegin(q) PROVE RegistryExact'
  BY <1>2 DEF LookupBegin, Goes, TypeOK, RegistryExact, Waiting
<1>3. ASSUME NEW q \in Requests, LookupEnd(q) PROVE RegistryExact'
  BY <1>3 DEF LookupEnd, Goes, TypeOK, RegistryExact, Waiting
<1>4. ASSUME NEW q \in Requests, Register(q) PROVE RegistryExact'
  <2>1. q \notin Range(registry)
    BY <1>4 DEF Register, Goes, RegistryExact, Waiting
  <2>2. IsInjective(registry') /\ Range(registry') = Range(registry) \cup {q}
    BY <1>4, <2>1, AppendNew DEF Register, RegistryExact, TypeOK
  <2> QED BY <1>4, <2>2 DEF Register, Goes, RegistryExact, Waiting, TypeOK
<1>5. ASSUME NEW q \in Requests, SendRequest(q) PROVE RegistryExact'
  BY <1>5 DEF SendRequest, Goes, TypeOK, RegistryExact, Waiting
<1>6. ASSUME NEW q \in Requests, Poll(q) PROVE RegistryExact'
  BY <1>6 DEF Poll, Goes, TypeOK, RegistryExact, Waiting
<1>7. ASSUME NEW q \in Requests, Unregister(q) PROVE RegistryExact'
  <2>1. PICK i \in DOMAIN registry : /\ registry[i] = q
                                      /\ registry' = RemoveAt(registry, i)
    BY <1>7 DEF Unregister
  <2>2. IsInjective(registry') /\ Range(registry') = Range(registry) \ {q}
    BY <2>1, RemoveAtOfInjective DEF RegistryExact, TypeOK
  <2> QED BY <1>7, <2>2 DEF Unregister, Goes, RegistryExact, Waiting, TypeOK
<1>8. ASSUME NEW q \in Requests, Reply(q) PROVE RegistryExact'
  BY <1>8 DEF Reply, Goes, TypeOK, RegistryExact, Waiting
<1>9. CASE UNCHANGED <<rpc, registry>>
  BY <1>9 DEF RegistryExact
<1> QED
  BY <1>1, <1>2, <1>3, <1>4, <1>5, <1>6, <1>7, <1>8, <1>9
     DEF Next, ThreadStep, ReceiveAck, SearchEnd, CopyHalf, CopyRest, EnvStep, vars,
         reqVars, handVars

\* The inductive invariant holds in every state, for all values of the
\* constants.
THEOREM Invariance == Spec => []IInv
<1>1. IInv /\ [Next]_vars => IInv'
  BY TypeStep, ThreadInvStep, RegistryStep DEF IInv
<1> QED BY InvInit, <1>1, PTL DEF Spec

\* The variables keep their types, for all values of the constants.
THEOREM TypeCorrect == Spec => []TypeOK
<1>1. IInv => TypeOK
  BY DEF IInv
<1> QED BY <1>1, Invariance, PTL

\* requests_list is exactly the threads that wait, and at most one of them has
\* the id that get_Request searches.
THEOREM RegistryHolds == Spec => []RegistrySound
<1>1. IInv => RegistrySound
  <2> SUFFICES ASSUME IInv, NEW i \in DOMAIN registry, NEW j \in DOMAIN registry,
                      tid[registry[i]] = tid[registry[j]]
               PROVE  i = j
    BY DEF IInv, RegistrySound, RegistryUnambiguous
  <2>1. /\ registry[i] \in Requests /\ registry[j] \in Requests
        /\ Alive(registry[i]) /\ Alive(registry[j])
    BY DEF IInv, TypeOK, RegistryExact, Range, Waiting, Alive
  <2>2. registry[i] = registry[j]
    BY <2>1 DEF IInv, TidInv
  <2> QED BY <2>2 DEF IInv, RegistryExact, IsInjective
<1> QED BY <1>1, Invariance, PTL

-----------------------------------------------------------------------------
(* Which answer reaches whom.  An answer that is owed, on its way or in a   *)
(* listener's hands, has not been given yet; whoever gets it is its asker   *)
(* or has the thread id of the asker, which then has ended.                *)

Sent(q) == rpc[q] \in {"poll", "unregister", "reply", "done"}
Whole(q) == [kind |-> "whole", of |-> q]

\* The request whose answer the listener of s holds.
Held(s) == IF hand[s].step = "idle" THEN {} ELSE {hand[s].of}
Owed(s) == Range(pipe[s]) \cup Held(s)

OweInv ==
    /\ \A s \in Sessions : IsInjective(pipe[s]) /\ Held(s) \cap Range(pipe[s]) = {}
    /\ \A s, t \in Sessions : s # t => Owed(s) \cap Owed(t) = {}
    /\ \A s \in Sessions : \A q \in Owed(s) :
          q \in Requests /\ Sent(q) /\ rsp[q] # Whole(q) /\ reply[q] # Whole(q)

\* r is q, or lives on its stack.
Heir(q, r) == q = r \/ (rpc[q] = "done" /\ tid[q] = tid[r])

SearchInv ==
    \A s \in Sessions :
        /\ \A r \in Range(walk[s]) : rpc[r] # "idle"
        /\ hand[s].step = "search" => \A r \in Range(walk[s]) :
              tid[r] = tid[hand[s].of] => Heir(hand[s].of, r)

HandInv ==
    \A s \in Sessions : hand[s].step \in {"found", "half"} =>
        hand[s].to \in Requests /\ Heir(hand[s].of, hand[s].to)

TextInv(text) ==
    \A r \in Requests : text[r].kind \in {"part", "whole"} =>
        /\ text[r].of \in Requests /\ Sent(text[r].of)
        /\ text[r].of = r \/ TakenOver(text[r].of, r)

OwnInv == OweInv /\ SearchInv /\ HandInv /\ TextInv(rsp) /\ TextInv(reply)

LEMMA OwnInit == Init => OwnInv
<1> SUFFICES ASSUME Init PROVE OwnInv
  OBVIOUS
<1>1. \A s \in Sessions : pipe[s] = <<>> /\ walk[s] = <<>> /\ hand[s] = Idle
  BY DEF Init
<1>2. IsInjective(<<>>) /\ Range(<<>>) = {}
  BY DEF IsInjective, Range
<1>3. OweInv
  BY <1>1, <1>2 DEF OweInv, Owed, Held, Idle
<1>4. SearchInv /\ HandInv
  BY <1>1, <1>2 DEF SearchInv, HandInv, Idle
<1>5. TextInv(rsp) /\ TextInv(reply)
  BY DEF Init, TextInv, Nothing
<1> QED BY <1>3, <1>4, <1>5 DEF OwnInv

\* What a thread has done stays done.
Settled ==
    \A q \in Requests :
        /\ rpc[q] # "idle" => rpc'[q] # "idle" /\ tid'[q] = tid[q]
        /\ Sent(q) => Sent(q)'
        /\ rpc[q] = "done" => rpc'[q] = "done" /\ reply'[q] = reply[q]

LEMMA Settles == IInv /\ [Next]_vars => Settled
<1> SUFFICES ASSUME TypeOK, [Next]_vars PROVE Settled
  BY DEF IInv
<1>1. ASSUME NEW q \in Requests, NEW t \in Tids, Spawn(q, t) PROVE Settled
  BY <1>1 DEF Spawn, Goes, TypeOK, Settled, Sent
<1>2. ASSUME NEW q \in Requests, LookupBegin(q) \/ Register(q) \/ SendRequest(q)
      PROVE  Settled
  BY <1>2 DEF LookupBegin, Register, SendRequest, Goes, TypeOK, Settled, Sent
<1>3. ASSUME NEW q \in Requests, LookupEnd(q) PROVE Settled
  BY <1>3 DEF LookupEnd, Goes, TypeOK, Settled, Sent
<1>4. ASSUME NEW q \in Requests, Poll(q) PROVE Settled
  <2>1. rpc' = rpc \/ rpc' = [rpc EXCEPT ![q] = "unregister"]
    BY <1>4 DEF Poll, Goes
  <2> QED BY <1>4, <2>1 DEF Poll, TypeOK, Settled, Sent
<1>5. ASSUME NEW q \in Requests, Unregister(q) \/ Reply(q) PROVE Settled
  BY <1>5 DEF Unregister, Reply, Goes, TypeOK, Settled, Sent
<1>6. CASE UNCHANGED <<rpc, tid, reply>>
  BY <1>6 DEF Settled, Sent
<1> QED
  BY <1>1, <1>2, <1>3, <1>4, <1>5, <1>6
     DEF Next, ThreadStep, ReceiveAck, SearchEnd, CopyHalf, CopyRest, EnvStep,
         vars, reqVars

LEMMA HeirKept ==
    ASSUME IInv, Settled, NEW q \in Requests, NEW r \in Requests
    PROVE  /\ Heir(q, r) => Heir(q, r)'
           /\ TakenOver(q, r) => TakenOver(q, r)'
<1>1. ASSUME rpc[q] = "done", tid[q] = tid[r]
      PROVE  /\ rpc'[q] = "done" /\ tid'[q] = tid'[r]
             /\ reply'[q] = reply[q]
  <2>1. tid[q] # NoTid /\ rpc[r] # "idle"
    BY <1>1 DEF IInv, PCInv
  <2> QED BY <1>1, <2>1 DEF Settled
<1> QED BY <1>1 DEF Heir, TakenOver

LEMMA WaiterIsHeir ==
    ASSUME IInv, NEW q \in Requests, NEW r \in Requests, Sent(q), Alive(r),
           tid[r] = tid[q]
    PROVE  Heir(q, r)
  BY DEF IInv, TidInv, Alive, Sent, Heir

LEMMA OwedAreSent ==
    ASSUME OweInv, NEW s \in Sessions, hand[s].step # "idle"
    PROVE  /\ hand[s].of \in Owed(s) /\ hand[s].of \in Requests /\ Sent(hand[s].of)
           /\ rpc[hand[s].of] # "idle"
  BY DEF OweInv, Owed, Held, Sent

LEMMA RegisteredLive ==
    ASSUME IInv
    PROVE  \A r \in Range(registry) : r \in Requests /\ Alive(r) /\ rpc[r] # "idle"
  BY DEF IInv, RegistryExact, Waiting, Alive

LEMMA HandStep == IInv /\ OwnInv /\ [Next]_vars => SearchInv' /\ HandInv'
<1> SUFFICES ASSUME IInv, OweInv, SearchInv, HandInv, [Next]_vars
             PROVE  SearchInv' /\ HandInv'
  BY DEF OwnInv
<1>1. Settled
  BY Settles
<1>2. \A s \in Sessions : Range(walk[s]) \subseteq Requests
  BY DEF IInv, TypeOK, Range
<1>3. \A s \in Sessions : walk'[s] = walk[s] =>
         \A r \in Range(walk[s]) : rpc'[r] # "idle" /\ tid'[r] = tid[r]
  BY <1>1, <1>2 DEF SearchInv, Settled
<1>4. ASSUME NEW s \in Sessions, walk'[s] = walk[s], hand'[s] = hand[s],
             hand[s].step = "search", NEW r \in Range(walk[s]),
             tid'[r] = tid'[hand[s].of]
      PROVE  Heir(hand[s].of, r)'
  <2>1. hand[s].of \in Requests /\ tid'[hand[s].of] = tid[hand[s].of]
    BY <1>1, <1>4, OwedAreSent DEF Settled
  <2>2. tid[r] = tid[hand[s].of] /\ r \in Requests
    BY <1>2, <1>3, <1>4, <2>1
  <2>3. Heir(hand[s].of, r)
    BY <1>4, <2>2 DEF SearchInv
  <2>4. Heir(hand[s].of, r)' <=> \/ hand[s].of = r
                                 \/ rpc'[hand[s].of] = "done" /\ tid'[hand[s].of] = tid'[r]
    BY <1>4 DEF Heir
  <2>5. ASSUME NEW q \in Requests, q = hand[s].of PROVE Heir(q, r)'
    BY <1>1, <2>2, <2>3, <2>5, HeirKept
  <2> QED BY <2>1, <2>4, <2>5 DEF Heir
<1>5. ASSUME NEW s \in Sessions, hand[s].step \in {"found", "half"},
             hand'[s].of = hand[s].of, hand'[s].to = hand[s].to
      PROVE  hand'[s].to \in Requests /\ Heir(hand[s].of, hand[s].to)'
  <2>1. /\ hand[s].of \in Requests /\ hand[s].to \in Requests
        /\ Heir(hand[s].of, hand[s].to)
    BY <1>5, OwedAreSent DEF HandInv
  <2>2. ASSUME NEW q \in Requests, q = hand[s].of, NEW r \in Requests, r = hand[s].to
        PROVE  Heir(q, r)'
    BY <1>1, <2>1, <2>2, HeirKept
  <2>3. Heir(hand[s].of, hand[s].to)' <=>
           \/ hand[s].of = hand[s].to
           \/ rpc'[hand[s].of] = "done" /\ tid'[hand[s].of] = tid'[hand[s].to]
    BY <1>5 DEF Heir
  <2> QED BY <1>5, <2>1, <2>2, <2>3 DEF Heir
<1>6. ASSUME NEW s \in Sessions, walk'[s] = walk[s], hand'[s] = hand[s]
      PROVE  /\ \A r \in Range(walk'[s]) : rpc'[r] # "idle"
             /\ hand'[s].step = "search" => \A r \in Range(walk'[s]) :
                   tid'[r] = tid'[hand'[s].of] => Heir(hand[s].of, r)'
             /\ hand'[s].step \in {"found", "half"} =>
                   hand'[s].to \in Requests /\ Heir(hand[s].of, hand[s].to)'
  BY <1>3, <1>4, <1>5, <1>6
<1>7. ASSUME NEW u \in Sessions, walk'[u] = <<>>, hand'[u] = Idle
      PROVE  Range(walk'[u]) = {} /\ hand'[u].step = "idle"
  BY <1>7 DEF Idle, Range
<1>8. ASSUME NEW u \in Sessions, ReceiveAck(u) PROVE SearchInv' /\ HandInv'
  <2>1. /\ pipe[u] \in Seq(Requests) /\ pipe[u] # <<>> /\ IsInjective(pipe[u])
        /\ walk' = [walk EXCEPT ![u] = registry]
        /\ hand' = [hand EXCEPT ![u] = [step |-> "search", to |-> NoRequest,
                                        of |-> Head(pipe[u])]]
        /\ UNCHANGED <<rpc, tid, reply>>
    BY <1>8 DEF ReceiveAck, reqVars, IInv, TypeOK, OweInv
  <2>2. Head(pipe[u]) \in Range(pipe[u])
    BY <2>1, TailOfInjective
  <2>3. /\ hand'[u].step = "search" /\ hand'[u].of = Head(pipe[u])
        /\ walk'[u] = registry
        /\ \A s \in Sessions : s # u => walk'[s] = walk[s] /\ hand'[s] = hand[s]
    BY <2>1 DEF IInv, TypeOK
  <2>4. Head(pipe[u]) \in Requests /\ Sent(Head(pipe[u]))
    BY <2>2 DEF OweInv, Owed
  <2>5. \A r \in Range(registry) :
           tid[r] = tid[Head(pipe[u])] => Heir(Head(pipe[u]), r)
    BY <2>4, RegisteredLive, WaiterIsHeir
  <2>6. \A r \in Range(registry) : rpc[r] # "idle"
    BY RegisteredLive
  <2>7. \A r \in Range(walk'[u]) :
           /\ rpc'[r] # "idle"
           /\ tid'[r] = tid'[hand'[u].of] => Heir(hand[u].of, r)'
    BY <2>1, <2>3, <2>5, <2>6 DEF Heir
  <2> QED BY <1>6, <2>3, <2>7 DEF SearchInv, HandInv
<1>9. ASSUME NEW u \in Sessions, SearchEnd(u) PROVE SearchInv' /\ HandInv'
  <2>1. PICK r \in Searched(u) :
           hand' = [hand EXCEPT ![u] = IF r = NoRequest THEN Idle
                                      ELSE [step |-> "found", to |-> r, of |-> hand[u].of]]
    BY <1>9 DEF SearchEnd
  <2>2. /\ hand[u].step = "search" /\ walk' = [walk EXCEPT ![u] = <<>>]
        /\ UNCHANGED <<rpc, tid, reply, registry>>
    BY <1>9 DEF SearchEnd, reqVars
  <2>3. /\ walk'[u] = <<>> /\ Range(walk'[u]) = {}
        /\ \A s \in Sessions : s # u => walk'[s] = walk[s] /\ hand'[s] = hand[s]
    BY <2>1, <2>2 DEF IInv, TypeOK, Range
  <2>4. CASE r = NoRequest
    <3>1. hand'[u].step = "idle"
      BY <2>1, <2>4 DEF Idle, IInv, TypeOK
    <3> QED BY <1>6, <2>3, <3>1 DEF SearchInv, HandInv
  <2>5. CASE r # NoRequest
    <3>1. /\ hand'[u].step = "found" /\ hand'[u].to = r
          /\ hand'[u].of = hand[u].of
      BY <2>1, <2>5 DEF IInv, TypeOK
    <3>2. /\ r \in Requests /\ tid[r] = tid[hand[u].of]
          /\ r \in Range(walk[u]) \cup Range(registry)
      BY <2>5, SearchedAreRequests DEF IInv
    <3>3. hand[u].of \in Requests /\ Sent(hand[u].of)
      BY <2>2, OwedAreSent
    <3>4. Heir(hand[u].of, r)
      <4>1. CASE r \in Range(walk[u])
        BY <2>2, <3>2, <4>1 DEF SearchInv
      <4>2. CASE r \in Range(registry)
        BY <3>2, <3>3, <4>2, RegisteredLive, WaiterIsHeir
      <4> QED BY <3>2, <4>1, <4>2
    <3>5. Heir(hand[u].of, hand[u].to)'
      BY <2>2, <3>1, <3>4 DEF Heir
    <3> QED BY <1>6, <2>3, <3>1, <3>2, <3>5 DEF SearchInv, HandInv
  <2> QED BY <2>4, <2>5
<1>10. ASSUME NEW u \in Sessions, CopyHalf(u) PROVE SearchInv' /\ HandInv'
  <2>1. /\ hand[u].step = "found" /\ hand' = [hand EXCEPT ![u].step = "half"]
        /\ walk' = walk
    BY <1>10 DEF CopyHalf
  <2>2. hand[u] \in Hand
    BY DEF IInv, TypeOK
  <2>3. /\ hand'[u].step = "half" /\ hand'[u].of = hand[u].of
        /\ hand'[u].to = hand[u].to
        /\ \A s \in Sessions : s # u => hand'[s] = hand[s]
    BY <2>1, <2>2 DEF IInv, TypeOK, Hand
  <2>4. hand'[u].to \in Requests /\ Heir(hand[u].of, hand[u].to)'
    BY <1>5, <2>1, <2>3
  <2>5. \A r \in Range(walk'[u]) : rpc'[r] # "idle"
    BY <1>3, <2>1
  <2> QED BY <1>6, <2>1, <2>3, <2>4, <2>5 DEF SearchInv, HandInv
<1>11. ASSUME NEW u \in Sessions, CopyRest(u) PROVE SearchInv' /\ HandInv'
  <2>1. hand' = [hand EXCEPT ![u] = Idle] /\ walk' = walk
    BY <1>11 DEF CopyRest
  <2>2. /\ hand'[u].step = "idle"
        /\ \A s \in Sessions : s # u => hand'[s] = hand[s]
    BY <2>1 DEF Idle, IInv, TypeOK
  <2>3. \A r \in Range(walk'[u]) : rpc'[r] # "idle"
    BY <1>3, <2>1
  <2> QED BY <1>6, <2>1, <2>2, <2>3 DEF SearchInv, HandInv
<1>12. CASE UNCHANGED <<walk, hand>>
  BY <1>6, <1>12 DEF SearchInv, HandInv
<1> QED
  BY <1>8, <1>9, <1>10, <1>11, <1>12
     DEF Next, ThreadStep, Spawn, LookupBegin, LookupEnd, Register, SendRequest,
         Poll, Unregister, Reply, EnvStep, vars, handVars

\* What a listener writes, and to whom.
LEMMA Written ==
    ASSUME IInv, OwnInv, NEW u \in Sessions, NEW kind,
           WriteTo(hand[u].to, [kind |-> kind, of |-> hand[u].of]),
           hand[u].step \in {"found", "half"}, NEW r \in Requests, rsp'[r] # rsp[r]
    PROVE  /\ rsp'[r] = [kind |-> kind, of |-> hand[u].of]
           /\ Alive(r) /\ Heir(hand[u].of, r)
<1>1. /\ rsp'[r] = [kind |-> kind, of |-> hand[u].of]
      /\ Alive(r) /\ tid[r] = tid[hand[u].to]
  BY DEF WriteTo
<1>2. hand[u].of \in Requests /\ Sent(hand[u].of)
  BY OwedAreSent DEF OwnInv
<1>3. tid[hand[u].to] = tid[hand[u].of]
  BY DEF OwnInv, HandInv, Heir
<1> QED BY <1>1, <1>2, <1>3, WaiterIsHeir

LEMMA OweStep == IInv /\ OwnInv /\ [Next]_vars => OweInv'
<1> SUFFICES ASSUME IInv, OwnInv, [Next]_vars PROVE OweInv'
  OBVIOUS
<1>0. /\ Settled /\ OweInv
      /\ \A s \in Sessions : pipe[s] \in Seq(Requests)
  BY Settles DEF OwnInv, IInv, TypeOK
<1>1. ASSUME \A s \in Sessions : IsInjective(pipe'[s])
                                /\ Held(s)' \cap Range(pipe'[s]) = {},
             \A s \in Sessions : Owed(s)' \subseteq Owed(s),
             \A s \in Sessions : \A q \in Owed(s)' :
                rsp'[q] # Whole(q) /\ reply'[q] # Whole(q)
      PROVE  OweInv'
  <2>1. \A s, t \in Sessions : s # t => Owed(s)' \cap Owed(t)' = {}
    BY <1>0, <1>1 DEF OweInv
  <2>2. \A s \in Sessions : \A q \in Owed(s)' : q \in Requests /\ Sent(q)'
    BY <1>0, <1>1 DEF OweInv, Settled
  <2>3. \A q : Whole(q)' = Whole(q)
    BY DEF Whole
  <2> QED BY <1>1, <2>1, <2>2, <2>3 DEF OweInv
<1>2. ASSUME UNCHANGED <<pipe, hand>>
      PROVE  \A s \in Sessions : /\ Owed(s)' = Owed(s)
                                 /\ IsInjective(pipe'[s])
                                 /\ Held(s)' \cap Range(pipe'[s]) = {}
  BY <1>0, <1>2 DEF OweInv, Owed, Held
<1>3. ASSUME NEW q \in Requests, SendRequest(q) PROVE OweInv'
  <2>1. /\ rpc[q] = "send" /\ rpc' = [rpc EXCEPT ![q] = "poll"]
        /\ UNCHANGED <<hand, rsp, reply>> /\ target[q] \in Sessions
    BY <1>3 DEF SendRequest, Goes, IInv, PCInv
  <2>2. CASE pipe' = pipe
    BY <1>0, <1>1, <1>2, <2>1, <2>2 DEF OweInv
  <2>3. CASE pipe' = [pipe EXCEPT ![target[q]] = Append(pipe[target[q]], q)]
    <3>1. ~Sent(q) /\ Sent(q)'
      BY <2>1 DEF Sent, IInv, TypeOK
    <3>2. \A s \in Sessions : q \notin Owed(s)
      BY <1>0, <3>1 DEF OweInv
    <3>3. q \notin Range(pipe[target[q]])
      BY <2>1, <3>2 DEF Owed
    <3>4. /\ IsInjective(pipe[target[q]]) /\ pipe[target[q]] \in Seq(Requests)
      BY <1>0, <2>1 DEF OweInv
    <3>5. /\ IsInjective(Append(pipe[target[q]], q))
          /\ Range(Append(pipe[target[q]], q)) = Range(pipe[target[q]]) \cup {q}
      BY <3>3, <3>4, AppendNew
    <3>6. /\ pipe'[target[q]] = Append(pipe[target[q]], q)
          /\ \A s \in Sessions : s # target[q] => pipe'[s] = pipe[s]
      BY <2>1, <2>3 DEF IInv, TypeOK
    <3>7. \A s \in Sessions : Held(s)' = Held(s)
      BY <2>1 DEF Held
    <3>8. \A s \in Sessions :
             /\ IsInjective(pipe'[s]) /\ Held(s)' \cap Range(pipe'[s]) = {}
             /\ Owed(s)' = IF s = target[q] THEN Owed(s) \cup {q} ELSE Owed(s)
      <4>1. ASSUME NEW s \in Sessions, s # target[q]
            PROVE  /\ IsInjective(pipe'[s]) /\ Held(s)' \cap Range(pipe'[s]) = {}
                   /\ Owed(s)' = Owed(s)
        BY <1>0, <3>6, <3>7, <4>1 DEF OweInv, Owed
      <4>2. ASSUME NEW s \in Sessions, s = target[q]
            PROVE  /\ IsInjective(pipe'[s]) /\ Held(s)' \cap Range(pipe'[s]) = {}
                   /\ Owed(s)' = Owed(s) \cup {q}
        <5>1. q \notin Held(s) /\ Held(s) \cap Range(pipe[s]) = {}
          BY <1>0, <2>1, <3>2 DEF OweInv, Owed
        <5>2. Held(s)' = Held(s)
          BY <3>7
        <5>3. /\ IsInjective(pipe'[s]) /\ Range(pipe'[s]) = Range(pipe[s]) \cup {q}
          BY <3>5, <3>6, <4>2
        <5> QED BY <5>1, <5>2, <5>3 DEF Owed
      <4> QED BY <4>1, <4>2
    <3>9. rsp[q] # Whole(q) /\ reply[q] # Whole(q)
      BY <3>1 DEF OwnInv, TextInv, Whole
    <3>10. \A s, t \in Sessions : s # t => Owed(s)' \cap Owed(t)' = {}
      BY <1>0, <3>2, <3>8 DEF OweInv
    <3>11. \A s \in Sessions : \A x \in Owed(s)' :
              x \in Requests /\ Sent(x)' /\ rsp'[x] # Whole(x) /\ reply'[x] # Whole(x)
      BY <1>0, <2>1, <3>1, <3>8, <3>9 DEF OweInv, Settled
    <3>12. \A x : Whole(x)' = Whole(x)
      BY DEF Whole
    <3> QED BY <3>8, <3>10, <3>11, <3>12 DEF OweInv
  <2> QED BY <1>3, <2>2, <2>3 DEF SendRequest
<1>4. ASSUME NEW u \in Sessions, ReceiveAck(u) PROVE OweInv'
  <2>1. /\ pipe[u] # <<>> /\ IsInjective(pipe[u]) /\ hand[u].step = "idle"
        /\ pipe' = [pipe EXCEPT ![u] = Tail(pipe[u])]
        /\ hand' = [hand EXCEPT ![u] = [step |-> "search", to |-> NoRequest,
                                        of |-> Head(pipe[u])]]
        /\ UNCHANGED <<rsp, reply>>
    BY <1>0, <1>4 DEF ReceiveAck, reqVars, OweInv, Idle
  <2>2. /\ Head(pipe[u]) \in Range(pipe[u]) /\ IsInjective(Tail(pipe[u]))
        /\ Range(Tail(pipe[u])) = Range(pipe[u]) \ {Head(pipe[u])}
    BY <1>0, <2>1, TailOfInjective
  <2>3. /\ pipe'[u] = Tail(pipe[u]) /\ hand'[u].step = "search"
        /\ hand'[u].of = Head(pipe[u])
        /\ \A s \in Sessions : s # u => pipe'[s] = pipe[s] /\ hand'[s] = hand[s]
    BY <2>1 DEF IInv, TypeOK
  <2>4. Held(u)' = {Head(pipe[u])} /\ Held(u) = {}
    BY <2>1, <2>3 DEF Held
  <2>5. \A s \in Sessions : s # u => Held(s)' = Held(s)
    BY <2>3 DEF Held
  <2>6. \A s \in Sessions : /\ IsInjective(pipe'[s])
                            /\ Held(s)' \cap Range(pipe'[s]) = {}
                            /\ Owed(s)' = Owed(s)
    BY <1>0, <2>2, <2>3, <2>4, <2>5 DEF OweInv, Owed
  <2> QED BY <1>0, <1>1, <2>1, <2>6 DEF OweInv
<1>5. ASSUME NEW u \in Sessions, SearchEnd(u) PROVE OweInv'
  <2>1. \E r : hand' = [hand EXCEPT ![u] = IF r = NoRequest THEN Idle
                            ELSE [step |-> "found", to |-> r, of |-> hand[u].of]]
    BY <1>5 DEF SearchEnd
  <2>2. UNCHANGED <<pipe, rsp, reply>> /\ hand[u].step = "search"
    BY <1>5 DEF SearchEnd, reqVars
  <2>3. /\ hand'[u].step = "idle" \/ hand'[u].of = hand[u].of
        /\ \A s \in Sessions : s # u => hand'[s] = hand[s]
    BY <2>1 DEF Idle, IInv, TypeOK
  <2>4. \A s \in Sessions : Held(s)' \subseteq Held(s)
    BY <2>2, <2>3 DEF Held
  <2>5. \A s \in Sessions : /\ Owed(s)' \subseteq Owed(s) /\ IsInjective(pipe'[s])
                            /\ Held(s)' \cap Range(pipe'[s]) = {}
    BY <1>0, <2>2, <2>4 DEF OweInv, Owed
  <2> QED BY <1>0, <1>1, <2>2, <2>5 DEF OweInv
<1>6. ASSUME NEW u \in Sessions, CopyHalf(u) PROVE OweInv'
  <2>1. /\ hand[u].step = "found" /\ hand' = [hand EXCEPT ![u].step = "half"]
        /\ WriteTo(hand[u].to, [kind |-> "part", of |-> hand[u].of])
        /\ UNCHANGED <<pipe, reply>>
    BY <1>6 DEF CopyHalf
  <2>2. hand[u] \in Hand
    BY DEF IInv, TypeOK
  <2>3. /\ hand'[u].step = "half" /\ hand'[u].of = hand[u].of
        /\ \A s \in Sessions : s # u => hand'[s] = hand[s]
    BY <2>1, <2>2 DEF IInv, TypeOK, Hand
  <2>4. \A s \in Sessions : Held(s)' = Held(s)
    BY <2>1, <2>3 DEF Held
  <2>5. \A s \in Sessions : /\ Owed(s)' = Owed(s) /\ IsInjective(pipe'[s])
                            /\ Held(s)' \cap Range(pipe'[s]) = {}
    BY <1>0, <2>1, <2>4 DEF OweInv, Owed
  <2>6. \A r \in Requests : rsp'[r] # rsp[r] => rsp'[r] # Whole(r)
    BY <2>1, Written DEF Whole
  <2> QED BY <1>0, <1>1, <2>1, <2>5, <2>6 DEF OweInv
<1>7. ASSUME NEW u \in Sessions, CopyRest(u) PROVE OweInv'
  <2>1. /\ hand[u].step = "half" /\ hand' = [hand EXCEPT ![u] = Idle]
        /\ WriteTo(hand[u].to, [kind |-> "whole", of |-> hand[u].of])
        /\ UNCHANGED <<pipe, reply>>
    BY <1>7 DEF CopyRest
  <2>2. /\ hand'[u].step = "idle"
        /\ \A s \in Sessions : s # u => hand'[s] = hand[s]
    BY <2>1 DEF Idle, IInv, TypeOK
  <2>3. /\ Held(u)' = {} /\ Held(u) = {hand[u].of}
        /\ \A s \in Sessions : s # u => Held(s)' = Held(s)
    BY <2>1, <2>2 DEF Held
  <2>4. \A s \in Sessions : /\ Owed(s)' = Owed(s) \ {hand[u].of}
                            /\ IsInjective(pipe'[s])
                            /\ Held(s)' \cap Range(pipe'[s]) = {}
    BY <1>0, <2>1, <2>3 DEF OweInv, Owed
  <2>5. \A r \in Requests : rsp'[r] # rsp[r] => rsp'[r] = Whole(hand[u].of)
    BY <2>1, Written DEF Whole
  <2>6. \A r : Whole(hand[u].of) = Whole(r) => r = hand[u].of
    BY DEF Whole
  <2> QED BY <1>0, <1>1, <2>1, <2>4, <2>5, <2>6 DEF OweInv
<1>8. ASSUME NEW q \in Requests, LookupEnd(q) PROVE OweInv'
  <2>1. UNCHANGED <<pipe, hand, reply>>
    BY <1>8 DEF LookupEnd, handVars
  <2>2. rsp' = rsp \/ rsp' = [rsp EXCEPT ![q] = Offline]
    BY <1>8 DEF LookupEnd
  <2>3. \A r \in Requests : rsp'[r] # rsp[r] => rsp'[r] # Whole(r)
    BY <2>2 DEF IInv, TypeOK, Offline, Whole
  <2> QED BY <1>0, <1>1, <1>2, <2>1, <2>3 DEF OweInv
<1>9. ASSUME NEW q \in Requests, Reply(q) PROVE OweInv'
  <2>1. UNCHANGED <<pipe, hand, rsp>> /\ reply' = [reply EXCEPT ![q] = rsp[q]]
    BY <1>9 DEF Reply, handVars
  <2>2. \A r \in Requests : reply'[r] = reply[r] \/ reply'[r] = rsp[r]
    BY <2>1 DEF IInv, TypeOK
  <2> QED BY <1>0, <1>1, <1>2, <2>1, <2>2 DEF OweInv
<1>10. CASE UNCHANGED <<pipe, hand, rsp, reply>>
  BY <1>0, <1>1, <1>2, <1>10 DEF OweInv
<1> QED
  BY <1>3, <1>4, <1>5, <1>6, <1>7, <1>8, <1>9, <1>10
     DEF Next, ThreadStep, Spawn, LookupBegin, Register, Poll, Unregister,
         EnvStep, vars, reqVars, handVars

LEMMA TextStep == IInv /\ OwnInv /\ [Next]_vars => TextInv(rsp)' /\ TextInv(reply)'
<1> SUFFICES ASSUME IInv, OwnInv, [Next]_vars PROVE TextInv(rsp)' /\ TextInv(reply)'
  OBVIOUS
<1>0. Settled /\ OweInv /\ TextInv(rsp) /\ TextInv(reply)
  BY Settles DEF OwnInv
<1> DEFINE Good(t, r) == t.kind \in {"part", "whole"} =>
                           /\ t.of \in Requests /\ Sent(t.of)
                           /\ t.of = r \/ TakenOver(t.of, r)
<1>1. ASSUME NEW t, NEW r \in Requests, Good(t, r), t.kind \in {"part", "whole"}
      PROVE  /\ t.of \in Requests /\ Sent(t.of)'
             /\ t.of = r \/ TakenOver(t.of, r)'
  <2>1. ASSUME NEW q \in Requests, q = t.of
        PROVE  /\ Sent(q)'
               /\ q = r \/ TakenOver(q, r)'
    BY <1>0, <1>1, <2>1, HeirKept DEF Settled
  <2>2. t.of \in Requests
    BY <1>1
  <2>3. PICK q \in Requests : q = t.of
    BY <2>2
  <2>4. Sent(q)' /\ (q = r \/ TakenOver(q, r)')
    BY <2>1, <2>3
  <2> QED BY <2>3, <2>4 DEF Sent, TakenOver
<1>2. (\A r \in Requests : Good(rsp'[r], r)) => TextInv(rsp)'
  BY <1>1 DEF TextInv, Sent, TakenOver
<1>3. (\A r \in Requests : Good(reply'[r], r)) => TextInv(reply)'
  BY <1>1 DEF TextInv, Sent, TakenOver
<1>4. \A r \in Requests : Good(rsp[r], r) /\ Good(reply[r], r)
  BY <1>0 DEF TextInv
<1>5. ASSUME NEW u \in Sessions, NEW kind, hand[u].step \in {"found", "half"},
             WriteTo(hand[u].to, [kind |-> kind, of |-> hand[u].of]),
             NEW r \in Requests, rsp'[r] # rsp[r]
      PROVE  Good(rsp'[r], r)
  <2>1. rsp'[r].of = hand[u].of /\ Alive(r) /\ Heir(hand[u].of, r)
    BY <1>5, Written
  <2>2. /\ hand[u].of \in Owed(u) /\ hand[u].of \in Requests /\ Sent(hand[u].of)
    BY <1>0, <1>5, OwedAreSent
  <2>3. reply[hand[u].of] # Whole(hand[u].of)
    BY <1>0, <2>2 DEF OweInv
  <2> QED BY <2>1, <2>2, <2>3 DEF Heir, TakenOver, Whole
<1>6. ASSUME NEW u \in Sessions, CopyHalf(u) \/ CopyRest(u)
      PROVE  /\ \A r \in Requests : Good(rsp'[r], r)
             /\ reply' = reply
  <2>1. /\ \E kind : WriteTo(hand[u].to, [kind |-> kind, of |-> hand[u].of])
        /\ hand[u].step \in {"found", "half"} /\ reply' = reply
    BY <1>6 DEF CopyHalf, CopyRest
  <2> QED BY <1>4, <1>5, <2>1
<1>7. ASSUME NEW q \in Requests, LookupEnd(q)
      PROVE  /\ \A r \in Requests : Good(rsp'[r], r)
             /\ reply' = reply
  <2>1. reply' = reply /\ (rsp' = rsp \/ rsp' = [rsp EXCEPT ![q] = Offline])
    BY <1>7 DEF LookupEnd
  <2>2. \A r \in Requests : rsp'[r] = rsp[r] \/ rsp'[r].kind = "offline"
    BY <2>1 DEF Offline, IInv, TypeOK
  <2> QED BY <1>4, <2>1, <2>2
<1>8. ASSUME NEW q \in Requests, Reply(q)
      PROVE  /\ \A r \in Requests : Good(reply'[r], r)
             /\ rsp' = rsp
  <2>1. reply' = [reply EXCEPT ![q] = rsp[q]] /\ rsp' = rsp
    BY <1>8 DEF Reply
  <2>2. \A r \in Requests : reply'[r] = reply[r] \/ reply'[r] = rsp[r]
    BY <2>1 DEF IInv, TypeOK
  <2> QED BY <1>4, <2>1, <2>2
<1> HIDE DEF Good
<1>9. CASE UNCHANGED <<rsp, reply>>
  BY <1>2, <1>3, <1>4, <1>9
<1>10. (\E u \in Sessions : CopyHalf(u) \/ CopyRest(u)) =>
          TextInv(rsp)' /\ TextInv(reply)'
  BY <1>2, <1>3, <1>4, <1>6
<1>11. (\E q \in Requests : LookupEnd(q) \/ Reply(q)) =>
          TextInv(rsp)' /\ TextInv(reply)'
  BY <1>2, <1>3, <1>4, <1>7, <1>8
<1> QED
  BY <1>9, <1>10, <1>11
     DEF Next, ThreadStep, Spawn, LookupBegin, Register, SendRequest, Poll,
         Unregister, ReceiveAck, SearchEnd, EnvStep, vars, reqVars

LEMMA OwnInvariance == Spec => []OwnInv
<1>1. IInv /\ OwnInv /\ [Next]_vars => OwnInv'
  BY HandStep, OweStep, TextStep DEF OwnInv
<1> QED BY <1>1, Invariance, OwnInit, PTL DEF Spec

\* get_Request finds the thread that asked, or else one that has taken over the
\* thread id of an asker that gave up, whatever is registered or removed while
\* the list is walked.
THEOREM HandedToAskers == Spec => []HandedToAsker
<1>1. OwnInv => HandedToAsker
  <2> SUFFICES ASSUME OwnInv, NEW s \in Sessions, hand[s].step \in {"found", "half"}
               PROVE  hand[s].to = hand[s].of \/ TakenOver(hand[s].of, hand[s].to)
    BY DEF HandedToAsker
  <2>1. hand[s].of \in Owed(s)
    BY OwedAreSent DEF OwnInv
  <2> QED BY <2>1 DEF OwnInv, OweInv, HandInv, Heir, TakenOver, Whole
<1> QED BY <1>1, OwnInvariance, PTL

\* A client gets the answer to its own request, or else a late one whose asker
\* had given up and whose thread id its own thread has taken over.
THEOREM AnswersAreOwn == Spec => []AnswerOwn
<1>1. OwnInv => AnswerOwn
  BY DEF OwnInv, TextInv, AnswerOwn
<1> QED BY <1>1, OwnInvariance, PTL
=============================================================================
