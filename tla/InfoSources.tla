----------------------------- MODULE InfoSources -----------------------------
(***************************************************************************)
(* The threads of an agent: the main thread, which connects, carries out   *)
(* commands and reconnects (main() and treat() in Agent.cpp), and one      *)
(* monitor for each information source, which reads a log, parses entries  *)
(* by the rules and sends them to the server (InfoSource.h).               *)
(*                                                                         *)
(* Reconnecting destroys all sources: ~InfoSource cancels the monitor and  *)
(* joins it.  A cancellation is acted on in read, open, close, sleep and   *)
(* send, which monitors also call with a mutex locked; it is not acted on  *)
(* in pthread_mutex_lock, and no cleanup handler unlocks anything.         *)
(*                                                                         *)
(* send() has no timeout: a monitor stays in it, with transfer_sock_mutex  *)
(* locked, while the server reads nothing.  The second send of a message   *)
(* is without MSG_NOSIGNAL: on a connection that broke after the first it  *)
(* ends the agent.                                                         *)
(*                                                                         *)
(* sources and sources_mutex are used by the main thread alone (a monitor  *)
(* never leaves its loop), so the mutex is left out.                       *)
(***************************************************************************)
EXTENDS Naturals, FiniteSets, SequencesExt

CONSTANTS Sources,       \* InfoSource objects; a destroyed one stands for a
                         \* new one afterwards
          NoSource,
          PathOf,        \* the path of its log
          Default,       \* "/var/log/syslog"
          Left           \* a mutex is locked by a thread that left its critical
                         \* section, or ended, without unlocking it

\* What the constants are assumed to be.
SourceAssumption ==
    /\ NoSource \notin Sources /\ Left \notin Sources
    /\ NoSource # Left

VARIABLES main,          \* the main thread
          tgt,           \* the source it works on
          sources,
          mon,           \* the monitor of a source
          cancelled,     \* sources whose monitor has a cancellation pending
          rulesHolder,   \* rules_file_mutex of a source
          sockHolder     \* transfer_sock_mutex

vars == <<main, tgt, sources, mon, cancelled, rulesHolder, sockHolder>>

TypeOK ==
    /\ main \in {"connect", "syslog", "loop", "lock", "rules", "unregister", "join",
                "killed"}
    /\ tgt \in Sources \cup {NoSource}
    /\ sources \in Seq(Sources)
    /\ mon \in [Sources -> {"none", "read", "lock", "parse", "wait", "send", "ended"}]
    /\ cancelled \subseteq Sources
    /\ rulesHolder \in [Sources -> {"none", "main", "monitor", "left"}]
    /\ sockHolder \in Sources \cup {NoSource, Left}

Init ==
    /\ main = "connect" /\ tgt = NoSource
    /\ sources = <<>>
    /\ mon = [s \in Sources |-> "none"]
    /\ cancelled = {}
    /\ rulesHolder = [s \in Sources |-> "none"]
    /\ sockHolder = NoSource

Registered == Range(sources)

-----------------------------------------------------------------------------
(* The main thread.                                                        *)

MainGoes(from, to) == main = from /\ main' = to

\* init_comms_to_server() returns.
Connect ==
    /\ MainGoes("connect", "syslog")
    /\ UNCHANGED <<tgt, sources, mon, cancelled, rulesHolder, sockHolder>>

\* createIS().
CreateIS(s) ==
    /\ mon[s] = "none"
    /\ \A i \in Registered : PathOf[i] # PathOf[s]
    /\ mon' = [mon EXCEPT ![s] = "read"]
    /\ rulesHolder' = [rulesHolder EXCEPT ![s] = "none"]
    /\ sources' = Append(sources, s)

AddSyslog ==
    /\ MainGoes("syslog", "loop")
    /\ \/ \E s \in Sources : PathOf[s] = Default /\ CreateIS(s)
       \/ UNCHANGED <<sources, mon, rulesHolder>>
    /\ UNCHANGED <<tgt, cancelled, sockHolder>>

\* CLMSG_ADDSRC.
AddSource(s) ==
    /\ main = "loop" /\ CreateIS(s)
    /\ UNCHANGED <<main, tgt, cancelled, sockHolder>>

\* CLMSG_ADDRLE and CLMSG_RMVRLE reach their critical section,
ChangeRules(s) ==
    /\ MainGoes("loop", "lock") /\ s \in Registered
    /\ tgt' = s
    /\ UNCHANGED <<sources, mon, cancelled, rulesHolder, sockHolder>>

\* enter it,
RulesLock ==
    /\ MainGoes("lock", "rules") /\ rulesHolder[tgt] = "none"
    /\ rulesHolder' = [rulesHolder EXCEPT ![tgt] = "main"]
    /\ UNCHANGED <<tgt, sources, mon, cancelled, sockHolder>>

\* and leave it.
RulesUnlock ==
    /\ MainGoes("rules", "loop")
    /\ rulesHolder' = [rulesHolder EXCEPT ![tgt] = "none"]
    /\ tgt' = NoSource
    /\ UNCHANGED <<sources, mon, cancelled, sockHolder>>

\* fork() fails in CLMSG_RMVRLE: after_treat is reached without the unlock.
ForkFails ==
    /\ MainGoes("rules", "loop")
    /\ rulesHolder' = [rulesHolder EXCEPT ![tgt] = "left"]
    /\ tgt' = NoSource
    /\ UNCHANGED <<sources, mon, cancelled, sockHolder>>

\* A restart is requested, or the control connection breaks.
LeaveLoop ==
    /\ MainGoes("loop", "unregister")
    /\ UNCHANGED <<tgt, sources, mon, cancelled, rulesHolder, sockHolder>>

\* The first source is erased; its destructor cancels the monitor.
Unregister ==
    /\ MainGoes("unregister", "join") /\ sources # <<>>
    /\ tgt' = Head(sources) /\ sources' = Tail(sources)
    /\ cancelled' = cancelled \cup {Head(sources)}
    /\ UNCHANGED <<mon, rulesHolder, sockHolder>>

\* pthread_join returns and the object is released.
Join ==
    /\ MainGoes("join", "unregister") /\ mon[tgt] = "ended"
    /\ mon' = [mon EXCEPT ![tgt] = "none"]
    /\ cancelled' = cancelled \ {tgt}
    /\ tgt' = NoSource
    /\ UNCHANGED <<sources, rulesHolder, sockHolder>>

\* Mutant of Disconnect: sources are left.
DisconnectFirst ==
    /\ MainGoes("unregister", "connect")
    /\ UNCHANGED <<tgt, sources, mon, cancelled, rulesHolder, sockHolder>>

\* Both sockets are closed.
Disconnect ==
    /\ MainGoes("unregister", "connect") /\ sources = <<>>
    /\ UNCHANGED <<tgt, sources, mon, cancelled, rulesHolder, sockHolder>>

-----------------------------------------------------------------------------
(* The monitor of source s.                                                *)

MonGoes(s, from, to) == mon[s] = from /\ mon' = [mon EXCEPT ![s] = to]

ReadEntry(s) ==
    /\ MonGoes(s, "read", "lock")
    /\ UNCHANGED <<main, tgt, sources, cancelled, rulesHolder, sockHolder>>

ParseLock(s) ==
    /\ MonGoes(s, "lock", "parse") /\ rulesHolder[s] = "none"
    /\ rulesHolder' = [rulesHolder EXCEPT ![s] = "monitor"]
    /\ UNCHANGED <<main, tgt, sources, cancelled, sockHolder>>

\* Mutant of ParseEnd: an entry that follows no rule leaves the mutex locked.
ParseEndLocked(s) ==
    /\ \/ MonGoes(s, "parse", "wait") /\ rulesHolder' = [rulesHolder EXCEPT ![s] = "none"]
       \/ MonGoes(s, "parse", "read") /\ UNCHANGED rulesHolder
    /\ UNCHANGED <<main, tgt, sources, cancelled, sockHolder>>

\* parse_entry() returns; an entry that follows no rule is not sent.
ParseEnd(s) ==
    /\ MonGoes(s, "parse", "wait") \/ MonGoes(s, "parse", "read")
    /\ rulesHolder' = [rulesHolder EXCEPT ![s] = "none"]
    /\ UNCHANGED <<main, tgt, sources, cancelled, sockHolder>>

\* read_fmt_entry() returns false: parse_entry() returns -1 without unlocking.
ParseFails(s) ==
    /\ MonGoes(s, "parse", "read")
    /\ rulesHolder' = [rulesHolder EXCEPT ![s] = "left"]
    /\ UNCHANGED <<main, tgt, sources, cancelled, sockHolder>>

SendLock(s) ==
    /\ MonGoes(s, "wait", "send") /\ sockHolder = NoSource
    /\ sockHolder' = s
    /\ UNCHANGED <<main, tgt, sources, cancelled, rulesHolder>>

SendEnd(s) ==
    /\ MonGoes(s, "send", "read")
    /\ sockHolder' = NoSource
    /\ UNCHANGED <<main, tgt, sources, cancelled, rulesHolder>>

\* SIGPIPE ends the process, and with it all threads.
Killed(s) ==
    /\ mon[s] = "send"
    /\ main' = "killed" /\ tgt' = NoSource /\ sources' = <<>> /\ cancelled' = {}
    /\ mon' = [t \in Sources |-> "none"]
    /\ rulesHolder' = [t \in Sources |-> "none"] /\ sockHolder' = NoSource

\* Mutant of Cancelled: a monitor that reads its log or sends is not cancelled.
CancelledInParse(s) ==
    /\ s \in cancelled /\ MonGoes(s, "parse", "ended")
    /\ rulesHolder' = [rulesHolder EXCEPT ![s] = "left"]
    /\ UNCHANGED <<main, tgt, sources, cancelled, sockHolder>>

\* The pending cancellation is acted on; locked mutexes stay locked.
Cancelled(s) ==
    /\ s \in cancelled
    /\ \/ /\ MonGoes(s, "read", "ended")
          /\ UNCHANGED <<rulesHolder, sockHolder>>
       \/ /\ MonGoes(s, "parse", "ended")
          /\ rulesHolder' = [rulesHolder EXCEPT ![s] = "left"]
          /\ UNCHANGED sockHolder
       \/ /\ MonGoes(s, "send", "ended")
          /\ sockHolder' = Left
          /\ UNCHANGED rulesHolder
    /\ UNCHANGED <<main, tgt, sources, cancelled>>

-----------------------------------------------------------------------------
MainStep ==
    \/ Connect \/ AddSyslog \/ RulesLock \/ RulesUnlock \/ ForkFails
    \/ Unregister \/ Join \/ Disconnect

Command == \/ \E s \in Sources : AddSource(s) \/ ChangeRules(s)
           \/ LeaveLoop

MonStep(s) == \/ ReadEntry(s) \/ ParseLock(s) \/ ParseEnd(s) \/ ParseFails(s)
              \/ SendLock(s) \/ SendEnd(s)

Next == MainStep \/ Command
        \/ \E s \in Sources : MonStep(s) \/ Cancelled(s) \/ Killed(s)

Spec == Init /\ [][Next]_vars

\* The threads run, but read() waits for the log and send() for the server: a
\* monitor leaves them for certain only when it is cancelled there.  A mutex that
\* stays free is taken; one that others take again and again may never be.
FairSpec ==
    /\ Spec
    /\ WF_vars(MainStep)
    /\ \A s \in Sources : /\ WF_vars(mon[s] \notin {"read", "send"} /\ MonStep(s))
                          /\ SF_vars(Cancelled(s))

-----------------------------------------------------------------------------
(* Properties.                                                             *)

\* A log has one monitor: sources has one entry for a path, although createIS
\* searches and appends in different critical sections.
OneMonitorPerPath ==
    \A s, t \in Sources :
        /\ s # t /\ PathOf[s] = PathOf[t]
        /\ mon[s] \notin {"none", "ended"} /\ mon[t] \notin {"none", "ended"}
        => s \in cancelled \/ t \in cancelled

\* A monitor runs only for an object that exists: one in sources, or the one
\* whose destructor is joining it.
MonitorHasSource ==
    {s \in Sources : mon[s] # "none"} =
        Registered \cup (IF main = "join" THEN {tgt} ELSE {})

\* No monitor is left when the sockets are closed and the agent reconnects:
\* none can write to a descriptor that was closed or given away again.
NoMonitorAcrossConnections ==
    main \in {"connect", "syslog"} => \A s \in Sources : mon[s] = "none"

\* A cancelled monitor is the one that is being joined: no source that stays
\* registered loses its monitor.
OnlyJoinedCancelled == cancelled = IF main = "join" THEN {tgt} ELSE {}

\* Monitors and sources correspond.
MonitorsSound ==
    /\ TypeOK /\ OneMonitorPerPath /\ MonitorHasSource /\ OnlyJoinedCancelled
    /\ NoMonitorAcrossConnections

MonitorsIn(step) == {s \in Sources : mon[s] = step}
RulesLeft == {s \in Sources : rulesHolder[s] = "left"}

\* The monitor that is joined waits for ever for transfer_sock_mutex: it was left
\* locked, its owner does not come back from send(), or others always get it first.
WaitsToSend ==
    /\ [](main = "join" /\ tgt \in MonitorsIn("wait"))
    /\ []<>(sockHolder = Left \/ MonitorsIn("send") # {})

\* The agent comes back: leaving the command loop, it reaches the next
\* connection or is killed, unless the monitor it joins waits for a mutex that
\* was left locked or to send.
RestartCompletes ==
    main = "unregister" ~>
        \/ main \in {"connect", "killed"}
        \/ main = "join" /\ tgt \in MonitorsIn("lock") \cap RulesLeft
        \/ WaitsToSend

\* A command that changes rules gets at them although the monitor uses them, too,
\* unless the mutex was left locked or the monitor locks it again and again.
CommandEnds ==
    main = "lock" ~>
        \/ main # "lock" \/ tgt \in RulesLeft
        \/ [](main = "lock") /\ []<>(tgt \in MonitorsIn("parse"))
=============================================================================
