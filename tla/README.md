# Network Devices Monitor: a verification project

The repository holds three programs that work together: *agents* watch log files
on their hosts and send the entries that follow given rules, a *server* stores
them and passes commands on, and *clients* ask the server, or an agent through
it, for information. This directory holds TLA+ modules for the concurrent and
the stateful parts of the three, configurations that TLC checks, and proofs that
TLAPS checks.

`src/Documentatie.pdf`, the documentation of the project, is quoted as *doc §n*.

## 1. The system

| component | code | state | operations |
|---|---|---|---|
| agent sessions | `Server/Agent.h`, `Server/AgentDispatcher.cpp` | `agent_list`, `agent_list_lock`, `clreq_mutex`; for each `Agent` object its two sockets and up to three threads | accept, creator (login, register, wait, spawn), control listener, transfer listener, `~Agent`, transfer dispatcher |
| routing of requests | `Server/ClientDispatcher.cpp` (default branch of `fnc_treat_client`), `Server/ag_cl_common.h`, `Agent::send_request`, `treat` | `requests_list`, a response buffer on each thread's stack, `agent_list` read without its lock | look up, register, send, poll, unregister, reply; hand an answer over |
| supervision | `Server/Server.cpp` | three `pthread_t` variables, three ports | create, join, create again |
| client requests | `Client/Client.cpp` `get_request`, `fnc_client_dispatcher` | `retry_counter`, sockets; `req_count` | send, wait, retry; admit, count, answer, uncount |
| framing | `common_definitions.h` | what was received of a message | `recv_fixed_length`, `recv_varmsg` |
| reading by line | `Agent/InfoSource.h` `read_entry`, `read_fmt_entry` | a buffer that outlives the call | return the next line |
| rule files | `Agent/Agent.cpp` `treat`, `has_rule`, `add_rule` | one `.fmt` file for each source | add, remove, count pages, list a page, show |
| threads of the agent | `Agent/Agent.cpp` `main`, `Agent/InfoSource.h` | `sources`, one monitor for each source, `rules_file_mutex`, `transfer_sock_mutex` | connect, add a source, change rules, restart; read, parse, send, be cancelled |
| connection of agent and server | `Agent/Agent.cpp` `init_*_connection`, `login`, `main` | control and transfer socket at both ends | connect, log in, open a transfer connection, wait for the acknowledgement, listen, close |
| rule matcher | `Agent/InfoSource.h` `parse_entry` | none that outlives a call | match an entry, build JSON |
| log database | `Server/Agent.h` `fnc_agent_transfer_listener`; `Server/ClientDispatcher.cpp` `CLMSG_COUNT_QUERY` | one log for each agent and source; the descriptor and buffer of a query | append; scan |
| conditions of a count query | `CLMSG_COUNT_QUERY` | none | read conditions, match an entry |
| agent list, properties | `get_all_agents`, `CLMSG_AGLIST`, `CLMSG_AGPROP`; `Agent::login` | the script, a directory and an `info` file for each agent | make the script, run it, look an agent up |
| command line, widgets | `Client/Client.cpp` | none that outlives a command | divide an interval into samples; format and draw |
| graphical client | `Client/GUI_NOT_WORKING` | abandoned | - |

How they interact:

* An agent opens a control connection to port 2078. The control dispatcher
  builds an `Agent` object, whose creator thread logs the agent in, puts it into
  `agent_list` and waits for a transfer connection. The agent opens that one to
  port 2079; the transfer dispatcher finds the session **by IP address** and
  acknowledges with one bare byte on the control connection. The creator then
  starts the two listeners.
* A client sends a datagram to port 2048. The client dispatcher starts a thread,
  which either answers by itself or sends the request to the agent and polls its
  own response buffer once a second, four times. The agent's answer is received
  by the control listener, which finds the thread by its `pthread_t` in
  `requests_list` and copies the answer to the thread's stack.
* What agents send on their transfer connections is appended to files under
  `logs/`, which count queries of clients read without any lock. A login makes
  the directory and the `info` file of its agent there, which requests for the
  list and for properties read through a shell script that a child process runs.
* The two paths share `agent_list` (written under `agent_list_lock`, read by
  requests without it), the control listener, and `clreq_mutex`: it guards
  `requests_list`, and a creator holds it during the whole set-up of an agent.
* Doc §4.2 says that commands go out on the transfer connection; the code sends
  them on the control connection (`Agent.h:53`), and so do the models.

What is hard: threads that use objects other threads delete; a mutex held across
blocking calls that have no timeout; acknowledgements and answers that come late,
for a thread whose id another has by then; the one pointer that `strtok()` has
for all threads; datagrams lost and repeated; cancellation of threads that hold
mutexes; files that are changed by several writes; buffers and counters at their
limits. Each place is a row of
`hazards` in `PROJECT.json`, with the properties that watch it.

What makes each component correct:

* sessions: everything in `agent_list` is allocated; one thread destroys a
  session, and no listener runs on it then; a transfer connection has one owner;
  dead agents leave the list; waiting agents get set up.
* routing: `requests_list` holds exactly the threads that wait; an answer reaches
  the thread that asked, while it waits; a thread gives up in the end.
* supervision: the dispatchers are there.
* client requests: retries are bounded, the result of `get_request` says whether
  there was an answer, the count of threads is exact.
* framing and reading: what is returned is what was sent or written.
* log database: entries stay separated; a query answers the count of one moment.
* conditions: what is counted is what was asked for.
* agent list: an agent that is known is found; requests are answered.
* rule matcher: a line matches a rule in the way the rule divides it.
* graph: the samples follow each other through the interval, and show what is in
  them.
* rule files: names are unique, rules stay until removed, pages partition them.
* threads of the agent: a monitor for each source and no other; restarts and
  commands that complete.
* connection: both ends mean the same connection and the same place in its bytes.

## 2. Modules

```
ClientExchange

SupervisorClaims, FramingClaims, InfoSourcesClaims, RuleFileClaims, LogReaderClaims,
AgentDirectoryClaims
             ----INSTANCE----> Supervisor, Framing, InfoSources, RuleFile, LogReader,
                               AgentDirectory
AlgorithmClaims
             ----INSTANCE----> RuleMatcher, Conditions, GraphSamples

LogDatabase ----INSTANCE (refinement)----> CountedLog
DatabaseClaims EXTENDS LogDatabase, AgentDirectoryClaims
MCAlgorithms   EXTENDS FramingClaims, LogReaderClaims, AlgorithmClaims
MCFiles        EXTENDS RuleFileClaims, AgentDirectoryClaims
MCThreads      EXTENDS SupervisorClaims, InfoSourcesClaims

        Server ----INSTANCE----> AgentSession <----INSTANCE---- AgentLink
           \-------INSTANCE----> RequestRouting
AgentSessionProofs   EXTENDS AgentSession, ListLemmas
RequestRoutingProofs EXTENDS RequestRouting, ListLemmas
ServerProofs         EXTENDS Server, INSTANCE AgentSessionProofs, RequestRoutingProofs
AgentLinkProofs      EXTENDS AgentLink, INSTANCE AgentSessionProofs
DatabaseProofs       EXTENDS DatabaseClaims, ListLemmas, FiniteSetTheorems
ComponentProofs      EXTENDS ClientExchange, SupervisorClaims, FramingClaims,
                             InfoSourcesClaims, RuleFileClaims, LogReaderClaims,
                             ListLemmas, FiniteSetTheorems
AlgorithmProofs      EXTENDS AlgorithmClaims, ListLemmas, FiniteSetTheorems
```

`MC<module>` extends a module and gives its function-valued constants values for
TLC; SupervisorRestart checks its module directly. MCDatabase, MCFiles, MCThreads and
MCAlgorithms take modules that share nothing and check them in one run, one
beside the other: a variable says which, and the others stay as they are. A
`<module>Claims` has the module as an instance and gives what is claimed of it
names that no other module uses, so that runs and proofs can put components
side by side. AlgorithmClaims does so for the three modules without a state: its
variable `input` is one input of one of them and never changes, `AllInputs` are the
inputs there are, of any size, and the run gives small ones for the constant
`Inputs`. Next to some definitions stands a
*mutant*: the definition as a plausible mistake would have it. For each property
of each passing run one mutant breaks it, so the property does say something
about the definition it names. `PROJECT.json` lists the mutants and, for every
definition, the lines of code it stands for.

Calls that fail, peers that disappear and threads that are cancelled are steps of
the models like any other; there is no instance from which they are left out. A
property that a failure defeats says so: it holds *unless* the state shows that
failure. `Wedged`, `TakenOver`, `RulesLeft` and `WaitsToSend` are read off the
state; `burst`, `hasty`, `mixed` and an emptied `since` are history, on which no
step depends; `broken` and `silent` say of a stream what it will still bring.
Where the code waits without a timeout, in `recv()`, in `send()` or for a mutex,
no fairness makes the wait end, and a liveness property names it as an
alternative: `[]Silent(s)`, `[]Held(r)`, `[]Treating`, `silent`, `WaitsToSend`.

**AgentSession.** A program counter for each thread of each session: `creator`,
`ctl` (control listener), `trl` (transfer listener), `dtor` (the destructor, run
by the creator or the control listener); `ackTo` is the place of the transfer
dispatcher. `mem` says whether the object is allocated, `tsd` is
`agent_transfer_sd`, `on` the descriptor a blocked `recv` was called with, which
differs from `tsd` after the dispatcher has overwritten it. `conn` and `connUp`
are the two ends of transfer connections, `ctlOpen` and `ctlUp` those of control
connections. Critical sections of `agent_list_lock` block on nothing and are one
action each; `clreq_mutex` is the variable `clreqHolder`. The pieces of `~Agent`
(join, close, erase, free) are separate actions, as other threads run in between.

**RequestRouting.** `rpc`, `tid`, `target`, `tries`, `rsp` of each thread that
treats a request, `registry` for `requests_list`, `pipe` for what an agent has
not answered yet, `hand` for the copy a listener is making. The walk through
`agent_list` without its lock is two actions: if the list changed in between, the
walk may find any match of either version or none. So is the walk of
`get_Request` through `requests_list` (`walk`), which may meet a thread that has
left the list, or miss one. `bcopy` is two actions, because the polling thread
may look at the buffer between its bytes. Thread ids are used again as soon as
their thread has ended, and a buffer belongs to whichever thread lives on that
stack now.

**Server.** Both of these on one `agent_list`, one `clreq_mutex` and the same
control listeners: a listener in `treat()` takes the steps of RequestRouting.
`Unread(r)` is a request whose `send()` may wait for its agent to read.

**AgentLink.** The agent at the other end of AgentSession: `apc` is its main
thread, `cur` and `tconn` its sockets, `down` the acknowledgements and requests
that it has not read. The peer actions of AgentSession happen only as this agent
takes them. `hasty` records that a side stopped waiting for the other while the
other was still at work on its part. The agent may lose the connection by itself,
or die and be started again, at any time (`LostAlone`), also while the server
still serves it. An acknowledgement that is taken for the first half of a length
makes the agent wait (`garbled`); what the server sends next completes a length of
24832 or more, for which `command` has no room (`OverrunCommand`).

**ClientExchange.** Calls of `get_request` against the dispatcher; datagrams are
sets of records, so that they are reordered and lost. The set `new` holds threads
that were created and have not counted themselves.

**Supervisor.** A slot is a `pthread_t` of `main()`, `role` what its thread runs.
Ports are taken and released by other processes, too, and `socket()`, `bind()` or
`listen()` may fail with the port free. (A dispatcher whose `listen()` failed
leaves its socket bound; with `SO_REUSEADDR` that does not hinder the next one.)

**Framing.** `total` counts as the code's unsigned int does, modulo `Width`;
`taken` is what really arrived, `broken` that a `recv()` failed, `silent` that the
peer has stopped for good, without closing. A length beyond the buffer of the
caller ends in `overrun`, where the model stops: nobody compares the two.

**LogReader.** The file, the buffer and the two functions byte by byte. A byte is
the number of its line, so that a lost or misplaced one shows. `follow` says
which of the two functions reads; `burst` records that a followed log grew
before all of it was read; a file of rules has a newline behind its last line or,
like all that the agent writes, has none (`terminated`).

**CountedLog, LogDatabase.** CountedLog is what a log promises: entries are
stored, they stay, and a count is asked for and answered with the count of one
moment in between, or with less when reading failed. Its entries say how far they
can be read, as the writer appends any entry and the query reads those that fit
its buffer and are followed by a comma. LogDatabase has the file as bytes: `wpc`
is the place of each transfer listener between `access`, `open` and its two
writes, `at` and `buf` the position and the buffer of the query. `CountsAMoment`
is the refinement: `StoredIn(log)` are the entries of a file as a reader of the
whole of it would find them, and what the scan answers, one buffer at a time and
while listeners append, is what such a reader would have counted at some moment,
or less if a `read()` fails. A scan that ends by itself answers nothing less.
`mixed` records that two listeners were at work at once or that a separator was
not written.

**AgentDirectory.** `rpc` is where a request is, its thread and its child being
one sequence of steps because the thread waits for the child; `script` is the
file `aglist_script`, which several requests may be making; `dirs` and `info` are
what logins made, and a login may fail with its mutex locked. `out` is what the
child printed, then what the thread read: at most `ReadCap` ids in one `read()`,
and no more than `PipeCap` while nobody reads. `since` is the set of agents that
the request has to find: those known when it began, if the script was complete.
What was read is walked by `strtok()`, one call an action. `saved` is its one
pointer, the text it leads into and what is left of that: a request that walks
goes on in the text of whoever called `strtok()` with a text last, in nobody's if
that one has ended, and count queries call it, too (`QueryToken`). A request whose
walk another thread came into need not find anything any more (`Disturbs`).

**RuleMatcher.** `Matches` follows the text of a rule and the line as
`parse_entry` does, part by part; `Divides` says what a rule means, a division of
the line into one piece for each part. `MatchIsDivision` compares the two: a match
is a division, and a line with a clear division, one that leaves no doubt,
matches. What follows a part is a recursive function of the part and then of the
place in the line, so that it can be proved about.

**Conditions.** `heard` is what the calls of `strtok()` returned to a thread: the
`Tokens` of its request, or, once another thread called it, anything. `Parsed` is
what the loop makes of that, an error (the empty set), the conditions, or
`Overrun` if there are more than the array `conditions[100]` holds, whose bound
nobody looks at (`MaxConditions`). `Counted` says whether an entry meets the
conditions, by text or through `atoi` as an int of `Width` values; `IsMeant` is the
meaning that the help of the client gives them.

**GraphSamples.** `Begins` computes where the samples of a graph begin, with the
rest that is added up, from whatever the uninitialised `rest` holds (`rest0`);
`Shown` what two queries for each sample yield, or the mark of a failed one.

**RuleFile.** The file is a sequence of names and of entries without `|`. A
command that writes twice is two actions, and may stop between them.

**InfoSources.** The main thread and the monitors; `cancelled` holds those with a
pending cancellation, which is acted on in `read`, `send`, `open` and `sleep`,
also with a mutex locked, and not in `pthread_mutex_lock`. A mutex whose holder
went without unlocking it has the holder `Left` (the socket's) or `"left"` (the
rules'). A monitor in `send()` stays there while the server reads nothing, and the
second `send()` of a message, which is without `MSG_NOSIGNAL`, may end the agent
(`Killed`). Mutexes are not handed over in any order: one that others take again
and again may never be had.

## 3. Runs

The counts are of distinct states.

| run | instance | states | what it shows |
|---|---|---|---|
| AgentSession | 2 sessions of one host, 1 transfer connection | 26 464 | list, objects and connections consistent in every interleaving; a dead session leaves the list; set-ups end unless one failed or a peer sends no login |
| RequestRouting | 2 sessions of one id, 2 requests, 2 thread ids that are used again, 2 polls | 538 905 | the registry is exact; an answer reaches its request, or the next owner of the id if that gave up |
| RequestRoutingLate | the same | - | *counterexample*, see below |
| Server | 2 sessions of one host and id, 1 connection, 1 request, 1 poll | 490 416 | implements AgentSession and RequestRouting; requests go to sessions that were set up; their threads end unless a set-up failed or an agent is silent or reads nothing |
| ClientExchange | 2 clients, 3 tries, limit 0 | 309 136 | exact count, bounded sends, success means an answer, one socket at most, `get_request` returns |
| Threads | *main thread of the server*: ports taken at the start, and 3 times more taken or a call failing; *threads of the agent*: 3 sources on 2 paths, cancellation anywhere, a server that may read nothing | 21 025 | each dispatcher joined once; the control dispatcher comes, serves and stays; monitors belong to sources, none survives a reconnection; restarts and commands end but for the waits they name |
| SupervisorRestart | ports taken, or a call failing, once | - | *counterexample*, see below |
| Algorithms | *framing*: counts modulo 16, messages of up to 8 bytes, a buffer of 6; *reader*: every file of up to 4 lines of 0 to 4 bytes, with and without a last newline, a buffer of 4; *matcher*: every rule of up to 3 parts on every line of up to 3 characters; *conditions*: up to 3 in a request, an array of 2, the walk of `strtok()` disturbed anywhere in a request of 2, 2 on entries of up to 2 arguments; *graph*: up to 4 samples of up to 7 seconds, `rest` from -3, 0, 1, 5 | 538 777 | a message is whole if no `recv()` failed, and overruns no buffer it fits; both readers return the lines that fit; a match is a division; queries are read as sent and count what they mean; samples follow each other and show their own |
| Database | *log*: 2 listeners, 4 kinds of entries, a buffer of 10, files that stop growing beyond 8 bytes; *directory*: 2 requests, 2 agents of which 1 was known before, a `read()` and a pipe of 1 | 181 724 | a query answers the count of a moment, however the buffer cuts entries and whatever is appended; separators stay; requests are answered but for the ways to hang that are named |
| Files | *rules*: 5 names, 6 lines, pages of 2, stopped anywhere; *directory*: 2 requests, 3 agents of which 1 was known before, a `read()` and a pipe of 2 | 995 200 | names unique, rules kept, pages partition a file without malformed entries; agents known when a request began are found, those that logged in since the start, too |
| AgentLink | 1 session, 2 connections, 2 retries, 1 request | 79 402 | commands aligned unless a side was hasty; a lost or garbled connection is given up |
| AgentLinkAgain | 2 sessions, 2 connections, 2 retries, no request | 2 656 020 | the agent comes back beside its former session: both ends mean the same connection, and each session owns the one it holds |

**Where the code departs from what it says.** `SupervisorRestart` ends in a
counterexample to doc §4.2 and to the message the server prints: when the
transfer or the client dispatcher has fallen, `main()` creates another *control*
dispatcher in its place (`Server.cpp:74`, `82`), which cannot bind its port while
the first one has it. `RequestRoutingLate` ends in one to another sentence of doc
§4.2, that the control listener passes an answer on to the thread with the given
id "if it is still alive": the listener finds the thread in `requests_list`
(`Agent.h:115`), the thread gives up, leaves the list and ends, and then the answer
is copied to the buffer it had (`:117`). Elsewhere the departure is a condition of a property that holds:

| code | what happens | condition |
|---|---|---|
| `Agent.h:270-273`, `284-287` | a set-up that fails keeps `clreq_mutex`: later set-ups and requests wait for ever | `Wedged` in SetupCompletes, TreatThreadEnds |
| `Agent.h:62` | a peer that sends no login keeps `clreq_mutex` locked while it stays | `[]Silent(s)` in SetupCompletes, TreatThreadEnds |
| `Agent.h:53` | `send()` waits for an agent that does not read | `Unread` in TreatThreadEnds |
| `Agent.h:114-117` | a late answer goes to a later thread with the same `pthread_t`, or to its stack | `TakenOver` in HandedToAsker, AnswerOwn |
| `Agent.h:214-232` | two listeners of one id test for the file, then write: an entry may follow another without a separator, and hides what follows from queries | `mixed` in EntriesApart, `"not"` in CountedLog |
| `ClientDispatcher.cpp:385-572` | an entry that leaves no room in the buffer hides what is behind it, a longer one itself, too | `"last"` and `"not"` in CountedLog |
| `ClientDispatcher.cpp:178-231` | requests that walk a list at the same time, and count queries, share the pointer of `strtok()` | `since` in KnownAreFound, `saved` in RequestAnswered |
| `ClientDispatcher.cpp:79-92` | a script that is being made again, or was left empty, lists no agent | `since` in KnownAreFound |
| `ClientDispatcher.cpp:81`, `115` | a child that can not open the script, or prints more than the pipe holds, never ends | two alternatives in RequestAnswered |
| `ClientDispatcher.cpp:126` | one `read()` cuts a long list | `ReadCap` in KnownAreFound |
| `ClientDispatcher.cpp:480` | a condition also meets an argument whose name ends with its own | `longer` in QueryAsMeant |
| `ClientDispatcher.cpp:272` | with two empty values, a name passes for a value | one empty value, in QueryAsMeant |
| `ClientDispatcher.cpp:272-320` | another thread's `strtok()` gives a query pieces of another text | `heard = own` and `Undisturbed` in QueryAsMeant |
| `ClientDispatcher.cpp:269` | a hundred conditions fill the array, more are written behind it | `MaxConditions` in QueryAsMeant |
| `InfoSource.h:287` | the delimiter of a text that is not sent is always the colon | `Clear` in MatchesDivide |
| `Client.cpp:281` | `rest` is not initialised: what it holds too much is added to the interval, a negative one shortens samples; samples without a second of their own show the entries of the one they begin at | `rest0`, `shortest` and `At` in GraphPartition |
| `Client.cpp:338` | the mark of a failed query is added to | `failed` in GraphPartition |
| `common_definitions.h:48-54` | -1 from `recv()` is added to an unsigned count | `broken` in FramingSound |
| `common_definitions.h:52` | a peer that stops inside a message keeps the loop | `silent` in ReceiveEnds |
| `common_definitions.h:82` | a length is not compared with the buffer | `overrun` in FramingSound, `OverrunCommand` in AgentLink |
| `common_definitions.h:98` | the second `send()` may end the process by SIGPIPE | `"killed"` in RestartCompletes, `LostAlone` in AgentLink |
| `InfoSource.h:86` | `bcopy` with its arguments the wrong way round loses what was read beyond a line | `burst` in ReaderSound, LinesFollowed |
| `InfoSource.h:93-112` | a full buffer without a newline is read for ever, or cut | `Fits` in ReaderSound, LinesFollowed |
| `Agent.cpp:577-589` | a malformed entry counts differently in two commands | no malformed entry, in PagesPartition |
| `InfoSource.h:570-576` | a monitor cancelled while it sends leaves the socket's mutex locked; one whose `send()` does not return keeps it | `WaitsToSend` in RestartCompletes |
| `InfoSource.h:156-159`, `Agent.cpp:421` | `parse_entry`, or a command, fails with `rules_file_mutex` locked | `RulesLeft` in RestartCompletes, CommandEnds |
| `Agent.cpp:93-144`, `Agent.h:284` | an acknowledgement comes after the agent stopped waiting, or ten failures count as success | `hasty` in LinkSound, SamePipe |

**Bounds, and why they are enough.** Two sessions are the least for one to wait
for `clreq_mutex`, to be found in place of the other, or to share a host or an
id; a third adds longer queues of the same. A transfer connection is named again
once both of its ends are closed, so that one name makes any number of
connections one after another; two at a time, of which one replaces the other,
are in AgentLinkAgain, which checks the connections of AgentSession there
(SocketsTracked). Two requests are needed for an answer to meet the wrong
thread, and two ids for them to wait at a time; one of them may take over the
other's id. Their polls are 2, and 1 in Server, instead of 4, which shortens the
waiting and not the order of steps. Server has one request, because what two do
to each other is RequestRouting's question, and Server implements it. `MaxRetry`
is 3 instead of 5: a first try, one repeated, and one given up. A buffer of 4
bytes stands for 1024, with lines that end before, at and after its end.
`EntriesPerPage` is 2 instead of 10, with up to three pages. `MaxPending` allows
one request behind an acknowledgement in AgentLink, which may be the one that
completes a garbled length; AgentLinkAgain needs none, since the agent loses its
connection by itself. `Width` 16 stands for 2^32: all that
matters is that it exceeds every length; `BufferSize` 6, below `MaxLength` 8, for
1025 and 65535. `MaxConditions` 2 stands for 100, with requests of three. `Bump`,
`MaxMishaps`, `MaxLines`, `MaxBody`, `MaxPending`, `MaxBytes` and `Asked` are the bounds put on what is
unbounded in the code. The buffer of a query is 10 bytes, with entries of 4, 7 and
8: some end inside it, at its end or too close to it, some are cut by it, and one
holds `]}` in its middle; files reach 28 bytes when both listeners write at the
bound, so the buffer is filled again several times. In Files three directories do
not fit one `read()`, two do, one of them of an agent that logged in meanwhile. In
Database one directory too many stops a child for ever, which is what the liveness
property is about there. Rules and lines of three are enough for a part between
two others. AgentLinkAgain and Files use the symmetry of their sessions and
connections, and of their requests: the properties they check are invariants and
one action property, and name none of these.

Deadlock is not checked: the models may end, because sessions, requests and logs
are finite, or because everybody waits for what nobody does, which the liveness
properties are there to tell.

**Fairness.** Weak fairness of the threads a property is about: the scheduler
runs what can run, and calls with a timeout return. In AgentSession these are the
creators, the control listeners and the destructors; in Server the creators and
the threads of requests; in AgentLink the agent's main thread and the three of
the server; in ClientExchange the clients, whose `recv` has a timeout; in
Framing and LogReader the one thread there is; in AgentDirectory the requests and
their children, except for opening the script. Calls *without* a timeout get no
fairness while they may wait: a creator in `login()` whose peer has not gone
(`CreatorRuns`, in AgentLink `Waits`), a request in `send()` while the connection
stands (`TreatRuns`), `recv()` from a peer that fell silent (Framing), monitors in
`read()` and `send()`, the agent in a command (`TreatCommand` is not in
`AgentRuns`). Peers, the network and whoever writes a log owe nothing; in
ClientExchange weak fairness of a client's steps includes that `socket()` does not
fail for ever, and Supervisor assumes that other processes release the ports.
Strong fairness in two places: a control listener of AgentSession meets the end
of file of a peer that has gone, since that left finitely many messages to read
first; and a pending cancellation is acted on by a monitor that passes
cancellation points again and again. Mutexes are taken under weak fairness only:
who waits gets one that stays free, as pthreads promise no more.

## 4. Proofs

What is proved holds for every number of sessions, connections, requests, clients,
sources and entries, and for every size of a buffer, where a run has two or three.

| module | theorems |
|---|---|
| AgentSessionProofs | `TypeCorrect`; `Invariance`, and from it `ListSoundHolds` (ListSound: ListedAlive, ListedOnce, WaiterIsNewest), `ConnectionsHold` (ConnectionsOwned), `DestructionIsOwn` (DestructionOwn), `ErasesOwnEntry` (the action property OnlyOwnEntryErased) |
| RequestRoutingProofs | `TypeCorrect`, `RegistryHolds` (RegistrySound), `HandedToAskers` (HandedToAsker), `AnswersAreOwn` (AnswerOwn) |
| ServerProofs | `ImplementsSessions` and `ComponentsImplemented` (ImplementsComponents), the refinement of AgentSession and of RequestRouting; `SessionsAreUsedInTime` (SessionsUsedInTime) |
| AgentLinkProofs | `LinkImplementsSessions`, the refinement of AgentSession; `SocketsAreTracked` (SocketsTracked), `LinkIsSound` (LinkSound), `PipeIsSame` (SamePipe) |
| DatabaseProofs | `EntriesStayApart` (EntriesApart), `QueriesCountAMoment` (CountsAMoment, the refinement of CountedLog), `KnownAreFoundHolds` (KnownAreFound), `DatabaseTypeCorrect` (Types) |
| ComponentProofs | `ExchangeIsSound` (ExchangeSound), `SlotsAreSound` (SlotsSound), `ServingIsKept` (ServingKept), `FramingIsSound` (FramingSound), `MonitorsAreSound` (MonitorsSound), `FilesAreSound` (FileSound), `RulesAreKept` (RulesKept), `PagesArePartition` (PagesPartition), `ReadersAreSound` (ReaderSound) |
| AlgorithmProofs | `MatchingDivides` (MatchesDivide), `QueriesAreAsMeant` (QueryAsMeant), `GraphsArePartitioned` (GraphPartition), each from theorems on the operators: `MatchesAreDivisions`, `RequestsReadAsSent`, `EntriesCountAsMeant`, `GraphIsPartitioned` |
| ListLemmas | division; what appending to and erasing from a list without repetitions does to it; induction over numbers; what a recursive function copies of a list; where the lists of a joined list are in it |

Assumptions: the named `ASSUME`s of the modules (of its Claims, where a module
has one), that the stand-ins for "none" are not among the objects they stand
beside and that bounds are numbers; for LogDatabase and for the sessions
and the routing inside Server and AgentLink, the same as a hypothesis. The matcher's
(`MatcherAssumption`) are about its characters: of the blanks only the space is
printable, and the end of a text is not.
EntriesStayApart assumes besides that no entry looks like two, one ending and the
next beginning without a separator, and QueriesCountAMoment that entries end like
entries: the agent writes `]}` behind each (`InfoSource.h:531`).

**AgentSession.** None of the invariants is inductive alone: that
listed sessions are allocated needs that a session is erased before it is freed,
which needs that one thread runs the destructor, which needs to know what the
other two threads may be doing in each of its states. `IInv` is the conjunction
of `TypeOK` and named parts that say, for each session, how its program counters
go together (who may be in which state of the destructor), how the list goes with
them (listed exactly from registration to erasing), who holds `clreq_mutex` (the
creator between locking and unlocking, or one that failed), and how connections
go with `tsd`. The proof takes the actions one by one; list lemmas carry the two
actions that change `agent_list`.

**RequestRouting.** A thread is in `requests_list` exactly between
its registration and its removal, and living threads have different ids; so
the first entry with an id is the only one. Ids are used again, so that nothing
said of the owner of an id lasts: `OwnInv` follows one message instead. The thread
it was sent for either still has the id to itself, or has ended without its answer
(`TakenOver`), which nothing undoes, since an ended request has its reply. What
`get_Request` finds has the id of the message, in whichever version of the list it
was found; so it is the asker or a successor, and what is copied to a stack
reaches the one that lives there now, of the same id again.

**Server.** A step of the server is a step of one component and leaves the
variables of the other alone, but for the three things they share. The walk
through `agent_list` is the case that matters: what RequestRouting allows itself
to see, any match of the list before or after one change or none, is what the
server's own steps can make of the list in between; that the list has no
repetitions, which RequestRouting asks of its environment, comes from
AgentSession's invariant. `UseInv` then follows what a request found:
every session that was ever in the list has been pushed by its creator
(`SeenPushed`); the creator holds `clreq_mutex` from before that until its set-up
succeeded (`SetUp`), so that a request, which needs the mutex to register, finds
the set-up done (`TargetInv`). A set-up that failed never gives the mutex up.

**AgentLink.** Its steps are steps of AgentSession or leave the server alone, so
that `SocketsTracked` follows from AgentSession's invariant. For the other two,
`LinkInv` relates the three places where one transfer connection may be: the
agent's socket, the backlog of the port, and the session. While no side gave
up too soon, at most the connection the agent is waiting for is in the backlog
(`BacklogInv`), and its session is either unserved, with no acknowledgement
anywhere, or served by just that connection with one acknowledgement made or on
its way (`PhaseInv`). The exception took a step of its own: connections that
were left in the backlog by an agent that went away survive a set-up that failed.
They harm nobody, because the failed set-up keeps `clreq_mutex`, and no
later session is listed for which the dispatcher could take them (`LeftBehind`).

**AgentDirectory.** Who finds the script complete, with nobody about
to make it anew, does not make it himself, so the script stays complete for ever
(`SettledStays`); only then is anything in `since`. Directories are made and never
removed (`DirsGrow`), so what the child lists is no less than what was known when
the request began; if all directories fit one `read()`, so did the ones listed,
and the read takes all of them (`FitsBefore`). A walk keeps, while `since` holds
anything, that the pointer of `strtok()` is the request's own, and that every
agent to be found has been met or is left in its text (`Walked`): a call by another
thread empties `since`, and one of its own takes a piece from one side to the
other. The file `info` of an agent stays complete until that agent logs in again,
which takes it out of `since`. `IInv` is `TypeOK` and, for each request, one such
conjunct for each stage it may be at; a login, the request itself and another
request each keep it (`LoginKeeps`, one lemma for each kind of step, `OthersKept`).

**LogDatabase.** `EntriesApart` is not inductive because a separator comes by a
step of its own: `LogInv` says that a listener that is about to write its entry
finds the file empty or ending in a newline, while listeners come one at a time.

`QueriesCountAMoment` has two halves. That appending implements `Store` needs that
what an entry shows a reader depends on no byte behind its separator
(`StoredAppended`): the entries stored before stay, a separator adds none
(`SepStoresNothing`), and a complete entry adds one item, its last byte, and may
only turn the one before it from readable into unreadable, if its separator was
lost. That the scan answers a moment needs to say where it stands: `StandsAt(m, ..)`, it
has counted what ends up to byte `m`, its buffer holds the bytes of the file from
behind the separator after `m`, and everything up to `m` can be read on. One turn
(`Turn`) then finds nothing, in which case nothing more can be read in the whole
file either, or the first end behind `m`, counts it, and stands there. The count
that it compares with is the one of the file as it is now, which is in `moments`
since it changes only by appending. Nothing is assumed of who appends
meanwhile, nor where entries are cut.

**ClientExchange.** The number of sends is bounded because `retry_counter` tells
the datagrams of a client apart: all that are about were sent at different
counts, none at a count not yet reached (`CounterInv`, `SentOnce`). The exact
`req_count` needs that a datagram is in one place at the server (`OnePlace`), so
that a thread is counted once and uncounted once.

**Supervisor, Framing, InfoSources, RuleFile.** `SlotsInv`: while `main()` starts,
the slots behind it have a thread; afterwards all have but the one it is creating
again. `CountInv`: until a `recv()` fails, `total` is what arrived, and never
beyond what was asked for, so that the unsigned count does not wrap; after that it
only loses, and a length may come out that nobody announced. `SourcesInv`: registered sources have different paths, and the one
`main()` is destroying is registered no more, and cancelled until joined.
`RuleInv`: a rule is written only where a line was begun for it, under a name that is not
in the file; what a removal keeps (`Without`, a recursive function over the
lines) has no repetition if the file had none. For `PagesArePartition` the file is
besides never longer than its bound (`LinesBounded`), so that all pages are there;
how many entries a page holds follows from division with remainder
(`PageIsPart`), and that the pages joined are the file by induction over them.

**LogReader.** `ReaderInv` says where the reader stands, in terms of a layout of the
file: numbers `p[i]` at which its lines end (`Layout`; that one exists, and that one
line more only adds to it, are lemmas on lists). A last line without a newline ends
one byte sooner, and is returned at the end of the file. The buffer holds what was read from
where the next line begins (`BufferFrom`), or, between two calls, from where the last
one did. From there the first newline is the end of just that line (`FirstLine`),
since lines hold none, and a full buffer or the end of the file can not come before
it while lines fit. That the backwards copy of the follower harms nothing needs that
nothing lies beyond the newline: at most one line is unread while the log is not
hurried, and no more than the file holds was read. The invariant was model-checked
before, with the numbers `p` computed.

**RuleMatcher.** The set of matches is defined by recursion over the parts of the
rule, for all places of the line at once; `MatchesExist` shows that there is such a
function, built row by row from the end of the rule, since a row depends on that of
the next part alone. One half of the theorem is that a match is a `Chain`: its
elements stand for parts in the order of the rule, each is met where the one before
it ends, and the last ends with the rule and the line (`ChainGrows`,
`MatchesAreChains`, by induction from the end of the rule). A chain divides the line
(`ChainDivides`): that a text which is sent holds nothing of the next part comes from
its delimiter (`CharsAre`). A part that no element of a chain stands for was
jumped over between two elements, which only a `\ ` does, and only over spaces
(`ChainPassesOver`). The other half is that a clear division is found (`ClearIsFound`,
by the same induction): where the division lets a part begin, the part takes just its
own piece, since what follows may not belong to it (`ClearPart`); and a part is
never passed over, since its piece is not empty and begins behind blanks that end.

The proof showed a flaw of the model: the delimiter of a text that is not sent and
stands at the end of its rule was given by two arms of a CASE, and TLC took the first.
The code reads the colon there (`InfoSource.h:287`), and so does the model now.

**Conditions, GraphSamples.** Both theorems about conditions hold for requests and
entries of any length. The tokens of a request have a layout too (`TokensLaid`): a
part with a name and a value lays two tokens, so that part `k` of a proper request
is in tokens `2k - 1` and `2k`, and one empty value makes their number odd, which is
the error that the code finds (`EmptyValueRefused`). Since condition `k` is read
from tokens `2k - 1` and `2k` alone (`ConditionIsRead`), what another thread's
`strtok()` does to later ones leaves it as it was sent, and a list that has as many
tokens as `MaxConditions` allows does not overrun (`FewOverrunNothing`). Of an
entry, `Atoi` is right about the numbers of an int (`AtoiOfInt`, whatever its
width), and an argument that meets a condition has its name or a longer one. The
samples of a graph follow from what the loop keeps: up to sample `i`, its whole
seconds and its rest make `i` samples and what the rest began with, while the rest
stays below two seconds or, if it began with more, has given them to the first
sample; hence the last sample ends with the interval and what was too much, or one
second before (`WholeGrows`, `SampleTakes`). For a rest that begins negative it only
grows, so that no sample is shorter than the first. These assume of an entry or a
request only what the run's inputs have, not how many there are.

Induction. The provers can not instantiate a theorem with an operator as its
parameter, so induction is stated for sets: a set of numbers that holds zero, and
with each number the next, holds them all (`NatSetInduction`, from the library's
`WFMin`). `RecursionOnRange` gives from it the values of a function defined by
recursion on `0 .. n`, `FilterKeeps` what `Without` does, `FlattenJoins` and
`FlattenHasLayout` what joining lists does; the modules under
proof use recursive functions instead of `SelectSeq` and `FoldLeft` for it.

Only model-checked: liveness (DeadAgentUnlisted, SetupCompletes, TreatThreadEnds,
RequestEnds, ControlServed, ReceiveEnds, LinesFollowed, RequestAnswered,
RestartCompletes, CommandEnds, LossNoticed), which is outside the prover's reach, as
is `ENABLED`. Each invariant and each action property of a passing run is a theorem;
DispatchersRestarted and HandedToLiving, which two runs refute, are of course none.

## 5. Not modelled

* Descriptor numbers and their reuse: `~Agent` may close a number that was closed
  before and given to somebody else; the transfer listener forgets its number
  without closing it.
* Torn reads of `agent_list` beyond "a match of the old or of the new list, or
  none".
* What a thread does with memory that is no longer its object's: the models go on
  (a transfer listener of a deleted session, `Agent.h:291-299`; a walk that stands
  on an entry of `requests_list` that another thread removes; a copy to the stack of
  a thread that ended, `Agent.h:114-117`; a request sent through a session deleted
  meanwhile, `ClientDispatcher.cpp:603-625`; `strtok()` in the stack of a thread
  that ended), and the only property about them is HandedToLiving, which fails.
* What follows an overrun buffer: Framing and Conditions end there, and in AgentLink
  the agent goes on garbled or dies.
* Two calls of `strtok()` at the very same time: each is one step, and what is left
  to the models is which text it goes on in.
* SIGPIPE in the server: its own second `send()` may end it, with all it does.
* How long a command of the agent takes: that `treat()` may wait for ever for a
  monitor's mutex is in InfoSources, and an alternative (`[]Treating`) in LossNoticed;
  that destroying the sources, which comes before reconnecting, ends is
  RestartCompletes.
* The choice among the rules of a file (the first that matches and whose JSON fits
  its buffer) and the layout of the JSON; the form of dates, which are one
  character for RuleMatcher.
* The mark `(*)` of agents that are online in the list of agents: it walks
  `agent_list` as a request does.
* The floating point rounding of the graph's fractions of a second, and numbers in
  `rest` that a long can not hold.
* The client's command line and its other widgets, which format one request and
  print its answer; the abandoned graphical client.
* Partial writes to a log, and a `read()` of a pipe that returns less than there
  is.
* `exit(1)` when a thread can not be created; the agent's question whether to
  exit (`get_stdin_approval`), which ends it or goes on as modelled.
* The split of `send_varmsg` into two sends, and short sends.
* `sources_mutex`: only the main thread of the agent uses `sources`.

## 6. Plan

1. *Extend.* An abstract specification of one request, from client to agent and
   back, that Server and ClientExchange together implement; the choice among the
   rules of a file; several agents on one host.
2. *Revise.* Replace what turned out shallow, complete the hazards.
