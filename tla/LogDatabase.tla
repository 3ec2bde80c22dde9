---------------------------- MODULE LogDatabase -----------------------------
(***************************************************************************)
(* One log file of the server's database: the transfer listeners that      *)
(* append to it (Agent.h) and a count query that scans it through a buffer *)
(* of MSG_MAX_SIZE bytes (ClientDispatcher.cpp).  Two listeners append to  *)
(* one file when an agent is logged in twice, or two agents have one id.   *)
(*                                                                         *)
(* A byte is "m" (text that meets the conditions of the query), "x" (other *)
(* text), one of { ] } , or a newline.  Whether an entry meets conditions  *)
(* is the question of module Conditions.                                   *)
(***************************************************************************)
EXTENDS Naturals, SequencesExt

CONSTANTS Writers,   \* transfer listeners of sessions with this id
          Entries,   \* the entries agents send, as bytes
          Cap,       \* MSG_MAX_SIZE
          MaxBytes   \* bound: no message is received beyond this length

\* What the constants are assumed to be.
LogAssumption ==
    /\ Cap \in Nat \ {0} /\ MaxBytes \in Nat
    /\ \A e \in Entries : /\ e \in Seq({"{", "m", "x", "]", "}"}) /\ e # <<>>
                       /\ e[1] = "{" /\ Len(e) < Cap

VARIABLES exists, log,         \* the file
          wpc, first, entry,   \* of each listener: where, first_time, p + 1
          mixed,               \* have two listeners been at work at once, or
                               \* was a separator not written?
          scanning, at, buf,   \* the query: its descriptor and buffer
          count, answer,
          moments              \* the counts of a whole log since the query began

writerVars == <<exists, log, wpc, first, entry, mixed>>
scanVars == <<scanning, at, buf, count, answer>>
vars == <<writerVars, scanVars, moments>>

\* Mutant of ReadTo: what the buffer holds is forgotten.
ReadToCap == Min({Len(log), at + Cap})

\* read() takes as much as there is and fits.
ReadTo == Min({Len(log), at + Cap - Len(buf)})
Filled == buf \o SubSeq(log, at + 1, ReadTo)

TypeOK ==
    /\ exists \in BOOLEAN /\ mixed \in BOOLEAN /\ scanning \in BOOLEAN
    /\ log \in Seq({"{", "m", "x", "]", "}", ",", "\n"}) /\ (log # <<>> => exists)
    /\ wpc \in [Writers -> {"recv", "access", "open", "sep", "entry"}]
    /\ first \in [Writers -> BOOLEAN]
    /\ entry \in [Writers -> Entries \cup {<<>>}]
    /\ at \in 0 .. Len(log) /\ Len(Filled) <= Cap
    /\ count \in Nat /\ answer \in Nat /\ moments \subseteq Nat

Init ==
    /\ exists = FALSE /\ log = <<>> /\ mixed = FALSE
    /\ wpc = [w \in Writers |-> "recv"]
    /\ first = [w \in Writers |-> FALSE]
    /\ entry = [w \in Writers |-> <<>>]
    /\ scanning = FALSE /\ at = 0 /\ buf = <<>> /\ count = 0 /\ answer = 0
    /\ moments = {}

-----------------------------------------------------------------------------
(* The entries of a file, as a reader of the whole of it finds them.       *)

IsEnd(b, k) == k > 1 /\ b[k - 1] = "]" /\ b[k] = "}"
End(b) == {k \in DOMAIN b : IsEnd(b, k)}

\* The byte after the separator that follows byte k, if one does.
Behind(b, k) ==
    IF k < Len(b) /\ b[k + 1] = ","
    THEN IF k + 1 < Len(b) /\ b[k + 2] = "\n" THEN k + 3 ELSE k + 2
    ELSE k + 1

\* An entry that leaves no room in the buffer for a byte of the next is the
\* last to be read; one that is not followed by a comma can not be read.
Reads(b, from, to) ==
    LET size == to - from + 1 IN
    IF size > Cap \/ (size < Cap /\ to < Len(b) /\ b[to + 1] # ",") THEN "not"
    ELSE IF size + 2 >= Cap THEN "last" ELSE "on"

StoredIn(b) ==
    LET Item(from, to) == [place |-> to, reads |-> Reads(b, from, to),
                           match |-> \E k \in from .. to : b[k] = "m"]
    IN  {Item(IF n[1] = 0 THEN 1 ELSE Behind(b, n[1]), n[2]) :
            n \in {m \in (End(b) \cup {0}) \X End(b) :
                      m[1] < m[2] /\ \A k \in m[1] + 1 .. m[2] - 1 : ~IsEnd(b, k)}}

Whole == INSTANCE CountedLog WITH stored <- StoredIn(log), asked <- scanning

-----------------------------------------------------------------------------
(* A transfer listener.                                                    *)

Goes(w, from, to) == wpc[w] = from /\ wpc' = [wpc EXCEPT ![w] = to]

Receive(w) ==
    /\ Len(log) <= MaxBytes
    /\ Goes(w, "recv", "access")
    /\ \E e \in Entries : entry' = [entry EXCEPT ![w] = e]
    /\ mixed' = (mixed \/ \E v \in Writers \ {w} : wpc[v] # "recv")
    /\ UNCHANGED <<exists, log, first, scanVars, moments>>

Access(w) ==
    /\ Goes(w, "access", "open")
    /\ first' = [first EXCEPT ![w] = ~exists]
    /\ UNCHANGED <<exists, log, entry, mixed, scanVars, moments>>

\* O_APPEND | O_CREAT
OpenLog(w) ==
    /\ Goes(w, "open", IF first[w] THEN "entry" ELSE "sep")
    /\ exists' = TRUE
    /\ UNCHANGED <<log, first, entry, mixed, scanVars, moments>>

\* Mutant of WriteSep: there is no separator after the first entry.
WriteSepSecond(w) ==
    /\ Goes(w, "sep", "entry")
    /\ log' = IF Cardinality(End(log)) = 1 THEN log ELSE log \o <<",", "\n">>
    /\ UNCHANGED <<exists, first, entry, mixed, scanVars, moments>>

\* A write() that fails is reported and passed over.
WriteSep(w) ==
    /\ Goes(w, "sep", "entry")
    /\ \/ log' = log \o <<",", "\n">> /\ UNCHANGED mixed
       \/ log' = log /\ mixed' = TRUE
    /\ UNCHANGED <<exists, first, entry, scanVars, moments>>

WriteEntry(w) ==
    /\ Goes(w, "entry", "recv")
    /\ log' = log \o entry[w]
    /\ entry' = [entry EXCEPT ![w] = <<>>]
    /\ moments' = IF scanning THEN moments \cup {Whole!Count(StoredIn(log'))}
                  ELSE moments
    /\ first' = [first EXCEPT ![w] = FALSE]
    /\ UNCHANGED <<exists, mixed, scanVars>>

\* open() or the last write() fails, or ~Agent cancels the listener here.
Lose(w) ==
    /\ wpc[w] \in {"open", "sep", "entry"}
    /\ wpc' = [wpc EXCEPT ![w] = "recv"]
    /\ entry' = [entry EXCEPT ![w] = <<>>]
    /\ first' = [first EXCEPT ![w] = FALSE]
    /\ UNCHANGED <<exists, log, mixed, scanVars, moments>>

-----------------------------------------------------------------------------
(* The count query.                                                        *)

BeginCount ==
    /\ ~scanning /\ exists
    /\ scanning' = TRUE /\ at' = 0 /\ buf' = <<>> /\ count' = 0
    /\ moments' = {Whole!Count(StoredIn(log))}
    /\ UNCHANGED <<writerVars, answer>>

EndCount(n) ==
    /\ scanning' = FALSE /\ at' = 0 /\ buf' = <<>> /\ count' = 0
    /\ answer' = n /\ moments' = {}

\* Mutant of Unreadable: an entry is taken whatever is behind it.
UnreadableOnly(b) == End(b) = {}

\* The buffer holds no entry, or one with something else than a comma behind.
Unreadable(b) ==
    \/ End(b) = {}
    \/ LET e == Min(End(b)) IN e < Len(b) /\ b[e + 1] # ","

Matched(b) == \E k \in 1 .. Min(End(b)) : b[k] = "m"

Rest(b) == SubSeq(b, Behind(b, Min(End(b))), Len(b))

\* One turn of the loop, which reads once.
ScanEntry ==
    /\ scanning
    /\ LET counted == count + (IF Matched(Filled) THEN 1 ELSE 0) IN
       IF Unreadable(Filled) THEN EndCount(count)
       ELSE IF Rest(Filled) = <<>> THEN EndCount(counted)
       ELSE /\ count' = counted
            /\ buf' = Rest(Filled)
            /\ at' = ReadTo
            /\ UNCHANGED <<scanning, answer, moments>>
    /\ UNCHANGED writerVars

ReadFails == scanning /\ EndCount(count) /\ UNCHANGED writerVars

WriterStep(w) ==
    \/ Receive(w) \/ Access(w) \/ OpenLog(w) \/ WriteSep(w) \/ WriteEntry(w)
    \/ Lose(w)

ScanStep == ScanEntry \/ ReadFails

Next == (\E w \in Writers : WriterStep(w)) \/ BeginCount \/ ScanStep

Spec == Init /\ [][Next]_vars

-----------------------------------------------------------------------------
(* Properties.                                                             *)

\* The file and the scan implement a log that is counted at one moment: what a
\* query answers is what a reader of the whole file would have counted at some
\* time while it ran, however entries are cut by the buffer and whatever is
\* appended meanwhile; it is less only if reading fails.
CountsAMoment ==
    /\ Whole!Spec
    /\ [][ScanEntry /\ ~scanning' => answer' \in moments]_vars

\* As long as listeners append one at a time and separators are written, no
\* entry follows another without one, whatever was lost or cancelled.
EntriesApart ==
    ~mixed => \A k \in End(log) : k < Len(log) => log[k + 1] # "{"
=============================================================================
