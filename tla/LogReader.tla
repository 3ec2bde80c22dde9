------------------------------ MODULE LogReader ------------------------------
(***************************************************************************)
(* Reading a file line by line through a buffer of MSG_MAX_SIZE bytes      *)
(* (InfoSource.h): read_fmt_entry, which reads the rules from a .fmt file, *)
(* and InfoSource::read_entry, which follows a growing log.  Both leave    *)
(* what they read beyond the line in the buffer and begin, when they are   *)
(* called again, by moving it to the front.                                *)
(*                                                                         *)
(* The bytes of line i are i, its newline is NL.  The agent ends no file of *)
(* rules with a newline; one that was made by hand may have it.            *)
(***************************************************************************)
EXTENDS Naturals, SequencesExt

CONSTANTS Cap,          \* MSG_MAX_SIZE
          MaxLines,     \* bound: lines in the file
          MaxBody       \* bound: bytes of a line without its newline

\* What the constants are assumed to be.
ReaderAssumption ==
    /\ Cap \in Nat \ {0} /\ MaxLines \in Nat /\ MaxBody \in Nat

VARIABLES follow,  \* read_entry (TRUE) or read_fmt_entry (FALSE)
          burst,   \* has the log grown before all of it was read?
          lines,   \* the lines of the file
          terminated,  \* does the last of them end in a newline?
          at,      \* offset of the descriptor
          buf,     \* the buffer up to its NUL
          pc,      \* called, reading, or the caller met the end of the file
          out      \* the entries that were returned

fileVars == <<follow, burst, lines, terminated>>
vars == <<fileVars, at, buf, pc, out>>

NL == 0
Line(i, n) == [k \in 1 .. n |-> i]
Laid(i) ==
    IF i = Len(lines) /\ ~terminated THEN lines[i] ELSE Append(lines[i], NL)
Bytes == FlattenSeq([i \in DOMAIN lines |-> Laid(i)])

TypeOK ==
    /\ follow \in BOOLEAN /\ burst \in BOOLEAN /\ terminated \in BOOLEAN
    /\ lines \in Seq(Seq(1 .. MaxLines))
    /\ at \in 0 .. Len(Bytes)
    /\ buf \in Seq(0 .. MaxLines) /\ Len(buf) <= Cap
    /\ pc \in {"call", "read", "end"}
    /\ out \in Seq(Seq(1 .. MaxLines))

\* A .fmt file is there from the start; a log is read from its end on.
Init ==
    /\ follow \in BOOLEAN /\ burst = FALSE
    /\ lines \in IF follow THEN {<<>>}
                 ELSE UNION {{[i \in 1 .. m |-> Line(i, len[i])] :
                                len \in [1 .. m -> 0 .. MaxBody]} :
                             m \in 0 .. MaxLines}
    /\ terminated \in BOOLEAN
    /\ ~terminated => lines # <<>> /\ Last(lines) # <<>>
    /\ at = 0 /\ buf = <<>> /\ pc = "call" /\ out = <<>>

-----------------------------------------------------------------------------
HasLine(b) == NL \in Range(b)
Newline(b) == CHOOSE k \in DOMAIN b : /\ b[k] = NL
                                      /\ \A j \in 1 .. k - 1 : b[j] # NL

Entry(b) == IF HasLine(b) THEN SubSeq(b, 1, Newline(b) - 1) ELSE b

\* Mutant of Beyond: off by one.
BeyondFromNewline(b) == SubSeq(b, Newline(b), Len(b))

Beyond(b) == SubSeq(b, Newline(b) + 1, Len(b))

\* bcopy(message, p + 1, len) copies from the front to what lies beyond the
\* newline, and all after the first len bytes is zeroed.
CopiedBackwards(b) ==
    LET len == Len(Beyond(b))
    IN  SubSeq(SubSeq(b, 1, Newline(b)) \o SubSeq(b, 1, len), 1, len)

\* The function is called with what its last call left in the buffer.
CallFmt ==
    /\ ~follow /\ pc = "call"
    /\ buf' = IF HasLine(buf) THEN Beyond(buf) ELSE <<>>
    /\ pc' = "read"
    /\ UNCHANGED <<fileVars, at, out>>

CallFollow ==
    /\ follow /\ pc = "call"
    /\ buf' = IF HasLine(buf) THEN CopiedBackwards(buf) ELSE buf
    /\ pc' = "read"
    /\ UNCHANGED <<fileVars, at, out>>

\* read() gives what there is and what fits.
Read ==
    /\ pc = "read" /\ ~HasLine(buf)
    /\ LET n == Min({Cap - Len(buf), Len(Bytes) - at}) IN
       /\ n > 0
       /\ buf' = buf \o SubSeq(Bytes, at + 1, at + n)
       /\ at' = at + n
    /\ UNCHANGED <<fileVars, pc, out>>

\* read() gives nothing: the end of a .fmt file, or a full buffer.  (A log is
\* read again a second later.)
ReadNothing ==
    /\ ~follow /\ pc = "read" /\ ~HasLine(buf)
    /\ Len(buf) = Cap \/ at = Len(Bytes)
    /\ IF buf = <<>> THEN pc' = "end" /\ UNCHANGED out
                     ELSE pc' = "call" /\ out' = Append(out, buf)
    /\ UNCHANGED <<fileVars, at, buf>>

\* Mutant of Return: blank lines are passed over.
ReturnText ==
    /\ pc = "read" /\ HasLine(buf)
    /\ out' = IF Entry(buf) = <<>> THEN out ELSE Append(out, Entry(buf))
    /\ pc' = "call"
    /\ UNCHANGED <<fileVars, at, buf>>

Return ==
    /\ pc = "read" /\ HasLine(buf)
    /\ out' = Append(out, Entry(buf))
    /\ pc' = "call"
    /\ UNCHANGED <<fileVars, at, buf>>

\* The log grows by a line.
Grow ==
    /\ follow /\ Len(lines) < MaxLines
    /\ burst' = (burst \/ Len(out) < Len(lines))
    /\ \E n \in 0 .. MaxBody :
          lines' = Append(lines, Line(Len(lines) + 1, n))
    /\ UNCHANGED <<follow, terminated, at, buf, pc, out>>

ReaderStep == CallFmt \/ CallFollow \/ Read \/ ReadNothing \/ Return

Next == ReaderStep \/ Grow

Spec == Init /\ [][Next]_vars

\* The monitor's thread goes on reading.
FairSpec == Spec /\ WF_vars(ReaderStep)

-----------------------------------------------------------------------------
(* Properties.                                                             *)

\* A line fits into the buffer with its newline.
Fits == \A i \in DOMAIN lines : Len(lines[i]) < Cap

\* The entries that are returned are the lines of the file, in their order:
\* none is lost, repeated, joined with another or cut, provided that lines fit
\* and that a log that is followed grows no faster than it is read.
EntriesAreLines == Fits /\ ~burst => IsPrefix(out, lines)

\* The caller of read_fmt_entry meets the end of the file after all lines.
EndAfterAll == pc = "end" /\ Fits => out = lines

\* Both readers return what is in the file.
ReaderSound == TypeOK /\ EntriesAreLines /\ EndAfterAll

\* Every line of the log is returned, under the same provisions.
LinesFollowed ==
    \A i \in 1 .. MaxLines :
        Len(lines) >= i ~> Len(out) >= i \/ burst \/ ~Fits
=============================================================================
