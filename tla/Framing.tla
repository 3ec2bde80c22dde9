------------------------------- MODULE Framing -------------------------------
(***************************************************************************)
(* Receiving messages from a TCP stream (common_definitions.h):            *)
(* recv_varmsg receives a two-byte length and then that many bytes, each   *)
(* by recv_fixed_length, a loop around recv() that counts in an unsigned   *)
(* int, so that the -1 of a failed recv() is added as Width - 1.           *)
(*                                                                         *)
(* Bytes are counted, their values left out; so are the two reversals of a *)
(* received part (lines 69 and 87), which undo the sender's.               *)
(***************************************************************************)
EXTENDS Integers

CONSTANTS Width,        \* number of values of an unsigned int
          LengthSize,   \* sizeof(unsigned short)
          MaxLength,    \* the greatest unsigned short
          BufferSize    \* of the caller's buffer (MSG_MAX_SIZE + 1)

\* What the constants are assumed to be.
FramingAssumption ==
    /\ LengthSize \in Nat \ {0} /\ MaxLength \in Nat /\ Width \in Nat
    /\ BufferSize \in Nat /\ LengthSize < Width /\ MaxLength < Width

VARIABLES part,       \* what recv_varmsg receives, or has returned
          length,     \* the parameter length of recv_fixed_length
          total,      \* total_read_bytes
          announced,  \* the length the sender put in front of its message
          taken,      \* bytes of this part taken from the stream
          broken,     \* recv() has failed, the stream brings nothing more
          silent      \* the peer has stopped for good, and does not close

vars == <<part, length, total, announced, taken, broken, silent>>

TypeOK ==
    /\ part \in {"length", "message", "failed", "received", "overrun"}
    /\ length \in 0 .. Width - 1
    /\ total \in 0 .. Width - 1
    /\ announced \in 1 .. MaxLength
    /\ taken \in 0 .. Width - 1
    /\ broken \in BOOLEAN /\ silent \in BOOLEAN

Init ==
    /\ part = "length" /\ length = LengthSize
    /\ announced \in 1 .. MaxLength
    /\ total = 0 /\ taken = 0 /\ broken = FALSE /\ silent = FALSE

Running == part \in {"length", "message"}

\* The loop condition.
Short == total < length

\* Mutant of RecvSome: a short read is taken for the whole.
RecvSomeOnce(n) ==
    /\ Running /\ Short /\ ~broken /\ ~silent
    /\ n \in 1 .. length - total
    /\ total' = length
    /\ taken' = taken + n
    /\ UNCHANGED <<part, length, announced, broken, silent>>

\* recv() returns n bytes, which go to message + total.
RecvSome(n) ==
    /\ Running /\ Short /\ ~broken /\ ~silent
    /\ n \in 1 .. length - total
    /\ total' = (total + n) % Width
    /\ taken' = taken + n
    /\ UNCHANGED <<part, length, announced, broken, silent>>

\* recv() returns 0: the peer has closed.
RecvClosed ==
    /\ Running /\ Short /\ ~silent
    /\ part' = "failed"
    /\ UNCHANGED <<length, total, announced, taken, broken, silent>>

\* recv() returns -1, which is not <= 0 as an unsigned number.
RecvError ==
    /\ Running /\ Short
    /\ total' = (total + (Width - 1)) % Width
    /\ broken' = TRUE
    /\ UNCHANGED <<part, length, announced, taken, silent>>

\* Mutant of LengthDone: a length of which nothing came is received again.
LengthDoneAgain ==
    /\ part = "length" /\ ~Short
    /\ part' = IF taken = 0 THEN "length" ELSE "message"
    /\ length' = IF taken = 0 THEN length ELSE announced
    /\ total' = 0 /\ taken' = 0
    /\ UNCHANGED <<announced, broken, silent>>

\* The length is what the sender sent, 0 if nothing was put in the zeroed
\* variable, or some other number if a part of it was.  Nobody compares it with
\* the buffer: bzero() runs over what follows, and the model ends there.
LengthDone ==
    /\ part = "length" /\ ~Short
    /\ length' \in IF taken = LengthSize THEN {announced}
                   ELSE IF taken = 0 THEN {0} ELSE 0 .. MaxLength
    /\ part' = IF length' > BufferSize THEN "overrun" ELSE "message"
    /\ total' = 0 /\ taken' = 0
    /\ UNCHANGED <<announced, broken, silent>>

\* recv_varmsg returns length, and its callers take 0 for failure.
MessageDone ==
    /\ part = "message" /\ ~Short
    /\ part' = IF length = 0 THEN "failed" ELSE "received"
    /\ UNCHANGED <<length, total, announced, taken, broken, silent>>

\* The caller receives the next message, on a new connection after a failure.
NextMessage ==
    /\ part \in {"failed", "received"}
    /\ part' = "length" /\ length' = LengthSize
    /\ announced' \in 1 .. MaxLength
    /\ total' = 0 /\ taken' = 0
    /\ broken' = (part = "received" /\ broken)
    /\ silent' = (part = "received" /\ silent)

FallSilent ==
    /\ silent' = TRUE
    /\ UNCHANGED <<part, length, total, announced, taken, broken>>

Receive == (\E n \in 1 .. length : RecvSome(n)) \/ RecvClosed \/ RecvError

Step == Receive \/ LengthDone \/ MessageDone

Next == Step \/ NextMessage \/ FallSilent

Spec == Init /\ [][Next]_vars

\* The thread runs.  recv() has no timeout: it returns for certain only while the
\* peer sends, closes or is lost.
FairSpec == Spec /\ WF_vars(~(silent /\ Short) /\ Step)

-----------------------------------------------------------------------------
(* Properties.                                                             *)

\* While the loop runs, it has counted no byte that did not arrive: a failed
\* recv() takes the count back or ends the loop, never forward.
CountedArrived == Running /\ Short => total <= taken

\* A message that is returned has all the bytes it was sent with, unless a
\* recv() failed: then the count proves nothing.
ReceivedWhole ==
    part = "received" /\ ~broken => length = announced /\ taken = announced

\* The caller's buffer is overrun only by a message that was sent too long, or
\* after a recv() failed inside a length.
OverrunAnnounced ==
    part = "overrun" => length > BufferSize /\ (broken \/ announced > BufferSize)

\* The counters are numbers of their width and promise no more than came, and
\* splitting a message into reads invents no length.
FramingSound == TypeOK /\ CountedArrived /\ ReceivedWhole /\ OverrunAnnounced

\* recv_varmsg comes back, also from a socket on which every recv() fails, but
\* not from a peer that stops inside a message and stays.
ReceiveEnds == Running ~> ~Running \/ silent
=============================================================================
