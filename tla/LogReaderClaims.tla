--------------------------- MODULE LogReaderClaims ---------------------------
\* What is checked and proved of LogReader, under names that it shares with no
\* other module; offset and readerPc are its at and pc.
CONSTANTS Cap, MaxFileLines, MaxBody
VARIABLES follow, burst, lines, terminated, offset, buf, readerPc, out

L == INSTANCE LogReader WITH MaxLines <- MaxFileLines, at <- offset, pc <- readerPc

ASSUME ReaderConstants == L!ReaderAssumption

\* Both readers return what is in the file (module LogReader).
ReaderSound == L!ReaderSound

\* The follower of a log returns each line in the end (module LogReader).
LinesFollowed == L!LinesFollowed
=============================================================================
