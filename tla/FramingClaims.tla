---------------------------- MODULE FramingClaims ----------------------------
\* What is checked and proved of Framing, under names that it shares with no
\* other module.
CONSTANTS Width, LengthSize, MaxLength, BufferSize
VARIABLES part, length, total, announced, taken, broken, silent

F == INSTANCE Framing

ASSUME FramingConstants == F!FramingAssumption

\* No byte is counted before it came, and unless a recv() failed, a message is
\* returned whole and no buffer overrun by one that fits (module Framing).
FramingSound == F!FramingSound

\* recv_varmsg comes back, unless the peer stops and stays (module Framing).
ReceiveEnds == F!ReceiveEnds
=============================================================================
