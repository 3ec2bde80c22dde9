-------------------------- MODULE MCClientExchange --------------------------
EXTENDS ClientExchange, TLC
CONSTANTS a, b
=============================================================================
