--------------------------- MODULE MCAgentSession ---------------------------
EXTENDS AgentSession, TLC
CONSTANTS s1, s2, c1

\* Two sessions of one host: an agent that comes back.
OneHost == s1 :> "h1" @@ s2 :> "h1" @@ c1 :> "h1"
=============================================================================
