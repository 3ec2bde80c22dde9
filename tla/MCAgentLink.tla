----------------------------- MODULE MCAgentLink -----------------------------
EXTENDS AgentLink, TLC
CONSTANTS s1, s2, c1, c2

\* The agent's host.
OneHost == [x \in {s1, s2, c1, c2} |-> "h"]

\* Sessions and connections are interchangeable.
Symmetry == Permutations({s1, s2}) \cup Permutations({c1, c2})
=============================================================================
