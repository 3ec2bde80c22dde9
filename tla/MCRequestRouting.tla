-------------------------- MODULE MCRequestRouting --------------------------
EXTENDS RequestRouting, TLC
CONSTANTS s1, s2, r1, r2

\* Both sessions belong to the agent that both requests name.
OneId == s1 :> "a" @@ s2 :> "a"
OneWanted == r1 :> "a" @@ r2 :> "a"
=============================================================================
