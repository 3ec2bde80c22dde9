------------------------------ MODULE MCServer ------------------------------
EXTENDS Server, TLC
CONSTANTS s1, s2, c1, r1

\* Two sessions of one agent: one host, and one id, which the request names.
OneHost == s1 :> "h1" @@ s2 :> "h1" @@ c1 :> "h1"
OneId == s1 :> "a" @@ s2 :> "a"
OneWanted == r1 :> "a"
=============================================================================
