------------------------------- MODULE MCFiles -------------------------------
\* Two components that keep their state in files and share nothing: the rule files of
\* an agent, and the directories and the script of the server.  One run checks either.
EXTENDS RuleFileClaims, AgentDirectoryClaims, TLC

CONSTANTS a, b, c, d, e      \* names of rules
VARIABLE component

ruleVars == <<file, treatPc, name, answer>>
directoryVars == <<script, dirs, info, login, loginAt, rpc, ask, out, saved, result, since>>

MCInit ==
    /\ component \in {"rules", "directory"}
    /\ R!Init /\ D!Init
    /\ component = "rules" => script = "full"
    /\ component = "directory" => name = a

MCNext ==
    /\ UNCHANGED component
    /\ \/ component = "rules" /\ R!Next /\ UNCHANGED directoryVars
       \/ component = "directory" /\ D!Next /\ UNCHANGED ruleVars

MCSpec == MCInit /\ [][MCNext]_<<component, ruleVars, directoryVars>>

\* Requests are treated alike (the run checks no liveness).
Alike == Permutations(Requests)
=============================================================================
