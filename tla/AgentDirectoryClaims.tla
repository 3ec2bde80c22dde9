------------------------ MODULE AgentDirectoryClaims ------------------------
\* What is checked and proved of AgentDirectory, under names that it shares with
\* no other module.
CONSTANTS Requests, NoRequest, Agents, Old, Asked, All, NoAgent, ReadCap, PipeCap
VARIABLES script, dirs, info, login, loginAt, rpc, ask, out, saved, result, since

D == INSTANCE AgentDirectory

ASSUME DirectoryConstants == D!DirectoryAssumption

\* The directory, its logins and its requests are of their types (module
\* AgentDirectory).
DirectoryTyped == D!TypeOK

\* A request lists the agents known when it began, or shows the one asked for
\* (module AgentDirectory).
KnownAreFound == D!KnownAreFound

\* A request is answered, but for the ways to hang that it names (module AgentDirectory).
RequestAnswered == D!RequestAnswered
=============================================================================
