---------------------------- MODULE DatabaseClaims ----------------------------
\* The two parts of the server's database, which share nothing: logs, and the
\* directories that requests list.
EXTENDS LogDatabase, AgentDirectoryClaims

DatabaseSpec == Spec /\ D!Spec

\* The log, the directories and who uses them are of their types; a scan never
\* holds more than its buffer (modules LogDatabase and AgentDirectory).
Types == TypeOK /\ DirectoryTyped
=============================================================================
