-------------------------- MODULE InfoSourcesClaims --------------------------
\* What is checked and proved of InfoSources, under names that it shares with
\* no other module.
CONSTANTS Sources, NoSource, PathOf, Default, Left
VARIABLES main, tgt, sources, mon, cancelled, rulesHolder, sockHolder

I == INSTANCE InfoSources

ASSUME SourceConstants == I!SourceAssumption

\* Monitors and sources correspond, and no monitor outlives the connection
\* (module InfoSources).
MonitorsSound == I!MonitorsSound

\* The agent reconnects or is killed, unless the monitor it joins waits for a
\* mutex that was left locked or to send (module InfoSources).
RestartCompletes == I!RestartCompletes

\* A command gets at the rules of a monitored source (module InfoSources).
CommandEnds == I!CommandEnds
=============================================================================
