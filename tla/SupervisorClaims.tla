-------------------------- MODULE SupervisorClaims --------------------------
\* What is checked and proved of Supervisor, under names that it shares with no
\* other module.
CONSTANT MaxMishaps
VARIABLES doing, at, role, phase, owner, mishaps

S == INSTANCE Supervisor

ASSUME SupervisorConstants == S!MishapsAssumption

\* main() joins no thread twice (module Supervisor).
SlotsSound == S!SlotsSound

\* Agents find a control dispatcher in the end, and what serves its own port is
\* kept (module Supervisor).
ControlServed == S!ControlServed
=============================================================================
