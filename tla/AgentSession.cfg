SPECIFICATION FairSpec
CONSTANTS
  s1 = s1
  s2 = s2
  c1 = c1
  Sessions = {s1, s2}
  Conns = {c1}
  HostOf <- OneHost
  NoSession = NoSession
  NoConn = NoConn
INVARIANTS TypeOK ListSound ConnectionsOwned DestructionOwn
PROPERTIES OnlyOwnEntryErased DeadAgentUnlisted SetupCompletes
CHECK_DEADLOCK FALSE
