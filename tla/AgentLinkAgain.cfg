SPECIFICATION Spec
CONSTANTS
  s1 = s1
  s2 = s2
  c1 = c1
  c2 = c2
  Sessions = {s1, s2}
  Conns = {c1, c2}
  HostOf <- OneHost
  NoSession = NoSession
  NoConn = NoConn
  MaxRetries = 2
  MaxPending = 0
SYMMETRY Symmetry
INVARIANTS SamePipe SocketsTracked
CHECK_DEADLOCK FALSE
