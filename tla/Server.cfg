SPECIFICATION FairSpec
CONSTANTS
  s1 = s1
  s2 = s2
  c1 = c1
  r1 = r1
  Sessions = {s1, s2}
  Conns = {c1}
  HostOf <- OneHost
  NoSession = NoSession
  NoConn = NoConn
  Requests = {r1}
  NoRequest = NoRequest
  Tids = {"t1"}
  NoTid = NoTid
  IdOf <- OneId
  WantedId <- OneWanted
  MaxTries = 1
INVARIANT SessionsUsedInTime
PROPERTIES ImplementsComponents TreatThreadEnds
CHECK_DEADLOCK FALSE
