SPECIFICATION Spec
CONSTANTS
  s1 = s1
  s2 = s2
  r1 = r1
  r2 = r2
  Sessions = {s1, s2}
  Requests = {r1, r2}
  Tids = {"t1", "t2"}
  IdOf <- OneId
  WantedId <- OneWanted
  NoSession = NoSession
  NoRequest = NoRequest
  NoTid = NoTid
  MaxTries = 2
INVARIANTS TypeOK RegistrySound HandedToAsker AnswerOwn
CHECK_DEADLOCK FALSE
