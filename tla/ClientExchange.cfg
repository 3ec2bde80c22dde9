SPECIFICATION FairSpec
CONSTANTS
  a = a
  b = b
  Clients = {a, b}
  MaxRetry = 3
  MaxClientReqNo = 0
INVARIANT ExchangeSound
PROPERTY RequestEnds
CHECK_DEADLOCK FALSE
