SPECIFICATION MCSpec
CONSTANTS
  w1 = w1
  w2 = w2
  Writers = {w1, w2}
  Entries <- MCEntries
  Cap = 10
  MaxBytes = 8
  Requests = {r1, r2}
  NoRequest = NoRequest
  Agents = {a1, a2}
  Old = {a1}
  Asked = {a2}
  All = All
  NoAgent = NoAgent
  ReadCap = 1
  PipeCap = 1
INVARIANTS Types EntriesApart
PROPERTIES CountsAMoment RequestAnswered
CHECK_DEADLOCK FALSE
