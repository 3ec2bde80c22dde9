SPECIFICATION MCSpec
CONSTANTS
  a = a
  b = b
  c = c
  d = d
  e = e
  Names = {a, b, c, d, e}
  Malformed = Malformed
  EntriesPerPage = 2
  MaxLines = 6
  Requests = {r1, r2}
  NoRequest = NoRequest
  Agents = {a1, a2, a3}
  Old = {a1}
  Asked = {a1, a2}
  All = All
  NoAgent = NoAgent
  ReadCap = 2
  PipeCap = 2
INVARIANTS FileSound PagesPartition KnownAreFound
PROPERTY RulesKept
SYMMETRY Alike
CHECK_DEADLOCK FALSE
