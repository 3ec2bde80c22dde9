SPECIFICATION MCSpec
CONSTANTS
  MaxMishaps = 3
  a = a
  b = b
  c = c
  Sources = {a, b, c}
  NoSource = NoSource
  PathOf <- Paths
  Default = "syslog"
  Left = Left
INVARIANTS SlotsSound MonitorsSound
PROPERTIES ControlServed RestartCompletes CommandEnds
CHECK_DEADLOCK FALSE
