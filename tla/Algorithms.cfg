SPECIFICATION MCSpec
CONSTANTS
  Width = 16
  LengthSize = 2
  MaxLength = 8
  BufferSize = 6
  Cap = 4
  MaxFileLines = 4
  MaxBody = 4
  Digits = {"1"}
  Blanks = {" "}
  Printable = {"a", "1", " ", ":"}
  Space = " "
  Colon = ":"
  Date = Date
  Characters = {"a", "1", " ", ":", Date}
  IntWidth = 64
  Empty = Empty
  MaxConditions = 2
  Overrun = Overrun
  Letters = {"A", "B", "rule"}
  Inputs <- MCInputs
INVARIANTS FramingSound ReaderSound MatchesDivide QueryAsMeant GraphPartition
PROPERTIES ReceiveEnds LinesFollowed
CHECK_DEADLOCK FALSE
