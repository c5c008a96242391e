SPECIFICATION ConsoleSpec
CONSTANTS
  Rows = 2
  Cols = 4
  Tab = 2
  Printable = {"a"}
  Message <- MCMessage
  Blank = " "
  MaxChars = 6
  MaxTicks = 2
INVARIANTS
  ConsoleTypeOK
  ScreenShowsOutput
CHECK_DEADLOCK FALSE
