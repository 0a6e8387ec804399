SPECIFICATION FairSpec
CONSTANTS
  COLS = 2
  ROWS = 3
  Chars = {"a", "b", "_", "-"}
  BLANK = "_"
  DASH = "-"
  Colors = {7, 112}
  NORMAL = 7
  Strings <- MCStrings
INVARIANTS
  TypeOK
  TextFits
  FrameIntact
PROPERTIES
  CallsReturn
  ImplementsTerminal
