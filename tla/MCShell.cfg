SPECIFICATION Spec
CONSTANTS
  SIZE = 14
  MaxLine = 6
  Keys = {"a", "h", "p", "x", "0", "_"}
  SPACE = "_"
  NUL = "nul"
  ZERO = "0"
  EX = {"x"}
  HexDigits = {"a"}
  Help <- MCHelp
  Color <- MCColor
  Hash <- MCHash
  Algorithms <- MCAlgorithms
  Pr <- MCPr
  Keyword <- MCKeyword
  NORMAL <- MCNormal
INVARIANTS
  TypeOK
  BufferHoldsLine
  NoStaleInput
