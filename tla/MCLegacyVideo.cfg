SPECIFICATION VideoSpec
CONSTANTS
  COLS = 3
  TEXT_ROWS = 2
  CLOCK_COL = 1
  CLOCK_LEN = 2
  Characters <- MCCharacters
  Colors <- MCColors
  Times <- MCTimes
  MaxCalls = 4
INVARIANTS
  ScreenInOrder
  ClockStrikes
CHECK_DEADLOCK FALSE
