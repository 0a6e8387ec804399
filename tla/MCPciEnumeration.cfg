SPECIFICATION Spec
CONSTANTS
  Slots = 6
  DeviceMax = 5
  Size <- MCSize
  SDLoop = 2
INVARIANTS
  TypeOK
  NoWildDevice
  DamageConfined
  ReportsExact
  NotFoundIsTrue
CHECK_DEADLOCK FALSE
