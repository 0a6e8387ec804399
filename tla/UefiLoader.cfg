SPECIFICATION FairSpec
CONSTANTS
  HandleCount = 2
  MapSize = 1
  MaxEvents = 2
INVARIANTS
  TypeOK
  ReturnsClean
  NoWildFree
  KernelStartSound
PROPERTIES
  Terminates
CHECK_DEADLOCK FALSE
