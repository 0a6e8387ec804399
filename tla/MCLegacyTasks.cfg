SPECIFICATION Spec
CONSTANTS
  GdtStart = 24640
  TssStart = 32768
  MaxTasks = 63
  Programs <- MCPrograms
INVARIANTS
  TypeOK
  Wired
  LoadsOwnBase
