SPECIFICATION Spec
CONSTANTS
  Limits <- MCLimits
  Offset <- MCOffset
  Dirt <- MCDirt
INVARIANTS
  TypeOK
  KernelMapped
  GatesLead
  LowNeverTaken
  FailuresAccounted
  OnlyTask0HasCode
  FirstCallFails
CHECK_DEADLOCK FALSE
