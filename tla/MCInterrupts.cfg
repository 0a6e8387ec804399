SPECIFICATION Spec
CONSTANTS
  Vectors <- MCVectors
  Divisions <- MCDivisions
  ScanCodes <- MCScanCodes
INVARIANTS
  Transparent
  DivideResumes
  LowerCaseOnly
PROPERTY
  Returns
CHECK_DEADLOCK FALSE
