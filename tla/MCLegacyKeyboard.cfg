SPECIFICATION KeyboardSpec
CONSTANTS
  TwoForms <- MCTwoForms
  OneForm <- MCOneForm
  Enter = "enter"
  Shifts <- MCShifts
  CapsLock = "caps"
  Others <- MCOthers
  Backspace = "backspace"
  TextColors <- MCTextColors
  Columns = 19
  UINT = 64
  MaxEvents = 6
INVARIANTS
  NeverTwice
  Delivered
PROPERTIES
  StaysInStep
  ShiftResynchronises
