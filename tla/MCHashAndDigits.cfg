SPECIFICATION CallsSpec
CONSTANTS
  Texts <- MCTexts
  Numbers <- MCNumbers
INVARIANTS
  DigestCorrect
  InDecimal
