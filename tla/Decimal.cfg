SPECIFICATION Spec
CONSTANTS
  Bits <- MCDecimalBits
  Nibble = 4
  Programs <- MCDecimalPrograms
INVARIANTS
  DecimalArithmetic
CHECK_DEADLOCK FALSE
