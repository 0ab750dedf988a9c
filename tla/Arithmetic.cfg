SPECIFICATION Spec
CONSTANTS
  Bits <- MCBits
  Nibble = 2
  Programs <- MCPrograms
INVARIANTS
  TypeOK
  LongArithmetic
  ShiftCounts
  ThroughCarry
  Comparison
  ProductsAndQuotients
  Exchange
CHECK_DEADLOCK FALSE
