SPECIFICATION Spec
CONSTANTS
  ByteBits = 3
  WriteableMemory = 2048
  Sections <- MCSections
  FlagBits <- MCFlagBits
  Instrs <- MCInstrs
  Starts <- MCStarts
  MaxSteps = 2
INVARIANTS
  TypeOK
PROPERTIES
  FailureKeeps
  ImplementsOperands
CHECK_DEADLOCK FALSE
