SPECIFICATION Spec
CONSTANTS
  Half = 6
  WriteableMemory = 18
  Sections <- MCSections
  PushOrder <- MCPushOrder
  FlagBits = {0, 2, 4}
  InstrSize = 1
  Instrs <- MCInstrs
  Starts <- MCStarts
  MaxSteps = 4
INVARIANTS
  TypeOK
PROPERTIES
  ImplementsStack
CHECK_DEADLOCK FALSE
