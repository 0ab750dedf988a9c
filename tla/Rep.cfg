SPECIFICATION FairSpec
CONSTANTS
  Space = 8
  WriteableMemory = 4
  Byte = {0, 1}
  WordSize = 2
  Half = 4
  SlotCost = 2
  ElementCost = 2
  MaxResumes = 2
  Sections <- MCSections
  Starts <- MCStarts
  InitialGas = {1, 5, 12}
  Refills = {3, 4}
INVARIANTS
  TypeOK
  RegistersAgree
  BlockWritten
  ScanStops
  GasPaid
PROPERTIES
  Uninterrupted
  Terminates
CHECK_DEADLOCK FALSE
