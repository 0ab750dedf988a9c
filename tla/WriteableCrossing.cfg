SPECIFICATION Spec
CONSTANTS
  Space = 10
  WriteableMemory = 5
  MaxSize = 2
  PipelineSize = 3
  MaxResumes = 0
  NoArgs = NoArgs
  Loaded <- MCLoaded
  Instrs <- MCInstrs
  Code <- MCCode
  Costs <- MCCosts
  Programs <- MCCrossingPrograms
  Entries = {0}
  InitialGas = {20}
  InitialEcx = {0}
  Refills = {}
  Block = 4
  Filler = "inc"
INVARIANTS
  WriteableOneSlot
CHECK_DEADLOCK FALSE
