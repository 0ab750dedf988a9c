SPECIFICATION Spec
CONSTANTS
  Space = 10
  WriteableMemory = 5
  MaxSize = 2
  PipelineSize = 3
  MaxResumes = 1
  NoArgs = NoArgs
  Loaded <- MCLoaded
  Instrs <- MCInstrs
  Code <- MCCode
  Costs <- MCCosts
  Programs <- MCRamPrograms
  Entries = {5}
  InitialGas = {9, 20, 40}
  InitialEcx = {0, 2}
  Refills = {5}
  Block = 4
  Filler = "inc"
INVARIANTS
  WriteableOneSlot
PROPERTIES
  OneAtATime
CHECK_DEADLOCK FALSE
