SPECIFICATION FairSpec
CONSTANTS
  Space = 10
  WriteableMemory = 5
  MaxSize = 2
  PipelineSize = 3
  MaxResumes = 1
  NoArgs = NoArgs
  Loaded <- MCLoaded
  Instrs <- MCSafeInstrs
  Code <- MCSafeCode
  Costs <- MCCosts
  Programs <- MCRomPrograms
  Entries = {0}
  InitialGas = {0, 4, 7, 11}
  InitialEcx = {0, 2, 5}
  Refills = {3, 6}
  Block = 4
  Filler = "inc"
INVARIANTS
  Inductive
  Predicted
  FreshDecode
  FilledWithinGas
PROPERTIES
  OneAtATime
  OutOfGasInPlace
  ErrorLocated
  Terminates
CHECK_DEADLOCK FALSE
