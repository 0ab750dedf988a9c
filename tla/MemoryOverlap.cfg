SPECIFICATION Spec
CONSTANTS
  Space = 8
  SectionSize = 4
  WriteableMemory = 4
  Byte = {0, 10}
  Zero = 0
  First = 10
  NewSizes = {4, 5}
  Widths = {1, 2}
INVARIANTS
  NoOverlap
