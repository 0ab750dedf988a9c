SPECIFICATION Spec
CONSTANTS
  Space = 8
  SectionSize = 4
  WriteableMemory = 4
  Byte = {0, 10}
  Zero = 0
  First = 10
  NewSizes = {1, 3, 4}
  Widths = {1, 2}
INVARIANTS
  TypeOK
  NoOverlap
PROPERTIES
  ImplementsFlat
