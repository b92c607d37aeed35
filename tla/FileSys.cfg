SPECIFICATION Spec
CONSTANTS
  p1 = p1
  p2 = p2
  n1 = n1
  n2 = n2
  NULL = NULL
  Procs <- TwoProcs
  Names <- TwoNames
  LastSector = 10
  SectorSize = 2
  DirectEntries = 1
  IndirectEntries = 2
  Lengths <- SomeLengths
  Offsets <- SomeOffsets
  Sizes <- SomeSizes
  MaxCalls = 4
SYMMETRY Symmetry
CHECK_DEADLOCK FALSE
INVARIANTS FSTypeOK SectorsPrivate NoLeak
PROPERTIES ImplementsFileStore
