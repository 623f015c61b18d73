CONSTANTS
  a = a
  b = b
  Heap = Heap
  Ids = {a, b}
  Absolute = Absolute
  Positions <- Pos1
  Sizes = {1, 2}
  ObjectTypes = {Heap}
  NoType = NoType
  WrittenData <- MCWrittenData
  ReplacementMaps <- MCReplacementMaps
  IntervalMaps <- MCIntervalMaps
  CalleeObjects <- MCCalleeObjects
SPECIFICATION ObjSpec
INVARIANTS
  TargetsCoverMemory
  ObjectGetIsSound
