CONSTANTS
  Positions <- Pos3
  Sizes = {1, 2}
  Byte <- Bytes2
  Targets = {0}
  Data <- MCData
  TopData <- MCTop
  MergeData <- MCMerge
  Describes <- MCDescribes
SPECIFICATION Spec
INVARIANTS
  ValuesDisjoint
  GetIsSound
PROPERTY
  InsertIsStrongUpdate
