CONSTANTS
  BitsPerByte = 3
  WordBits = 16
  None = None
  Stack = Stack
  Heap = Heap
  Absolute = Absolute
  Ids <- MCIds
  Base <- MCBase
  MaxSize = 2
  Registers <- MCRegisters
  Operands <- MCOperands
  LoopOperands <- MCLoopOperands
  ReplacementMaps <- MCReplacementMaps
  MaxOps = 2
SPECIFICATION Spec
INVARIANTS
  
  
  WideningIsBounded
