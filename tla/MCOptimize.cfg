SPECIFICATION Spec
CONSTANTS
  BitsPerByte = 3
  None = None
  SizeOf <- MCSizeOf
  Programs <- MCPrograms
  PhysicalRegisters <- MCPhysical
  StackPointer = "sp"
  MaxRecursionDepth = 3
  MaxBlocks = 7
INVARIANTS
  SameBehaviour
  DepthIsBounded
