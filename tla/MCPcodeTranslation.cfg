SPECIFICATION Spec
CONSTANTS
  BitsPerByte = 2
  None = None
  SizeOf <- MCSizeOf
  Inputs <- MCInputs
  RegisterProperties <- MCRegisterProperties
  StackPointer <- MCStackPointer
  Parameters <- MCParameters
  PointerSize = 1
  FileSize = 4
  InitialFiles <- MCInitialFiles
  MaxSteps = 5
INVARIANTS
  SameExecution
  ResultIsWellFormed
PROPERTY
  TranslationEnds
