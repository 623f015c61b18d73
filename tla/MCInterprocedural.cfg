CONSTANTS
  Programs <- MCPrograms
  None = None
  MaxDepth = 2
  Words = {0, 1}
SPECIFICATION Spec
INVARIANTS
  ForwardCoversExecution
  BackwardCoversExecution
  ReturnKeepsCallerState
CHECK_DEADLOCK FALSE
