CONSTANTS
  None = None
  MaxFreePath = 3
  MaxSteps = 24
  Inputs <- MCInputs
SPECIFICATION Spec
INVARIANTS
  ResultsAvailable
  DominatorsOnAllPaths
  LoopsEnteredAtHead
  CallGraphsAreExact
  CallOrdersAreExact
  FreedUsesAreFound
  FreePathsAreReal
  CausesStayReported
PROPERTY
  ValuesClimb
