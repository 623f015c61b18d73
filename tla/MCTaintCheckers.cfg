CONSTANTS
  None = None
  AnyOffset = AnyOffset
  Inputs <- MCInputs
SPECIFICATION Spec
INVARIANTS
  NullUsesAreExact
  IgnoredResultsAreExact
