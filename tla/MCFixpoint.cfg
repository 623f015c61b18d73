SPECIFICATION FairSpec
CONSTANTS
    NodeCount = 3
    MaxClientOps = 1
    Facts = {"x", "y"}
    StepLimits = {1, 2}
    Edge <- MCEdge
    Value <- MCValue
    NoValue = NoValue
    Leq <- MCLeq
    Merge <- Union
    Contexts <- MCContexts
INVARIANTS
  StabilizedIsFixpoint
  BelowEveryFixpoint
  TopologicalVisits
PROPERTY
  ComputationTerminates
CHECK_DEADLOCK FALSE
