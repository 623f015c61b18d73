CONSTANTS
  Instances = {i1, i2}
  Timestamps = {t1, t2}
  NoPath = NoPath
SPECIFICATION FairSpec
INVARIANTS
  OkMeansGhidraSucceeded
  PipesNotShared
PROPERTY
  NobodyWaitsForever
CHECK_DEADLOCK FALSE
