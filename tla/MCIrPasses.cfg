CONSTANTS
  Addresses <- MCAddresses
  Programs <- MCPrograms
  None = None
  SinkFn = "sink_fn"
  SinkBlock = "sink"
  ReturnTarget = "return_target"
SPECIFICATION Spec
INVARIANTS
  PostconditionsPersist
  BlockTidsUnique
  ControlFlowPreserved
CHECK_DEADLOCK FALSE
