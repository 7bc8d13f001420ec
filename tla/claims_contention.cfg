SPECIFICATION Spec
CONSTANTS
  Run = {r1}
  Node = {n1}
  Op = {o1, o2, o3, o4}
  None = None
  ClaimTtl = 1
  MaxInterruptions = 1
  DistinctTimestamps = TRUE
  MaxTime = 2
  MaxFaults = 0
SYMMETRY NodesAndOps
INVARIANTS ClaimedOnLoadedSuspension OneOutcomePerSuspension
PROPERTIES OutcomesAreFenced ImplementsOwnership
CHECK_DEADLOCK FALSE
