SPECIFICATION Spec
CONSTANTS
  Run = {r1}
  Node = {n1, n2}
  Op = {o1, o2}
  None = None
  ClaimTtl = 1
  MaxInterruptions = 1
  DistinctTimestamps = FALSE
  MaxTime = 3
  MaxFaults = 1
SYMMETRY NodesAndOps
INVARIANTS TypeOK ActiveIffClaimed CheckpointIffResumable
PROPERTIES RenewedClaimsAreKept OwnPassesAreKept EndedIsFinal
CHECK_DEADLOCK FALSE
