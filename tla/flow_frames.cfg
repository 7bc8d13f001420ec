SPECIFICATION Spec
CONSTANTS
  None = None
  Tree <- MCTree
  Node <- MCNode
  Flows <- MCFlows
  Eval <- MCEval
  Json <- MCJson
  Encodes <- MCEncodes
INVARIANTS CheckpointsFit TasksRunOnce WaitsAreUnique ResolvedWaitsClose
PROPERTIES ParkedWaitsStay ImplementsWalk
CHECK_DEADLOCK FALSE
