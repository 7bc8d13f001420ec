SPECIFICATION Spec
CONSTANTS
  MaxRuns = 3
  Workflow = {w1, w2, w3}
  None = None
  MaxDepth = 3
  MaxLooks = 1
SYMMETRY Interchangeable
INVARIANTS EventsAreWellRouted
CHECK_DEADLOCK FALSE
