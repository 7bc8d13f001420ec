SPECIFICATION Spec
CONSTANTS
  top = top
  mid = mid
  low = low
  Run = {top, mid}
  Calls <- Chain2
  Worker = {w1, w2, w3}
  None = None
  Env = {"close"}
  MaxSuspensions = 1
SYMMETRY Workers
INVARIANTS ClosedThreadLeavesNothing
CHECK_DEADLOCK FALSE
