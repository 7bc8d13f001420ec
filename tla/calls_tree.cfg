SPECIFICATION Spec
CONSTANTS
  top = top
  mid = mid
  low = low
  Run = {top, mid, low}
  Calls <- Chain3
  Worker = {w1, w2, w3}
  None = None
  Env = {"crash", "cancel"}
  MaxSuspensions = 1
SYMMETRY Workers
INVARIANTS NoMissedResult NoOrphanLeft
CHECK_DEADLOCK FALSE
