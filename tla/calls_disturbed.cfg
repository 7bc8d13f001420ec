SPECIFICATION Spec
CONSTANTS
  top = top
  mid = mid
  low = low
  Run = {top, mid}
  Calls <- Chain2
  Worker = {w1, w2, w3}
  None = None
  Env = {"refuse", "late", "close", "delete", "read"}
  MaxSuspensions = 1
SYMMETRY Workers
INVARIANTS TypeOK
PROPERTIES WantedRunsKept
CHECK_DEADLOCK FALSE
