SPECIFICATION FairSpec
CONSTANTS
  top = top
  mid = mid
  low = low
  Run = {top, mid}
  Calls <- Chain2
  Worker = {w1, w2}
  None = None
  Env = {"hold", "late", "cancel"}
  MaxSuspensions = 2
INVARIANTS DeliveredOnce
PROPERTIES ResultsReachCallers
CHECK_DEADLOCK FALSE
