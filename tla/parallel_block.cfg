SPECIFICATION FairSpec
CONSTANTS
  Key = {x, y}
  Blocks <- SmallBlocks
INVARIANTS TypeOK NothingLeftBehind WaitAllOutput WaitAnyOutput
PROPERTIES CompletedRunOnce RefusalKeepsFrame GivingUpEnds
CHECK_DEADLOCK FALSE
