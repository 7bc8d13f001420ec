SPECIFICATION Spec
CONSTANTS
  Schedule = {hourly, daily}
  Handler = {h1, h2, h3}
  None = None
SYMMETRY Interchangeable
INVARIANTS JobFollowsRow
CHECK_DEADLOCK FALSE
