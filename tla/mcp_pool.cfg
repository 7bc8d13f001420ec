SPECIFICATION Spec
CONSTANTS
  Server = {s1}
  Setting = {old, new}
  Client = {k1, k2, k3}
  Caller = {a, b, d}
  None = None
  MaxChanges = 2
SYMMETRY Interchangeable
INVARIANTS TypeOK FlightsAreShared PooledIsUsable UneditedHasOneClient
PROPERTIES GivenFits
CHECK_DEADLOCK FALSE
