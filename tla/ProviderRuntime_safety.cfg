SPECIFICATION Spec
CONSTANTS
  Runtime = {r1, r2, r3}
  None = None
  Torn = Torn
  Faults <- AllFaults
  Repairs = TRUE
SYMMETRY Symmetry
INVARIANT AdapterOwned
INVARIANT RunningIsWatched
PROPERTY ClosedByItsOwnStop
PROPERTY StaleUntilReleased
CHECK_DEADLOCK FALSE
