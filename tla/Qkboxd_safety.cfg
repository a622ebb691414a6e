SPECIFICATION Spec
CONSTANTS
  p1 = p1
  p2 = p2
  p3 = p3
  a1 = a1
  a2 = a2
  Profile = {p1, p2, p3}
  Hosted = {p2}
  Address = {a1, a2}
  Listener <- Listeners
  Setting = {u1, u2}
  Mixed = Mixed
  Stray = Stray
  None = None
  Faults <- AllFaults
SYMMETRY Symmetry
INVARIANT RecordCoversProxy
INVARIANT LocalBoxIsHeld
INVARIANT StopNeedsRelease
CHECK_DEADLOCK FALSE
