SPECIFICATION Spec
CONSTANTS
  p1 = p1
  p2 = p2
  p3 = p3
  a1 = a1
  a2 = a2
  Profile = {p1, p2, p3}
  Hosted = {p2}
  Address = {a1, a2}
  Listener <- Listeners
  Setting = {u1, u2}
  Mixed = Mixed
  Stray = Stray
  None = None
  Faults <- SystemWorks
SYMMETRY Symmetry
INVARIANT ProxyLeavesFirst
INVARIANT NoDeadProxy
INVARIANT ActiveIsRunning
INVARIANT ShutdownRestoresProxy
PROPERTY KeepsPromise
CHECK_DEADLOCK FALSE
