SPECIFICATION MachineFairSpec
CONSTANTS
  Runtime = {r1, r2}
  None = None
  Torn = Torn
  Faults <- CallFaults
  Repairs = FALSE
INVARIANT StoppedStaysStopped
PROPERTY HeldIsLeftAlone
PROPERTY LossIsReported
PROPERTY OrphanIsReclaimed
CHECK_DEADLOCK FALSE
