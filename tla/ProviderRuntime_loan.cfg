SPECIFICATION FairSpec
CONSTANTS
  Runtime = {r1, r2}
  None = None
  Torn = Torn
  Faults <- NoSaveFaults
  Repairs = FALSE
INVARIANT AtMostOneBox
INVARIANT RecordCoversBox
PROPERTY KeepsTheLock
PROPERTY GoneClientIsReclaimed
CHECK_DEADLOCK FALSE
