SPECIFICATION LockSpec
CONSTANTS
  Process = {d1, d2, d3}
  MaxFile = 4
INVARIANT OnlyOverlapAdmitsTwo
CHECK_DEADLOCK FALSE
