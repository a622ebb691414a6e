SPECIFICATION FairSpec
CONSTANTS
  Conn = {c1, c2}
INVARIANT ClosesWhenIdle
PROPERTY EndsWhenAsked
CHECK_DEADLOCK FALSE
