SPECIFICATION SessionSpec
CONSTANTS
  w1 = w1
  Window = {w1, w2}
  MaxLoads <- MCMaxLoads
  ShowLimit = 1
  None = None
INVARIANT OneSessionLives
PROPERTY GoneIsForgotten
PROPERTY PendingClears
