SPECIFICATION Spec
CONSTANTS
  Conn = {c1, c2}
  Api = {a1}
  Reader = {r1, r2}
  MaxBytes = 1
  None = None
INVARIANT ListMatchesOpen
INVARIANT StopClosesWhatItSaw
INVARIANT NothingLeftBehind
INVARIANT RatesAddUp
PROPERTY StopEnds
