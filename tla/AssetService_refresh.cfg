SPECIFICATION Spec
CONSTANTS
  Profile = {p1}
  Subscription = {s1, s2}
  Asset = {a1}
  Caller = {c1, c2}
  Text = {t1, t2, bad}
  Bad = {bad}
  User = User
  None = None
SYMMETRY Symmetry
INVARIANT DigestIsOfContent
INVARIANT KeyLeadsToContent
PROPERTY DeletedStaysDeleted
CHECK_DEADLOCK FALSE
