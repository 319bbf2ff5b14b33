SPECIFICATION Spec
CONSTANTS
  t1 = t1
  t2 = t2
  t3 = t3
  t4 = t4
  a = a
  b = b
  k = k
  p1 = p1
  p2 = p2
  Ids = {t1, t2}
  Changes = {a, b}
  Keys = {t1, t2, k}
  Procs = {p1}
  MaxReviews = 1
  NoTicket = NoTicket
SYMMETRY Symmetry
PROPERTIES
  AppliedStaysApplied
CHECK_DEADLOCK FALSE
