SPECIFICATION DeskSpec
CONSTANTS
  t1 = t1
  t2 = t2
  t3 = t3
  t4 = t4
  a = a
  b = b
  k = k
  p1 = p1
  p2 = p2
  Ids = {t1, t2, t3, t4}
  Changes = {a, b}
  Keys = {t1, t2, t3, t4}
  Procs = {p1}
  MaxReviews = 1
  NoTicket = NoTicket
  AuthoredTickets = {t1, t2, t3, t4}
  Drafts <- MCDrafts
  FreshIds = 9
  ThisWorld = 99
  Unseen = Unseen
  SourceWorld <- MCSourceWorld
  SourceRows <- MCSourceRows
  SourceTickets <- MCSourceTickets
  Selections <- MCSelections
SYMMETRY Symmetry
INVARIANTS
  TypeOK
  AppliedAtMostOnce
  ReceiptsExplainWorld
  CanonIsConsistent
  ForksAreFaithful
PROPERTIES
  ReviewedBeforeApplied
  NoChangeIsLost
  RevisedAsSeen
  ChangesLiveOnce
CHECK_DEADLOCK FALSE
