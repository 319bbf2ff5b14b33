SPECIFICATION FairSpec
CONSTANTS
  p1 = p1
  p2 = p2
  Procs = {p1, p2}
  MaxCalls = 2
  Targets = {"awaiting_callback", "awaiting_author_review"}
  NoRun = NoRun
  NoState = NoState
INVARIANTS
  TypeOK
  AckedEditsAreDurable
  RefusedEditsLeaveNoTrace
  ProjectionTruth
PROPERTIES
  IsAtomicRegister
  PendingResolves
CHECK_DEADLOCK FALSE
