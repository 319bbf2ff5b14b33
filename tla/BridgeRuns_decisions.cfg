SPECIFICATION BridgeSpec
CONSTANTS
  p1 = p1
  p2 = p2
  c1 = c1
  c2 = c2
  c3 = c3
  Procs = {p1, p2}
  Callbacks = {c1}
  MaxActorCalls = 1
  MaxRounds = 2
  Participants = 1
  RetryLimit = 1
  Commands = {"interrupt", "resume", "close", "decide", "prep"}
  MaxCommands = 3
  NoRun = NoRun
  NoAnswer = NoAnswer
  NoState = NoState
  Desks = {"bridge"}
  Routes <- MCRoutes
  Dispatches = {1, 2}
  Replies = {1, 2}
  CallbackNames = {"n1", "n2"}
  Submitters = {1}
  Required <- MCRequired
  Expected <- MCExpected
  KnownFields <- MCKnownFields
  MaxListItems = 3
  ReplyOutputs <- MCReplyOutputs
  NoDispatch = NoDispatch
  NoReply = NoReply
SYMMETRY ProcSymmetry
INVARIANTS
  TypeOK
  ReviewHasReport
  TicketsOnlyWhenApproved
PROPERTIES
  SavedTransitionsAreLegal
CHECK_DEADLOCK FALSE
