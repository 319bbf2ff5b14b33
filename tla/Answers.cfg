SPECIFICATION Spec
CONSTANTS
  p1 = p1
  p2 = p2
  i1 = i1
  Loops = {p1, p2}
  Turns = 1
  CallbackIds = {i1}
  Outputs <- MCOutputs
  NoPlan = NoPlan
  Asks <- MCAsks
  RuntimeOutputs <- MCRuntimeOutputs
  RetryLimit = 2
  MaxRejections = 2
  Rec <- MCRec
  ContextTickets <- MCContextTickets
  Requests <- MCRequests
  NoPacket = NoPacket
  Desks = {"loop", "script", "context", "drafts", "scene"}
  Blank = "blank"
  EntityIds <- MCEntityIds
  DraftRefs <- MCDraftRefs
  Flags <- MCFlags
  Imports <- MCImports
  Proposals <- MCProposals
  Amendments <- MCAmendments
  Parts <- MCParts
  MaxPackets = 3
  NameOf <- MCNameOf
  SceneWorlds <- MCSceneWorlds
  SceneTickets <- MCSceneTickets
  SceneRequests <- MCSceneRequests
  Limit = 2
INVARIANTS
  ExecutionIsAccountedFor
  
  ToldIsRight
  DraftsMeanWhatTheySay
  ScenesAreExplained
PROPERTIES
  ExecutionEnds
CHECK_DEADLOCK FALSE
