SPECIFICATION Spec
CONSTANTS
  p1 = p1
  p2 = p2
  t1 = t1
  s1 = s1
  a1 = a1
  a2 = a2
  f1 = f1
  w1 = w1
  b1 = b1
  b2 = b2
  d1 = d1
  control = control
  Tasks = {t1}
  Callbacks = {a1, a2}
  Procs = {p1, p2}
  Sessions = {s1}
  ReportIds <- MCReportIds
  MaxCalls = 3
  None = None
  NoReport = NoReport
  Cleaners = {p1, p2}
  CleanupRuns = {a1, a2}
  Residue = {f1}
  Sayings <- MCSayings
  Moves = {"approved", "inbox"}
  SavedStatuses = {"interrupted", "closed"}
  MaxCleanups = 2
  Control = control
  Worlds = {w1}
  Operators = {p1, p2}
  Stamps = {b1, b2}
  Places = {d1}
  MaxDeaths = 1
  Nowhere = Nowhere
  Editors = {p1, p2}
  QuestionCount = 2
  Minimum = {1}
  WorldQuestions = {2}
  ChoiceCount = 2
  Deferring <- MCDeferring
  OldProfiles <- MCOldProfiles
  StartupCommands <- MCStartupCommands
  MaxStartupCommands = 3
  MaxStartupCrashes = 1
  NoProfile = NoProfile
  TornProfile = TornProfile
  NoCommand = NoCommand
  Minutes <- MCMinutes
  Deciders = {p1, p2}
  MaxSeats = 2
  MaxDecisions = 2
SYMMETRY WorkspaceSymmetry
INVARIANTS
  CollectedWholeAndOnce
  SequencesFollow
  ReportHasItsFile
  CopiesAreWhole
  StartupIsHonest
  GatheringsAreRecorded
PROPERTIES
  CleanupIsRecorded
  StoresAreKept
CHECK_DEADLOCK FALSE
