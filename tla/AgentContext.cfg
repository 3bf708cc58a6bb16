\* The conversation: a small window, tool loops and delegations, /compact and
\* /clear, interrupts, kills and one resume.
CONSTANTS
  read = read
  edit = edit
  edit2 = edit2
  banned = banned
  format = format
  task = task
  look = look
  nothing = nothing
  Request <- ContextRequest
  Mutating <- OnlyTask
  Command <- None
  DefaultRules <- ContextDefaults
  RulesFile <- NoRulesFile
  rememberKey <- ContextKey
  Task <- OnlyTask
  ReadOnlyTask <- None
  NoTool = nothing
  Replies <- ContextReplies
  ReplySizes <- One
  ResultSizes <- Four
  Rates = {1, 2}
  InitRate = 1
  InitMode = "auto"
  MaxTurns = 2
  SubTurns = 1
  MaxInputs = 2
  MaxStarts = 2
  Window = 20
  KeepRecent = 1
  MinKept = 2
  MarkerSize = 2
SPECIFICATION FairSpec
VIEW Conversation
INVARIANTS
  RequestsWellFormed
  OverThresholdOnlyAtFloor
  CompactionSettles
  TranscriptCoversMemory
PROPERTIES
  CompactionKeepsRecent
  EveryRunEnds
CHECK_DEADLOCK FALSE
