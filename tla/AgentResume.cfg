\* A resumed session in which a sub-agent had run, compacted.
CONSTANTS
  read = read
  edit = edit
  edit2 = edit2
  banned = banned
  format = format
  task = task
  look = look
  nothing = nothing
  Request <- ContextRequest
  Mutating <- OnlyTask
  Command <- None
  DefaultRules <- ContextDefaults
  RulesFile <- NoRulesFile
  rememberKey <- ContextKey
  Task <- OnlyTask
  ReadOnlyTask <- None
  NoTool = nothing
  Replies <- ContextReplies
  ReplySizes <- One
  ResultSizes <- Four
  Rates <- One
  InitRate = 1
  InitMode = "auto"
  MaxTurns = 2
  SubTurns = 1
  MaxInputs = 2
  MaxStarts = 2
  Window = 20
  KeepRecent = 1
  MinKept = 2
  MarkerSize = 2
SPECIFICATION Spec
INVARIANT NoOrphanedResults
CHECK_DEADLOCK FALSE
