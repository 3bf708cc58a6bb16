\* An action runs that the operator was never shown: always was said to another
\* one that reads the same.
CONSTANTS
  read = read
  edit = edit
  edit2 = edit2
  banned = banned
  format = format
  task = task
  look = look
  nothing = nothing
  Request <- GateRequest
  Mutating <- GateMutating
  Command <- OnlyBanned
  DefaultRules <- GateDefaults
  RulesFile <- GateFile
  rememberKey <- GateKey
  Task <- Tasks
  ReadOnlyTask <- OnlyLook
  NoTool = nothing
  Replies <- GateReplies
  ReplySizes <- One
  ResultSizes <- One
  Rates <- One
  InitRate = 1
  InitMode = "approve"
  MaxTurns = 2
  SubTurns = 1
  MaxInputs = 3
  MaxStarts = 1
  Window = 0
  KeepRecent = 1
  MinKept = 2
  MarkerSize = 2
SPECIFICATION Spec
INVARIANT OnlyWhatWasShownRuns
CHECK_DEADLOCK FALSE
