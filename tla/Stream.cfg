\* The probe, and replies under either adapter: texts of up to six symbols and longer ones
\* with several tags, four native calls in fragments.
CONSTANTS
  Symbol <- MCSymbol
  tagOpen <- Open
  tagClose <- Close
  Callable <- MCCallable
  Adapters <- BothAdapters
  Texts <- MCTexts
  Pieces <- MCPieces
  Plan <- MCPlan
  MaxText = 6
  Served <- MCServed
  Model = ""
  ProbeTool = "f"
  Json <- MCJson
SPECIFICATION ProbeSpec
INVARIANTS
  TypeOK
  AssembledFromOwnFragments
  CompleteReplyHasAllThatWasSent
  IdsDistinct
PROPERTIES
  ReadsAsAWhole
  ProbeBelievesOnlyWholeCalls
CHECK_DEADLOCK FALSE
