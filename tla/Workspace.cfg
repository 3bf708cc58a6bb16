\* One file, every text of up to four symbols and some longer ones written over
\* every other; one command after another.
SPECIFICATION Spec
CONSTANTS
  p1 = p1
  Letter = letter
  Newline = newline
  Absent = Absent
  MaxWritten = 4
  MaxPart = 2
  MaxLength = 6
  MaxLines = 5
  Context = 1
  Path = {p1}
  Contents <- MCContents
  Foreign <- MCForeign
  Parts <- MCParts
INVARIANTS
  TypeOK
PROPERTIES
  AuditedDiffIsTheChange
  ExecTellsTheTruth
  OnlyHeldOutputKeepsACommand
