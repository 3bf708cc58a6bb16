\* Two processes, two transcripts: fresh sessions, resumes of what is closed
\* and of what is still running, torn writes and kills.
CONSTANTS
  p1 = p1
  p2 = p2
  s1 = s1
  s2 = s2
  m1 = m1
  m2 = m2
  Process <- MCProcess
  Sid <- MCSid
  Msg <- MCMsg
  SharedAppend = TRUE
  MaxLines = 2
SPECIFICATION Spec
SYMMETRY Symmetry
INVARIANTS
  TypeOK
  AckedBeforeTearSurvive
  TranscriptHasNoGap
PROPERTIES
  TranscriptsAreJournals
CHECK_DEADLOCK FALSE
