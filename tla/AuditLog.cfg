\* Two processes on one log, open at the same time or in turn, writes that
\* fail and sessions that are killed.
CONSTANTS
  p1 = p1
  p2 = p2
  b1 = b1
  b2 = b2
  Process <- MCProcess
  Body <- MCBody
  SharedAppend = TRUE
  MaxLines = 3
SPECIFICATION Spec
INVARIANTS
  TypeOK
  LoggerAtTail
  CleanLogVerifies
  VerifiedLogIsComplete
  EditsAreDetected
PROPERTIES
  LogIsAJournal
CHECK_DEADLOCK FALSE
