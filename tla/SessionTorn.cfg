\* One message acknowledged after a resume of a torn transcript is not there
\* for the next resume.
CONSTANTS
  p1 = p1
  p2 = p2
  s1 = s1
  s2 = s2
  m1 = m1
  m2 = m2
  Process <- MCProcess
  Sid <- MCSid
  Msg <- MCMsg
  SharedAppend = TRUE
  MaxLines = 2
SPECIFICATION Spec
SYMMETRY Symmetry
INVARIANT NothingAckedIsLost
CHECK_DEADLOCK FALSE
