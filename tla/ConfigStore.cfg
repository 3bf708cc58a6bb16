\* Two processes, two names and as many files as can be held at a time.
SPECIFICATION Spec
CONSTANTS
  p1 = p1
  p2 = p2
  None = None
  i1 = i1
  i2 = i2
  i3 = i3
  i4 = i4
  Process = {p1, p2}
  Inode = {i1, i2, i3, i4}
  Typed <- MCTyped
  Written <- MCWritten
  Project <- MCProject
  Env <- MCEnv
  Flags <- MCFlags
SYMMETRY Symmetry
VIEW Files
CONSTRAINT Alone
INVARIANTS
  TypeOK
  UpdatesTakeEffect
PROPERTIES
  SettingsStayUsable
  SetIsWhatIsLoaded
