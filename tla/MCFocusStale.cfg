\* Input focus when a window is unmapped while activated and mapped
\* again.
CONSTANTS
  w1 = w1
  w2 = w2
  w3 = w3
  None = None
  p1 = p1
  c1 = c1
  NoValue = NoValue
  FixedId = None
  Identity <- MCNoIdentity
  Win <- MCWin
  Managed <- MCWin
  TransientFor <- MCTransientNone
  XWayland = TRUE
  CommitLoopFix = FALSE
  AuraShell = TRUE
  ScaleFactor = 2
  LogicalSizes = {1}
  InitWidths = {2}
  InitBorders = {0}
  ContentSizes = {2}
  StateSets = {{}}
  MaxSerial = 4
  MaxMaps = 2
  MaxInbox = 4
  SerialBits = 8
  MaxInputs = 0
  SplitDispatch = TRUE
SPECIFICATION Spec
INVARIANTS FocusFollowsCompositor
SYMMETRY MCSymmetry
CHECK_DEADLOCK FALSE
