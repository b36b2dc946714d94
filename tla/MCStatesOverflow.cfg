\* A toplevel configure that is fullscreen, maximized and activated.
CONSTANTS
  w1 = w1
  w2 = w2
  w3 = w3
  None = None
  p1 = p1
  c1 = c1
  NoValue = NoValue
  FixedId = None
  Identity <- MCNoIdentity
  Win <- MCOneWin
  Managed <- MCOneWin
  TransientFor <- MCTransientNone1
  XWayland = TRUE
  CommitLoopFix = FALSE
  AuraShell = TRUE
  ScaleFactor = 2
  LogicalSizes = {1}
  InitWidths = {2}
  InitBorders = {0}
  ContentSizes = {2}
  StateSets = {{"fullscreen", "maximized"}}
  MaxSerial = 2
  MaxMaps = 1
  MaxInbox = 4
  SerialBits = 8
  MaxInputs = 0
  SplitDispatch = TRUE
SPECIFICATION Spec
INVARIANTS StatesFitBuffer
CHECK_DEADLOCK FALSE
