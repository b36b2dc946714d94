\* With Xwayland, three unmanaged windows, two inputs and a one-bit
\* last_event_serial, so the second input's serial wraps to 0.
CONSTANTS
  w1 = w1
  w2 = w2
  w3 = w3
  None = None
  p1 = p1
  c1 = c1
  NoValue = NoValue
  FixedId = None
  Identity <- MCNoIdentity
  Win <- MCThreeWin
  Managed = {}
  TransientFor <- MCTransientNone3
  XWayland = TRUE
  CommitLoopFix = FALSE
  AuraShell = TRUE
  ScaleFactor = 2
  LogicalSizes = {1}
  InitWidths = {2}
  InitBorders = {0}
  ContentSizes = {2}
  StateSets = {{}}
  MaxSerial = 0
  MaxMaps = 1
  MaxInbox = 4
  SerialBits = 1
  MaxInputs = 2
  SplitDispatch = TRUE
SPECIFICATION Spec
INVARIANTS FallbackPicksLatestInput
CHECK_DEADLOCK FALSE
