\* The COMMIT_LOOP_FIX build: a configure that changes nothing (no size,
\* no state) is never acked, and every later configure queues behind it.
CONSTANTS
  w1 = w1
  w2 = w2
  w3 = w3
  None = None
  p1 = p1
  c1 = c1
  NoValue = NoValue
  FixedId = None
  Identity <- MCNoIdentity
  Win <- MCOneWin
  Managed <- MCOneWin
  TransientFor <- MCTransientNone1
  XWayland = TRUE
  CommitLoopFix = TRUE
  AuraShell = TRUE
  ScaleFactor = 2
  LogicalSizes = {1}
  InitWidths = {2}
  InitBorders = {0}
  ContentSizes = {2}
  StateSets = {{}}
  MaxSerial = 2
  MaxMaps = 1
  MaxInbox = 4
  SerialBits = 8
  MaxInputs = 0
  SplitDispatch = TRUE
SPECIFICATION Spec
PROPERTIES EventuallyAcked
CHECK_DEADLOCK FALSE
