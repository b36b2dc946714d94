\* Configure/ack pipeline of one managed window under the default build
\* (no COMMIT_LOOP_FIX) with Xwayland, across two pairings of the window,
\* two proposed sizes, and each toplevel/xdg_surface configure pair
\* dispatched together.
CONSTANTS
  w1 = w1
  w2 = w2
  w3 = w3
  None = None
  p1 = p1
  c1 = c1
  NoValue = NoValue
  FixedId = None
  Identity <- MCNoIdentity
  Win <- MCOneWin
  Managed <- MCOneWin
  TransientFor <- MCTransientNone1
  XWayland = TRUE
  CommitLoopFix = FALSE
  AuraShell = TRUE
  ScaleFactor = 2
  LogicalSizes = {1, 2}
  InitWidths = {2}
  InitBorders = {0, 1}
  ContentSizes = {2, 4}
  StateSets = {{}}
  MaxSerial = 3
  MaxMaps = 2
  MaxInbox = 4
  SerialBits = 8
  MaxInputs = 0
  SplitDispatch = FALSE
SPECIFICATION Spec
INVARIANTS NoAssertFailure
PROPERTIES AcksIncrease AckMatchesRequest EventuallyAcked ConfigureQueueRefined
CHECK_DEADLOCK FALSE
