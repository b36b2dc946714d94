\* One window unmapped while an ack is owed and mapped again: the owed
\* serial of the old xdg_surface is acked on the new one.
CONSTANTS
  w1 = w1
  w2 = w2
  w3 = w3
  None = None
  p1 = p1
  c1 = c1
  NoValue = NoValue
  FixedId = None
  Identity <- MCNoIdentity
  Win <- MCOneWin
  Managed <- MCOneWin
  TransientFor <- MCTransientNone1
  XWayland = TRUE
  CommitLoopFix = FALSE
  AuraShell = TRUE
  ScaleFactor = 2
  LogicalSizes = {1}
  InitWidths = {2}
  InitBorders = {0, 1}
  ContentSizes = {2, 4}
  StateSets = {{}}
  MaxSerial = 3
  MaxMaps = 2
  MaxInbox = 4
  SerialBits = 8
  MaxInputs = 0
  SplitDispatch = TRUE
SPECIFICATION Spec
PROPERTIES AckIssuedToSurface
CHECK_DEADLOCK FALSE
