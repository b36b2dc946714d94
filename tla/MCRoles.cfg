\* Pairing, parent resolution and roles without Xwayland: w2 is a
\* managed transient of the unmanaged w1.
CONSTANTS
  w1 = w1
  w2 = w2
  w3 = w3
  None = None
  p1 = p1
  c1 = c1
  NoValue = NoValue
  FixedId = None
  Identity <- MCIdentity
  Win <- MCWin
  Managed = {w2}
  TransientFor <- MCTransient12
  XWayland = FALSE
  CommitLoopFix = FALSE
  AuraShell = TRUE
  ScaleFactor = 2
  LogicalSizes = {1}
  InitWidths = {2}
  InitBorders = {0}
  ContentSizes = {2}
  StateSets = {{}}
  MaxSerial = 2
  MaxMaps = 1
  MaxInbox = 4
  SerialBits = 8
  MaxInputs = 1
  SplitDispatch = TRUE
SPECIFICATION Spec
INVARIANTS TypeOK PairedListConsistent RolesHavePairedSurface
CHECK_DEADLOCK FALSE
