\* Application ids of a managed and an override-redirect Xwayland window,
\* with no fixed ctx->application_id, across property changes and remaps.
CONSTANTS
  w1 = w1
  w2 = w2
  p1 = p1
  c1 = c1
  None = None
  NoValue = NoValue
  Win <- MCWin
  Managed <- MCManaged
  XWayland = TRUE
  FixedId = None
  Props <- MCProps
  Classes <- MCClasses
  Leaders <- MCWin
SPECIFICATION Spec
INVARIANTS AppIdCurrent
