SPECIFICATION Spec
CONSTANTS
  Control = ctl
  None = null
  Listeners = {l1}
  Xfers = {x1, x2}
  NoPassiveMode = FALSE
  NoPortMode = FALSE
  XferTimeout = TRUE
  Hasty = TRUE
CHECK_DEADLOCK FALSE
SYMMETRY Symmetry
VIEW View
INVARIANTS
  FlowsOneWay
  SafePointers
  OneAnswer
  OneTransfer
  ParkedInOpenListener
