SPECIFICATION Spec
CONSTANTS
  Control = ctl
  None = null
  Listeners = {l1}
  Xfers = {x1}
  NoPassiveMode = FALSE
  NoPortMode = TRUE
  XferTimeout = FALSE
  Hasty = TRUE
CHECK_DEADLOCK FALSE
INVARIANT
  NoNullListener
