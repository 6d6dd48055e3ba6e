SPECIFICATION FairSpec
CONSTANTS
  Control = ctl
  None = null
  Listeners = {l1, l2}
  Xfers = {x1}
  NoPassiveMode = FALSE
  NoPortMode = FALSE
  XferTimeout = FALSE
  Hasty = FALSE
INVARIANTS
  NoFault
  NothingLeaks
PROPERTIES
  NothingLingers
