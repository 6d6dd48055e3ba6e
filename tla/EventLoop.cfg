SPECIFICATION FairSpec
CONSTANTS
  Conns = {c1, c2}
  Polite = {c1}
  Listener = listener
  Idle = 1
CHECK_DEADLOCK FALSE
INVARIANT
  LoopTypeOK
PROPERTIES
  OnlyTheIdleExpire
  KeptWhenAwake
