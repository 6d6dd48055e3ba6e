SPECIFICATION Spec
CONSTANTS
  LineMax = 3
  WordSize = 16
  ReplySizes = {1, 3}
  MaxMade = 6
  MaxTyped = 5
CHECK_DEADLOCK FALSE
INVARIANTS
  TypeOK
  RepliesInOrder
  WholeLines
PROPERTY
  LockStep
