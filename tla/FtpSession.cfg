SPECIFICATION Spec
CONSTANTS
  Addrs = {"x"}
  Args <- MCArgs
  Tree <- MCTree
  MaxLogins = 2
  MaxChanges = 1
INVARIANTS TypeOK OwnState DataGoesWhereTold
PROPERTIES FilesKept
CHECK_DEADLOCK FALSE
