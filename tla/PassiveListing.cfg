SPECIFICATION Spec
CONSTANTS
  Width = 3
  Bounds = {0, 2, 4}
  Dirs <- MCDirs
  Arguments <- MCArguments
  MaxMishaps = 2
INVARIANTS EachPortOnce ListsAll LinksLead
CHECK_DEADLOCK FALSE
