SPECIFICATION Spec
CONSTANTS
  Keys = {k1, k2}
  Absent = absent
  Torn = torn
  MaxValue = 2
  Amounts = {0, 1, 2}
INVARIANTS
  TypeOK
  CleanEntries
  DropsOnlyClean
PROPERTY
  Refines
