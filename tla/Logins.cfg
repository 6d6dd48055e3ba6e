SPECIFICATION Spec
CONSTANTS
  Conns = {c1, c2, c3}
  Users = {u1, u2}
  None = none
  MaxLogins = 2
  MaxUnauth = 2
  MaxCrashes = 2
SYMMETRY Symmetry
INVARIANTS
  TypeOK
  CountersExact
  LimitsHold
  CleanStop
