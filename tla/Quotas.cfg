SPECIFICATION QuotaSpec
CONSTANTS
  Sessions = {s1, s2}
  Users = {u1, u2}
  None = none
  Accounted = {u1}
  MaxDownload = 1
  MaxUpload = 2
  Ratio = 1
  Pieces = {1, 2}
  MaxMoved = 3
INVARIANTS
  BookedWithinLimit
  CountsMoved
