SPECIFICATION Spec
CONSTANTS
  FileSize = 3
  MaxHeaders = 1
  MaxRequests = 3
  MaxItems = 6
  MaxMishaps = 1
CHECK_DEADLOCK FALSE
INVARIANTS
  TypeOK
  ResponsesInOrder
  CloseAgreed
  BodiesWhole
