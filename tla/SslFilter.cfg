SPECIFICATION Spec
CONSTANTS
  Records <- MCRecords
  MaxSent = 4
  Room = 2
INVARIANTS Lifetimes SentInOrder
PROPERTY LinesRead
CHECK_DEADLOCK FALSE
