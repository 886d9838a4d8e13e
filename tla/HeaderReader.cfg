SPECIFICATION ReaderSpec
CONSTANTS
  Size = 4
  Garbage = {"x", "n"}
  MaxLen = 7
  Requests <- MCRequests
INVARIANTS SearchExplained
CHECK_DEADLOCK FALSE
