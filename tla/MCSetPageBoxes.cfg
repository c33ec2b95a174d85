SPECIFICATION SetSpec
CONSTANTS
  r = r
  a = a
  p = p
  q = q
  Root = r
  Absent = Absent
  Malformed = Malformed
  NonFinite = NonFinite
  Objects <- MCObjects
  Rects <- MCRects
  Documents <- MCDocuments
  Requests <- MCRequests
  MaxDepth = 2
  MaxNodes = 3
  MaxCalls = 2
INVARIANTS
  EditsKeepOtherEntries
  ReopenReportsRequest
  OtherPagesKeepBoxes
  CallsAreAtomic
PROPERTY
  SecondCallChangesNothing
CHECK_DEADLOCK FALSE
