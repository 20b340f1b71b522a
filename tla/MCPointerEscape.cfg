SPECIFICATION Spec
CONSTANTS
  CircularLimit = 2
  SizeCount = 64
  Documents <- MCDocs
  Requests <- MCRequests
  Queries <- MCQueries
  MaxCalls = 2
INVARIANT AddedIsFound
CHECK_DEADLOCK FALSE
