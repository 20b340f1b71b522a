SPECIFICATION Spec
CONSTANTS
  CircularLimit = 2
  SizeCount = 64
  Documents <- MCDocs
  Requests <- MCRequests
  Queries <- MCQueries
  MaxCalls = 3
INVARIANTS
  PatchFollowsRfc
  FailureOnlyRemoves
  PatchesLead
  MergeFollowsRfc
  MergePatchLeads
  PointersFollowRfc
  FindLeadsBack
  ComparesAgree
  CopyIsClosed
PROPERTY OnlySortingOpens
CHECK_DEADLOCK FALSE
