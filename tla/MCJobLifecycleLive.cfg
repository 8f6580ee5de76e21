\* Liveness: one ingestion run, the sweep and the URL check, no administrator.
SPECIFICATION FairSpec
CONSTANTS
  Jobs = {j1}
  Runs = {r1}
  Admins = {}
  Postings <- MCLivePostings
  NoDeadline = NoDeadline
  Never = Never
  UnseenAfter = 0
  RecheckAfter = 0
  CheckBatch = 1
  MaxNow = 2
PROPERTIES
  RepublishedReturns
  OverdueEnds
CHECK_DEADLOCK FALSE
