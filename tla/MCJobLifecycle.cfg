\* Safety: one ingestion run, one sweep, one URL check and one administrator request interleaved.
SPECIFICATION Spec
CONSTANTS
  Jobs = {j1}
  Runs = {r1}
  Admins = {a1}
  Postings <- MCPostings
  NoDeadline = NoDeadline
  Never = Never
  UnseenAfter = 0
  RecheckAfter = 0
  CheckBatch = 1
  MaxNow = 1
INVARIANTS
  TypeOK
  RemovedIsHidden
PROPERTIES
  HeldUntilReviewed
  NoSilentReturn
  TransitionsAreLogged
CHECK_DEADLOCK FALSE
