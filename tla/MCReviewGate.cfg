\* The review gate of the documentation, which the code does not keep.
SPECIFICATION Spec
CONSTANTS
  Jobs = {j1}
  Runs = {r1}
  Admins = {a1}
  Postings <- MCPostings
  NoDeadline = NoDeadline
  Never = Never
  UnseenAfter = 0
  RecheckAfter = 0
  CheckBatch = 1
  MaxNow = 1
INVARIANT ReviewGate
CHECK_DEADLOCK FALSE
