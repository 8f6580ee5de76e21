\* Two administrators at once: the removal of the code comment, which the code does not keep.
SPECIFICATION Spec
CONSTANTS
  Jobs = {j1}
  Runs = {r1}
  Admins = {a1, a2}
  Postings <- MCOpenPosting
  NoDeadline = NoDeadline
  Never = Never
  UnseenAfter = 0
  RecheckAfter = 0
  CheckBatch = 1
  MaxNow = 1
PROPERTIES
  NoSilentReturn
CHECK_DEADLOCK FALSE
