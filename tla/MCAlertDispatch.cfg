\* Safety: two dispatch tasks, a retry task, one ingestion transaction at a time.
SPECIFICATION Spec
CONSTANTS
  Alerts = {a1}
  Jobs = {j1, j2}
  Workers = {w1, w2}
  Txns = {t1}
  Notes = {n1, n2}
  BatchLimit = 2
  MaxAttempts = 2
  Lookback = 1
  MaxNow = 2
  MaxFaults = 1
SYMMETRY MCSymmetry
INVARIANTS
  TypeOK
  OneDigestPerJob
  CopiesAccounted
  RetriesEnd
CHECK_DEADLOCK FALSE
