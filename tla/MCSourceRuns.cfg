\* Safety: the runs of one source, one at a time, with crashes, retries and administrators.
SPECIFICATION Spec
CONSTANTS
  Sources = {s1}
  Postings = {p1, p2}
  Workers = {w1}
  MaxRetries = 1
  Interval = 1
  DegradedAfter = 1
  FailingAfter = 2
  MaxNow = 2
  MaxQueued = 1
  MaxRuns = 3
SYMMETRY MCSymmetry
INVARIANTS
  TypeOK
  
  
CHECK_DEADLOCK FALSE
