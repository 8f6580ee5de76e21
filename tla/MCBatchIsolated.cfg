\* The failure table: a persist error on one job leaves the rest of the batch alone.
SPECIFICATION Spec
CONSTANTS
  Sources = {s1}
  Postings = {p1, p2}
  Workers = {w1}
  MaxRetries = 1
  Interval = 1
  DegradedAfter = 1
  FailingAfter = 2
  MaxNow = 2
  MaxQueued = 1
  MaxRuns = 3
PROPERTY BatchIsolated
CHECK_DEADLOCK FALSE
