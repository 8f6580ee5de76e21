\* Safety: two ingestion transactions linking up to four jobs.
SPECIFICATION Spec
CONSTANTS
  Jobs = {j1, j2, j3, j4}
  Runs = {r1, r2}
  None = None
SYMMETRY MCSymmetry
INVARIANTS
  TypeOK
  ChainsEnd
  LoopAdvances
  ListedIsRoot
  CountCovered
CHECK_DEADLOCK FALSE
