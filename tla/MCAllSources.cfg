\* The attribution of SOURCES.md: one transaction is enough.
SPECIFICATION Spec
CONSTANTS
  Jobs = {j1, j2, j3}
  Runs = {r1}
  None = None
INVARIANT AllSourcesShown
CHECK_DEADLOCK FALSE
