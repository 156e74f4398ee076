\* Three queries of one key, of which one may come while a second refreshes, and a clear.
SPECIFICATION Spec
CONSTANTS
  Queries = {q1, q2, q3}
  Keys = {k1}
  Modes <- ReadAndRefresh
  MaxEntries = 1
  MaxFiles = 1
  TTL = 1
  Stale = 1
  Horizon = 2
  DiskFaults = FALSE
  MaxClears = 1
  None = None
SYMMETRY Symmetry
INVARIANTS OneFlight RefreshersBounded MemoryNeverGoesBack
