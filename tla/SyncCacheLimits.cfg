\* Two queries over two keys and stores of one entry each, with clears and failing files.
SPECIFICATION Spec
CONSTANTS
  Queries = {q1, q2}
  Keys = {k1, k2}
  Modes <- ReadAndRefresh
  MaxEntries = 1
  MaxFiles = 1
  TTL = 0
  Stale = 1
  Horizon = 2
  DiskFaults = TRUE
  MaxClears = 2
  None = None
SYMMETRY Symmetry
INVARIANTS TypeOK MarkHasRefresher CopiesAgeTogether
