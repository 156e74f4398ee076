\* A query that read the file before a refresh fills memory after it.
SPECIFICATION Spec
CONSTANTS
  Queries = {q1, q2, q3}
  Keys = {k1}
  Modes <- ReadOnly
  MaxEntries = 1
  MaxFiles = 1
  TTL = 0
  Stale = 1
  Horizon = 1
  DiskFaults = FALSE
  MaxClears = 0
  None = None
INVARIANTS RefreshServesNextQuery
