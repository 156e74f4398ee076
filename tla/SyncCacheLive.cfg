\* Two queries of one key under fair scheduling; no symmetry.
SPECIFICATION FairSpec
CONSTANTS
  Queries = {q1, q2}
  Keys = {k1}
  Modes <- ReadAndRefresh
  MaxEntries = 1
  MaxFiles = 1
  TTL = 0
  Stale = 1
  Horizon = 2
  DiskFaults = FALSE
  MaxClears = 0
  None = None
PROPERTIES QueriesReturn RefreshesEnd
