SPECIFICATION Spec
CONSTANTS
  MaxRuns = 2
  Handles = {h1, h2}
  Payloads <- MCPayloads
  MaxPubs = 2
  MaxBreaks = 1
  Pool = Pool
  None = None
  Keys = {"a", "b"}
  RowLimits = {2, 3}
  Retention = 2
CONSTRAINT Small
CHECK_DEADLOCK FALSE
INVARIANTS
  TypeOK
  PushesOnlyToOwner
  LiveRunRegistered
  LatestRows
PROPERTIES
  CancelledRunsEnd
