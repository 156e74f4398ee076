\* Three queries compete for two connections while the datasource is disposed.
SPECIFICATION Spec
CONSTANTS
  Queries = {q1, q2, q3}
  Max = 2
  TimersFire = TRUE
  None = None
SYMMETRY Symmetry
INVARIANTS TypeOK SlotAccounting Exclusive OwnAnswer IdleIsClean
PROPERTIES NoLeaseAfterDispose LeaseSpec
