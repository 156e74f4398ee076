\* No timer expires: a waiter returns only when the pool serves it.
SPECIFICATION PatientSpec
CONSTANTS
  Queries = {q1, q2, q3}
  Max = 1
  TimersFire = FALSE
  None = None
PROPERTIES EveryQueryReturns 
