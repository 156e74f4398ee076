\* Timers may expire, kdb+ may hang, and the datasource may be disposed.
SPECIFICATION FairSpec
CONSTANTS
  Queries = {q1, q2}
  Max = 1
  TimersFire = TRUE
  None = None
PROPERTIES EveryQueryReturns DisposedQuiesces
