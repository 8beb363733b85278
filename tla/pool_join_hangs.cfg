\* One idle worker, and Stop(true).
CONSTANTS
  Tasks = {t1}
  Workers = {w1}
  None = None
  Joins = {TRUE}
SPECIFICATION FairSpec
PROPERTY StopReturns
CHECK_DEADLOCK FALSE
