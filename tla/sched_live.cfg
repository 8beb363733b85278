\* Two executors, two coroutines that return, Stop before the second is handed over.
\* Everybody may come to rest.
CONSTANTS
  N = 2
  Tasks = {t1, t2}
  None = None
  Holds = {}
  Stops = 2
SPECIFICATION FairSpec
INVARIANT IInv
PROPERTIES SurvivorRunsAll StopEndsAll
CHECK_DEADLOCK FALSE
