\* Process() without a timeout; the rest after it is what the run is about.
CONSTANTS
  Tasks = {t1}
  None = None
  Id = 1
  Timed = FALSE
  GcSize = 2
  Calls = {}
SPECIFICATION FairSpec
PROPERTY WaitEndsOnTask
CHECK_DEADLOCK FALSE
