\* Process(timeout) and one task, added when the wait is at its deadline.
CONSTANTS
  Tasks = {t1}
  None = None
  Id = 1
  Timed = TRUE
  GcSize = 2
  Calls = {}
SPECIFICATION Spec
PROPERTY IdleStopOnlyWhenIdle
CHECK_DEADLOCK FALSE
