\* Two tasks, one thread that wakes them from outside, and their own wakeups, on an
\* executor in Process(timeout).  It may rest for ever, or be destroyed.
CONSTANTS
  Tasks = {t1, t2}
  None = None
  Id = 1
  Timed = TRUE
  GcSize = 2
  Calls = {"hold", "yield", "wakeupAll", "throw"}
  Outside = {w1}
  Inside = Inside
SPECIFICATION RecoveryFairSpec
INVARIANTS KeptOnce NoAssertFails
PROPERTIES TurnComes StopCompletes WakeupsLookAtomic
CHECK_DEADLOCK FALSE
