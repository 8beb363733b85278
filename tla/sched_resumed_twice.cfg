\* The dispatcher takes a task an executor is about to pop.
CONSTANTS
  N = 2
  Tasks = {t1, t2}
  None = None
  Holds = {}
  Stops = 0
SYMMETRY TaskSymmetry
SPECIFICATION Spec
INVARIANT NeverResumedTwice
CHECK_DEADLOCK FALSE
