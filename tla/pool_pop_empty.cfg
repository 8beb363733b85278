\* Two workers and one task.
CONSTANTS
  Tasks = {t1}
  Workers = {w1, w2}
  None = None
  Joins = {TRUE}
SPECIFICATION Spec
INVARIANT NoEmptyPop
CHECK_DEADLOCK FALSE
