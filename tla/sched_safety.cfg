\* Two executors, three tasks of which one may hold, without Stop.  Everybody may come
\* to rest.
CONSTANTS
  N = 2
  Tasks = {t1, t2, t3}
  None = None
  Holds = {t3}
  Stops = 0
SYMMETRY TaskSymmetry
SPECIFICATION Spec
INVARIANTS IInv OncePlaced FrontIsStable RoundSeesAll
CHECK_DEADLOCK FALSE
