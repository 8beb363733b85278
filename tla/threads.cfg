\* Main and two threads, two coroutines that any of them may resume.  Everybody may
\* come to rest.
CONSTANTS
  Main = main
  Objects = {p, q}
  Threads = {main, p, q}
  Cos = {c, d}
  None = None
SYMMETRY PartSymmetry
SPECIFICATION Spec
INVARIANTS TypeOK LeavesToResumer NoFlowLost RunFindsItsObject OneOwner JoinableIsRight
CHECK_DEADLOCK FALSE
