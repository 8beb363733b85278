\* Three tasks, every call, Process(timeout).  The executor may rest for ever
\* outside Process or be destroyed, so a state without successors is no error.
CONSTANTS
  Tasks = {t1, t2, t3}
  None = None
  Id = 1
  Timed = TRUE
  GcSize = 2
  Calls = {"hold", "yield", "wakeup", "wakeupAll", "throw"}
SYMMETRY TaskSymmetry
SPECIFICATION Spec
INVARIANTS IInv OnePlace NoTaskLost NoAssertFails
PROPERTIES HeldUntilWoken YieldIsFinal ImplementsLifecycle
CHECK_DEADLOCK FALSE
