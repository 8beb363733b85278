\* Two workers; the owner may stop with and without join, and destroy the pool at
\* any time.  The pool may rest without work, or be destroyed.
CONSTANTS
  Tasks = {t1, t2}
  Workers = {w1, w2}
  None = None
  Joins = {TRUE, FALSE}
SPECIFICATION FairSpec
INVARIANTS IInv RunOnce NoSleepOnWork
PROPERTIES ImplementsLifecycle PushedIsRun StopEndsWorkers StopReturnsAfterWork
CHECK_DEADLOCK FALSE
