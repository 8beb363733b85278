------------------------ MODULE CoExecutorRefinement ------------------------
(***************************************************************************)
(* A CoExecutor is a TaskLifecycle service with one slot.                  *)
(***************************************************************************)
EXTENDS CoExecutor

\* The stage a task is in, read off the executor's queues.  One that has yielded
\* is held, and never woken; any other suspended task that is in no queue has no
\* stage at all.
StageOf(t) ==
  IF adder[t] = "new" THEN "new"
  ELSE IF IsDone(t) THEN "ended"
  ELSE IF pc = "destroyed" THEN "dropped"
  ELSE IF status[t] = "RUNNING" THEN "running"
  ELSE IF t \in Range(waitingQ) \cup yielded THEN "held"
  ELSE IF t \in Range(runnableQ) \cup Range(awokenQ) THEN "ready"
  ELSE "lost"

Lifecycle == INSTANCE TaskLifecycle
  WITH Slots <- 1,
       stage <- [t \in Tasks |-> StageOf(t)],
       open  <- pc # "destroyed"

\* Seen from outside, the executor with its four queues behaves as the service:
\* every step of its threads is one step of a task's life, or none.
ImplementsLifecycle == Lifecycle!LifeSpec

=============================================================================
