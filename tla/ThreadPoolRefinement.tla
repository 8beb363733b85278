------------------------ MODULE ThreadPoolRefinement ------------------------
(***************************************************************************)
(* A pool is a TaskLifecycle service with as many slots as workers, in     *)
(* which no task is ever suspended.                                        *)
(***************************************************************************)
EXTENDS ThreadPool, FiniteSets

ASSUME WorkersAssumption == IsFiniteSet(Workers)

\* The stage a task is in, read off the queue, the workers and the callers.
StageOf(t) ==
  IF Holders(t) # {}                                 THEN "running"
  ELSE IF t \in ended                               THEN "ended"
  ELSE IF t \in Range(tasksQ)                       THEN "ready"
  ELSE IF caller[t] \in {"new", "push", "refused"}  THEN "new"
  ELSE IF owner = "gone"                            THEN "dropped"
  ELSE "lost"

Lifecycle == INSTANCE TaskLifecycle
  WITH Slots <- Cardinality(Workers),
       stage <- [t \in Tasks |-> StageOf(t)],
       open  <- owner # "gone"

\* Up to the point where its behaviour is undefined, the pool behaves as the
\* service: a task is submitted before it runs, is run once, by one thread, and
\* is dropped only with the pool.
ImplementsLifecycle == Lifecycle!LifeSpec

=============================================================================
