--------------------------- MODULE TaskLifecycle ----------------------------
(***************************************************************************)
(* What a service that runs tasks promises, whatever its queues, threads   *)
(* and condition variables look like: a task is submitted once, runs when  *)
(* one of the Slots is free, may be suspended and must then be woken       *)
(* before it runs again, ends once, and is given up only when the whole    *)
(* service is.                                                             *)
(***************************************************************************)
EXTENDS Naturals, FiniteSets

CONSTANTS
  Tasks,   \* the tasks
  Slots    \* how many of them may run at the same time, a positive number

VARIABLES
  stage,   \* the stage of each task's life
  open     \* the service still exists

lifeVars == <<stage, open>>

Stages == {"new", "ready", "running", "held", "ended", "dropped"}

LifeTypeOK == stage \in [Tasks -> Stages] /\ open \in BOOLEAN

InStage(s) == {t \in Tasks : stage[t] = s}

LifeInit == stage = [t \in Tasks |-> "new"] /\ open = TRUE

Move(t, from, to) ==
  /\ open
  /\ stage[t] = from
  /\ stage' = [stage EXCEPT ![t] = to]
  /\ UNCHANGED open

Submit(t)  == Move(t, "new", "ready")
Start(t)   == Cardinality(InStage("running")) < Slots /\ Move(t, "ready", "running")
Suspend(t) == Move(t, "running", "held")

\* A task that runs when the service goes still comes to its end.
End(t) ==
  /\ stage[t] = "running"
  /\ stage' = [stage EXCEPT ![t] = "ended"]
  /\ UNCHANGED open

\* One task or all of them may be woken at once.
Wake(S) ==
  /\ open
  /\ S # {} /\ S \subseteq InStage("held")
  /\ stage' = [t \in Tasks |-> IF t \in S THEN "ready" ELSE stage[t]]
  /\ UNCHANGED open

\* What waits when the service goes is lost with it.
Close ==
  /\ open
  /\ stage' = [t \in Tasks |-> IF stage[t] \in {"ready", "held"} THEN "dropped" ELSE stage[t]]
  /\ open' = FALSE

LifeNext ==
  \/ \E t \in Tasks : Submit(t) \/ Start(t) \/ Suspend(t) \/ End(t)
  \/ \E S \in SUBSET Tasks : Wake(S)
  \/ Close

LifeSpec == LifeInit /\ [][LifeNext]_lifeVars

=============================================================================
