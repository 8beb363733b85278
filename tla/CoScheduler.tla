---------------------------- MODULE CoScheduler -----------------------------
(***************************************************************************)
(* CoScheduler (src/src/coscheduler.cpp) from its construction on: Start,  *)
(* in the caller's thread or in that of Begin, the executor threads it     *)
(* creates, the dispatcher thread that moves tasks between their runnable  *)
(* queues, SchedulerTask and Stop.  m_executors has no lock: the threads   *)
(* that read it, grow it and empty it are kept apart by the order of their *)
(* calls, if at all.                                                       *)
(*                                                                         *)
(* What an executor does alone is module CoExecutor.  Here it is reduced   *)
(* to what the dispatcher can meet: the runnable queue, the tasks held for *)
(* good, the task being run, and the steps of AssignRunnableTask, which    *)
(* takes a reference to the front, copies the task and pops the front.  No *)
(* coroutine is woken, so the awoken queues stay empty.  A wait is over    *)
(* when its predicate is true (at the deadline at the latest), or stops    *)
(* the executor.                                                           *)
(*                                                                         *)
(* No coroutine throws: an exception leaves Process, and nothing catches   *)
(* it in the thread of an executor, nor in that of Begin, so the program   *)
(* ends; a caller of Start could only catch that of executor 0.            *)
(***************************************************************************)
EXTENDS Integers, Sequences, FiniteSets, Functions

CONSTANTS
  N,       \* n_min_thread and n_max_thread of Start
  Tasks,   \* the tasks handed to SchedulerTask, each once
  None,    \* the null TaskPtr
  Holds,   \* the tasks whose coroutine may call Hold
  Stops    \* bound: Stop is called while fewer tasks than this were handed over

ASSUME SchedulerAssumption ==
  /\ N \in Nat \ {0}
  /\ None \notin Tasks
  /\ Holds \subseteq Tasks
  /\ Stops \in Nat

Executors == 0 .. N - 1

VARIABLES
  size,        \* m_executors.size()
  spc,         \* where the call of Start is
  adding,      \* the index a SchedulerTask call has chosen for its task, or -1
  runnableQ,   \* m_runnable_queue of each executor
  held,        \* the tasks in its m_waiting_queue
  running,     \* its m_running_task
  epc,         \* where its thread is in Process
  exStopping,  \* its m_is_stopping
  status,      \* Coroutine::m_status of each task
  added,       \* the tasks that have been handed to SchedulerTask
  stpc,        \* where the call of Stop is
  told,        \* its loop index
  dpc,         \* where the dispatcher thread is
  idx,         \* its loop index
  totalLoads, avgLoad, minLoad, minLoadIdx, \* the variables of that name
  load,        \* the load it read last
  takeAll,     \* IsBlocking said that all of the tasks must go
  low,         \* low_load_executors; -1 for an executor that is not in it
  stolen,      \* what is left of stolen, from first on
  overtaken,   \* a dispatch took a task between its Front and its PopFront
  broken       \* what ended the defined behaviour of the program, if anything

startVars == <<size, spc>>
stopVars == <<stpc, told>>
exVars   == <<held, running, epc, exStopping, status>>
otherCalls == <<startVars, adding, added>>
readings == <<totalLoads, avgLoad, minLoad, minLoadIdx, load, takeAll, low>>
dispVars == <<dpc, idx, readings, stolen>>
vars == <<startVars, adding, runnableQ, exVars, added, stopVars, dispVars, overtaken, broken>>

ExecutorPlaces ==
  {"none", "loop", "front", "copy", "pop", "run", "idle", "expired", "exited"}

TypeOK ==
  /\ size \in 0 .. N
  /\ spc \in {"none", "reserve", "create", "push", "dispatcher", "main", "process"}
  /\ adding \in [Tasks -> Executors \cup {-1}]
  /\ runnableQ \in [Executors -> Seq(Tasks)]
  /\ held \in [Executors -> SUBSET Tasks]
  /\ running \in [Executors -> Tasks \cup {None}]
  /\ epc \in [Executors -> ExecutorPlaces]
  /\ exStopping \in [Executors -> BOOLEAN]
  /\ status \in [Tasks -> {"IDLE", "RUNNING", "HOLD", "FINISHED"}]
  /\ added \in SUBSET Tasks
  /\ stpc \in {"none", "tell", "clear", "done"} /\ told \in 0 .. N
  /\ dpc \in {"none", "top", "sleep", "countRunnable", "countWaiting", "average", "scan", "blocking",
              "give", "supply", "rest", "exited"}
  /\ idx \in Executors
  /\ totalLoads \in Nat /\ avgLoad \in Nat /\ minLoad \in Nat /\ load \in Nat
  /\ minLoadIdx \in Executors
  /\ takeAll \in BOOLEAN
  /\ low \in [Executors -> Nat \cup {-1}]
  /\ stolen \in Seq(Tasks)
  /\ overtaken \in BOOLEAN
  /\ broken \in {"no", "frontEmpty", "frontGone", "popEmpty", "assert", "vectorGone",
                "vectorMoved"}

\* CoScheduler::m_stopping, the first thing Stop sets; and m_executors is gone.
mStopping == stpc # "none"
Cleared   == stpc = "done"

\* The constructor makes executor 0, which no thread runs yet.
Init ==
  /\ size = 1 /\ spc = "none"
  /\ adding = [t \in Tasks |-> -1]
  /\ runnableQ = [e \in Executors |-> <<>>]
  /\ held = [e \in Executors |-> {}]
  /\ running = [e \in Executors |-> None]
  /\ epc = [e \in Executors |-> "none"]
  /\ exStopping = [e \in Executors |-> FALSE]
  /\ status = [t \in Tasks |-> "IDLE"]
  /\ added = {}
  /\ stpc = "none" /\ told = 0
  /\ dpc = "none"
  /\ idx = 0 /\ totalLoads = 0 /\ avgLoad = 0 /\ minLoad = 0 /\ minLoadIdx = 0 /\ load = 0
  /\ takeAll = FALSE /\ low = [e \in Executors |-> -1] /\ stolen = <<>>
  /\ overtaken = FALSE /\ broken = "no"

(***************************************************************************)
(* SchedulerTask and AddTask: a random executor, running or not.  The      *)
(* index is chosen from the size, and m_executors read again with it.      *)
(* Nobody calls it any more once Stop was called.                          *)
(***************************************************************************)
AddTaskChooses(t) ==
  /\ ~mStopping /\ t \notin added /\ adding[t] = -1
  /\ \E e \in 0 .. size - 1 : adding' = [adding EXCEPT ![t] = e]
  /\ UNCHANGED <<startVars, runnableQ, exVars, added, stopVars, dispVars, overtaken, broken>>

AddTaskPuts(t) ==
  /\ adding[t] # -1
  /\ adding' = [adding EXCEPT ![t] = -1]
  /\ IF Cleared
     THEN broken' = "vectorGone" /\ UNCHANGED <<added, runnableQ>>
     ELSE /\ added' = added \cup {t}
          /\ runnableQ' = [runnableQ EXCEPT ![adding[t]] = Append(@, t)]
          /\ UNCHANGED broken
  /\ UNCHANGED <<startVars, exVars, stopVars, dispVars, overtaken>>

(***************************************************************************)
(* Start, which returns at once after Stop, and throws when it was called  *)
(* before (m_started_mtx is never unlocked).  Once it has looked at        *)
(* m_stopping it goes on, whatever Stop does.                              *)
(***************************************************************************)
Starting(from, to) ==
  /\ ~Cleared
  /\ spc = from /\ spc' = to
  /\ UNCHANGED <<adding, runnableQ, held, running, exStopping, status, added, stopVars,
                 idx, readings, stolen, overtaken>>

StartCalled == ~mStopping /\ Starting("none", "reserve") /\ UNCHANGED <<size, epc, dpc, broken>>

\* Mutant: the dispatcher is started first.
ReserveDispatches ==
  /\ Starting("reserve", IF N = 1 THEN "main" ELSE "create")
  /\ dpc' = IF N = 1 THEN dpc ELSE "top"
  /\ UNCHANGED <<size, epc, broken>>

\* reserve moves the elements when their number may grow, under the hands of
\* whoever is about to read one.
Reserve ==
  /\ Starting("reserve", IF N = 1 THEN "main" ELSE "create")
  /\ broken' = IF N > 1 /\ ((\E t \in Tasks : adding[t] # -1) \/ (stpc = "tell" /\ told < size))
               THEN "vectorMoved" ELSE "no"
  /\ UNCHANGED <<size, epc, dpc>>

\* The thread of the new executor runs before the executor is in m_executors.
CreateNewExecutor ==
  /\ Starting("create", "push")
  /\ epc' = [epc EXCEPT ![size] = "loop"]
  /\ UNCHANGED <<size, dpc, broken>>

PushBack ==
  /\ Starting("push", IF size + 1 < N THEN "create" ELSE "dispatcher")
  /\ size' = size + 1
  /\ UNCHANGED <<epc, dpc, broken>>

StartDispatcher ==
  /\ Starting("dispatcher", "main")
  /\ dpc' = "top"
  /\ UNCHANGED <<size, epc, broken>>

\* The calling thread becomes that of executor 0, for good.
ProcessMain ==
  /\ Starting("main", "process")
  /\ epc' = [epc EXCEPT ![0] = "loop"]
  /\ UNCHANGED <<size, dpc, broken>>

\* Stop does not wait for Start, which goes on with what is left of m_executors.
StartMeetsStop ==
  /\ Cleared /\ spc \notin {"none", "process"}
  /\ broken' = "vectorGone"
  /\ UNCHANGED <<startVars, adding, runnableQ, exVars, added, stopVars, dispVars, overtaken>>

(***************************************************************************)
(* The thread of executor e.                                               *)
(***************************************************************************)
Goes(e, from, to) == epc[e] = from /\ epc' = [epc EXCEPT ![e] = to]

Loop(e) ==
  /\ Goes(e, "loop", IF exStopping[e] THEN "exited"
                     ELSE IF runnableQ[e] # <<>> THEN "front" ELSE "idle")
  /\ UNCHANGED <<runnableQ, held, running, exStopping, status, otherCalls, stopVars, dispVars,
                 overtaken, broken>>

\* m_runnable_queue.Front() returns a reference: the test that the queue is not empty
\* was made before.
Front(e) ==
  /\ Goes(e, "front", "copy")
  /\ broken' = IF runnableQ[e] = <<>> THEN "frontEmpty" ELSE "no"
  /\ UNCHANGED <<runnableQ, held, running, exStopping, status, otherCalls, stopVars, dispVars,
                 overtaken>>

\* What it refers to becomes m_running_task, when the queue's lock is free again.
Assign(e) ==
  /\ Goes(e, "copy", "pop")
  /\ running' = [running EXCEPT ![e] = Head(runnableQ[e])]
  /\ UNCHANGED <<runnableQ, held, exStopping, status, otherCalls, stopVars, dispVars, overtaken,
                 broken>>

\* PopFront, and Resume on the task: nothing for a finished coroutine, an
\* assertion that fails for a running one.
Pop(e) ==
  LET t == running[e] IN
  /\ runnableQ' = [runnableQ EXCEPT ![e] = IF @ = <<>> THEN @ ELSE Tail(@)]
  /\ Goes(e, "pop", IF status[t] = "FINISHED" THEN "loop" ELSE "run")
  /\ running' = [running EXCEPT ![e] = IF status[t] = "FINISHED" THEN None ELSE @]
  /\ broken' = IF runnableQ[e] = <<>> THEN "popEmpty"
               ELSE IF status[t] = "RUNNING" THEN "assert" ELSE "no"
  /\ status' = IF status[t] = "FINISHED" THEN status ELSE [status EXCEPT ![t] = "RUNNING"]
  /\ UNCHANGED <<held, exStopping, otherCalls, stopVars, dispVars, overtaken>>

\* The coroutine returns, and Process drops or keeps the finished task.
RunEnds(e) ==
  /\ Goes(e, "run", "loop")
  /\ status' = [status EXCEPT ![running[e]] = "FINISHED"]
  /\ running' = [running EXCEPT ![e] = None]
  /\ UNCHANGED <<runnableQ, held, exStopping, otherCalls, stopVars, dispVars, overtaken, broken>>

RunHolds(e) ==
  /\ running[e] \in Holds
  /\ Goes(e, "run", "loop")
  /\ held' = [held EXCEPT ![e] = @ \cup {running[e]}]
  /\ status' = [status EXCEPT ![running[e]] = "HOLD"]
  /\ UNCHANGED <<runnableQ, running, exStopping, otherCalls, stopVars, dispVars, overtaken, broken>>

\* Mutant: only a task ends the wait.
IdleEndsOnTask(e) ==
  /\ runnableQ[e] # <<>>
  /\ Goes(e, "idle", "loop")
  /\ UNCHANGED <<runnableQ, held, running, exStopping, status, otherCalls, stopVars, dispVars,
                 overtaken, broken>>

IdleEnds(e) ==
  /\ runnableQ[e] # <<>> \/ exStopping[e]
  /\ Goes(e, "idle", "loop")
  /\ UNCHANGED <<runnableQ, held, running, exStopping, status, otherCalls, stopVars, dispVars,
                 overtaken, broken>>

\* Two seconds without a task ...
IdleTimeout(e) ==
  /\ runnableQ[e] = <<>> /\ ~exStopping[e]
  /\ Goes(e, "idle", "expired")
  /\ UNCHANGED <<runnableQ, held, running, exStopping, status, otherCalls, stopVars, dispVars,
                 overtaken, broken>>

\* ... stop the executor for good, whatever has been queued since.
IdleStops(e) ==
  /\ Goes(e, "expired", "loop")
  /\ exStopping' = [exStopping EXCEPT ![e] = TRUE]
  /\ UNCHANGED <<runnableQ, held, running, status, otherCalls, stopVars, dispVars, overtaken,
                 broken>>

(***************************************************************************)
(* Stop: the flag, a loop that tells the executors it finds, and the end   *)
(* of m_executors; the executors live on in their threads.  Any later use  *)
(* of m_executors by the dispatcher is out of bounds.                      *)
(***************************************************************************)
StopCalled ==
  /\ ~mStopping /\ Cardinality(added \cup {t \in Tasks : adding[t] # -1}) < Stops
  /\ stpc' = "tell"
  /\ UNCHANGED <<told, startVars, adding, added, runnableQ, exVars, dispVars, overtaken, broken>>

StopTells ==
  /\ stpc = "tell"
  /\ IF told < size
     THEN /\ exStopping' = [exStopping EXCEPT ![told] = TRUE]
          /\ told' = told + 1
          /\ UNCHANGED stpc
     ELSE stpc' = "clear" /\ UNCHANGED <<told, exStopping>>
  /\ UNCHANGED <<startVars, adding, added, runnableQ, held, running, epc, status, dispVars,
                 overtaken, broken>>

\* An executor that Start has added since the loop ended is dropped without being told.
StopClears ==
  /\ stpc = "clear"
  /\ stpc' = "done"
  /\ size' = 0
  /\ UNCHANGED <<told, spc, adding, added, runnableQ, exVars, dispVars, overtaken, broken>>

(***************************************************************************)
(* The dispatcher: DispatcherThreadFunc and DispatchTasksEqually.  Every   *)
(* count it reads is stale from then on.                                   *)
(***************************************************************************)
DispatcherLoop ==
  /\ dpc = "top"
  /\ dpc' = IF mStopping THEN "exited" ELSE "sleep"
  /\ idx' = 0 /\ totalLoads' = 0 /\ avgLoad' = 0 /\ minLoad' = 0 /\ minLoadIdx' = 0
  /\ load' = 0 /\ takeAll' = FALSE /\ low' = [e \in Executors |-> -1] /\ stolen' = <<>>
  /\ UNCHANGED <<runnableQ, exVars, otherCalls, stopVars, overtaken, broken>>

\* With no executor left the total load is 0, and the round is over.
DispatcherWakes ==
  /\ dpc = "sleep"
  /\ dpc' = IF Cleared THEN "top" ELSE "countRunnable"
  /\ UNCHANGED <<runnableQ, exVars, otherCalls, stopVars, idx, readings, stolen, overtaken, broken>>

\* A step of a round.
Dispatching(place) ==
  /\ ~Cleared
  /\ dpc = place
  /\ UNCHANGED <<exVars, otherCalls, stopVars, broken>>

\* The index of a loop over the executors; the next loop starts at 0 again.
NextIndex(i) == (i + 1) % N

GetRunnableCount(e) == Len(runnableQ[e])
GetWaitingCount(e)  == Cardinality(held[e])

CountRunnable ==
  /\ Dispatching("countRunnable")
  /\ dpc' = "countWaiting"
  /\ totalLoads' = totalLoads + GetRunnableCount(idx)
  /\ UNCHANGED <<runnableQ, idx, avgLoad, minLoad, minLoadIdx, load, takeAll, low, stolen,
                 overtaken>>

CountWaiting ==
  /\ Dispatching("countWaiting")
  /\ dpc' = IF idx + 1 < N THEN "countRunnable" ELSE "average"
  /\ totalLoads' = totalLoads + GetWaitingCount(idx)
  /\ idx' = NextIndex(idx)
  /\ UNCHANGED <<runnableQ, avgLoad, minLoad, minLoadIdx, load, takeAll, low, stolen,
                 overtaken>>

\* Mutant: the average is rounded up.
AverageRoundsUp ==
  /\ Dispatching("average")
  /\ IF totalLoads = 0
     THEN dpc' = "top" /\ UNCHANGED <<avgLoad, minLoad>>
     ELSE /\ dpc' = "scan"
          /\ avgLoad' = (totalLoads + N - 1) \div N
          /\ minLoad' = GetRunnableCount(0)
  /\ UNCHANGED <<runnableQ, idx, totalLoads, minLoadIdx, load, takeAll, low, stolen, overtaken>>

\* The average, and the load of executor 0 as the first minimum.
Average ==
  /\ Dispatching("average")
  /\ IF totalLoads = 0
     THEN dpc' = "top" /\ UNCHANGED <<avgLoad, minLoad>>
     ELSE /\ dpc' = "scan"
          /\ avgLoad' = totalLoads \div N
          /\ minLoad' = GetRunnableCount(0)
  /\ UNCHANGED <<runnableQ, idx, totalLoads, minLoadIdx, load, takeAll, low, stolen, overtaken>>

\* After the last executor: distribute, if anything was collected.
AfterScan(collected) ==
  IF idx + 1 < N THEN "scan" ELSE IF collected = <<>> THEN "top" ELSE "supply"

\* Mutant: giving up load - avgLoad = 0 tasks means giving up all.
OverloadedAtAverage(l) == l >= avgLoad

Overloaded(l) == l > avgLoad

Scan ==
  LET l == GetRunnableCount(idx) IN
  /\ Dispatching("scan")
  /\ load' = l
  /\ IF l < minLoad
     THEN minLoad' = l /\ minLoadIdx' = idx
     ELSE UNCHANGED <<minLoad, minLoadIdx>>
  /\ IF Overloaded(l)
     THEN dpc' = "blocking" /\ UNCHANGED <<low, idx>>
     ELSE /\ dpc' = AfterScan(stolen)
          /\ low' = [low EXCEPT ![idx] = l]
          /\ idx' = NextIndex(idx)
  /\ UNCHANGED <<runnableQ, totalLoads, avgLoad, takeAll, stolen, overtaken>>

\* IsBlocking: only an executor that is inside Resume can be found to block.
IsBlocking ==
  /\ Dispatching("blocking")
  /\ dpc' = "give"
  /\ takeAll' \in {FALSE, epc[idx] = "run"}
  /\ UNCHANGED <<runnableQ, idx, totalLoads, avgLoad, minLoad, minLoadIdx, load, low, stolen,
                 overtaken>>

\* Mutants: what is given up also stays; the first n are given up.
GivenUpCopies(q, n) == LET k == IF n = 0 \/ n > Len(q) THEN Len(q) ELSE n
                       IN  <<q, SubSeq(q, Len(q) - k + 1, Len(q))>>

GivenUpFirst(q, n) == LET k == IF n = 0 \/ n > Len(q) THEN Len(q) ELSE n
                      IN  <<SubSeq(q, k + 1, Len(q)), SubSeq(q, 1, k)>>

\* What GiveUpTasks leaves and moves: the last n of the queue, all for n = 0.
GivenUp(q, n) == LET k == IF n = 0 \/ n > Len(q) THEN Len(q) ELSE n
                 IN  <<SubSeq(q, 1, Len(q) - k), SubSeq(q, Len(q) - k + 1, Len(q))>>

Given == GivenUp(runnableQ[idx], IF takeAll THEN 0 ELSE load - avgLoad)

\* The reference of Front is valid as long as the front is not taken.
TakesReferred == epc[idx] = "copy" /\ Given[1] = <<>>

GiveUpTasks ==
  LET given == Given IN
  /\ Dispatching("give")
  /\ ~TakesReferred
  /\ runnableQ' = [runnableQ EXCEPT ![idx] = given[1]]
  /\ stolen' = stolen \o given[2]
  /\ overtaken' = (overtaken \/ (epc[idx] = "pop" /\ running[idx] \in Range(given[2])))
  /\ dpc' = AfterScan(stolen')
  /\ idx' = NextIndex(idx)
  /\ UNCHANGED readings

GiveUpReferred ==
  /\ ~Cleared /\ dpc = "give" /\ TakesReferred
  /\ broken' = "frontGone"
  /\ UNCHANGED <<runnableQ, exVars, otherCalls, stopVars, dispVars, overtaken>>

\* AddTask of a range of stolen.  Mutant: in front of what is queued.
AddTasksInFront(e, ts) == runnableQ' = [runnableQ EXCEPT ![e] = ts \o @]

AddTasks(e, ts) == runnableQ' = [runnableQ EXCEPT ![e] = @ \o ts]

\* Every executor below the average gets what it lacks, in the order of the map,
\* while there are tasks left.
Supply ==
  LET lacks == IF low[idx] = -1 THEN 0 ELSE avgLoad - low[idx]
      n     == IF lacks < Len(stolen) THEN lacks ELSE Len(stolen)
  IN  /\ Dispatching("supply")
      /\ AddTasks(idx, SubSeq(stolen, 1, n))
      /\ stolen' = SubSeq(stolen, n + 1, Len(stolen))
      /\ dpc' = IF stolen' = <<>> THEN "top" ELSE IF idx + 1 < N THEN "supply" ELSE "rest"
      /\ idx' = NextIndex(idx)
      /\ UNCHANGED <<readings, overtaken>>

\* What is left over goes to the executor with the smallest load seen.
Rest ==
  /\ Dispatching("rest")
  /\ dpc' = "top"
  /\ AddTasks(minLoadIdx, stolen)
  /\ stolen' = <<>>
  /\ UNCHANGED <<idx, readings, overtaken>>

UsesGoneVector ==
  /\ Cleared
  /\ dpc \notin {"none", "top", "sleep", "exited"}
  /\ broken' = "vectorGone"
  /\ UNCHANGED <<runnableQ, exVars, otherCalls, stopVars, dispVars, overtaken>>

-----------------------------------------------------------------------------
ExecutorStep(e) ==
  \/ Loop(e) \/ Front(e) \/ Assign(e) \/ Pop(e) \/ RunEnds(e) \/ RunHolds(e)
  \/ IdleEnds(e) \/ IdleStops(e)

StartStep ==
  \/ Reserve \/ CreateNewExecutor \/ PushBack \/ StartDispatcher \/ ProcessMain
  \/ StartMeetsStop

StopStep == StopTells \/ StopClears

DispatcherStep ==
  \/ DispatcherLoop \/ DispatcherWakes \/ UsesGoneVector
  \/ CountRunnable \/ CountWaiting \/ Average
  \/ Scan \/ IsBlocking \/ GiveUpTasks \/ GiveUpReferred \/ Supply \/ Rest

Next ==
  /\ broken = "no"
  /\ \/ \E t \in Tasks : AddTaskChooses(t) \/ AddTaskPuts(t)
     \/ StartCalled \/ StartStep
     \/ \E e \in Executors : ExecutorStep(e) \/ IdleTimeout(e)
     \/ DispatcherStep
     \/ StopCalled \/ StopStep

Spec == Init /\ [][Next]_vars

(***************************************************************************)
(* Fairness: the threads are scheduled, coroutines give control back, a    *)
(* sleep and a wait whose predicate is true end.  The dispatcher sleeps a  *)
(* second between two rounds, time enough for an executor to look at its   *)
(* queue and to leave its wait: strong fairness for both while there are   *)
(* tasks.  Nobody has to call Start, to add a task or to stop.  The idle   *)
(* timeout is not counted on, except to end an executor that Stop missed.  *)
(***************************************************************************)
FairSpec ==
  /\ Spec
  /\ \A e \in Executors :
       /\ WF_vars(broken = "no" /\ ExecutorStep(e))
       /\ SF_vars(broken = "no" /\ runnableQ[e] # <<>> /\ Loop(e))
       /\ SF_vars(broken = "no" /\ runnableQ[e] # <<>> /\ IdleEnds(e))
       /\ WF_vars(broken = "no" /\ mStopping /\ IdleTimeout(e))
  /\ WF_vars(broken = "no" /\ DispatcherStep)
  /\ WF_vars(broken = "no" /\ StartStep)
  /\ WF_vars(broken = "no" /\ StopStep)
  /\ WF_vars(broken = "no" /\ \E t \in Tasks : AddTaskPuts(t))

-----------------------------------------------------------------------------
\* Every place of the scheduler a task can be in.  A task that an executor has
\* read at the front of its queue is in the queue until PopFront.
InQueue(t)   == {e \in Executors : t \in Range(runnableQ[e])}
Runs(t)      == {e \in Executors : running[e] = t /\ epc[e] = "run"}

\* Load balancing keeps every task, and keeps it once: in one runnable queue, in
\* the dispatcher's hands, in one executor's coroutine, held, or finished.  The
\* one way out is a dispatch that takes a task between Front and PopFront.
OncePlaced ==
  broken = "no" /\ ~overtaken =>
    /\ IsInjective(stolen)
    /\ \A e \in Executors : IsInjective(runnableQ[e])
    /\ \A t \in added :
         Cardinality(InQueue(t)) + Cardinality(Runs(t))
           + (IF t \in Range(stolen) THEN 1 ELSE 0)
           + (IF status[t] \in {"HOLD", "FINISHED"} THEN 1 ELSE 0) = 1

\* An executor that is about to pop still finds at the front what it has read
\* there: no other thread takes tasks from the front, and what the dispatcher
\* takes from the back reaches the front only when it is overtaken.
FrontIsStable ==
  broken = "no" =>
    \A e \in Executors :
      /\ epc[e] = "copy" => runnableQ[e] # <<>>
      /\ epc[e] = "pop" /\ ~overtaken =>
           runnableQ[e] # <<>> /\ Head(runnableQ[e]) = running[e]

\* m_executors never grows during a dispatch round: the dispatcher starts when the
\* last executor is in it, so every round counts and serves all of them.
RoundSeesAll ==
  broken = "no" /\ ~Cleared /\ dpc \notin {"none", "top", "sleep", "exited"} =>
    /\ size = N
    /\ \A e \in Executors \ {0} : epc[e] # "none"

\* Start puts the executors into m_executors one by one, each with a thread that
\* runs it already, and the dispatcher comes last.
StartInv ==
  /\ dpc # "none" => spc \in {"main", "process"}
  /\ ~Cleared =>
       /\ size >= 1
       /\ spc \in {"none", "reserve"} => size = 1
       /\ spc \in {"create", "push"} => size < N
       /\ spc \in {"dispatcher", "main", "process"} => size = N
       /\ \A e \in 1 .. size - 1 : epc[e] # "none"
       /\ spc = "push" => epc[size] # "none"
       /\ \A e \in Executors : e > size \/ (e = size /\ spc # "push") => epc[e] = "none"
       /\ spc # "process" => epc[0] = "none"

\* The unsigned differences of loads do not wrap around, however stale the loads are,
\* and no round begins with tasks in the dispatcher's hands.
RoundInv ==
  /\ dpc \in {"blocking", "give"} => load > avgLoad
  /\ \A e \in Executors : low[e] <= avgLoad
  /\ dpc \in {"none", "sleep", "countRunnable", "countWaiting", "average"} =>
       low = [e \in Executors |-> -1]
  /\ dpc \notin {"scan", "blocking", "give", "supply", "rest"} => stolen = <<>>

Waits(t) == t \in Range(stolen) \/ \E e \in Executors : t \in Range(runnableQ[e])

\* Where a task is follows from its status, and there it is alone: what waits has
\* never run, what runs is in one executor, and the queues share nothing.
PlacedInv ==
  broken = "no" /\ ~overtaken =>
    /\ IsInjective(stolen)
    /\ \A e \in Executors : IsInjective(runnableQ[e])
    /\ \A e \in Executors : Range(runnableQ[e]) \cap Range(stolen) = {}
    /\ \A e, f \in Executors : e # f => Range(runnableQ[e]) \cap Range(runnableQ[f]) = {}
    /\ \A t \in Tasks : Waits(t) <=> t \in added /\ status[t] = "IDLE"
    /\ \A t \in Tasks \ added : status[t] = "IDLE"
    /\ \A e \in Executors : epc[e] = "run" => running[e] \in Tasks /\ status[running[e]] = "RUNNING"
    /\ \A e, f \in Executors :
         e # f /\ epc[e] = "run" /\ epc[f] = "run" => running[e] # running[f]
    /\ \A t \in Tasks : status[t] = "RUNNING" => Runs(t) # {}

\* What a SchedulerTask call is about to add is not there yet, and what an executor
\* holds can be counted.
OutsideInv ==
  /\ \A t \in added : adding[t] = -1
  /\ \A e \in Executors : IsFiniteSet(held[e])

IInv == TypeOK /\ StartInv /\ RoundInv /\ OutsideInv /\ PlacedInv /\ FrontIsStable

\* Two executors, no coroutine that holds: whatever executor a task is put on,
\* before or after Start, one that stopped included, it is run as long as the other
\* goes on.
SurvivorRunsAll ==
  (added # {} /\ spc # "none")
    ~> \/ \A t \in added : status[t] = "FINISHED"
       \/ mStopping \/ broken # "no" \/ overtaken \/ \A e \in Executors : exStopping[e]

\* Stop ends every executor thread and the dispatcher, with no notification.
StopEndsAll ==
  mStopping ~> \/ dpc \in {"none", "exited"} /\ \A e \in Executors : epc[e] \in {"none", "exited"}
               \/ broken # "no"

-----------------------------------------------------------------------------
(***************************************************************************)
(* What an assertion says and the code does not do.                        *)
(***************************************************************************)
\* Coroutine::Resume asserts that no coroutine is resumed while it runs.
NeverResumedTwice == broken # "assert"

=============================================================================
