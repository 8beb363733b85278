----------------------------- MODULE CoExecutor -----------------------------
(***************************************************************************)
(* One CoExecutor (src/src/coexecutor.cpp): the thread that runs           *)
(* CoExecutor::Process, the coroutines it resumes, the threads that call   *)
(* AddTask on it, CoScheduler::Stop, and its destruction.                  *)
(*                                                                         *)
(* Wakeups come from the coroutines the executor itself runs, the usage of *)
(* tests/test_coexecutor.cpp; module Recovery has those of other threads.  *)
(*                                                                         *)
(* Granularity.  m_mtx is only ever taken by the thread in Process, so it  *)
(* excludes nobody and is not a variable; every ThreadSafeDeque call is    *)
(* atomic (its own lock).  The steps another thread can fall between are   *)
(* separate actions: the first emptiness test and the choice that follows, *)
(* the predicate of the condition variable and the blocking on it, the     *)
(* last predicate of a timed wait and the stop that follows it, the push   *)
(* and the notification of AddTask.                                        *)
(***************************************************************************)
EXTENDS Integers, Sequences, Functions

CONSTANTS
  Tasks,    \* the CoTasks that will ever be added (each is added once)
  None,     \* the null CoTaskPtr
  Id,       \* m_id of this executor
  Timed,    \* Process was given a non-zero timeout_miliseconds
  GcSize,   \* TRIGGER_GC_TASK_SIZE
  Calls     \* what the bodies of the coroutines do besides returning

ASSUME ExecutorAssumption ==
  /\ None \notin Tasks
  /\ Id \in Nat
  /\ Timed \in BOOLEAN
  /\ GcSize \in Nat \ {0}
  /\ Calls \subseteq {"hold", "yield", "wakeup", "wakeupAll", "throw"}

VARIABLES
  runnableQ,      \* m_runnable_queue
  waitingQ,       \* m_waiting_queue: held tasks
  awokenQ,        \* m_awoken_queue: held tasks that were woken
  finishedQ,      \* m_finished_queue: tasks kept until the next Clean
  runningTask,    \* m_running_task
  status,         \* Coroutine::m_status of each task's coroutine
  entries,        \* the tasks Hold has returned a RecoveryEntry for
  yielded,        \* the tasks that have called Yield
  adder,          \* progress of the AddTask call of each task
  pc,             \* where the thread in Process is
  bothReady,      \* value of the first test of Process: neither queue is empty
  fromAwoken,     \* last_retrieve_from_awoken
  mWaiting,       \* m_waiting
  mStopping,      \* m_is_stopping
  cleanRightNow,  \* m_clean_right_now
  everCleaned,    \* m_last_gc_tick # 0
  aborted         \* an AHRI_ASSERT has failed: the process is gone

queues == <<runnableQ, waitingQ, awokenQ, finishedQ>>
flags  == <<bothReady, fromAwoken, mWaiting, mStopping, cleanRightNow, everCleaned>>
vars   == <<queues, runningTask, status, entries, yielded, adder, pc, flags, aborted>>

Statuses == {"IDLE", "RUNNING", "FINISHED", "HOLD", "EXCEPT"}

\* Where the thread is: not in Process ("out", left by an exception "thrown",
\* left because of m_is_stopping "returned"), at the top of the loop, past the
\* first emptiness test, in a coroutine, back from Resume, about to evaluate the
\* condition variable's predicate, about to block, blocked, past a deadline that
\* found the predicate false.  "destroyed": the executor is gone.
Places == {"out", "loop", "pick", "run", "after", "check", "block", "blocked", "expired",
           "returned", "thrown", "destroyed"}

Init ==
  /\ runnableQ = <<>> /\ waitingQ = <<>> /\ awokenQ = <<>> /\ finishedQ = <<>>
  /\ runningTask = None
  /\ status = [t \in Tasks |-> "IDLE"]
  /\ entries = {} /\ yielded = {}
  /\ adder = [t \in Tasks |-> "new"]
  /\ pc = "out"
  /\ bothReady = FALSE /\ fromAwoken = FALSE
  /\ mWaiting = TRUE          \* the constructor starts it at true
  /\ mStopping = FALSE
  /\ cleanRightNow = FALSE /\ everCleaned = FALSE
  /\ aborted = FALSE

(***************************************************************************)
(* AddTask, called by any other thread.                                    *)
(***************************************************************************)
AddTaskPush(t) ==
  /\ adder[t] = "new"
  /\ pc # "destroyed"
  /\ runnableQ' = Append(runnableQ, t)
  /\ adder' = [adder EXCEPT ![t] = "pushed"]
  /\ UNCHANGED <<waitingQ, awokenQ, finishedQ, runningTask, status, entries, yielded, pc,
                 flags, aborted>>

\* if (m_waiting) m_cv.notify_all(), without m_mtx: a thread that is about to
\* block, but has not, does not hear it.
AddTaskNotify(t) ==
  /\ adder[t] = "pushed"
  /\ adder' = [adder EXCEPT ![t] = "added"]
  /\ pc' = IF mWaiting /\ pc = "blocked" THEN "check" ELSE pc
  /\ UNCHANGED <<queues, runningTask, status, entries, yielded, flags, aborted>>

(***************************************************************************)
(* Process.                                                                *)
(***************************************************************************)
Process ==
  /\ pc \in {"out", "thrown", "returned"}
  /\ pc' = "loop"
  /\ fromAwoken' = FALSE
  /\ UNCHANGED <<queues, runningTask, status, entries, yielded, adder, bothReady, mWaiting,
                 mStopping, cleanRightNow, everCleaned, aborted>>

\* Mutant: a stop is only honoured once both queues are drained.
LoopTopDrains ==
  /\ pc = "loop"
  /\ pc' = IF mStopping /\ runnableQ = <<>> /\ awokenQ = <<>> THEN "returned" ELSE "pick"
  /\ bothReady' = (runnableQ # <<>> /\ awokenQ # <<>>)
  /\ UNCHANGED <<queues, runningTask, status, entries, yielded, adder, fromAwoken, mWaiting,
                 mStopping, cleanRightNow, everCleaned, aborted>>

LoopTop ==
  /\ pc = "loop"
  /\ pc' = IF mStopping THEN "returned" ELSE "pick"
  /\ bothReady' = (runnableQ # <<>> /\ awokenQ # <<>>)
  /\ UNCHANGED <<queues, runningTask, status, entries, yielded, adder, fromAwoken, mWaiting,
                 mStopping, cleanRightNow, everCleaned, aborted>>

\* Coroutine::Resume on the task just assigned to m_running_task; it asserts
\* CanResume.
CanResume(t) == status[t] \in {"IDLE", "HOLD"}
IsDone(t)    == status[t] \in {"FINISHED", "EXCEPT"}

Resume(t) ==
  /\ runningTask' = t
  /\ status' = IF CanResume(t) THEN [status EXCEPT ![t] = "RUNNING"] ELSE status
  /\ pc' = IF CanResume(t) THEN "run" ELSE "after"
  /\ aborted' = (~CanResume(t) /\ ~IsDone(t))

\* Mutant: last_retrieve_from_awoken is not updated.
PickAwokenForgets ==
  /\ pc = "pick"
  /\ IF bothReady THEN ~fromAwoken ELSE runnableQ = <<>> /\ awokenQ # <<>>
  /\ awokenQ' = Tail(awokenQ)
  /\ Resume(Head(awokenQ))
  /\ UNCHANGED <<runnableQ, waitingQ, finishedQ, entries, yielded, adder, bothReady, fromAwoken,
                 mWaiting, mStopping, cleanRightNow, everCleaned>>

\* The two queues are served in turn while neither is empty.  The later tests
\* read the queues again: a task may have been added since the first one.
PickAwoken ==
  /\ pc = "pick"
  /\ IF bothReady THEN ~fromAwoken ELSE runnableQ = <<>> /\ awokenQ # <<>>
  /\ awokenQ' = Tail(awokenQ)
  /\ fromAwoken' = TRUE
  /\ Resume(Head(awokenQ))
  /\ UNCHANGED <<runnableQ, waitingQ, finishedQ, entries, yielded, adder, bothReady, mWaiting,
                 mStopping, cleanRightNow, everCleaned>>

PickRunnable ==
  /\ pc = "pick"
  /\ IF bothReady THEN fromAwoken ELSE runnableQ # <<>> /\ awokenQ = <<>>
  /\ runnableQ' = Tail(runnableQ)
  /\ fromAwoken' = FALSE
  /\ Resume(Head(runnableQ))
  /\ UNCHANGED <<waitingQ, awokenQ, finishedQ, entries, yielded, adder, bothReady, mWaiting,
                 mStopping, cleanRightNow, everCleaned>>

\* The else branch, up to m_waiting = true.  It is also taken when a task was
\* added between the tests, so that no test saw the state it asks for.
PickNothing ==
  /\ pc = "pick"
  /\ ~bothReady
  /\ (runnableQ = <<>>) <=> (awokenQ = <<>>)
  /\ mWaiting' = TRUE
  /\ pc' = "check"
  /\ UNCHANGED <<queues, runningTask, status, entries, yielded, adder, bothReady, fromAwoken,
                 mStopping, cleanRightNow, everCleaned, aborted>>

(***************************************************************************)
(* The running coroutine: what its body may call, and how it ends.         *)
(***************************************************************************)
Leave(st) ==
  /\ pc = "run"
  /\ status' = [status EXCEPT ![runningTask] = st]
  /\ pc' = "after"
  /\ UNCHANGED <<runningTask, adder, flags, aborted>>

Return == Leave("FINISHED") /\ UNCHANGED <<queues, entries, yielded>>

Throw == "throw" \in Calls /\ Leave("EXCEPT") /\ UNCHANGED <<queues, entries, yielded>>

(***************************************************************************)
(* GiveUp is called from YieldCurrent and HoldThere, whose frames on the   *)
(* coroutine's stack keep a reference to the task (tk): no queue and no    *)
(* m_running_task is the last to let go of a suspended task, and it is not *)
(* even freed with the executor.                                           *)
(***************************************************************************)

\* Mutant: the coroutine that yields is queued again.
YieldRequeues ==
  /\ "yield" \in Calls
  /\ Leave("HOLD")
  /\ awokenQ' = Append(awokenQ, runningTask)
  /\ yielded' = yielded \cup {runningTask}
  /\ UNCHANGED <<runnableQ, waitingQ, finishedQ, entries>>

YieldCurrent ==
  /\ "yield" \in Calls
  /\ Leave("HOLD")
  /\ yielded' = yielded \cup {runningTask}
  /\ UNCHANGED <<queues, entries>>

\* Mutants: the task stays RUNNING; it is queued as if it were already woken.
HoldThereRunning ==
  /\ "hold" \in Calls
  /\ Leave("RUNNING")
  /\ waitingQ' = Append(waitingQ, runningTask)
  /\ entries' = entries \cup {runningTask}
  /\ UNCHANGED <<runnableQ, awokenQ, finishedQ, yielded>>

HoldThereAwoken ==
  /\ "hold" \in Calls
  /\ Leave("HOLD")
  /\ awokenQ' = Append(awokenQ, runningTask)
  /\ entries' = entries \cup {runningTask}
  /\ UNCHANGED <<runnableQ, waitingQ, finishedQ, yielded>>

HoldThere ==
  /\ "hold" \in Calls
  /\ Leave("HOLD")
  /\ waitingQ' = Append(waitingQ, runningTask)
  /\ entries' = entries \cup {runningTask}
  /\ UNCHANGED <<runnableQ, awokenQ, finishedQ, yielded>>

\* What WakeupFromEntry erases is the task found at i.
\* Mutants: the element stays; the one behind it goes.
EraseNothing(s, i) == s
EraseNext(s, i)    == SubSeq(s, 1, i) \o SubSeq(s, i + 2, Len(s))

Erase(s, i) == SubSeq(s, 1, i - 1) \o SubSeq(s, i + 1, Len(s))

\* A task that is not in the waiting queue is left alone.
WakeupFromEntry(t) ==
  IF t \in Range(waitingQ)
  THEN /\ \E i \in DOMAIN waitingQ : waitingQ[i] = t /\ waitingQ' = Erase(waitingQ, i)
       /\ awokenQ' = Append(awokenQ, t)
  ELSE UNCHANGED <<waitingQ, awokenQ>>

\* Wakeup(entry): RecoveryEntry::operator bool refuses an entry with id 0.
Wakeup(t) ==
  /\ "wakeup" \in Calls
  /\ pc = "run"
  /\ t \in entries
  /\ IF Id # 0 THEN WakeupFromEntry(t) ELSE UNCHANGED <<waitingQ, awokenQ>>
  /\ UNCHANGED <<runnableQ, finishedQ, runningTask, status, entries, yielded, adder, pc, flags,
                 aborted>>

\* Mutant: the waiting queue replaces the awoken one.
WakeupAllReplaces ==
  /\ "wakeupAll" \in Calls
  /\ pc = "run"
  /\ awokenQ' = waitingQ
  /\ waitingQ' = <<>>
  /\ UNCHANGED <<runnableQ, finishedQ, runningTask, status, entries, yielded, adder, pc, flags,
                 aborted>>

WakeupAllTasks ==
  /\ "wakeupAll" \in Calls
  /\ pc = "run"
  /\ awokenQ' = awokenQ \o waitingQ
  /\ waitingQ' = <<>>
  /\ UNCHANGED <<runnableQ, finishedQ, runningTask, status, entries, yielded, adder, pc, flags,
                 aborted>>

(***************************************************************************)
(* Back from Resume: the switch on the status, then Clean when the         *)
(* finished queue has reached its limit.                                   *)
(***************************************************************************)
AfterResume ==
  /\ pc = "after" /\ status[runningTask] # "EXCEPT"
  /\ LET finished == status[runningTask] = "FINISHED"
         kept     == IF finished THEN Append(finishedQ, runningTask) ELSE finishedQ
         clean    == Len(kept) >= GcSize
     IN  /\ runningTask' = IF finished THEN None ELSE runningTask
         /\ finishedQ' = IF clean THEN <<>> ELSE kept
         /\ everCleaned' = (everCleaned \/ clean)
  /\ pc' = "loop"
  /\ UNCHANGED <<runnableQ, waitingQ, awokenQ, status, entries, yielded, adder, bothReady,
                 fromAwoken, mWaiting, mStopping, cleanRightNow, aborted>>

\* The exception leaves Process: what is still queued stays queued.
AfterExcept ==
  /\ pc = "after" /\ status[runningTask] = "EXCEPT"
  /\ finishedQ' = Append(finishedQ, runningTask)
  /\ runningTask' = None
  /\ pc' = "thrown"
  /\ UNCHANGED <<runnableQ, waitingQ, awokenQ, status, entries, yielded, adder, flags, aborted>>

(***************************************************************************)
(* WaitForCondition and WaitForConditionFor.  "due" is the outcome of      *)
(* GetCurrentMs() - m_last_gc_tick > GC_INTERVAL_MS, which holds for sure  *)
(* while m_last_gc_tick is 0.                                              *)
(***************************************************************************)
Predicate(due) ==
  \/ runnableQ # <<>>
  \/ mStopping
  \/ everCleaned /\ finishedQ # <<>> /\ due
  \/ awokenQ # <<>>

\* From the return of the wait to the "continue" of Process.
LeaveWait(due) ==
  LET now   == cleanRightNow \/ due \/ ~everCleaned
      clean == now /\ finishedQ # <<>>
  IN  /\ mWaiting' = FALSE
      /\ pc' = "loop"
      /\ cleanRightNow' = (now /\ ~clean)
      /\ finishedQ' = IF clean THEN <<>> ELSE finishedQ
      /\ everCleaned' = (everCleaned \/ clean)
      /\ UNCHANGED <<runnableQ, waitingQ, awokenQ, runningTask, status, entries, yielded, adder,
                     bothReady, fromAwoken, aborted>>

CheckPredicate ==
  /\ pc = "check"
  /\ \E due \in BOOLEAN :
       \/ /\ Predicate(due)
          /\ LeaveWait(due)
          /\ UNCHANGED mStopping
       \/ /\ ~Predicate(due)
          /\ pc' = "block"
          /\ UNCHANGED <<queues, runningTask, status, entries, yielded, adder, flags, aborted>>

Block ==
  /\ pc = "block"
  /\ pc' = "blocked"
  /\ UNCHANGED <<queues, runningTask, status, entries, yielded, adder, flags, aborted>>

SpuriousWakeup ==
  /\ pc = "blocked"
  /\ pc' = "check"
  /\ UNCHANGED <<queues, runningTask, status, entries, yielded, adder, flags, aborted>>

\* wait_for evaluates the predicate once more at the deadline.
TimeOut ==
  /\ Timed
  /\ pc = "blocked"
  /\ \E due \in BOOLEAN :
       \/ /\ Predicate(due)
          /\ LeaveWait(due)
          /\ UNCHANGED mStopping
       \/ /\ ~Predicate(due)
          /\ pc' = "expired"
          /\ UNCHANGED <<queues, runningTask, status, entries, yielded, adder, flags, aborted>>

\* A false one stops the executor, whatever was queued since it was evaluated:
\* AddTask does not take m_mtx.
TimeOutStops ==
  /\ pc = "expired"
  /\ mStopping' = TRUE
  /\ \E due \in BOOLEAN : LeaveWait(due)

(***************************************************************************)
(* CoScheduler::Stop sets the flag and notifies nobody; ~CoExecutor drops  *)
(* every queue and m_running_task.                                         *)
(***************************************************************************)
Stop ==
  /\ ~mStopping
  /\ pc # "destroyed"
  /\ mStopping' = TRUE
  /\ UNCHANGED <<queues, runningTask, status, entries, yielded, adder, pc, bothReady, fromAwoken,
                 mWaiting, cleanRightNow, everCleaned, aborted>>

Destroy ==
  /\ pc \in {"out", "returned", "thrown"}
  /\ \A t \in Tasks : adder[t] # "pushed"
  /\ pc' = "destroyed"
  /\ runnableQ' = <<>> /\ waitingQ' = <<>> /\ awokenQ' = <<>> /\ finishedQ' = <<>>
  /\ runningTask' = None
  /\ UNCHANGED <<status, entries, yielded, adder, flags, aborted>>

-----------------------------------------------------------------------------
BodyEnds == Return \/ Throw \/ YieldCurrent \/ HoldThere

ProcessStep ==
  \/ LoopTop \/ PickAwoken \/ PickRunnable \/ PickNothing
  \/ AfterResume \/ AfterExcept
  \/ CheckPredicate \/ Block \/ TimeOut \/ TimeOutStops

Next ==
  /\ ~aborted
  /\ \/ \E t \in Tasks : AddTaskPush(t) \/ AddTaskNotify(t) \/ Wakeup(t)
     \/ WakeupAllTasks
     \/ BodyEnds
     \/ ProcessStep
     \/ Process \/ SpuriousWakeup \/ Stop \/ Destroy

Spec == Init /\ [][Next]_vars

(***************************************************************************)
(* Fairness: the thread in Process is scheduled, a coroutine gives control *)
(* back sooner or later (nothing preempts it), an AddTask call that pushed *)
(* its task returns.  Nobody has to call Process, AddTask, Wakeup or Stop, *)
(* and spurious wakeups are not counted on.                                *)
(***************************************************************************)
FairSpec ==
  /\ Spec
  /\ WF_vars(~aborted /\ ProcessStep)
  /\ WF_vars(~aborted /\ BodyEnds)
  /\ \A t \in Tasks : WF_vars(~aborted /\ AddTaskNotify(t))

-----------------------------------------------------------------------------
TypeOK ==
  /\ runnableQ \in Seq(Tasks) /\ waitingQ \in Seq(Tasks)
  /\ awokenQ \in Seq(Tasks)   /\ finishedQ \in Seq(Tasks)
  /\ runningTask \in Tasks \cup {None}
  /\ status \in [Tasks -> Statuses]
  /\ entries \in SUBSET Tasks /\ yielded \in SUBSET Tasks
  /\ adder \in [Tasks -> {"new", "pushed", "added"}]
  /\ pc \in Places
  /\ bothReady \in BOOLEAN /\ fromAwoken \in BOOLEAN
  /\ mWaiting \in BOOLEAN  /\ mStopping \in BOOLEAN
  /\ cleanRightNow \in BOOLEAN /\ everCleaned \in BOOLEAN
  /\ aborted \in BOOLEAN

\* A task is in one queue at most and there once, and each queue holds only
\* coroutines in the state its consumer counts on: fresh ones in the runnable
\* queue, suspended ones in the waiting and the awoken queue, ended ones in the
\* finished queue.
OnePlace ==
  /\ IsInjective(runnableQ) /\ IsInjective(waitingQ)
  /\ IsInjective(awokenQ)   /\ IsInjective(finishedQ)
  /\ Range(waitingQ) \cap Range(awokenQ) = {}
  /\ \A t \in Range(runnableQ) : status[t] = "IDLE"
  /\ \A t \in Range(waitingQ) \cup Range(awokenQ) : status[t] = "HOLD"
  /\ \A t \in Range(finishedQ) : IsDone(t)

\* A task that was handed to AddTask and has not ended is waiting its turn, is
\* held, or is the one in a coroutine, or has called Yield: none slips between the
\* queues.
NoTaskLost ==
  pc # "destroyed" =>
    \A t \in Tasks :
      \/ adder[t] = "new"
      \/ IsDone(t)
      \/ t \in Range(runnableQ) \cup Range(waitingQ) \cup Range(awokenQ)
      \/ pc = "run" /\ t = runningTask
      \/ t \in yielded

\* The executor drives its coroutines within the assertion of Coroutine::Resume:
\* it never takes one that is still running, whatever queues it went through.
NoAssertFails == ~aborted

\* RUNNING is the state of the task the thread is in, and of no other; the one
\* Resume has just come back from is suspended or ended, and not yet kept.
RunningInv ==
  /\ pc = "run" => runningTask \in Tasks /\ status[runningTask] = "RUNNING"
  /\ pc = "after" => /\ runningTask \in Tasks \ Range(finishedQ)
                     /\ status[runningTask] \in {"HOLD", "FINISHED", "EXCEPT"}
  /\ \A t \in Tasks : status[t] = "RUNNING" => pc = "run" /\ t = runningTask

\* What the first test of Process saw still holds when the task is taken: only
\* this thread takes from the queues.
TurnInv == pc = "pick" /\ bothReady => runnableQ # <<>> /\ awokenQ # <<>>

\* A coroutine that has not started is in the runnable queue once it is added.
AdderInv ==
  \A t \in Tasks :
    IF adder[t] = "new"
    THEN status[t] = "IDLE" /\ t \notin Range(runnableQ)
    ELSE status[t] = "IDLE" => t \in Range(runnableQ) \/ pc = "destroyed"

\* A suspended coroutine is in the waiting or the awoken queue, or it has yielded,
\* and then it is in no queue.
HeldInv ==
  \A t \in Tasks :
    /\ t \in yielded => status[t] = "HOLD" /\ t \notin Range(waitingQ) \cup Range(awokenQ)
    /\ status[t] = "HOLD" => \/ t \in Range(waitingQ) \cup Range(awokenQ)
                             \/ t \in yielded \/ pc = "destroyed"

\* The inductive invariant of every instance.
IInv == TypeOK /\ OnePlace /\ RunningInv /\ TurnInv /\ AdderInv /\ HeldInv

\* A held task leaves the waiting queue only for the awoken queue.
HeldUntilWoken ==
  [][\A t \in Range(waitingQ) \ Range(waitingQ') :
       t \in Range(awokenQ') \/ pc' = "destroyed"]_vars

\* A coroutine that has called Yield has stopped for good, also one that Hold once
\* gave out an entry for: Yield puts it in no queue, and the searches of Wakeup
\* and WakeupAll do not find it.
YieldIsFinal == [][\A t \in yielded : t \in yielded' /\ status'[t] = "HOLD"]_vars

InProcess == pc \notin {"out", "returned", "thrown", "destroyed"}

-----------------------------------------------------------------------------
(***************************************************************************)
(* What the code's own comments, assertions and tests say, and the code    *)
(* does not do.                                                            *)
(***************************************************************************)
AtRest == pc \in {"block", "blocked"}

\* CoExecutor::Predicate, condition 1: a runnable task ends the wait.
WaitEndsOnTask == (AtRest /\ runnableQ # <<>>) ~> ~AtRest

\* Process(timeout_miliseconds): the executor leaves Process, and stops, when it has
\* been without tasks for that long.  A task queued at the deadline, after the last
\* look at the queues, is stopped upon all the same.
IdleStopOnlyWhenIdle ==
  [][~Stop /\ mStopping' /\ ~mStopping => runnableQ = <<>> /\ awokenQ = <<>>]_vars

=============================================================================
