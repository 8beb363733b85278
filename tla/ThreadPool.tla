----------------------------- MODULE ThreadPool -----------------------------
(***************************************************************************)
(* ThreadPoolExecutor (src/src/threadpool.cpp): the worker threads in      *)
(* Runnable, the threads that call SchedulerTask, and one owner that       *)
(* starts, stops and destroys the pool.  Callers of SchedulerTask keep the *)
(* pool alive while they are in it.                                        *)
(*                                                                         *)
(* Granularity.  m_mtx is held while a worker evaluates the predicate and  *)
(* blocks, and while somebody notifies, so each is one step.  The queue    *)
(* and the flags are not under m_mtx: every test of theirs is a step of    *)
(* its own, and what follows it another.                                   *)
(***************************************************************************)
EXTENDS Integers, Sequences, Functions

CONSTANTS
  Tasks,     \* the functions handed to SchedulerTask, each once
  Workers,   \* the threads of the pool: m_thread_count of them
  None,      \* no function
  Joins      \* the arguments the owner calls Stop with

ASSUME PoolAssumption ==
  /\ None \notin Tasks
  /\ Workers # {}
  /\ Joins \subseteq BOOLEAN

VARIABLES
  tasksQ,      \* m_tasks_queue
  mStarted,    \* m_started
  mStopped,    \* m_stopped, true until Start
  mIsStopping, \* m_is_stopping
  handle,      \* the std::thread of each worker in m_threads
  wpc,         \* where each worker is in Runnable
  fn,          \* the function a worker has taken
  ended,       \* the functions that have returned
  caller,      \* progress of the SchedulerTask call of each task
  owner,       \* where the owner is
  joinArg,     \* the argument of its Stop
  broken       \* what ended the defined behaviour of the program, if anything

flags == <<mStarted, mStopped, mIsStopping>>
own   == <<owner, joinArg, handle>>
vars  == <<tasksQ, flags, wpc, fn, ended, caller, own, broken>>

TypeOK ==
  /\ tasksQ \in Seq(Tasks)
  /\ mStarted \in BOOLEAN /\ mStopped \in BOOLEAN /\ mIsStopping \in BOOLEAN
  /\ handle \in [Workers -> {"none", "joinable", "joined", "detached"}]
  /\ wpc \in [Workers -> {"none", "top", "wait", "blocked", "peek", "take", "run", "exit"}]
  /\ fn \in [Workers -> Tasks \cup {None}]
  /\ ended \in SUBSET Tasks
  /\ caller \in [Tasks -> {"new", "push", "test", "notify", "added", "refused"}]
  /\ owner \in {"idle", "start", "stopTest", "stopNotify", "join", "detach", "gone"}
  /\ joinArg \in BOOLEAN
  /\ broken \in {"no", "popEmpty", "detachTwice", "terminate", "cvWaited", "useAfterFree"}

Init ==
  /\ tasksQ = <<>>
  /\ mStarted = FALSE /\ mStopped = TRUE /\ mIsStopping = FALSE
  /\ handle = [w \in Workers |-> "none"]
  /\ wpc = [w \in Workers |-> "none"]
  /\ fn = [w \in Workers |-> None]
  /\ ended = {}
  /\ caller = [t \in Tasks |-> "new"]
  /\ owner = "idle" /\ joinArg = FALSE
  /\ broken = "no"

WakeAll == wpc' = [w \in Workers |-> IF wpc[w] = "blocked" THEN "wait" ELSE wpc[w]]

(***************************************************************************)
(* SchedulerTask, by any thread: the test of the flags, the push, and      *)
(* NotifyCondition, which tests the queue before it takes m_mtx.           *)
(***************************************************************************)
CallerMoves(t, from, to) ==
  /\ caller[t] = from
  /\ caller' = [caller EXCEPT ![t] = to]
  /\ UNCHANGED <<flags, fn, ended, own, broken>>

SchedulerTask(t) ==
  /\ owner # "gone"
  /\ CallerMoves(t, "new", IF ~mStopped /\ ~mIsStopping THEN "push" ELSE "refused")
  /\ UNCHANGED <<tasksQ, wpc>>

Push(t) ==
  /\ CallerMoves(t, "push", "test")
  /\ tasksQ' = Append(tasksQ, t)
  /\ UNCHANGED wpc

\* Mutant: the condition is notified when there is nothing to take.
NotifyTestInverted(t) ==
  /\ CallerMoves(t, "test", IF tasksQ = <<>> THEN "notify" ELSE "added")
  /\ UNCHANGED <<tasksQ, wpc>>

NotifyTest(t) ==
  /\ CallerMoves(t, "test", IF tasksQ # <<>> THEN "notify" ELSE "added")
  /\ UNCHANGED <<tasksQ, wpc>>

Notify(t) ==
  /\ CallerMoves(t, "notify", "added")
  /\ WakeAll
  /\ UNCHANGED tasksQ

(***************************************************************************)
(* Runnable.                                                               *)
(***************************************************************************)
WorkerMoves(w, from, to) ==
  /\ owner # "gone"
  /\ wpc[w] = from
  /\ wpc' = [wpc EXCEPT ![w] = to]
  /\ UNCHANGED <<flags, caller, own, broken>>

\* Mutant: the loop does not look at m_is_stopping.
WorkerTopForever(w) ==
  /\ WorkerMoves(w, "top", IF mStarted THEN "wait" ELSE "exit")
  /\ UNCHANGED <<tasksQ, fn, ended>>

WorkerTop(w) ==
  /\ WorkerMoves(w, "top", IF mStarted /\ ~mIsStopping THEN "wait" ELSE "exit")
  /\ UNCHANGED <<tasksQ, fn, ended>>

\* The predicate, and blocking when it is false: no notification fits between.
WaitForCondition(w) ==
  /\ WorkerMoves(w, "wait", IF tasksQ # <<>> \/ mIsStopping THEN "peek" ELSE "blocked")
  /\ UNCHANGED <<tasksQ, fn, ended>>

SpuriousWakeup(w) ==
  /\ WorkerMoves(w, "blocked", "wait")
  /\ UNCHANGED <<tasksQ, fn, ended>>

\* if (!m_tasks_queue.Empty()), under the lock of the queue for the test alone
Peek(w) ==
  /\ WorkerMoves(w, "peek", IF tasksQ # <<>> THEN "take" ELSE "top")
  /\ UNCHANGED <<tasksQ, fn, ended>>

\* Mutant: the function is copied and left in the queue.
TakeCopies(w) ==
  /\ tasksQ # <<>>
  /\ WorkerMoves(w, "take", "run")
  /\ fn' = [fn EXCEPT ![w] = Head(tasksQ)]
  /\ UNCHANGED <<tasksQ, ended>>

\* Front and pop under the lock, without another test.
Take(w) ==
  /\ tasksQ # <<>>
  /\ WorkerMoves(w, "take", "run")
  /\ fn' = [fn EXCEPT ![w] = Head(tasksQ)]
  /\ tasksQ' = Tail(tasksQ)
  /\ UNCHANGED ended

\* front() and pop_front() on an empty deque are undefined.
TakeFromEmpty(w) ==
  /\ owner # "gone"
  /\ wpc[w] = "take" /\ tasksQ = <<>>
  /\ broken' = "popEmpty"
  /\ UNCHANGED <<tasksQ, flags, wpc, fn, ended, caller, own>>

\* The function returns.  It does not touch the pool: it may outlive it.
RunEnds(w) ==
  /\ wpc[w] = "run"
  /\ wpc' = [wpc EXCEPT ![w] = "top"]
  /\ ended' = ended \cup {fn[w]}
  /\ fn' = [fn EXCEPT ![w] = None]
  /\ UNCHANGED <<tasksQ, flags, caller, own, broken>>

\* A worker whose pool was destroyed reads its members.
TouchDestroyed(w) ==
  /\ owner = "gone"
  /\ wpc[w] \in {"top", "wait", "peek", "take"}
  /\ broken' = "useAfterFree"
  /\ UNCHANGED <<tasksQ, flags, wpc, fn, ended, caller, own>>

(***************************************************************************)
(* The owner: Start, Stop(join) and the destructor.                        *)
(***************************************************************************)
\* The flags come first: tasks are let in before the first thread runs.
Start ==
  /\ owner = "idle" /\ owner' = "start"
  /\ ~mStarted /\ mStopped
  /\ mStarted' = TRUE /\ mStopped' = FALSE
  /\ UNCHANGED <<tasksQ, mIsStopping, handle, wpc, fn, ended, caller, joinArg, broken>>

CreateThread(w) ==
  /\ owner = "start" /\ handle[w] = "none"
  /\ handle' = [handle EXCEPT ![w] = "joinable"]
  /\ wpc' = [wpc EXCEPT ![w] = "top"]
  /\ UNCHANGED <<tasksQ, flags, fn, ended, caller, owner, joinArg, broken>>

OwnerMoves(from, to) ==
  /\ owner = from
  /\ owner' = to
  /\ UNCHANGED <<tasksQ, mStarted, mStopped, fn, ended, caller>>

StartReturns ==
  /\ \A w \in Workers : handle[w] # "none"
  /\ OwnerMoves("start", "idle")
  /\ UNCHANGED <<mIsStopping, joinArg, handle, wpc, broken>>

Stop ==
  /\ ~mStopped /\ mStarted
  /\ OwnerMoves("idle", "stopTest")
  /\ mIsStopping' = TRUE
  /\ joinArg' \in Joins
  /\ UNCHANGED <<handle, wpc, broken>>

AfterNotify == IF joinArg THEN "join" ELSE "detach"

\* NotifyCondition again: with an empty queue nobody is notified.
StopTest ==
  /\ OwnerMoves("stopTest", IF tasksQ # <<>> THEN "stopNotify" ELSE AfterNotify)
  /\ UNCHANGED <<mIsStopping, joinArg, handle, wpc, broken>>

\* Mutant: notify_one.
StopNotifyOne ==
  /\ OwnerMoves("stopNotify", AfterNotify)
  /\ IF \E w \in Workers : wpc[w] = "blocked"
     THEN \E w \in Workers : wpc[w] = "blocked" /\ wpc' = [wpc EXCEPT ![w] = "wait"]
     ELSE UNCHANGED wpc
  /\ UNCHANGED <<mIsStopping, joinArg, handle, broken>>

StopNotify ==
  /\ OwnerMoves("stopNotify", AfterNotify)
  /\ WakeAll
  /\ UNCHANGED <<mIsStopping, joinArg, handle, broken>>

\* WaitForTaskDone joins every thread that is still joinable.
Join(w) ==
  /\ owner = "join" /\ handle[w] = "joinable" /\ wpc[w] = "exit"
  /\ handle' = [handle EXCEPT ![w] = "joined"]
  /\ UNCHANGED <<tasksQ, flags, wpc, fn, ended, caller, owner, joinArg, broken>>

JoinReturns ==
  /\ \A w \in Workers : handle[w] # "joinable"
  /\ OwnerMoves("join", "idle")
  /\ UNCHANGED <<mIsStopping, joinArg, handle, wpc, broken>>

\* detach() throws for a thread that was joined or detached before.
DetachAllThreads ==
  /\ OwnerMoves("detach", "idle")
  /\ IF \A w \in Workers : handle[w] = "joinable"
     THEN handle' = [w \in Workers |-> "detached"] /\ UNCHANGED broken
     ELSE broken' = "detachTwice" /\ UNCHANGED handle
  /\ UNCHANGED <<mIsStopping, joinArg, wpc>>

\* m_threads goes with the pool: the destructor of a joinable std::thread ends the
\* program.  So does m_cv: that of a condition variable is undefined while a thread
\* waits.  Otherwise the queue goes too, with what is left in it.
Destroy ==
  /\ owner = "idle"
  /\ \A t \in Tasks : caller[t] \notin {"push", "test", "notify"}
  /\ IF \E w \in Workers : handle[w] = "joinable"
     THEN /\ broken' = "terminate"
          /\ UNCHANGED <<tasksQ, flags, owner>>
     ELSE IF \E w \in Workers : wpc[w] = "blocked"
     THEN /\ broken' = "cvWaited"
          /\ UNCHANGED <<tasksQ, flags, owner>>
     ELSE /\ owner' = "gone"
          /\ tasksQ' = <<>>
          /\ IF mIsStopping
             THEN mStopped' = TRUE /\ mIsStopping' = FALSE /\ mStarted' = FALSE
             ELSE UNCHANGED flags
          /\ UNCHANGED broken
  /\ UNCHANGED <<handle, wpc, fn, ended, caller, joinArg>>

-----------------------------------------------------------------------------
CallerStep(t) == Push(t) \/ NotifyTest(t) \/ Notify(t)

WorkerStep(w) ==
  \/ WorkerTop(w) \/ WaitForCondition(w) \/ Peek(w) \/ Take(w) \/ TakeFromEmpty(w)
  \/ RunEnds(w) \/ TouchDestroyed(w)

StartStep == StartReturns \/ \E w \in Workers : CreateThread(w)

StopStep == StopTest \/ StopNotify \/ JoinReturns \/ DetachAllThreads \/ \E w \in Workers : Join(w)

Next ==
  /\ broken = "no"
  /\ \/ \E t \in Tasks : SchedulerTask(t) \/ CallerStep(t)
     \/ \E w \in Workers : WorkerStep(w) \/ SpuriousWakeup(w)
     \/ StartStep \/ StopStep
     \/ Start \/ Stop \/ Destroy

Spec == Init /\ [][Next]_vars

(***************************************************************************)
(* Fairness: every thread is scheduled and the functions return.  Nobody   *)
(* has to submit, stop or destroy anything.                                *)
(***************************************************************************)
FairSpec ==
  /\ Spec
  /\ \A t \in Tasks : WF_vars(broken = "no" /\ CallerStep(t))
  /\ \A w \in Workers : WF_vars(broken = "no" /\ WorkerStep(w))
  /\ WF_vars(broken = "no" /\ StartStep)
  /\ WF_vars(broken = "no" /\ StopStep)

-----------------------------------------------------------------------------
\* Where the task is, from the pool's side.
Holders(t) == {w \in Workers : fn[w] = t}

\* A task that was pushed is in the queue, with one worker, or done, and in one
\* of these places only: it is run once, and not lost before the pool is gone.
RunOnce ==
  /\ IsInjective(tasksQ)
  /\ \A t \in Tasks : \A v, w \in Holders(t) : v = w
  /\ \A t \in Range(tasksQ) : t \notin ended /\ Holders(t) = {}
  /\ \A t \in ended : Holders(t) = {}
  /\ \A t \in Tasks :
       IF caller[t] \in {"new", "push", "refused"}
       THEN t \notin Range(tasksQ) \cup ended /\ Holders(t) = {}
       ELSE \/ t \in Range(tasksQ) \cup ended \/ Holders(t) # {}
            \/ owner = "gone"

\* While there is work, a worker is up or about to be created, or somebody is about to
\* call them all: the test of the queue before the notification loses no wakeup.
NoSleepOnWork ==
  (tasksQ # <<>> /\ mStarted /\ ~mIsStopping /\ broken = "no") =>
    \/ \E w \in Workers : wpc[w] \notin {"none", "blocked", "exit"}
    \/ owner = "start" /\ \E w \in Workers : wpc[w] = "none"
    \/ \E t \in Tasks : caller[t] \in {"test", "notify"}

\* Threads run between Start and Stop, and a worker holds a function exactly while
\* it runs one.
WorkerInv ==
  /\ \A w \in Workers :
       /\ fn[w] # None <=> wpc[w] = "run"
       /\ wpc[w] = "none" <=> handle[w] = "none"
       /\ wpc[w] = "exit" => mIsStopping \/ owner = "gone"
  /\ owner # "gone" /\ ~mStarted => \A w \in Workers : wpc[w] = "none"
  /\ mStarted /\ owner # "start" => \A w \in Workers : wpc[w] # "none"
  /\ owner = "start" => mStarted

\* A pool that is gone has no queue, and nobody is in SchedulerTask.
GoneInv ==
  owner = "gone" =>
    tasksQ = <<>> /\ \A t \in Tasks : caller[t] \notin {"push", "test", "notify"}

\* The inductive invariant.
IInv == TypeOK /\ RunOnce /\ WorkerInv /\ GoneInv /\ NoSleepOnWork

\* Every task that is pushed is run, unless the pool is stopped.
PushedIsRun ==
  \A t \in Tasks :
    caller[t] = "test" ~> t \in ended \/ mIsStopping \/ broken # "no" \/ owner = "gone"

\* A worker that is up when the pool is stopped ends, however much work there is.
StopEndsWorkers ==
  \A w \in Workers :
    mIsStopping /\ wpc[w] \notin {"none", "blocked"} ~> wpc[w] = "exit" \/ broken # "no"

\* A Stop that has found a task in the queue returns, with join or without: its one
\* notification reaches every worker that is blocked, and the others see the flag.
StopReturnsAfterWork == owner = "stopNotify" ~> owner = "idle" \/ broken # "no"

-----------------------------------------------------------------------------
(***************************************************************************)
(* What the comments say and the code does not do.                         *)
(***************************************************************************)
\* "Out of the wait, a task can be fetched": the queue is not empty when it is
\* taken from.
NoEmptyPop == broken # "popEmpty"

\* Stop wakes every worker so that it ends, and waits for them.
StopReturns == owner = "join" ~> owner # "join"

=============================================================================
