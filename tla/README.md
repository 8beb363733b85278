# A verification of Coroutine-CPP in TLA+

Coroutine-CPP runs coroutines (ucontext) on threads.  These modules state what the
library's parts do and promise; TLC checks them on small instances, and TLAPS proves
the central statements for every value of the constants.

    tlc -config exec.cfg MCCoExecutor        # one run; the others: see "Runs"
    tlapm CoExecutorProofs.tla               # the proofs of one module

## 1. The system

A *coroutine* is a stack and a status (IDLE, RUNNING, HOLD, FINISHED, EXCEPT).  A
*CoTask* is a coroutine with the executor it belongs to.  A `CoExecutor` is a thread in
`Process()`, which takes tasks from its queues and resumes them until it is told to
stop.  A `CoScheduler` starts several executors and a dispatcher thread that moves
queued tasks from loaded executors to idle ones once a second.  `ThreadPoolExecutor` is
a pool of plain functions and shares only the containers with the rest.

| component | source | state | operations |
|---|---|---|---|
| `CoExecutor` | `coexecutor.{h,cpp}` | runnable, waiting, awoken and finished queue, `m_running_task`, the flags `m_waiting`, `m_is_stopping`, `m_clean_right_now`, the tick of the last collection | `Process`, `AddTask` (one, a range), `GiveUpTasks`, `Hold`, `Yield`, `Wakeup`, `WakeupAll`, `Clean`, the counts, `IsBlocking`, the destructor |
| `CoScheduler` | `coscheduler.{h,cpp}` | `m_executors`, the threads, `m_stopping`, `m_started` | `Begin`, `Start`, `Stop`, `SchedulerTask`, the dispatcher thread |
| `ThreadPoolExecutor` | `threadpool.{h,cpp}` | `m_tasks_queue`, `m_started`, `m_stopped`, `m_is_stopping`, `m_threads` | `Start`, `SchedulerTask`, `Stop(join)`, `Runnable`, the destructor |
| `Coroutine` | `coroutine.{h,cpp}` | status, context, stack, callback; the thread's master context | `Resume`, `GiveUp`, `Run`, the destructor |
| `ThreadSafeDeque` | `containers.hpp` | a deque and its mutex | push, front, pop, erase, swap, bulk moves from the back |
| `Thread` | `thread.{h,cpp}` | `pthread_t`, id, name, callback, a semaphore | the constructor with `Run`, `Join`, `Detach`, `Swap`, the destructor |
| `Semaphore`, `RWMutex`, `RdLockGuard`, `WrLockGuard` | `mutexes.{h,cpp}` | a POSIX object each, and whether a guard thinks it has locked | wait, post; lock, unlock; a guard's life |
| utilities | `utils.{h,cpp}` | - | creating directories, opening files for writing, trimming strings, clocks, ids |
| `Singleton`, `NoCopyable` | `singleton.hpp`, `nocopyable.h` | - | language idioms |

**Interactions.**  Other threads reach an executor through `AddTask` (push, then a
notification of its condition variable), through `CoScheduler::Stop` (a flag, no
notification) and through the dispatcher (`GiveUpTasks`, counts, `AddTask` of a range).
The coroutines an executor runs call back into it (`Hold`, `Yield`, `Wakeup`); any
thread that has a `RecoveryEntry` may call `Wakeup`.  Each
deque call takes the deque's own lock; a sequence of two such calls is not atomic.
`CoExecutor::m_mtx` is taken by the executor's own thread only.

**What is hard.**

* *CoExecutor*: tests of two queues that others fill meanwhile; a notification
  without the mutex of the condition variable; a deadline that races a task; a task that
  changes queues in two steps; an exception that leaves `Process` half way; alternation
  between the two queues; wakeups from outside, which walk a queue without its lock,
  race the coroutine that is still on its way out of `Hold`, and notify nobody.
  Correct means: a task is in one place, none is lost, none starves, no assertion
  fails, the thread sleeps only when idle, a stop is heard.
* *CoScheduler*: loads that are stale when they are used, unsigned differences of loads,
  an integer average, tasks moved while their executor is between `Front` and
  `PopFront`, executors that stopped after two idle seconds and still receive tasks,
  `Stop` during a round or during `Start`, and a vector of executors without a lock,
  which grows under the hands of who adds tasks.  Correct means: moving keeps every task
  and keeps it once, evens the loads out, keeps the order, and in the end every task runs.
* *ThreadPoolExecutor*: the queue tested and popped under two locks, the notification
  skipped when the queue is empty, join and detach against sleeping workers, workers that
  outlive the pool.  Correct means: every pushed function runs once, nobody sleeps over
  work, a stop ends the workers.
* *Coroutine*: contexts saved and restored on the right thread, nesting.
* *Thread*: the hand-over to the new thread, detach, join and swap in any order.
* *OpenForWrite and MakeDir*: directories that another call creates between the test and
  the `mkdir`, which then counts as a failure.
* *Guards*: a lock that refuses, and a guard that does not notice.
* *Bulk moves of the deque*: counts beyond the length, iterators from the back.

`PROJECT.json` lists these hazards one by one at their lines.

## 2. The modules

    TaskLifecycle         abstract: a service that runs tasks in a number of slots
      ^ implemented by
    CoExecutor            one executor        <- CoExecutorRefinement <- MCCoExecutor
    Recovery              the same, wakeups step by step and from outside  <- MCRecovery
    ThreadPool            the pool            <- ThreadPoolRefinement <- MCThreadPool

    CoScheduler           executors + dispatcher, from construction   <- MCCoScheduler
      ^ one round of it alone
    DispatchRound

    Coroutine             contexts and the flows saved in them
    Thread                objects that own POSIX threads
      ^ composed by
    ThreadedCoroutines    coroutines on those threads                 <- MCThreads

    FileUtils, Guards, Deque   the leaf components, with the round    <- MCLibrary

    proofs:  QueueLemmas, extended by
             CoExecutorProofs (and its refinement) <- RecoveryProofs
             ThreadPoolProofs (and its refinement), CoSchedulerProofs,
             DispatchRoundProofs, LibraryProofs (FileUtils, Guards, Deque);
             CoroutineProofs (Coroutine and Thread, over ThreadedCoroutines)

**`TaskLifecycle`.**  A task is submitted, runs in a free slot, may be held and must
then be woken, ends once; only the end of the service drops tasks.

**`CoExecutor`.**  One thread in or out of `Process`.  `pc` says where it is:

| `pc` | place in the code |
|---|---|
| `loop`, `pick` | the `while` and the three branches; the first tests two queues, the others test them again |
| `run`, `after` | inside `Resume`, and the `switch` on the status after it |
| `check`, `block`, `blocked` | evaluating the predicate of the condition variable; about to block; blocked |
| `expired` | the deadline has passed with the predicate false |
| `out`, `thrown`, `returned`, `destroyed` | not in `Process`, left by an exception, left by a stop; the executor is gone |

`PickAwoken`, `PickRunnable` and `PickNothing` are the branches, with the assignment of
`m_running_task` and `Coroutine::Resume`.  `Return`, `Throw`, `YieldCurrent` and
`HoldThere` are the ways control comes back.  `Wakeup` and `WakeupAllTasks` are calls of
the running coroutine.  `AfterResume` and `AfterExcept` are the rest of the turn with
`Clean`; `CheckPredicate`, `Block`, `SpuriousWakeup`, `TimeOut` and `TimeOutStops` are the
two idle waits, written out as the predicate loop they are.  The last predicate of a
`wait_for` and the store of `m_is_stopping` are two steps: `AddTask`, and the push of a
wakeup, do not take `m_mtx` and may fall between.  `AddTaskPush` and `AddTaskNotify` are the two
halves of `AddTask`.  Whether the collection interval is over is a free choice at every
evaluation.  `entries` are the tasks a `RecoveryEntry` was returned for, `aborted` says that
an assertion of `Coroutine` has failed.

Who frees a task is a matter of its shared pointers.  `CoTask::YieldCurrent` and
`HoldThere` copy the pointer into a frame of the coroutine they suspend, so a suspended
task holds itself: it is never freed before it ends, also when it is in no queue (a
yield) or its executor is gone.  It leaks then, and no assertion of `~Coroutine` can
fail.  A task that has ended goes with the last place that holds it (`Freed` in
`Recovery`).

**`Recovery`.**  `CoExecutor` with `Hold`, `Wakeup` and `WakeupAll` in the steps they
consist of, and with threads (`Outside`) that call `Wakeup` besides the coroutine that runs
(`Inside`).  `holding` is a coroutine between the push of `HoldThere` and its `GiveUp`.  A
waker tests the entry, searches `m_waiting_queue` with bare iterators, erases under the
lock, and pushes to the awoken queue.  `WakeupAll` tests the queue, takes a reference to its
front, copies what it refers to into the awoken queue, and pops, each a step.  `broken` names the overlaps without a defined
outcome, where the model stops: `raced`, the queue is changed while another thread is in
its search; `mixed`, `WakeupAll` has copied the front, another waker erases that very task,
so that the pop takes a different one; `frontGone`, the front is gone when it is referred to
or copied; `entryGone`, the task is freed between the test of
its weak pointer and the second lock of it; `executorGone`, the executor was destroyed.

**`CoScheduler`.**  From the constructor, which makes executor 0, through `Start`
(`spc`: `reserve`, one executor after the other with its thread created before it is in
the vector, the dispatcher, `Process` of executor 0), in the caller's thread or in that of
`Begin`.  `SchedulerTask` chooses an index from `size` (`rand()`, kept in `adding`) and reads
the vector again with it.  Each executor is reduced to what the dispatcher meets: its
runnable queue, held tasks, and a thread which takes a task in three steps: `Front` returns
a reference, `Assign` copies what it refers to after the queue's lock is free again, `Pop`
pops.  Its idle wait expires in one step (`IdleTimeout`) and stops the executor in the next
(`IdleStops`).  Its coroutines return or hold, they do not throw: an exception leaves
`Process`, and the thread's function with it.  `Stop` sets `m_stopping`, tells the executors
it finds one after the other, and clears the vector (`stpc`, `told`); the vector exists
until the last of these steps.  The
dispatcher has a step for each count it reads and each bulk move it makes; the numbers it
read are the variables `totalLoads`, `avgLoad`, `minLoad`, `minLoadIdx`, `load`, `low` of
the code.  `broken` names the undefined behaviour or failed assertion that ended the
program's defined behaviour: `vectorMoved` is a `reserve` between the two halves of a
`SchedulerTask`, `vectorGone` any use of the executors after `Stop` has emptied the vector,
`frontGone` a dispatch that takes the task a `Front` has referred to and nobody has copied.
`overtaken` remembers that a dispatch took a task between its `Front` and its `PopFront`.
`IsBlocking` compares clocks, so it may find any executor that is inside a coroutine
blocked, and no other one.

**`DispatchRound`.**  The same dispatcher actions on queues nobody else touches, from
every distribution of loads: what the balancing algorithm does.

**`ThreadPool`.**  Workers (`Runnable`), callers (`SchedulerTask`) and an owner
(`Start`, `Stop(join)`, destructor).  `m_mtx` is held from the predicate to the
blocking, so `WaitForCondition` is one step, and the notification another; every look at
the queue or at a flag is its own step.  `Start` sets the flags and creates the threads one by
one, so that functions are let in before the first thread runs.  A pool that is destroyed
while a worker waits on its condition variable has no defined outcome (`cvWaited`).

**`Coroutine`.**  A flow is the body of a thread or of a coroutine.  It runs (`flow`) or
is saved in a context (`slot`, `parked`): a coroutine's or that of a thread's master
coroutine.  `Switch` is `swapcontext` and `uc_link`; going on from a context whose flow
has left since is undefined (`broken = "stale"`), and so is a master context whose thread
has ended (`"masterGone"`: `m_master_co` is a bare pointer to a thread-local coroutine).
`Resume`, `GiveUp`, `Run` and `Destroy` are the members.  `calls` is what a stack of
calls would be, which is what the properties compare the contexts with.  `overlapped`
remembers a `Resume` through a master context in which a flow is parked already: a
coroutine that resumes another one on the same thread does that, and so does a thread
that resumes a coroutine whose first thread is inside one.

**`Thread`.**  The object (`obj`, `handle` = `m_thread`, `joinable`, `sem`) and the thread
it created (`os`), with the constructor and `Run` in two steps each around the semaphore.
The thread keeps the address of that object: `SetName` is its use by `SetName` or through
`GetThis`, as long as the thread runs, and ends the defined behaviour (`stale`) when the
object is gone.  What the names are is left out.
**`ThreadedCoroutines`** composes the two: a callback begins with the post and ends the
thread, whose master context goes with it.

**`FileUtils`.**  Calls of `OpenForWrite` for files below one chain of directories, of which
only the depth matters: `present` is how deep they exist, `allowed` how deep they may be
created.  A call opens, tests the whole path (`lstat`), then tests (`access`) and creates
(`mkdir`) one directory after the other, and opens again whatever came of it.
**`Guards`.**  Threads that make and drop guards of one `RWMutex`, innermost first, on the
lock of glibc, which refuses its own write owner.  `RdLockGuard` and `WrLockGuard` drop that
answer; `nested` remembers it.  **`Deque`.**  The four bulk moves and `Swap` between two
deques, in any sequence; `FrontSingles` and `BackSingles` are what single operations do.

The mutants listed in `PROJECT.json` are definitions next to the one they replace
("Mutant: ..."); no specification uses them.

## 3. Runs

| run | instance | shows |
|---|---|---|
| `exec` | 3 tasks, hold, yield, wakeup, wakeupAll, throw; Process with timeout; finished queue limit 2 | invariants, action properties and the refinement of `CoExecutor` |
| `recovery` | 2 tasks, 1 thread that wakes from outside, every call; fair | a held task is kept once, split wakeups still make one service, no starvation, a stop is completed |
| `exec_lost_notify`, `exec_stops_with_work` | 1 task, Process without a timeout (fair), with one | see "Findings" |
| `threads` | main and 2 `Thread` objects, 2 coroutines, resumed from any flow on any thread | switches go back to the resumer; `Run` finds its object, ownership and `Joinable` |
| `pool` | 2 functions, 2 workers, join and detach; fair | invariants, refinement and liveness of `ThreadPool` |
| `pool_pop_empty`, `pool_join_hangs` | 1 function, 1 or 2 workers | see "Findings" |
| `sched_safety` | 2 executors, 3 tasks of which one may hold, from before `Start` | no task lost or doubled, every round sees every executor, no difference of loads wraps around (part of `IInv`) |
| `sched_live` | 2 executors, 2 tasks, added before or after `Start`; Stop at any moment before the second task is handed over; fair | every task runs, a stop ends everybody, and the invariants hold around it |
| `sched_resumed_twice` | 2 executors, 2 tasks | see "Findings" |
| `library` | a round on 3 executors, 0-3 queued and 0-2 held tasks each, any of them found blocked; 3 writers, 3 levels of directories, any permissions; 2 threads with up to 3 guards each; 5 values in the deque: each alone | one round balances, does not overshoot, keeps the order; races for directories, exclusion by guards, bulk moves against single ones |

**Bounds.**  Every task is added once, so the number of tasks bounds the state space; a task may be held and woken any number of times.  Three tasks
are enough for the executor: one runs while both queues are non-empty, two are held
while the third wakes, and the finished queue reaches its limit of 2 (in the code 64;
`GcSize` is a parameter of the proofs) with a task still referred to.  Two workers and two
functions give every race of the pool's test and pop; two executors give a giver and a
receiver, and the round on three executors gives two receivers, a remainder, and a
least-loaded executor that is neither the first nor the last.  With two coroutines one
can resume the other, and with three threads a coroutine is begun on one, resumed on a
second and left over when the first has ended; two objects are what `Swap` takes.  In
`recovery` the second waker is the coroutine that runs, so two searches, a search against
`WakeupAll` and a search against `Hold` all happen with one thread outside.  Three writers
and three levels let a call win one directory and be refused the next, with a third
still below.  Two bounds cut behaviour off.  `MaxGuards` = 3: nesting deeper than an inner
guard with another one inside shows nothing new.  `Stops`: `Stop` is called while fewer tasks
than this were handed to `SchedulerTask`, 2 in `sched_live`, so that it meets an executor
that waits, runs or is about to stop, a round that moves a task and every place of
`Start`, but no two tasks at once; 0 elsewhere, no `Stop`.  The proofs take any number.  The state spaces
are finite without constraints.

`CHECK_DEADLOCK FALSE` is set because the system may rest: an idle executor nobody
adds tasks to, a destroyed executor or pool, a program that has aborted, the end of a
round.

**Fairness.**  Threads are scheduled and a coroutine or function that runs gives control
back sooner or later (nothing preempts it): weak fairness of the thread's steps, of the
ends of a body and of a call that has begun.  Nothing obliges anybody to add a task, to
wake one, to stop or to destroy, a spurious wakeup never has to happen, and an executor's
idle timeout in the scheduler never has to strike unless `Stop` was called.  `CoExecutor`'s `TimeOut` is fair when
the executor has a timeout: a deadline passes, and the thread goes on from there.  `Recovery` adds weak fairness of a wakeup that has
begun, and strong fairness of a coroutine that returns or holds: it may wake others for
a while, but not for ever.  A call of `Start`, `Stop` or `SchedulerTask` that has begun goes on.
In `CoScheduler` the look of an executor at its queue and the end of its wait are strongly fair while the queue is not empty:
the dispatcher sleeps a second between rounds, so the executor's thread gets
to look between two moves.  Without it a behaviour remains in which a single task is
moved between two executors for ever, each time just before it is looked at.

**What the conditions in the properties mean.**  `TurnComes` and `StopCompletes` exempt
a program that is not `Defined` any more (an assertion has failed, or one of the overlaps
above); `TurnComes` also a thread that leaves `Process`.  `KeptOnce` holds up to the same
point.  The refinements allow a final step into such a state, and nothing after it.
`SurvivorRunsAll` speaks of two executors, coroutines that do not hold, a scheduler whose
`Start` was called and at least one executor that goes on: with three executors the
left-over of a round goes to the least loaded one even if it has stopped, and two stopped
executors can pass a task between them for ever; with held tasks the average counts tasks
that cannot move.
`OncePlaced`, `FrontIsStable` and `SurvivorRunsAll` exempt `overtaken`: what happens
then is the finding `sched_resumed_twice`.  `LeavesToResumer` and `NoFlowLost` speak of
programs that have not `overlapped`: after that a coroutine may leave to the wrong flow,
or to a stale one, see the list in section 4.  The executors never overlap: each resumes
its coroutines from the body of its thread, one at a time (a task that is moved to another
executor before its first `Resume` gets the master context of that one).  `GuardsExclude`
speaks of threads that make no guard inside of their own write guard.
`FailsOnlyInRace` and `SomebodyOpens` leave out calls that lack the permission.
The bad outcomes that a run of section 4 finds, or that its list of undefined ones names,
are outside of what the other properties say.

## 4. Findings

Each is a run that TLC ends with a counterexample, against a comment, an assertion or a
test of the repository (quoted in `PROJECT.json`).

* `exec_lost_notify`: `AddTask` notifies without `m_mtx`.  Predicate false, push,
  notification, block: the thread in `Process(0)` sleeps over a runnable task.  With a
  timeout it wakes up at the deadline, and runs the task (`TurnComes`) ...
* `exec_stops_with_work`: ... unless the task is queued between the last predicate and the
  store of `m_is_stopping`: the executor then stops for good with the task in its queue.
  In a scheduler the dispatcher takes it from there (`SurvivorRunsAll`).
* `pool_pop_empty`: two workers, one function; the slower one pops an empty deque.
* `pool_join_hangs`: `Stop(true)` on an idle pool notifies nobody and joins for ever.  With
  a task in the queue it returns (`StopReturnsAfterWork`).
* `sched_resumed_twice`: the dispatcher moves a task between `Front` and `PopFront`; it
  is resumed on two threads.

Also reachable in the models and not the subject of a run; the properties end or except
there:

* against a comment or a test of the repository:
  a wakeup from another thread erases what `WakeupAll` has copied, and `WakeupAll` drops
  the next task, which nobody has woken (`mixed`; "wake all tasks in the waiting queue",
  `coexecutor.h:160`);
  the loop of `Stop` does not tell an executor that `Start` has not put into the vector
  yet, which ends at its own deadline (`StopEndsAll`; "exit every executor",
  `coscheduler.cpp:81`);
  `Stop()` of a pool detaches the workers, and the pool is destroyed while they run
  (`useAfterFree`; `tests/test_threadpool.cpp:52-53` does so);
  a coroutine that is resumed on another thread than the first, or inside of another
  coroutine, goes through a master context that is in use, and a thread's body may go on
  on another thread or not at all (`overlapped`, then `stale`; "switches back to the master
  coroutine of the current thread", `coroutine.cpp:130`);
  a guard inside of a write guard of the same thread gives the lock away (`nested`;
  `mutexes.h:117`);
  `OpenForWrite` fails when another call creates a directory of the path at the same
  moment (`disturbed`; "created first", `utils.h:164`): `FailsOnlyInRace` says that it
  fails for no other reason;
* `Stop` empties `m_executors` under the dispatcher's round (`UsesGoneVector`), under a
  `SchedulerTask` or under `Start` (`StartMeetsStop`); `reserve` moves them under a
  `SchedulerTask` (`vectorMoved`);
* the dispatcher takes the task a `Front` has returned a reference to (`frontGone`);
* wakeups from outside: `raced`, `frontGone`, `entryGone`, `executorGone`;
* a second `Stop` of a pool (`detachTwice`), a pool destroyed with joinable threads
  (`terminate`) or under a blocked worker (`cvWaited`);
* `Stop` of an executor in `Process(0)`, which nobody wakes;
* `SetName`, or a use of what `GetThis` returns, in a thread whose object was destroyed
  (`stale`), as those of `CoScheduler::CreateNewExecutor` and `Begin` are.

Met while reading, outside of the models: a `RecoveryEntry` of an executor with id 0, the
default, is refused as invalid; `this_coroutine::Yield` outside of an executor does
nothing, although `tests/test_coroutine.cpp` expects it to leave the coroutine; `StringUtils::RightTrim` cuts one character
too many (`utils.cpp:81`; `Trim` does not); a second `CoScheduler::Start` throws, since
`m_started_mtx` is never unlocked; the bulk moves of the deque lock the deque they are
called on and not the other one; two threads that call `Start` of a pool at once double
its threads; the constructor of `Thread` renames the thread that calls it, and `Swap`
leaves the thread's own name, though `thread.cpp:12` says that `t_thread_name` and `m_name`
agree; without a notification the collection of finished tasks waits for the next
evaluation of the predicate, however short its interval.

## 5. Proofs

All theorems hold for every value of the constants, from the named assumptions of the
modules alone (`ExecutorAssumption`, `PoolAssumption`, `SchedulerAssumption`,
`RoundAssumption`, `RecoveryAssumption`, `CoroutineAssumption` with `ThreadsAssumption`, `FilesAssumption`,
`GuardsAssumption`, `DequeAssumption`).  One assumption is there for a proof:
`WorkersAssumption`, a pool has finitely many workers, without which the number of its
slots means nothing.

Every invariant the passing runs check is proved, and every action property and
refinement.  Where an invariant is not inductive the theorem rests on a stronger one;
`IInv` of the executor, the pool and the scheduler are invariants of the runs too.
`RecoveryInv`, `OneRoundInv` and `GuardsInv` are not listed in the `.cfg` files, since the
invariants that are listed there follow from them; TLC agrees with them on the instances
of `recovery` and `library` when they are added (`OneRoundInv` where the behaviour is a
round).

*`CoExecutorProofs`.*  `TypeOK` and `OnePlace` are not inductive: that the task taken from
a queue may be resumed, and the finished one appended, needs to know where every other
task is.  `IInv` adds `RunningInv` (RUNNING is the task the thread is in, and the one it
has come back from is in no finished queue), `TurnInv` (what the first test saw still
holds when the task is taken, since nobody else takes), `AdderInv` (a task is in the
runnable queue exactly from its push to its first turn) and `HeldInv` (a suspended task is
in the waiting or the awoken queue, or has yielded and is in neither).
`NextKeepsQueueInv` has a lemma per group of actions, `HeldStep` adds `HeldInv`.  From
`IInv`: `TypeCorrect`, `TasksInOnePlace` (`OnePlace`), `SuspendedIsQueued` (`HeldInv`),
`TasksAreKept` (`NoTaskLost`), `AssertionsHold` (`NoAssertFails`) and two action
properties, `HeldLeavesByWakeup` (`HeldUntilWoken`) and `YieldedStaysOut` (`YieldIsFinal`).

`ExecutorIsAService`: every behaviour of `CoExecutor` is
one of `TaskLifecycle` with one slot.  `StageAt` and `StageAfter` read the stage of a task
off its place, which `IInv` makes unique, before and after a step; then each action moves
one task one stage on (`MoveOne`), `WakeupAll` several, the others none (`MoveNone`).
`SlotIsFree` is `RunningInv`.

*`RecoveryProofs`.*  Between two coroutines the executor's own `QueueInv` still holds, so
the steps of `Process` are lemmas of `CoExecutorProofs`; `RecoveryInvariance` adds what the
callers do meanwhile.  `CallInv` says where a call of `Hold`, `Wakeup` or `WakeupAll` is and
what it has in its hands, `QueuesInv` replaces `OnePlace` while a call is under way, and
`SuspendedInv` is the single place of a suspended task written without cardinalities: it
is in exactly one of the two queues, or carried by exactly one call, or has yielded, but
for the task `WakeupAll` has copied and not popped yet, which is in both.
`HeldIsKeptOnce` (`KeptOnce`) turns that into the sum of cardinalities the run checks
(`CountOne`).  `RecoveryAssertionsHold` (`NoAssertFails`) follows as before.
`WakeupsAreAtomic` (`WakeupsLookAtomic`) is the refinement: a task is held from the push
of its `Hold` on, before it gives control up, and as long as a call carries it, so the
push to the awoken queue is the one step of a wakeup that moves a stage.

*`CoSchedulerProofs`.*  `Invariance` (`IInv`) for any number of executors and tasks.
`StartInv` is the order of `Start`: which executors are in the vector and have a thread at
each place of it, and that the dispatcher exists only after the last.
`EveryRoundSeesAll` (`RoundSeesAll`) follows.  `RoundInv` is what the dispatcher's stale
numbers still guarantee: `load > avgLoad` where the difference is taken and
`low[e] <= avgLoad` where the lack is computed, so that no unsigned difference wraps
(`NoDifferenceWraps`), and empty hands between two rounds.  `PlacedInv` is `OncePlaced`
without cardinalities, and stronger: where a task is follows from its status, the queues
and the dispatcher's hands share nothing, and what waits has never run.  The front of a
queue is in it because only `Append` and bulk moves to the back change it, and a move from the
back reaches the front only by being `overtaken`.  `OutsideInv` says that a task about to
be added is not there yet and that what is held can be counted.  `PlacedOnce`
(`OncePlaced`) and `FrontStable` (`FrontIsStable`) are parts of it.

*`DispatchRoundProofs`.*  One round, for any number of executors, any loads and any held
tasks.  `OneRoundInv` follows the round from place to place: the counts are sums up to the
index (`CountInv`), the executors before the index have given or been noted, with the
least loaded so far (`ScanInv`), or have been supplied (`SupplyInv`), and no task is lost or
passes one of its own queue (`TasksInv`).  The sums are functions defined by recursion
over the index; `SumIsRecursive` shows that they are what they seem, and `SumBounds`,
`SumChanges`, `AllButOne`, `AllAreEqual` what the argument needs of them.  The two uses of
arithmetic: the least loaded executor is not above the average (`LeastIsBelowAim`), so the
left-over never lands on a giver; and when all queues sum up to what they summed up to
before, what is not on the average is less than N tasks (`Averages`).  From it
`NeverOvershoots` (`NoOvershoot`), `RoundEvensOut` (`RoundBalances`) and `OrderIsKept`
(`RoundKeepsOrder`).

*`ThreadPoolProofs`.*  `IInv` joins the types, `RunOnce` and `NoSleepOnWork`
with `WorkerInv` (handles, places and functions of the workers belong together) and
`GoneInv` (a destroyed pool has no queue and no callers).  `RunOnce` needs `WorkerInv` at
`RunEnds`; `NoSleepOnWork` needs it at the worker that exits.  `PushedRunsOnce` and
`NoLostWakeup` are its parts.  `PoolIsAService`: the pool implements
`TaskLifecycle` with a
slot per worker.  That a slot is free when a worker takes a function (`SlotIsFree`) is
counted: the functions that run are mapped one to one into the workers without the one
that takes.

*`CoroutineProofs`.*  First the threads: `RunIsServed` (`RunFindsItsObject`),
`ThreadsHaveOneOwner`
(`OneOwner`) and `JoinableFollows` (`JoinableIsRight`), whatever the coroutines on the
threads do.  The invariant says that no two objects have the same thread and only created
ones (`Moved`), that a thread which was neither joined nor detached has an owner (`Owned`),
and what the life of an object says of its members (`LifeInv`): before the constructor has
waited the semaphore is 1 exactly if the thread has posted, which gives the hand-over.  Of the uses of the object after the post (`SetName`)
nothing is claimed.

Then the contexts: `TypeCorrect`, `LeavesGoBack` (`LeavesToResumer`) and `FlowsAreKept`
(`NoFlowLost`), for any number of threads and coroutines.  The types hold without a
condition and need `MasterInv` (whatever may go on from a context has a master context to
leave to).  `FlowInv` is the argument that contexts work like calls as long as no `Resume`
has overlapped: a context holds the flow that is parked in it (`ParkedInv`), the calls of
a thread are its own flow and coroutines that run, each below parked in the master context
of the next (`CallsInv`), and no flow is called twice (`CalledOnce`).  A `Resume` keeps it
because the master context it saves into is free, a `GiveUp` because the flow below is the
one that context holds.  `UpInv` ties the threads to those of module `Thread`: a callback
begins on a thread that is not up yet.

*`LibraryProofs`.*  For any number of calls and any depth: `MakeDirMakesAll`
(`MadeIsComplete`), `RefusedInRace` (`FailsOnlyInRace`) and `RaceHasWinner`
(`SomebodyOpens`).  `PassedInv` is what one call knows, that all it has passed exists and
that a refusal comes of another call; `LeaderInv` is the argument for the winner: once
somebody has disturbed another, the call that made the deepest directory is not refused,
because nothing exists where it goes, and it wants a file at least as deep as that.
`WriterIsAlone` (`GuardsExclude`) rests on `GuardsInv`: until somebody guards again what it
has a write guard of, the count of readers is the number of guards that are alive, each
named by its thread and its depth (`Alive`), and a write guard is the only one.
`BulkIsSingles` (`BulkAsSingles`): by induction over the count, the slice a bulk move takes
and what it leaves are those of as many single operations (`FrontSinglesSlice`,
`BackSinglesSlice`), beyond the length as well.

*`QueueLemmas`.*  Range and injectivity of a queue under append, pop, concatenation and
cutting; the count of something that is in one place at most; `LeastNatural` and
`Induction`.  The induction theorems of the library take an operator, which the provers
here cannot instantiate.  `Induction` states the same of a set of natural numbers, and
follows from the well-foundedness of `<`: a recursive function is reasoned about with the
set of arguments where it is what it should be.

Only model-checked: liveness (`TurnComes`, `StopCompletes`, `PushedIsRun`,
`StopEndsWorkers`, `StopReturnsAfterWork`, `SurvivorRunsAll`, `StopEndsAll`).  TLAPS 1.4.5 proves neither liveness
under fairness nor `ENABLED`.

## 6. Not modelled

* `HoldFor` and `HoldUntil`, whose bodies are empty, and `NotifyCondition`, which nobody
  calls.
* A second `Start` of a scheduler, which only throws, calls of `SchedulerTask` that begin
  after `Stop` (`rand() % 0`), a number of threads taken from the hardware.
* Concurrent calls of `Start` or `Stop` on one pool, and a `Stop` from a worker.
* Coroutines that throw in an executor of a scheduler: `Process` and the thread's function
  are left, which ends the program.  `CoExecutor` alone has them.
* The names of threads, the ids of threads and coroutines, the contents of stacks, `Semaphore` beyond
  its count (a thread is the only user).
* Two threads that call the members of one `Thread` or one `Coroutine` at the same
  moment; a failing `getcontext` or `pthread_create`.
* Trimming of strings, clocks and ids: functions of their input or of the system.
  `Rm`, `Mv` and `ListAllFiles` have empty bodies.  Single operations of the deque are
  calls of `std::deque` under its lock, and stand in the models as such.
* `Singleton`, `NoCopyable`: language idioms without behaviour.

## 7. Plan

Done, in this order: `CoExecutor`, `TaskLifecycle` and the refinement, `ThreadPool`,
`CoScheduler`, `DispatchRound`, the proofs of the two executors, `Coroutine`, `Thread` and
their composition; then `Recovery`, `CoScheduler` from its construction, the leaf
components, the proofs of both refinements, of the threads, the contexts and the files;
then the proofs of `Recovery` with its refinement, `CoScheduler`, `DispatchRound`, the guards
and the deque; then the steps of `Stop`, `Start`, `WakeupAll`, `Front` and the idle timeout
taken apart.

Left:

1. Safety lemmas that liveness rests on, such as which waits of `CoScheduler` and
   `ThreadPool` can be blocked for ever, as theorems.
2. Concurrent `Start` and `Stop` of `ThreadPoolExecutor`.
