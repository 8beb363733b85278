--------------------------- MODULE RecoveryProofs ---------------------------
(***************************************************************************)
(* Safety of Hold and Wakeup taken step by step, for every set of tasks    *)
(* and of threads that wake them.                                          *)
(*                                                                         *)
(* RecoveryInv is inductive.  Between two coroutines it is the executor's  *)
(* own QueueInv, and the steps of Process are those of CoExecutorProofs.   *)
(* What is proved here is that SuspendedInv survives them, and all of it   *)
(* the steps of the callers and of the coroutine in between.               *)
(***************************************************************************)
EXTENDS Recovery, CoExecutorProofs

LEMMA InitRecoveryInv == ASSUME RecoveryInit PROVE RecoveryInv
<1>1. QueueInv
  BY InitQueueInv DEF RecoveryInit
<1>2. TypeOK /\ RunningInv /\ TurnInv /\ AdderInv /\ OnePlace
  BY <1>1 DEF QueueInv
<1>3. RecoveryTypeOK /\ NoAssertFails
  BY DEF RecoveryInit, Init, RecoveryTypeOK, WakerPlaces, NoAssertFails
<1>4. CallInv
  BY DEF RecoveryInit, CallInv, Wakers
<1>5. QueuesInv
  BY <1>2 DEF OnePlace, QueuesInv
<1>6. SuspendedInv
  BY EmptyQueue DEF RecoveryInit, Init, SuspendedInv, Copied, Carriers, Held, Wakers
<1> QED BY <1>2, <1>3, <1>4, <1>5, <1>6 DEF RecoveryInv

-----------------------------------------------------------------------------
(***************************************************************************)
(* What a step cannot disturb.                                             *)
(***************************************************************************)

\* Steps that leave the executor alone.
LEMMA ExecutorFrame ==
  ASSUME RecoveryInv, UNCHANGED vars
  PROVE  TypeOK' /\ NoAssertFails' /\ RunningInv' /\ TurnInv' /\ AdderInv' /\ QueuesInv'
<1>1. UNCHANGED <<runnableQ, waitingQ, awokenQ, finishedQ, runningTask, status, entries, yielded,
                  adder, pc, bothReady, fromAwoken, mWaiting, mStopping, cleanRightNow,
                  everCleaned, aborted>>
  BY DEF vars, queues, flags
<1>2. TypeOK' /\ NoAssertFails' /\ TurnInv' /\ AdderInv'
  BY <1>1 DEF RecoveryInv, TypeOK, NoAssertFails, TurnInv, AdderInv
<1>3. RunningInv' /\ QueuesInv'
  BY <1>1 DEF RecoveryInv, RunningInv, QueuesInv, IsDone
<1> QED BY <1>2, <1>3

\* Steps of a waker that carries nothing, before and after.
LEMMA GoesTypes ==
  ASSUME RecoveryTypeOK, NEW w \in Wakers, NEW u \in Tasks \cup {None},
         NEW to \in WakerPlaces, Goes(w, to, u)
  PROVE  /\ wpc' \in [Wakers -> WakerPlaces]
         /\ target' \in [Wakers -> Tasks \cup {None}]
         /\ wpc'[w] = to /\ target'[w] = u
         /\ \A x \in Wakers \ {w} : wpc'[x] = wpc[x] /\ target'[x] = target[x]
  BY DEF RecoveryTypeOK, Goes

LEMMA EmptyHanded ==
  ASSUME RecoveryTypeOK, NEW w \in Wakers, NEW u \in Tasks \cup {None},
         NEW to \in WakerPlaces \ {"push"}, Goes(w, to, u),
         wpc[w] # "push"
  PROVE  \A t \in Tasks : Carriers(t)' = Carriers(t)
  BY GoesTypes DEF Carriers

\* The places of the suspended tasks, when nobody is suspended, woken or resumed.
LEMMA SuspendedFrame ==
  ASSUME SuspendedInv, broken \notin {"mixed", "frontGone"}, UNCHANGED <<waitingQ, awokenQ, yielded>>,
         pc = "destroyed" => pc' = "destroyed",
         wpc'[Inside] = "allPop" => wpc[Inside] = "allPop" /\ target'[Inside] = target[Inside],
         wpc'[Inside] = "allCopy" =>
           wpc[Inside] = "allCopy" \/ waitingQ # <<>> \/ broken' = "frontGone",
         \A t \in Tasks : /\ Carriers(t)' = Carriers(t)
                          /\ Copied(t)' <=> Copied(t)
                          /\ Held(t)' <=> Held(t)
  PROVE  SuspendedInv'
  BY DEF SuspendedInv

-----------------------------------------------------------------------------
\* Between two coroutines the executor cannot tell that its wakeups take steps.
LEMMA BetweenBodies ==
  ASSUME RecoveryInv, pc # "run", pc # "destroyed", broken \notin {"mixed", "frontGone"}
  PROVE  /\ QueueInv /\ ~holding /\ wpc[Inside] = "idle"
         /\ \A t \in Tasks : ~Copied(t) /\ (Held(t) <=> status[t] = "HOLD")
<1>1. ~holding /\ wpc[Inside] = "idle"
  BY DEF RecoveryInv, CallInv
<1>2. \A t \in Tasks : ~Copied(t) /\ (Held(t) <=> status[t] = "HOLD")
  BY <1>1 DEF Copied, Held
<1>3. \A t \in Tasks :
        /\ ~(t \in Range(waitingQ) /\ t \in Range(awokenQ))
        /\ t \in Range(waitingQ) \cup Range(awokenQ) => status[t] = "HOLD"
  BY <1>2 DEF RecoveryInv, SuspendedInv
<1>4. Range(waitingQ) \subseteq Tasks /\ Range(awokenQ) \subseteq Tasks
  BY DEF RecoveryInv, TypeOK, Range
<1>5. OnePlace
  BY <1>3, <1>4 DEF RecoveryInv, QueuesInv, OnePlace
<1> QED BY <1>1, <1>2, <1>5 DEF RecoveryInv, QueueInv

\* The thread in Process between two coroutines, and the owner.
LEMMA ProcessSteps ==
  ASSUME RecoveryInv, broken = "no", pc # "run", pc # "destroyed",
         ProcessStep \/ Process \/ SpuriousWakeup \/ Stop \/ Destroy, UNCHANGED wakeVars
  PROVE  RecoveryInv'
<1>1. /\ QueueInv /\ ~holding /\ wpc[Inside] = "idle"
      /\ \A t \in Tasks : ~Copied(t) /\ (Held(t) <=> status[t] = "HOLD")
  BY BetweenBodies
<1>2. UNCHANGED <<holding, wpc, target, broken>>
  BY DEF wakeVars
<1>3. QueueInv' /\ NoAssertFails'
  <2>1. [Next]_vars
    BY DEF Next, RecoveryInv, NoAssertFails
  <2> QED BY <1>1, <2>1, NextKeepsQueueInv, NoAssertStep DEF RecoveryInv
<1>4. TypeOK' /\ RunningInv' /\ TurnInv' /\ AdderInv' /\ QueuesInv'
  BY <1>3 DEF QueueInv, OnePlace, QueuesInv
<1>5. RecoveryTypeOK' /\ CallInv'
  BY <1>1, <1>2 DEF RecoveryInv, RecoveryTypeOK, CallInv
<1>6. \A t \in Tasks : Carriers(t)' = Carriers(t) /\ ~Copied(t)' /\ (Held(t)' <=> status'[t] = "HOLD")
  BY <1>1, <1>2 DEF Carriers, Copied, Held
<1>7. SuspendedInv'
  <2>1. CASE UNCHANGED <<waitingQ, awokenQ, yielded>> /\ \A t \in Tasks : status'[t] = "HOLD" <=> status[t] = "HOLD"
    BY <1>1, <1>2, <1>6, <2>1, SuspendedFrame DEF RecoveryInv
  <2>2. CASE PickAwoken
    <3> DEFINE u == Head(awokenQ)
    <3>1. awokenQ \in Seq(Tasks) /\ awokenQ # <<>> /\ IsInjective(awokenQ) /\ awokenQ' = Tail(awokenQ)
      BY <1>1, <2>2 DEF PickAwoken, QueueInv, TypeOK, OnePlace, TurnInv
    <3>2. /\ u \in Tasks /\ u \in Range(awokenQ) /\ u \notin Range(awokenQ')
          /\ Range(awokenQ) = Range(awokenQ') \cup {u}
      BY <3>1, PopQueue
    <3>3. status[u] = "HOLD" /\ status \in [Tasks -> Statuses]
      BY <1>1, <3>2 DEF QueueInv, TypeOK, OnePlace
    <3>4. /\ status' = [status EXCEPT ![u] = "RUNNING"]
          /\ UNCHANGED <<waitingQ, yielded>> /\ pc # "destroyed"
      BY <2>2, <3>3 DEF PickAwoken, Resume, CanResume
    <3> HIDE DEF u
    <3> QED BY <1>1, <1>2, <1>6, <3>2, <3>3, <3>4 DEF RecoveryInv, SuspendedInv
  <2>3. CASE PickRunnable
    <3> DEFINE u == Head(runnableQ)
    <3>1. u \in Tasks /\ status[u] = "IDLE" /\ status \in [Tasks -> Statuses]
      <4>1. runnableQ \in Seq(Tasks) /\ runnableQ # <<>>
        BY <1>1, <2>3 DEF PickRunnable, QueueInv, TypeOK, TurnInv
      <4> QED BY <1>1, <4>1, PopQueue DEF QueueInv, TypeOK, OnePlace
    <3>2. /\ status' = [status EXCEPT ![u] = "RUNNING"]
          /\ UNCHANGED <<waitingQ, awokenQ, yielded>>
      BY <2>3, <3>1 DEF PickRunnable, Resume, CanResume
    <3> HIDE DEF u
    <3> QED BY <2>1, <3>1, <3>2
  <2>4. CASE Destroy
    BY <2>4 DEF Destroy, SuspendedInv
  <2>5. CASE \/ LoopTop \/ PickNothing \/ AfterResume \/ AfterExcept \/ CheckPredicate
             \/ Block \/ TimeOut \/ TimeOutStops \/ Process \/ SpuriousWakeup \/ Stop
    <3>1. UNCHANGED <<waitingQ, awokenQ, status, yielded>>
      BY <2>5 DEF LoopTop, PickNothing, AfterResume, AfterExcept, CheckPredicate,
                  Block, TimeOut, TimeOutStops, LeaveWait, Process, SpuriousWakeup, Stop, queues
    <3> QED BY <2>1, <3>1
  <2> QED BY <2>2, <2>3, <2>4, <2>5 DEF ProcessStep
<1> QED BY <1>3, <1>4, <1>5, <1>7 DEF RecoveryInv

\* AddTask and CoScheduler::Stop, which may fall into a coroutine.
LEMMA CallerSteps ==
  ASSUME RecoveryInv, broken = "no", UNCHANGED wakeVars,
         Stop \/ \E t \in Tasks : AddTaskPush(t) \/ AddTaskNotify(t)
  PROVE  RecoveryInv'
<1>1. UNCHANGED <<holding, wpc, target, broken>>
  BY DEF wakeVars
<1>2. /\ UNCHANGED <<waitingQ, awokenQ, finishedQ, runningTask, status, entries, yielded,
                    bothReady, fromAwoken, mWaiting, cleanRightNow, everCleaned, aborted>>
      /\ pc' = pc \/ (pc = "blocked" /\ pc' = "check")
      /\ mStopping' \in BOOLEAN
  BY DEF Stop, AddTaskPush, AddTaskNotify, queues, flags, RecoveryInv, TypeOK
<1>3. /\ runnableQ' \in Seq(Tasks) /\ adder' \in [Tasks -> {"new", "pushed", "added"}]
      /\ IsInjective(runnableQ') /\ (runnableQ # <<>> => runnableQ' # <<>>)
      /\ \A t \in Range(runnableQ') : status[t] = "IDLE"
      /\ AdderInv'
  <2>1. /\ runnableQ \in Seq(Tasks) /\ adder \in [Tasks -> {"new", "pushed", "added"}]
        /\ IsInjective(runnableQ) /\ \A t \in Range(runnableQ) : status[t] = "IDLE"
    BY DEF RecoveryInv, TypeOK, QueuesInv
  <2>2. CASE Stop
    BY <2>1, <2>2 DEF Stop, queues, RecoveryInv, AdderInv
  <2>3. CASE \E t \in Tasks : AddTaskNotify(t)
    BY <2>1, <2>3 DEF AddTaskNotify, queues, RecoveryInv, AdderInv
  <2>4. CASE \E t \in Tasks : AddTaskPush(t)
    <3>1. PICK t \in Tasks : AddTaskPush(t)
      BY <2>4
    <3>2. status[t] = "IDLE" /\ t \notin Range(runnableQ)
      BY <3>1 DEF AddTaskPush, RecoveryInv, AdderInv
    <3>3. /\ runnableQ' \in Seq(Tasks) /\ runnableQ' # <<>> /\ IsInjective(runnableQ')
          /\ Range(runnableQ') = Range(runnableQ) \cup {t}
      <4>1. runnableQ' = Append(runnableQ, t)
        BY <3>1 DEF AddTaskPush
      <4> QED BY <2>1, <3>2, <4>1, PushQueue
    <3> QED BY <1>2, <2>1, <3>1, <3>2, <3>3 DEF AddTaskPush, RecoveryInv, AdderInv
  <2> QED BY <2>2, <2>3, <2>4
<1>4. TypeOK'
  BY <1>2, <1>3 DEF RecoveryInv, TypeOK, Places
<1>5. RunningInv' /\ TurnInv' /\ QueuesInv' /\ NoAssertFails'
  BY <1>2, <1>3 DEF RecoveryInv, RunningInv, TurnInv, QueuesInv, NoAssertFails, IsDone
<1>6. RecoveryTypeOK' /\ CallInv'
  BY <1>1, <1>2 DEF RecoveryInv, RecoveryTypeOK, CallInv
<1>7. SuspendedInv'
  BY <1>1, <1>2, SuspendedFrame DEF RecoveryInv, Carriers, Copied, Held
<1> QED BY <1>3, <1>4, <1>5, <1>6, <1>7 DEF RecoveryInv

-----------------------------------------------------------------------------
(***************************************************************************)
(* The coroutine that runs: it is suspended nowhere.                       *)
(***************************************************************************)
LEMMA RunningIsNowhere ==
  ASSUME RecoveryInv, pc = "run", broken = "no", ~holding
  PROVE  /\ runningTask \in Tasks /\ status[runningTask] = "RUNNING"
         /\ runningTask \notin Range(waitingQ) \cup Range(awokenQ) \cup yielded
         /\ runningTask \notin Range(runnableQ) \cup Range(finishedQ)
         /\ Carriers(runningTask) = {} /\ adder[runningTask] # "new"
<1>1. runningTask \in Tasks /\ status[runningTask] = "RUNNING"
  BY DEF RecoveryInv, RunningInv
<1>2. ~Held(runningTask)
  BY <1>1 DEF Held
<1> QED BY <1>1, <1>2 DEF RecoveryInv, SuspendedInv, QueuesInv, AdderInv, IsDone

\* The coroutine returns, throws, yields, or is left by Hold.
LEMMA LeaveSteps ==
  ASSUME RecoveryInv, broken = "no", wpc[Inside] = "idle", UNCHANGED <<wpc, target, broken>>,
         holding' = FALSE, UNCHANGED <<queues, entries>>,
         \/ /\ ~holding
            /\ \/ (Leave("FINISHED") \/ Leave("EXCEPT")) /\ UNCHANGED yielded
               \/ Leave("HOLD") /\ yielded' = yielded \cup {runningTask}
         \/ holding /\ Leave("HOLD") /\ UNCHANGED yielded
  PROVE  RecoveryInv'
<1>1. PICK t \in Tasks : t = runningTask
  BY DEF Leave, RecoveryInv, RunningInv
<1>2. PICK st \in {"FINISHED", "EXCEPT", "HOLD"} :
        /\ pc = "run" /\ pc' = "after"
        /\ status' = [status EXCEPT ![t] = st]
        /\ UNCHANGED <<runningTask, adder, bothReady, fromAwoken, mWaiting, mStopping,
                       cleanRightNow, everCleaned, aborted>>
        /\ \/ ~holding /\ st # "HOLD" /\ yielded' = yielded
           \/ ~holding /\ st = "HOLD" /\ yielded' = yielded \cup {t}
           \/ holding /\ st = "HOLD" /\ yielded' = yielded
  BY <1>1 DEF Leave, flags
<1>3. UNCHANGED <<runnableQ, waitingQ, awokenQ, finishedQ, entries>>
  BY DEF queues
<1>4. /\ status[t] = "RUNNING" /\ status \in [Tasks -> Statuses]
      /\ t \notin Range(runnableQ) \cup Range(finishedQ) /\ adder[t] # "new"
      /\ \A u \in Tasks \ {t} : status[u] # "RUNNING"
  BY <1>1, <1>2 DEF RecoveryInv, RunningInv, TypeOK, QueuesInv, AdderInv, IsDone
<1>5. TypeOK' /\ NoAssertFails'
  BY <1>1, <1>2, <1>3, <1>4 DEF RecoveryInv, TypeOK, NoAssertFails, Statuses, Places
<1>6. RunningInv'
  BY <1>1, <1>2, <1>3, <1>4 DEF RecoveryInv, RunningInv
<1>7. TurnInv' /\ AdderInv'
  BY <1>1, <1>2, <1>3, <1>4 DEF RecoveryInv, TurnInv, AdderInv
<1>8. RecoveryTypeOK' /\ CallInv'
  BY DEF RecoveryInv, RecoveryTypeOK, CallInv
<1>9. QueuesInv'
  BY <1>1, <1>2, <1>3, <1>4 DEF RecoveryInv, QueuesInv, IsDone
<1>10. SuspendedInv'
  <2>1. /\ \A u \in Tasks : Carriers(u)' = Carriers(u) /\ ~Copied(u)' /\ ~Copied(u)
        /\ wpc'[Inside] = "idle"
    BY DEF Carriers, Copied
  <2>2. /\ \A u \in Tasks \ {t} : Held(u)' <=> Held(u)
        /\ Held(t)' <=> st = "HOLD"
        /\ Held(t) <=> holding
    BY <1>1, <1>2, <1>4 DEF Held
  <2>3. CASE ~holding
    <3>1. t \notin Range(waitingQ) \cup Range(awokenQ) \cup yielded /\ Carriers(t) = {}
      BY <1>1, <1>2, <2>3, RunningIsNowhere
    <3> QED BY <1>2, <1>3, <2>1, <2>2, <2>3, <3>1 DEF RecoveryInv, SuspendedInv
  <2>4. CASE holding
    BY <1>2, <1>3, <2>1, <2>2, <2>4, SuspendedFrame DEF RecoveryInv
  <2> QED BY <2>3, <2>4
<1> QED BY <1>5, <1>6, <1>7, <1>8, <1>9, <1>10 DEF RecoveryInv

LEMMA HoldPushStep == ASSUME RecoveryInv, broken = "no", HoldPush PROVE RecoveryInv'
<1>1. PICK t \in Tasks : t = runningTask
  BY DEF HoldPush, RecoveryInv, RunningInv
<1>2. /\ pc = "run" /\ ~holding /\ holding' /\ wpc[Inside] = "idle"
      /\ waitingQ' = Append(waitingQ, t) /\ entries' = entries \cup {t}
      /\ broken' \in {"no", "raced"}
      /\ UNCHANGED <<runnableQ, awokenQ, finishedQ, runningTask, status, yielded, adder, pc,
                    bothReady, fromAwoken, mWaiting, mStopping, cleanRightNow, everCleaned,
                    aborted, wpc, target>>
  BY <1>1 DEF HoldPush, Changes, flags
<1>3. /\ t \notin Range(waitingQ) \cup Range(awokenQ) \cup yielded /\ Carriers(t) = {}
      /\ status[t] = "RUNNING"
  BY <1>1, <1>2, RunningIsNowhere
<1>4. /\ waitingQ' \in Seq(Tasks) /\ IsInjective(waitingQ')
      /\ Range(waitingQ') = Range(waitingQ) \cup {t}
  <2>1. waitingQ \in Seq(Tasks) /\ IsInjective(waitingQ)
    BY DEF RecoveryInv, TypeOK, QueuesInv
  <2> QED BY <1>2, <1>3, <2>1, PushQueue
<1>5. TypeOK' /\ NoAssertFails'
  BY <1>2, <1>4 DEF RecoveryInv, TypeOK, NoAssertFails
<1>6. RunningInv' /\ TurnInv' /\ AdderInv'
  BY <1>2 DEF RecoveryInv, RunningInv, TurnInv, AdderInv
<1>7. RecoveryTypeOK' /\ CallInv'
  BY <1>2 DEF RecoveryInv, RecoveryTypeOK, CallInv
<1>8. QueuesInv'
  BY <1>2, <1>4 DEF RecoveryInv, QueuesInv, IsDone
<1>9. SuspendedInv'
  <2>1. \A u \in Tasks : Carriers(u)' = Carriers(u) /\ ~Copied(u)' /\ ~Copied(u)
    BY <1>2 DEF Carriers, Copied
  <2>2. Held(t)' /\ \A u \in Tasks \ {t} : Held(u)' <=> Held(u)
    BY <1>1, <1>2 DEF Held
  <2> QED BY <1>2, <1>3, <1>4, <2>1, <2>2 DEF RecoveryInv, SuspendedInv
<1> QED BY <1>5, <1>6, <1>7, <1>8, <1>9 DEF RecoveryInv

-----------------------------------------------------------------------------
(***************************************************************************)
(* Wakeup and WakeupAll.                                                   *)
(***************************************************************************)

\* The steps of Wakeup before it has found a task, and after it has found none, and
\* those of WakeupAll that only look.
LEMMA SearchSteps ==
  ASSUME RecoveryInv, broken = "no",
         \/ \E w \in Wakers, t \in Tasks : WakeupEnters(w, t)
         \/ \E w \in Wakers : WakeupSearches(w) \/ WakeupFindsNothing(w)
         \/ WakeupAllCalled \/ WakeupAllTests \/ WakeupAllRefersToFront
  PROVE  RecoveryInv'
<1>1. PICK w \in Wakers, to \in WakerPlaces \ {"push", "allPop"}, u \in Tasks \cup {None} :
        /\ Goes(w, to, u) /\ UNCHANGED <<vars, holding>>
        /\ wpc[w] \notin {"push", "allPop"}
        /\ to \in {"entered", "search"} => u \in Tasks
        /\ to \in {"allTest", "allFront", "allCopy"} => w = Inside
        /\ w = Inside => pc = "run" /\ ~holding
        /\ broken' \in {"no", "frontGone", "entryGone", "executorGone"}
        /\ to = "allCopy" /\ waitingQ = <<>> => broken' = "frontGone"
  <2>1. CASE \E w \in Wakers, t \in Tasks : WakeupEnters(w, t)
    BY <2>1 DEF WakeupEnters, MayCall, WakerPlaces
  <2>2. CASE \E w \in Wakers : WakeupSearches(w)
    <3>1. PICK w \in Wakers : WakeupSearches(w)
      BY <2>2
    <3> QED BY <3>1 DEF WakeupSearches, RecoveryInv, CallInv, WakerPlaces
  <2>3. CASE \E w \in Wakers : WakeupFindsNothing(w)
    <3>1. PICK w \in Wakers : WakeupFindsNothing(w)
      BY <2>3
    <3> QED BY <3>1 DEF WakeupFindsNothing, RecoveryInv, CallInv, WakerPlaces
  <2>4. CASE WakeupAllCalled
    BY <2>4 DEF WakeupAllCalled, Wakers, WakerPlaces
  <2>5. CASE WakeupAllTests
    BY <2>5 DEF WakeupAllTests, RecoveryInv, CallInv, Wakers, WakerPlaces
  <2>6. CASE WakeupAllRefersToFront
    BY <2>6 DEF WakeupAllRefersToFront, RecoveryInv, CallInv, Wakers, WakerPlaces
  <2> QED BY <2>1, <2>2, <2>3, <2>4, <2>5, <2>6
<1>2. RecoveryTypeOK
  BY DEF RecoveryInv
<1>3. /\ wpc' \in [Wakers -> WakerPlaces]
      /\ target' \in [Wakers -> Tasks \cup {None}]
      /\ wpc'[w] = to /\ target'[w] = u
      /\ \A x \in Wakers \ {w} : wpc'[x] = wpc[x] /\ target'[x] = target[x]
  BY <1>1, <1>2, GoesTypes
<1>4. RecoveryTypeOK'
  BY <1>1, <1>2, <1>3 DEF RecoveryTypeOK
<1>5. CallInv'
  <2>1. holding' = holding /\ pc' = pc /\ Inside \in Wakers
    BY <1>1 DEF vars, Wakers
  <2> QED BY <1>1, <1>3, <2>1, RecoveryAssumption DEF RecoveryInv, CallInv, Wakers
<1>6. SuspendedInv'
  <2>1. \A t \in Tasks : Carriers(t)' = Carriers(t)
    BY <1>1, <1>2, EmptyHanded
  <2>2. /\ wpc'[Inside] = "allPop" <=> wpc[Inside] = "allPop"
        /\ wpc'[Inside] = "allPop" => target'[Inside] = target[Inside]
        /\ wpc'[Inside] = "allCopy" =>
             wpc[Inside] = "allCopy" \/ waitingQ # <<>> \/ broken' = "frontGone"
    BY <1>1, <1>3 DEF Wakers
  <2>3. UNCHANGED <<waitingQ, awokenQ, yielded, pc, status, runningTask, holding>>
    BY <1>1 DEF vars, queues
  <2>4. \A t \in Tasks : (Copied(t)' <=> Copied(t)) /\ (Held(t)' <=> Held(t))
    BY <2>2, <2>3 DEF Copied, Held
  <2> QED BY <2>1, <2>2, <2>3, <2>4, SuspendedFrame DEF RecoveryInv
<1> QED BY <1>1, <1>4, <1>5, <1>6, ExecutorFrame DEF RecoveryInv

\* What is erased behind the front does not change the front.
LEMMA EraseKeepsFront ==
  ASSUME NEW S, NEW q \in Seq(S), NEW i \in DOMAIN q, i # 1
  PROVE  Erase(q, i) # <<>> /\ Head(Erase(q, i)) = Head(q)
<1> DEFINE front == SubSeq(q, 1, i - 1)
           back  == SubSeq(q, i + 1, Len(q))
<1>1. front \in Seq(S) /\ front # <<>> /\ Head(front) = Head(q) /\ back \in Seq(S)
  OBVIOUS
<1> QED BY <1>1, FrontStays DEF Erase

\* The waker takes the task from the waiting queue: from there on it carries it, and
\* nobody else does.
LEMMA ErasesStep ==
  ASSUME RecoveryInv, broken = "no", NEW w \in Wakers, WakeupErases(w)
  PROVE  RecoveryInv'
<1>1. PICK i \in DOMAIN waitingQ :
        /\ waitingQ[i] = target[w] /\ waitingQ' = Erase(waitingQ, i)
        /\ broken' \in {"no", "raced", "mixed", "frontGone"}
        /\ Copied(target[w]) => broken' = "mixed"
        /\ wpc[Inside] = "allCopy" /\ i = 1 => broken' = "frontGone"
  BY DEF WakeupErases, Changes, Copied
<1>2. PICK t \in Tasks : t = target[w]
  BY DEF WakeupErases, RecoveryInv, CallInv
<1>3. waitingQ \in Seq(Tasks) /\ IsInjective(waitingQ) /\ RecoveryTypeOK
  BY DEF RecoveryInv, TypeOK, QueuesInv
<1>4. /\ waitingQ' \in Seq(Tasks) /\ IsInjective(waitingQ')
      /\ Range(waitingQ) = Range(waitingQ') \cup {t} /\ t \notin Range(waitingQ')
  BY <1>1, <1>2, <1>3, EraseQueue
<1>5. /\ wpc[w] = "search" /\ pc # "destroyed" /\ Goes(w, "push", t)
      /\ broken' \in {"no", "raced", "mixed", "frontGone"}
      /\ Copied(t) => broken' = "mixed"
      /\ UNCHANGED <<runnableQ, awokenQ, finishedQ, runningTask, status, entries, yielded, adder,
                    pc, bothReady, fromAwoken, mWaiting, mStopping, cleanRightNow, everCleaned,
                    aborted, holding>>
  BY <1>1, <1>2 DEF WakeupErases, flags
<1>6. /\ wpc' \in [Wakers -> WakerPlaces]
      /\ target' \in [Wakers -> Tasks \cup {None}]
      /\ wpc'[w] = "push" /\ target'[w] = t
      /\ \A x \in Wakers \ {w} : wpc'[x] = wpc[x] /\ target'[x] = target[x]
  BY <1>3, <1>5, GoesTypes DEF WakerPlaces
<1>7. TypeOK' /\ NoAssertFails'
  BY <1>4, <1>5 DEF RecoveryInv, TypeOK, NoAssertFails
<1>8. RunningInv' /\ TurnInv' /\ AdderInv'
  BY <1>5 DEF RecoveryInv, RunningInv, TurnInv, AdderInv
<1>9. RecoveryTypeOK'
  BY <1>3, <1>5, <1>6 DEF RecoveryTypeOK
<1>10. CallInv'
  BY <1>2, <1>5, <1>6, RecoveryAssumption DEF RecoveryInv, CallInv, Wakers
<1>11. QueuesInv'
  BY <1>4, <1>5 DEF RecoveryInv, QueuesInv, IsDone
<1>12. ASSUME broken' \notin {"mixed", "frontGone"}
       PROVE  SuspendedInv'
  <2>1. ~Copied(t) /\ t \in Range(waitingQ)
    BY <1>4, <1>5, <1>12
  <2>2. /\ Carriers(t) = {} /\ t \notin Range(awokenQ) \cup yielded
        /\ Held(t)
    BY <1>5, <2>1 DEF RecoveryInv, SuspendedInv
  <2>3. Carriers(t)' = {w} /\ \A u \in Tasks \ {t} : Carriers(u)' = Carriers(u)
    BY <1>5, <1>6, <2>2 DEF Carriers
  <2>4. \A u \in Tasks : (Copied(u)' <=> Copied(u)) /\ (Held(u)' <=> Held(u))
    BY <1>5, <1>6 DEF Copied, Held, Wakers
  <2>5. wpc'[Inside] = "allPop" => waitingQ' # <<>> /\ Head(waitingQ') = target'[Inside]
    <3>1. SUFFICES ASSUME wpc'[Inside] = "allPop"
                   PROVE  waitingQ' # <<>> /\ Head(waitingQ') = target'[Inside]
      OBVIOUS
    <3>2. wpc[Inside] = "allPop" /\ target'[Inside] = target[Inside]
      BY <1>5, <1>6, <3>1 DEF Wakers
    <3>3. waitingQ # <<>> /\ Head(waitingQ) = target[Inside] /\ Head(waitingQ) # t
      BY <1>5, <2>1, <3>2 DEF RecoveryInv, SuspendedInv, Copied
    <3>4. i # 1
      BY <1>1, <1>2, <1>3, <3>3
    <3>5. waitingQ' # <<>> /\ Head(waitingQ') = Head(waitingQ)
      BY <1>1, <1>3, <3>4, EraseKeepsFront
    <3> QED BY <3>2, <3>3, <3>5
  <2>6. wpc'[Inside] = "allCopy" => waitingQ' # <<>>
    BY <1>1, <1>3, <1>5, <1>6, <1>12, EraseKeepsFront DEF Wakers
  <2> QED BY <1>4, <1>5, <2>1, <2>2, <2>3, <2>4, <2>5, <2>6 DEF RecoveryInv, SuspendedInv
<1>13. SuspendedInv'
  BY <1>12 DEF SuspendedInv
<1> QED BY <1>7, <1>8, <1>9, <1>10, <1>11, <1>13 DEF RecoveryInv

\* The waker puts down in the awoken queue what it carries.
LEMMA PushesStep ==
  ASSUME RecoveryInv, broken = "no", NEW w \in Wakers, WakeupPushes(w)
  PROVE  RecoveryInv'
<1>1. PICK t \in Tasks : t = target[w]
  BY DEF WakeupPushes, RecoveryInv, CallInv
<1>2. /\ wpc[w] = "push" /\ pc # "destroyed" /\ Goes(w, "idle", None)
      /\ awokenQ' = Append(awokenQ, t)
      /\ UNCHANGED <<runnableQ, waitingQ, finishedQ, runningTask, status, entries, yielded, adder,
                    pc, bothReady, fromAwoken, mWaiting, mStopping, cleanRightNow, everCleaned,
                    aborted, holding, broken>>
  BY <1>1 DEF WakeupPushes, flags
<1>3. awokenQ \in Seq(Tasks) /\ IsInjective(awokenQ) /\ RecoveryTypeOK
  BY DEF RecoveryInv, TypeOK, QueuesInv
<1>4. /\ w \in Carriers(t) /\ \A x \in Carriers(t) : x = w
      /\ t \notin Range(waitingQ) \cup Range(awokenQ) \cup yielded
      /\ Held(t) /\ ~Copied(t)
  <2>1. w \in Carriers(t)
    BY <1>1, <1>2 DEF Carriers
  <2> QED BY <1>2, <2>1 DEF RecoveryInv, SuspendedInv
<1>5. /\ awokenQ' \in Seq(Tasks) /\ awokenQ' # <<>> /\ IsInjective(awokenQ')
      /\ Range(awokenQ') = Range(awokenQ) \cup {t}
  BY <1>2, <1>3, <1>4, PushQueue
<1>6. /\ wpc' \in [Wakers -> WakerPlaces]
      /\ target' \in [Wakers -> Tasks \cup {None}]
      /\ wpc'[w] = "idle" /\ target'[w] = None
      /\ \A x \in Wakers \ {w} : wpc'[x] = wpc[x] /\ target'[x] = target[x]
  BY <1>2, <1>3, GoesTypes DEF WakerPlaces
<1>7. TypeOK' /\ NoAssertFails'
  BY <1>2, <1>5 DEF RecoveryInv, TypeOK, NoAssertFails
<1>8. RunningInv' /\ TurnInv' /\ AdderInv'
  BY <1>2, <1>5 DEF RecoveryInv, RunningInv, TurnInv, AdderInv
<1>9. RecoveryTypeOK'
  BY <1>2, <1>3, <1>6 DEF RecoveryTypeOK
<1>10. CallInv'
  BY <1>2, <1>6, RecoveryAssumption DEF RecoveryInv, CallInv, Wakers
<1>11. QueuesInv'
  BY <1>2, <1>5 DEF RecoveryInv, QueuesInv, IsDone
<1>12. SuspendedInv'
  <2>1. Carriers(t)' = {} /\ \A u \in Tasks \ {t} : Carriers(u)' = Carriers(u)
    BY <1>1, <1>4, <1>6 DEF Carriers
  <2>2. /\ \A u \in Tasks : (Copied(u)' <=> Copied(u)) /\ (Held(u)' <=> Held(u))
        /\ wpc'[Inside] = "allPop" => wpc[Inside] = "allPop" /\ target'[Inside] = target[Inside]
        /\ wpc'[Inside] = "allCopy" => wpc[Inside] = "allCopy"
    BY <1>2, <1>6 DEF Copied, Held, Wakers
  <2> QED BY <1>2, <1>4, <1>5, <2>1, <2>2 DEF RecoveryInv, SuspendedInv
<1> QED BY <1>7, <1>8, <1>9, <1>10, <1>11, <1>12 DEF RecoveryInv

\* WakeupAll copies the front of the waiting queue.
LEMMA CopiesStep ==
  ASSUME RecoveryInv, broken = "no", WakeupAllCopies
  PROVE  RecoveryInv'
<1>1. /\ wpc[Inside] = "allCopy" /\ pc = "run" /\ ~holding /\ waitingQ # <<>>
      /\ waitingQ \in Seq(Tasks) /\ awokenQ \in Seq(Tasks) /\ IsInjective(awokenQ)
      /\ RecoveryTypeOK /\ Inside \in Wakers
  BY DEF WakeupAllCopies, RecoveryInv, CallInv, SuspendedInv, TypeOK, QueuesInv, Wakers
<1>2. UNCHANGED <<runnableQ, waitingQ, finishedQ, runningTask, status, entries, yielded, adder, pc,
                  bothReady, fromAwoken, mWaiting, mStopping, cleanRightNow, everCleaned, aborted,
                  holding, broken>>
  BY DEF WakeupAllCopies, flags
<1>3. PICK t : t = Head(waitingQ)
  OBVIOUS
<1>4. t \in Tasks /\ t \in Range(waitingQ)
  BY <1>1, <1>3, PopQueue
<1>5. Goes(Inside, "allPop", t) /\ awokenQ' = Append(awokenQ, t)
  BY <1>3 DEF WakeupAllCopies
<1>6. /\ \A u \in Tasks : ~Copied(u)
      /\ t \notin Range(awokenQ) \cup yielded /\ Carriers(t) = {}
  BY <1>1, <1>4 DEF RecoveryInv, SuspendedInv, Copied
<1>7. /\ awokenQ' \in Seq(Tasks) /\ awokenQ' # <<>> /\ IsInjective(awokenQ')
      /\ Range(awokenQ') = Range(awokenQ) \cup {t}
  BY <1>1, <1>4, <1>5, <1>6, PushQueue
<1>8. /\ wpc' \in [Wakers -> WakerPlaces]
      /\ target' \in [Wakers -> Tasks \cup {None}]
      /\ wpc'[Inside] = "allPop" /\ target'[Inside] = t
      /\ \A x \in Wakers \ {Inside} : wpc'[x] = wpc[x] /\ target'[x] = target[x]
  BY <1>1, <1>4, <1>5, GoesTypes DEF WakerPlaces
<1>9. TypeOK' /\ NoAssertFails'
  BY <1>2, <1>7 DEF RecoveryInv, TypeOK, NoAssertFails
<1>10. RunningInv' /\ TurnInv' /\ AdderInv'
  BY <1>2, <1>7 DEF RecoveryInv, RunningInv, TurnInv, AdderInv
<1>11. RecoveryTypeOK'
  BY <1>1, <1>2, <1>8 DEF RecoveryTypeOK
<1>12. CallInv'
  BY <1>1, <1>2, <1>8, RecoveryAssumption DEF RecoveryInv, CallInv, Wakers
<1>13. QueuesInv'
  BY <1>2, <1>7 DEF RecoveryInv, QueuesInv, IsDone
<1>14. SuspendedInv'
  <2>1. \A u \in Tasks : Carriers(u)' = Carriers(u)
    BY <1>1, <1>4, <1>5, EmptyHanded DEF WakerPlaces
  <2>2. \A u \in Tasks : (Copied(u)' <=> u = t) /\ (Held(u)' <=> Held(u))
    BY <1>2, <1>8 DEF Copied, Held
  <2> QED BY <1>1, <1>2, <1>3, <1>4, <1>6, <1>7, <1>8, <2>1, <2>2 DEF RecoveryInv, SuspendedInv
<1> QED BY <1>9, <1>10, <1>11, <1>12, <1>13, <1>14 DEF RecoveryInv

\* WakeupAll pops what it has copied.
LEMMA PopsStep ==
  ASSUME RecoveryInv, broken = "no", WakeupAllPops
  PROVE  RecoveryInv'
<1>1. /\ wpc[Inside] = "allPop" /\ pc = "run" /\ ~holding
      /\ waitingQ \in Seq(Tasks) /\ IsInjective(waitingQ) /\ waitingQ # <<>>
      /\ Head(waitingQ) = target[Inside]
      /\ RecoveryTypeOK /\ Inside \in Wakers
  BY DEF WakeupAllPops, RecoveryInv, CallInv, TypeOK, QueuesInv, SuspendedInv, Wakers
<1>2. /\ waitingQ' = Tail(waitingQ) /\ Goes(Inside, "allTest", None)
      /\ broken' \in {"no", "raced"}
      /\ UNCHANGED <<runnableQ, awokenQ, finishedQ, runningTask, status, entries, yielded, adder,
                    pc, bothReady, fromAwoken, mWaiting, mStopping, cleanRightNow, everCleaned,
                    aborted, holding>>
  BY DEF WakeupAllPops, Changes, flags
<1>3. PICK t : t = Head(waitingQ)
  OBVIOUS
<1>4. /\ t \in Tasks /\ waitingQ' \in Seq(Tasks) /\ IsInjective(waitingQ')
      /\ Range(waitingQ) = Range(waitingQ') \cup {t} /\ t \notin Range(waitingQ')
  BY <1>1, <1>2, <1>3, PopQueue
<1>5. /\ wpc' \in [Wakers -> WakerPlaces]
      /\ target' \in [Wakers -> Tasks \cup {None}]
      /\ wpc'[Inside] = "allTest"
      /\ \A x \in Wakers \ {Inside} : wpc'[x] = wpc[x] /\ target'[x] = target[x]
  BY <1>1, <1>2, GoesTypes DEF WakerPlaces
<1>6. TypeOK' /\ NoAssertFails'
  BY <1>2, <1>4 DEF RecoveryInv, TypeOK, NoAssertFails
<1>7. RunningInv' /\ TurnInv' /\ AdderInv'
  BY <1>2 DEF RecoveryInv, RunningInv, TurnInv, AdderInv
<1>8. RecoveryTypeOK'
  BY <1>1, <1>2, <1>5 DEF RecoveryTypeOK
<1>9. CallInv'
  BY <1>1, <1>2, <1>5, RecoveryAssumption DEF RecoveryInv, CallInv, Wakers
<1>10. QueuesInv'
  BY <1>2, <1>4 DEF RecoveryInv, QueuesInv, IsDone
<1>11. SuspendedInv'
  <2>1. \A u \in Tasks : Carriers(u)' = Carriers(u)
    BY <1>1, <1>2, EmptyHanded DEF WakerPlaces
  <2>2. \A u \in Tasks : ~Copied(u)' /\ (Copied(u) <=> u = t) /\ (Held(u)' <=> Held(u))
    BY <1>1, <1>2, <1>3, <1>5 DEF Copied, Held
  <2>3. t \in Range(awokenQ)
    BY <1>1, <1>4, <2>2 DEF RecoveryInv, SuspendedInv
  <2> QED BY <1>1, <1>2, <1>4, <1>5, <2>1, <2>2, <2>3 DEF RecoveryInv, SuspendedInv
<1> QED BY <1>6, <1>7, <1>8, <1>9, <1>10, <1>11 DEF RecoveryInv

LEMMA GoneStep ==
  ASSUME RecoveryInv, NEW w \in Wakers, UsesGoneExecutor(w)
  PROVE  RecoveryInv'
<1>1. UNCHANGED <<vars, holding, wpc, target>> /\ broken' = "executorGone" /\ pc' = "destroyed"
  BY DEF UsesGoneExecutor, vars
<1>2. RecoveryTypeOK' /\ CallInv'
  BY <1>1 DEF RecoveryInv, RecoveryTypeOK, CallInv, vars
<1>3. SuspendedInv'
  BY <1>1 DEF SuspendedInv
<1> QED BY <1>1, <1>2, <1>3, ExecutorFrame DEF RecoveryInv

-----------------------------------------------------------------------------
LEMMA NextKeepsRecoveryInv == ASSUME RecoveryInv, [RecoveryNext]_recVars PROVE RecoveryInv'
<1>1. CASE UNCHANGED recVars
  <2>1. UNCHANGED <<vars, holding, wpc, target, broken>>
    BY <1>1 DEF recVars, wakeVars
  <2>2. UNCHANGED <<waitingQ, awokenQ, yielded, pc, status, runningTask>>
    BY <2>1 DEF vars, queues
  <2>3. RecoveryTypeOK' /\ CallInv'
    BY <2>1, <2>2 DEF RecoveryInv, RecoveryTypeOK, CallInv
  <2>4. SuspendedInv'
    BY <2>1, <2>2 DEF RecoveryInv, SuspendedInv, Carriers, Copied, Held
  <2> QED BY <2>1, <2>3, <2>4, ExecutorFrame DEF RecoveryInv
<1>2. CASE RecoveryNext
  <2> broken = "no"
    BY <1>2 DEF RecoveryNext, Defined
  <2>1. CASE Stop /\ UNCHANGED wakeVars
    BY <2>1, CallerSteps
  <2>2. CASE \E t \in Tasks : (AddTaskPush(t) \/ AddTaskNotify(t)) /\ UNCHANGED wakeVars
    BY <2>2, CallerSteps
  <2>3. CASE \/ \E w \in Wakers, t \in Tasks : WakeupEnters(w, t)
             \/ WakeupAllCalled \/ WakeupAllTests \/ WakeupAllRefersToFront
    BY <2>3, SearchSteps
  <2>4. CASE \E w \in Wakers : WakeupStep(w)
    BY <2>4, SearchSteps, ErasesStep, PushesStep, GoneStep DEF WakeupStep
  <2>5. CASE WakeupAllStep
    BY <2>5, SearchSteps, CopiesStep, PopsStep DEF WakeupAllStep
  <2>6. CASE BodyLeaves
    <3>1. /\ ~holding /\ wpc[Inside] = "idle" /\ UNCHANGED <<holding, wpc, target, broken>>
          /\ holding' = FALSE
      BY <2>6 DEF BodyLeaves, wakeVars, RecoveryInv, RecoveryTypeOK
    <3>2. /\ UNCHANGED <<queues, entries>>
          /\ \/ (Leave("FINISHED") \/ Leave("EXCEPT")) /\ UNCHANGED yielded
             \/ Leave("HOLD") /\ yielded' = yielded \cup {runningTask}
      BY <2>6 DEF BodyLeaves, Return, Throw, YieldCurrent
    <3> QED BY <3>1, <3>2, LeaveSteps
  <2>7. CASE HoldStep
    <3>1. CASE HoldPush
      BY <3>1, HoldPushStep
    <3>2. CASE HoldGiveUp
      <4>1. wpc[Inside] = "idle"
        BY <3>2 DEF HoldGiveUp, RecoveryInv, CallInv
      <4> QED BY <3>2, <4>1, LeaveSteps DEF HoldGiveUp
    <3> QED BY <2>7, <3>1, <3>2 DEF HoldStep
  <2>8. CASE (ProcessStep \/ Process \/ SpuriousWakeup \/ Destroy) /\ UNCHANGED wakeVars
    <3>1. pc # "run" /\ pc # "destroyed"
      BY <2>8 DEF ProcessStep, LoopTop, PickAwoken, PickRunnable, PickNothing, AfterResume,
                  AfterExcept, CheckPredicate, Block, TimeOut, TimeOutStops, Process, SpuriousWakeup, Destroy
    <3> QED BY <2>8, <3>1, ProcessSteps
  <2> QED BY <1>2, <2>1, <2>2, <2>3, <2>4, <2>5, <2>6, <2>7, <2>8 DEF RecoveryNext
<1> QED BY <1>1, <1>2

\* In every behaviour, with any number of threads that wake: the types, what the
\* queues hold, and where a suspended task is.
THEOREM RecoveryInvariance == RecoverySpec => []RecoveryInv
<1>1. RecoveryInit => RecoveryInv
  BY InitRecoveryInv
<1>2. RecoveryInv /\ [RecoveryNext]_recVars => RecoveryInv'
  BY NextKeepsRecoveryInv
<1> QED BY <1>1, <1>2, PTL DEF RecoverySpec

\* No interleaving of Hold with wakeups, each in its steps, makes the thread in Process
\* resume a coroutine that has not stopped.
THEOREM RecoveryAssertionsHold == RecoverySpec => []NoAssertFails
<1>1. RecoveryInv => NoAssertFails
  BY DEF RecoveryInv
<1> QED BY <1>1, RecoveryInvariance, PTL

LEMMA InvKeepsOnce == RecoveryInv => KeptOnce
<1> SUFFICES ASSUME RecoveryInv, Defined, pc # "destroyed"
             PROVE  /\ RecoveryTypeOK
                    /\ IsInjective(waitingQ) /\ IsInjective(awokenQ)
                    /\ \A t \in Tasks :
                         Cardinality(Carriers(t))
                           + (IF t \in Range(waitingQ) /\ ~Copied(t) THEN 1 ELSE 0)
                           + (IF t \in Range(awokenQ) THEN 1 ELSE 0)
                           + (IF t \in yielded THEN 1 ELSE 0)
                         = IF Held(t) THEN 1 ELSE 0
  BY DEF KeptOnce
<1>1. ASSUME NEW t \in Tasks
      PROVE  Cardinality(Carriers(t)) = IF Carriers(t) = {} THEN 0 ELSE 1
  <2>1. \A w, x \in Carriers(t) : w = x
    BY DEF Defined, RecoveryInv, SuspendedInv
  <2>2. PICK w : Carriers(t) \subseteq {w}
    BY <2>1
  <2> QED BY <2>2, CountOne
<1> QED BY <1>1 DEF Defined, RecoveryInv, QueuesInv, SuspendedInv

\* However many threads wake however many tasks, a held task is in one place, and once:
\* no wakeup loses it, none queues it twice.
THEOREM HeldIsKeptOnce == RecoverySpec => []KeptOnce
<1> QED BY RecoveryInvariance, InvKeepsOnce, PTL

-----------------------------------------------------------------------------
(***************************************************************************)
(* The refinement: a task is held from the push of Hold on, and until a    *)
(* waker or WakeupAll has pushed it again; these two steps, and not what   *)
(* is between them, are the Suspend and the Wake of the service.           *)
(***************************************************************************)
AwaitsTurn(t) == t \in Range(runnableQ) \cup Range(awokenQ)
IsAway(t)     == t \in Range(waitingQ) \cup yielded \/ Carriers(t) # {}

\* The stage of a task depends on where it is only.
LEMMA SameStage ==
  ASSUME NEW t \in Tasks,
         adder'[t] = "new" <=> adder[t] = "new", IsDone(t)' <=> IsDone(t),
         pc' = "destroyed" <=> pc = "destroyed",
         AwaitsTurn(t)' <=> AwaitsTurn(t),
         ~AwaitsTurn(t) => (IsAway(t)' <=> IsAway(t)),
         ~AwaitsTurn(t) /\ ~IsAway(t) => (status'[t] = "RUNNING" <=> status[t] = "RUNNING")
  PROVE  CallStageOf(t)' = CallStageOf(t)
  BY DEF CallStageOf, AwaitsTurn, IsAway

LEMMA CallStageAt ==
  ASSUME RecoveryInv, broken \notin {"mixed", "frontGone"}, NEW t \in Tasks
  PROVE  /\ adder[t] = "new" => CallStageOf(t) = "new"
         /\ IsDone(t) => CallStageOf(t) = "ended"
         /\ adder[t] # "new" /\ ~IsDone(t) /\ pc = "destroyed" => CallStageOf(t) = "dropped"
         /\ pc # "destroyed" =>
              /\ AwaitsTurn(t) => CallStageOf(t) = "ready"
              /\ IsAway(t) /\ ~AwaitsTurn(t) => CallStageOf(t) = "held"
              /\ status[t] = "RUNNING" /\ ~Held(t) => CallStageOf(t) = "running"
<1>1. /\ adder[t] = "new" => status[t] = "IDLE" /\ t \notin Range(runnableQ)
      /\ t \in Range(runnableQ) => status[t] = "IDLE"
      /\ Held(t) => status[t] \in {"HOLD", "RUNNING"}
  BY DEF RecoveryInv, AdderInv, QueuesInv, Held, RunningInv, CallInv
<1>2. pc # "destroyed" => (Held(t) <=> t \in Range(awokenQ) \/ IsAway(t))
  BY DEF RecoveryInv, SuspendedInv, IsAway
<1> QED BY <1>1, <1>2 DEF CallStageOf, AwaitsTurn, IsAway, IsDone

\* The same after a step.
LEMMA CallStageAfter ==
  ASSUME RecoveryInv', broken' \notin {"mixed", "frontGone"}, NEW t \in Tasks
  PROVE  /\ adder'[t] = "new" => CallStageOf(t)' = "new"
         /\ IsDone(t)' => CallStageOf(t)' = "ended"
         /\ adder'[t] # "new" /\ ~IsDone(t)' /\ pc' = "destroyed" => CallStageOf(t)' = "dropped"
         /\ pc' # "destroyed" =>
              /\ AwaitsTurn(t)' => CallStageOf(t)' = "ready"
              /\ IsAway(t)' /\ ~AwaitsTurn(t)' => CallStageOf(t)' = "held"
              /\ status'[t] = "RUNNING" /\ ~Held(t)' => CallStageOf(t)' = "running"
<1>1. /\ adder'[t] = "new" => status'[t] = "IDLE" /\ t \notin Range(runnableQ')
      /\ t \in Range(runnableQ') => status'[t] = "IDLE"
      /\ Held(t)' => status'[t] \in {"HOLD", "RUNNING"}
  BY DEF RecoveryInv, AdderInv, QueuesInv, Held, RunningInv, CallInv
<1>2. pc' # "destroyed" => (Held(t)' <=> t \in Range(awokenQ') \/ IsAway(t)')
  BY DEF RecoveryInv, SuspendedInv, IsAway
<1> QED BY <1>1, <1>2 DEF CallStageOf, AwaitsTurn, IsAway, IsDone

\* A step that changes the stage of one task, in a service that stays open.
LEMMA OneMoves ==
  ASSUME NEW t \in Tasks, NEW from, NEW to, pc # "destroyed", pc' # "destroyed",
         CallStageOf(t) = from, CallStageOf(t)' = to,
         \A u \in Tasks \ {t} : CallStageOf(u)' = CallStageOf(u)
  PROVE  AtomicLifecycle!Move(t, from, to)
  BY DEF AtomicLifecycle!Move

LEMMA OneWakes ==
  ASSUME NEW t \in Tasks, pc # "destroyed", pc' # "destroyed",
         CallStageOf(t) = "held", CallStageOf(t)' = "ready",
         \A u \in Tasks \ {t} : CallStageOf(u)' = CallStageOf(u)
  PROVE  AtomicLifecycle!Wake({t})
  BY DEF AtomicLifecycle!Wake, AtomicLifecycle!InStage

\* A step that keeps every task where it is.
LEMMA NoneMoves ==
  ASSUME \A t \in Tasks : CallStageOf(t)' = CallStageOf(t), pc' = "destroyed" <=> pc = "destroyed"
  PROVE  UNCHANGED AtomicLifecycle!lifeVars
  BY DEF AtomicLifecycle!lifeVars

LEMMA AddingSubmits ==
  ASSUME RecoveryInv, RecoveryInv', broken = "no", UNCHANGED wakeVars,
         NEW t \in Tasks, AddTaskPush(t)
  PROVE  AtomicLifecycle!Submit(t)
<1>1. /\ adder[t] = "new" /\ adder' = [adder EXCEPT ![t] = "pushed"]
      /\ pc # "destroyed" /\ pc' # "destroyed"
      /\ UNCHANGED <<waitingQ, awokenQ, status, yielded, wpc, target, broken>>
      /\ Range(runnableQ') = Range(runnableQ) \cup {t}
      /\ adder \in [Tasks -> {"new", "pushed", "added"}]
  BY PushQueue DEF AddTaskPush, wakeVars, RecoveryInv, TypeOK
<1>2. AwaitsTurn(t)'
  BY <1>1 DEF AwaitsTurn
<1>3. CallStageOf(t) = "new" /\ CallStageOf(t)' = "ready"
  BY <1>1, <1>2, CallStageAt, CallStageAfter
<1>4. \A u \in Tasks \ {t} : CallStageOf(u)' = CallStageOf(u)
  BY <1>1, SameStage DEF AwaitsTurn, IsAway, IsDone, Carriers
<1> QED BY <1>1, <1>3, <1>4, OneMoves DEF AtomicLifecycle!Submit

\* The thread takes a task when nobody runs, so the only slot is free.
LEMMA PickingStarts ==
  ASSUME RecoveryInv, RecoveryInv', broken = "no", UNCHANGED wakeVars, PickAwoken \/ PickRunnable
  PROVE  \E t \in Tasks : AtomicLifecycle!Start(t)
<1>1. /\ pc = "pick" /\ UNCHANGED <<waitingQ, yielded, adder, wpc, target, broken, holding>>
      /\ holding' = FALSE
      /\ QueueInv
  BY BetweenBodies DEF PickAwoken, PickRunnable, wakeVars, RecoveryInv, RecoveryTypeOK
<1>2. PICK t \in Tasks :
        /\ status' = [status EXCEPT ![t] = "RUNNING"] /\ CanResume(t) /\ pc' = "run"
        /\ AwaitsTurn(t)
        /\ Range(runnableQ') \cup {t} = Range(runnableQ) \cup {t}
        /\ Range(awokenQ') \cup {t} = Range(awokenQ) \cup {t}
  <2>1. CASE PickAwoken
    <3>1. awokenQ \in Seq(Tasks) /\ awokenQ # <<>>
      BY <1>1, <2>1 DEF PickAwoken, QueueInv, TypeOK, TurnInv
    <3>2. /\ Head(awokenQ) \in Tasks /\ Head(awokenQ) \in Range(awokenQ)
          /\ Range(awokenQ) = Range(awokenQ') \cup {Head(awokenQ)}
          /\ runnableQ' = runnableQ
      BY <2>1, <3>1, PopQueue DEF PickAwoken
    <3>3. CanResume(Head(awokenQ))
      BY <1>1, <3>2 DEF QueueInv, OnePlace, CanResume
    <3>4. status' = [status EXCEPT ![Head(awokenQ)] = "RUNNING"] /\ pc' = "run"
      BY <2>1, <3>3 DEF PickAwoken, Resume
    <3> QED BY <3>2, <3>3, <3>4 DEF AwaitsTurn
  <2>2. CASE PickRunnable
    <3>1. runnableQ \in Seq(Tasks) /\ runnableQ # <<>>
      BY <1>1, <2>2 DEF PickRunnable, QueueInv, TypeOK, TurnInv
    <3>2. /\ Head(runnableQ) \in Tasks /\ Head(runnableQ) \in Range(runnableQ)
          /\ Range(runnableQ) = Range(runnableQ') \cup {Head(runnableQ)}
          /\ awokenQ' = awokenQ
      BY <2>2, <3>1, PopQueue DEF PickRunnable
    <3>3. CanResume(Head(runnableQ))
      BY <1>1, <3>2 DEF QueueInv, OnePlace, CanResume
    <3>4. status' = [status EXCEPT ![Head(runnableQ)] = "RUNNING"] /\ pc' = "run"
      BY <2>2, <3>3 DEF PickRunnable, Resume
    <3> QED BY <3>2, <3>3, <3>4 DEF AwaitsTurn
  <2> QED BY <2>1, <2>2
<1>3. status \in [Tasks -> Statuses]
  BY DEF RecoveryInv, TypeOK
<1>4. CallStageOf(t) = "ready"
  BY <1>1, <1>2, CallStageAt
<1>5. CallStageOf(t)' = "running"
  <2>1. ~Held(t)' /\ status'[t] = "RUNNING"
    BY <1>1, <1>2, <1>3 DEF Held
  <2> QED BY <1>1, <1>2, <2>1, CallStageAfter
<1>6. \A u \in Tasks \ {t} : CallStageOf(u)' = CallStageOf(u)
  <2>1. SUFFICES ASSUME NEW u \in Tasks \ {t}
                 PROVE  CallStageOf(u)' = CallStageOf(u)
    OBVIOUS
  <2>2. status'[u] = status[u]
    BY <1>2, <1>3
  <2>3. AwaitsTurn(u)' <=> AwaitsTurn(u)
    BY <1>2 DEF AwaitsTurn
  <2>4. IsAway(u)' <=> IsAway(u)
    BY <1>1 DEF IsAway, Carriers
  <2> QED BY <1>1, <1>2, <2>2, <2>3, <2>4, SameStage DEF IsDone
<1>7. AtomicLifecycle!InStage("running") = {}
  <2>1. SUFFICES ASSUME NEW u \in Tasks, CallStageOf(u) = "running"
                 PROVE  FALSE
    BY DEF AtomicLifecycle!InStage
  <2>2. status[u] # "RUNNING"
    BY <1>1 DEF RecoveryInv, RunningInv
  <2>3. ~Held(u) => status[u] \in {"IDLE", "FINISHED", "EXCEPT"}
    BY <1>3, <2>2 DEF Held, Statuses
  <2>4. Held(u) <=> u \in Range(awokenQ) \/ IsAway(u)
    BY <1>1 DEF RecoveryInv, SuspendedInv, IsAway
  <2>5. status[u] = "IDLE" => adder[u] = "new" \/ AwaitsTurn(u)
    BY <1>1 DEF RecoveryInv, AdderInv, AwaitsTurn
  <2>6. CallStageOf(u) \in {"new", "ended", "ready", "held"}
    BY <1>1, <2>3, <2>4, <2>5, CallStageAt DEF AwaitsTurn, IsDone
  <2> QED BY <2>1, <2>6
<1>8. AtomicLifecycle!Cardinality({}) = Cardinality({})
  BY DEF AtomicLifecycle!Cardinality, Cardinality
<1>9. AtomicLifecycle!Move(t, "ready", "running")
  BY <1>1, <1>2, <1>4, <1>5, <1>6, OneMoves
<1> QED BY <1>7, <1>8, <1>9, FS_EmptySet DEF AtomicLifecycle!Start

\* Return and Throw end a task, YieldCurrent and the push of Hold suspend it.
LEMMA RunEndsOrSuspends ==
  ASSUME RecoveryInv, RecoveryInv', broken = "no", BodyLeaves \/ HoldPush
  PROVE  \E t \in Tasks : AtomicLifecycle!End(t) \/ AtomicLifecycle!Suspend(t)
<1>1. /\ pc = "run" /\ ~holding /\ pc' \in {"run", "after"} /\ broken' \in {"no", "raced"}
      /\ UNCHANGED <<runnableQ, awokenQ, adder, wpc, target>>
      /\ status \in [Tasks -> Statuses]
  BY DEF BodyLeaves, HoldPush, Return, Throw, YieldCurrent, Leave, wakeVars, queues, Changes,
         RecoveryInv, TypeOK
<1>2. PICK t \in Tasks : t = runningTask
  BY <1>1 DEF RecoveryInv, RunningInv
<1>3. /\ status[t] = "RUNNING" /\ adder[t] # "new" /\ ~AwaitsTurn(t) /\ Carriers(t) = {}
  BY <1>1, <1>2, RunningIsNowhere DEF AwaitsTurn
<1>4. /\ Range(waitingQ') \ {t} = Range(waitingQ) \ {t} /\ yielded' \ {t} = yielded \ {t}
      /\ \/ status' = [status EXCEPT ![t] = "FINISHED"]
         \/ status' = [status EXCEPT ![t] = "EXCEPT"]
         \/ status' = [status EXCEPT ![t] = "HOLD"] /\ t \in yielded'
         \/ status' = status /\ t \in Range(waitingQ')
  <2>1. Range(Append(waitingQ, t)) = Range(waitingQ) \cup {t}
    BY PushQueue DEF RecoveryInv, TypeOK
  <2> QED BY <1>2, <2>1 DEF BodyLeaves, HoldPush, Return, Throw, YieldCurrent, Leave, queues
<1>5. CallStageOf(t) = "running"
  <2>1. ~Held(t)
    BY <1>1, <1>3 DEF Held
  <2> QED BY <1>1, <1>3, <2>1, CallStageAt
<1>6. \A u \in Tasks \ {t} : CallStageOf(u)' = CallStageOf(u)
  <2>1. SUFFICES ASSUME NEW u \in Tasks \ {t}
                 PROVE  CallStageOf(u)' = CallStageOf(u)
    OBVIOUS
  <2>2. status'[u] = status[u]
    BY <1>1, <1>4
  <2>3. (AwaitsTurn(u)' <=> AwaitsTurn(u)) /\ (IsAway(u)' <=> IsAway(u))
    BY <1>1, <1>4 DEF AwaitsTurn, IsAway, Carriers
  <2> QED BY <1>1, <2>2, <2>3, SameStage DEF IsDone
<1>7. CASE \/ status' = [status EXCEPT ![t] = "FINISHED"]
           \/ status' = [status EXCEPT ![t] = "EXCEPT"]
  <2>1. IsDone(t)'
    BY <1>1, <1>7 DEF IsDone
  <2>2. CallStageOf(t)' = "ended"
    BY <1>1, <2>1, CallStageAfter
  <2>3. AtomicLifecycle!Move(t, "running", "ended")
    BY <1>1, <1>5, <1>6, <2>2, OneMoves
  <2> QED BY <2>3 DEF AtomicLifecycle!Move, AtomicLifecycle!End
<1>8. CASE \/ status' = [status EXCEPT ![t] = "HOLD"] /\ t \in yielded'
           \/ status' = status /\ t \in Range(waitingQ')
  <2>1. IsAway(t)' /\ ~AwaitsTurn(t)'
    BY <1>1, <1>3, <1>8 DEF IsAway, AwaitsTurn
  <2>2. CallStageOf(t)' = "held"
    BY <1>1, <2>1, CallStageAfter
  <2> QED BY <1>1, <1>5, <1>6, <2>2, OneMoves DEF AtomicLifecycle!Suspend
<1> QED BY <1>4, <1>7, <1>8

\* What puts a task into the awoken queue wakes it.
LEMMA PushWakes ==
  ASSUME RecoveryInv, RecoveryInv', broken = "no", pc # "destroyed",
         UNCHANGED <<runnableQ, waitingQ, status, yielded, adder, pc, broken>>,
         NEW t \in Tasks, IsAway(t), ~AwaitsTurn(t), awokenQ' = Append(awokenQ, t),
         \A u \in Tasks \ {t} : Carriers(u)' = Carriers(u)
  PROVE  AtomicLifecycle!Wake({t})
<1>1. Range(awokenQ') = Range(awokenQ) \cup {t}
  BY PushQueue DEF RecoveryInv, TypeOK
<1>2. CallStageOf(t) = "held"
  BY CallStageAt
<1>3. AwaitsTurn(t)'
  BY <1>1 DEF AwaitsTurn
<1>4. CallStageOf(t)' = "ready"
  BY <1>3, CallStageAfter
<1>5. \A u \in Tasks \ {t} : CallStageOf(u)' = CallStageOf(u)
  <2>1. SUFFICES ASSUME NEW u \in Tasks \ {t}
                 PROVE  CallStageOf(u)' = CallStageOf(u)
    OBVIOUS
  <2>2. (AwaitsTurn(u)' <=> AwaitsTurn(u)) /\ (IsAway(u)' <=> IsAway(u))
    BY <1>1 DEF AwaitsTurn, IsAway
  <2> QED BY <2>2, SameStage DEF IsDone
<1> QED BY <1>2, <1>4, <1>5, OneWakes

LEMMA WakeupStepsWake ==
  ASSUME RecoveryInv, RecoveryInv', broken = "no",
         (\E w \in Wakers : WakeupPushes(w)) \/ WakeupAllCopies
  PROVE  \E S \in SUBSET Tasks : AtomicLifecycle!Wake(S)
<1>1. CASE \E w \in Wakers : WakeupPushes(w)
  <2>1. PICK w \in Wakers : WakeupPushes(w)
    BY <1>1
  <2>2. PICK t \in Tasks : t = target[w]
    BY <2>1 DEF WakeupPushes, RecoveryInv, CallInv
  <2>3. /\ wpc[w] = "push" /\ pc # "destroyed" /\ awokenQ' = Append(awokenQ, t)
        /\ wpc' = [wpc EXCEPT ![w] = "idle"] /\ target' = [target EXCEPT ![w] = None]
        /\ UNCHANGED <<runnableQ, waitingQ, status, yielded, adder, pc, broken>>
    BY <2>1, <2>2 DEF WakeupPushes, Goes
  <2>4. w \in Carriers(t)
    BY <2>2, <2>3 DEF Carriers
  <2>5. IsAway(t) /\ t \notin Range(awokenQ) /\ Held(t)
    BY <2>3, <2>4 DEF RecoveryInv, SuspendedInv, IsAway
  <2>6. ~AwaitsTurn(t)
    BY <2>5 DEF RecoveryInv, QueuesInv, AwaitsTurn, Held, RunningInv, CallInv
  <2>7. \A u \in Tasks \ {t} : Carriers(u)' = Carriers(u)
    BY <2>2, <2>3 DEF Carriers, RecoveryInv, RecoveryTypeOK
  <2>8. AtomicLifecycle!Wake({t})
    BY <2>3, <2>5, <2>6, <2>7, PushWakes
  <2> QED BY <2>8
<1>2. CASE WakeupAllCopies
  <2>1. PICK t : t = Head(waitingQ)
    OBVIOUS
  <2>2. t \in Tasks /\ t \in Range(waitingQ)
    <3>1. waitingQ \in Seq(Tasks) /\ waitingQ # <<>>
      BY <1>2 DEF WakeupAllCopies, RecoveryInv, CallInv, SuspendedInv, TypeOK
    <3> QED BY <2>1, <3>1, PopQueue
  <2>3. /\ wpc[Inside] = "allCopy" /\ pc = "run" /\ awokenQ' = Append(awokenQ, t)
        /\ Goes(Inside, "allPop", t)
        /\ UNCHANGED <<runnableQ, waitingQ, status, yielded, adder, pc, broken>>
    BY <1>2, <2>1 DEF WakeupAllCopies, RecoveryInv, CallInv
  <2>4. IsAway(t) /\ t \notin Range(awokenQ) /\ Held(t)
    BY <2>2, <2>3 DEF RecoveryInv, SuspendedInv, IsAway, Copied
  <2>5. ~AwaitsTurn(t)
    BY <2>4 DEF RecoveryInv, QueuesInv, AwaitsTurn, Held, RunningInv, CallInv
  <2>6. \A u \in Tasks : Carriers(u)' = Carriers(u)
    BY <2>2, <2>3, EmptyHanded DEF RecoveryInv, Wakers, WakerPlaces
  <2>7. AtomicLifecycle!Wake({t})
    BY <2>2, <2>3, <2>4, <2>5, <2>6, PushWakes
  <2> QED BY <2>2, <2>7
<1> QED BY <1>1, <1>2

LEMMA TeardownCloses ==
  ASSUME RecoveryInv, RecoveryInv', broken = "no", UNCHANGED wakeVars, Destroy
  PROVE  AtomicLifecycle!Close
<1>1. /\ pc \in {"out", "returned", "thrown"} /\ pc' = "destroyed"
      /\ UNCHANGED <<status, adder, broken>>
      /\ status \in [Tasks -> Statuses]
  BY DEF Destroy, wakeVars, RecoveryInv, TypeOK
<1>2. SUFFICES ASSUME NEW t \in Tasks
               PROVE  CallStageOf(t)' = IF CallStageOf(t) \in {"ready", "held"} THEN "dropped"
                                    ELSE CallStageOf(t)
  BY <1>1 DEF AtomicLifecycle!Close
<1>3. CASE adder[t] = "new" \/ IsDone(t)
  BY <1>1, <1>3, CallStageAt, CallStageAfter DEF IsDone
<1>4. CASE adder[t] # "new" /\ ~IsDone(t)
  <2>1. CallStageOf(t)' = "dropped"
    BY <1>1, <1>4, CallStageAfter DEF IsDone
  <2>2. status[t] = "IDLE" \/ Held(t)
    BY <1>1, <1>4 DEF RecoveryInv, RunningInv, IsDone, Statuses, Held
  <2>3. AwaitsTurn(t) \/ IsAway(t)
    BY <1>1, <1>4, <2>2 DEF RecoveryInv, AdderInv, SuspendedInv, AwaitsTurn, IsAway
  <2> QED BY <1>1, <2>1, <2>3, CallStageAt
<1> QED BY <1>3, <1>4

\* The steps of Wakeup up to the search, the erasing, the pop of WakeupAll, and the end
\* of Hold: the task is where it was for the service.
LEMMA WakersStutter ==
  ASSUME RecoveryInv, broken = "no",
         \/ \E w \in Wakers, t \in Tasks : WakeupEnters(w, t)
         \/ \E w \in Wakers : \/ WakeupSearches(w) \/ WakeupFindsNothing(w) \/ WakeupErases(w)
                              \/ UsesGoneExecutor(w)
         \/ WakeupAllCalled \/ WakeupAllTests \/ WakeupAllRefersToFront
  PROVE  UNCHANGED AtomicLifecycle!lifeVars
<1>1. CASE \E w \in Wakers : WakeupErases(w)
  <2>1. PICK w \in Wakers : WakeupErases(w)
    BY <1>1
  <2>2. PICK t \in Tasks : t = target[w]
    BY <2>1 DEF WakeupErases, RecoveryInv, CallInv
  <2>3. PICK i \in DOMAIN waitingQ : waitingQ[i] = t /\ waitingQ' = Erase(waitingQ, i)
    BY <2>1, <2>2 DEF WakeupErases
  <2>4. Range(waitingQ) = Range(waitingQ') \cup {t}
    BY <2>3, EraseQueue DEF RecoveryInv, TypeOK
  <2>5. /\ wpc[w] = "search" /\ wpc' = [wpc EXCEPT ![w] = "push"]
        /\ target' = [target EXCEPT ![w] = t]
        /\ UNCHANGED <<runnableQ, awokenQ, status, yielded, adder, pc>>
    BY <2>1, <2>2 DEF WakeupErases, Goes
  <2>6. w \in Carriers(t)' /\ \A u \in Tasks \ {t} : Carriers(u)' = Carriers(u)
    BY <2>2, <2>5 DEF Carriers, RecoveryInv, RecoveryTypeOK
  <2>7. \A u \in Tasks : IsAway(u)' <=> IsAway(u)
    BY <2>4, <2>5, <2>6 DEF IsAway
  <2>8. \A u \in Tasks : CallStageOf(u)' = CallStageOf(u)
    BY <2>5, <2>7, SameStage DEF AwaitsTurn, IsDone
  <2> QED BY <2>5, <2>8, NoneMoves
<1>2. CASE \/ \E w \in Wakers, t \in Tasks : WakeupEnters(w, t)
           \/ \E w \in Wakers : WakeupSearches(w) \/ WakeupFindsNothing(w) \/ UsesGoneExecutor(w)
           \/ WakeupAllCalled \/ WakeupAllTests \/ WakeupAllRefersToFront
  <2>1. UNCHANGED <<runnableQ, waitingQ, awokenQ, status, yielded, adder, pc>>
    BY <1>2 DEF WakeupEnters, WakeupSearches, WakeupFindsNothing, UsesGoneExecutor, WakeupAllCalled,
                WakeupAllTests, WakeupAllRefersToFront, vars, queues
  <2>2. \A u \in Tasks : Carriers(u)' = Carriers(u)
    <3>1. ASSUME UNCHANGED <<wpc, target>>
          PROVE  \A u \in Tasks : Carriers(u)' = Carriers(u)
      BY <3>1 DEF Carriers
    <3>2. ASSUME NEW w \in Wakers, NEW v \in Tasks \cup {None},
                 NEW to \in WakerPlaces \ {"push"}, Goes(w, to, v),
                 wpc[w] # "push"
          PROVE  \A u \in Tasks : Carriers(u)' = Carriers(u)
      BY <3>2, EmptyHanded DEF RecoveryInv
    <3> QED BY <1>2, <3>1, <3>2 DEF WakeupEnters, WakeupSearches, WakeupFindsNothing,
              UsesGoneExecutor, WakeupAllCalled, WakeupAllTests, WakeupAllRefersToFront,
              RecoveryInv, CallInv, Wakers, WakerPlaces
  <2>3. \A u \in Tasks : CallStageOf(u)' = CallStageOf(u)
    BY <2>1, <2>2, SameStage DEF AwaitsTurn, IsAway, IsDone
  <2> QED BY <2>1, <2>3, NoneMoves
<1> QED BY <1>1, <1>2

LEMMA BodyStutters ==
  ASSUME RecoveryInv, broken = "no", WakeupAllPops \/ HoldGiveUp
  PROVE  UNCHANGED AtomicLifecycle!lifeVars
<1>1. CASE WakeupAllPops
  <2>1. PICK t : t = Head(waitingQ)
    OBVIOUS
  <2>2. /\ wpc[Inside] = "allPop" /\ pc = "run" /\ waitingQ \in Seq(Tasks) /\ waitingQ # <<>>
        /\ target[Inside] = t
    BY <1>1, <2>1 DEF WakeupAllPops, RecoveryInv, CallInv, TypeOK, SuspendedInv
  <2>3. t \in Tasks /\ Range(waitingQ) = Range(waitingQ') \cup {t}
    BY <1>1, <2>1, <2>2, PopQueue DEF WakeupAllPops
  <2>4. /\ UNCHANGED <<runnableQ, awokenQ, status, yielded, adder, pc>>
        /\ Goes(Inside, "allTest", None)
    BY <1>1 DEF WakeupAllPops
  <2>5. AwaitsTurn(t) /\ \A u \in Tasks : AwaitsTurn(u)' <=> AwaitsTurn(u)
    BY <2>2, <2>3, <2>4 DEF RecoveryInv, SuspendedInv, Copied, AwaitsTurn
  <2>6. \A u \in Tasks : Carriers(u)' = Carriers(u)
    BY <2>2, <2>4, EmptyHanded DEF RecoveryInv, Wakers, WakerPlaces
  <2>7. \A u \in Tasks \ {t} : IsAway(u)' <=> IsAway(u)
    BY <2>3, <2>4, <2>6 DEF IsAway
  <2>8. \A u \in Tasks : CallStageOf(u)' = CallStageOf(u)
    BY <2>4, <2>5, <2>7, SameStage DEF IsDone
  <2> QED BY <2>4, <2>8, NoneMoves
<1>2. CASE HoldGiveUp
  <2>1. PICK t \in Tasks : t = runningTask
    BY <1>2 DEF HoldGiveUp, Leave, RecoveryInv, RunningInv
  <2>2. /\ pc = "run" /\ pc' = "after" /\ status[t] = "RUNNING" /\ Held(t)
        /\ status' = [status EXCEPT ![t] = "HOLD"] /\ status \in [Tasks -> Statuses]
        /\ UNCHANGED <<runnableQ, waitingQ, awokenQ, yielded, adder, wpc, target>>
    BY <1>2, <2>1 DEF HoldGiveUp, Leave, queues, Held, RecoveryInv, RunningInv, TypeOK
  <2>3. AwaitsTurn(t) \/ IsAway(t)
    BY <2>2 DEF RecoveryInv, SuspendedInv, AwaitsTurn, IsAway
  <2>4. \A u \in Tasks : (AwaitsTurn(u)' <=> AwaitsTurn(u)) /\ (IsAway(u)' <=> IsAway(u))
    BY <2>2 DEF AwaitsTurn, IsAway, Carriers
  <2>5. \A u \in Tasks : (IsDone(u)' <=> IsDone(u)) /\ (u # t => status'[u] = status[u])
    BY <2>2 DEF IsDone
  <2>6. \A u \in Tasks : CallStageOf(u)' = CallStageOf(u)
    BY <2>2, <2>3, <2>4, <2>5, SameStage
  <2> QED BY <2>2, <2>6, NoneMoves
<1> QED BY <1>1, <1>2

\* Steps of the executor and its callers that move no task.
LEMMA ExecutorStutters ==
  ASSUME RecoveryInv, UNCHANGED wakeVars,
         \/ UNCHANGED vars \/ \E t \in Tasks : AddTaskNotify(t)
         \/ LoopTop \/ PickNothing \/ AfterResume \/ AfterExcept \/ CheckPredicate
         \/ Block \/ TimeOut \/ TimeOutStops \/ Process \/ SpuriousWakeup \/ Stop
  PROVE  UNCHANGED AtomicLifecycle!lifeVars
<1>1. /\ UNCHANGED <<runnableQ, waitingQ, awokenQ, status, yielded, wpc, target>>
      /\ pc' = "destroyed" <=> pc = "destroyed"
  BY DEF LoopTop, PickNothing, AfterResume, AfterExcept, CheckPredicate, Block, TimeOut, TimeOutStops, LeaveWait,
         Process, SpuriousWakeup, Stop, AddTaskNotify, vars, queues, wakeVars
<1>2. \A u \in Tasks : (adder'[u] = "new") <=> (adder[u] = "new")
  <2>1. CASE \E t \in Tasks : AddTaskNotify(t)
    BY <2>1 DEF AddTaskNotify, RecoveryInv, TypeOK
  <2>2. CASE ~ \E t \in Tasks : AddTaskNotify(t)
    <3>1. UNCHANGED adder
      BY <2>2 DEF LoopTop, PickNothing, AfterResume, AfterExcept, CheckPredicate, Block, TimeOut,
                  TimeOutStops, LeaveWait, Process, SpuriousWakeup, Stop, vars
    <3> QED BY <3>1
  <2> QED BY <2>1, <2>2
<1>3. \A u \in Tasks : CallStageOf(u)' = CallStageOf(u)
  BY <1>1, <1>2, SameStage DEF AwaitsTurn, IsAway, IsDone, Carriers
<1> QED BY <1>1, <1>3, NoneMoves

\* Hold, Wakeup and WakeupAll, each in its steps and called from any number of threads,
\* look atomic: every step is one step of the service's tasks, or none, up to the first
\* overlap without a defined outcome.
THEOREM WakeupsAreAtomic == RecoverySpec => WakeupsLookAtomic
<1>1. RecoveryInit => AtomicLifecycle!LifeInit
  BY DEF RecoveryInit, Init, AtomicLifecycle!LifeInit, CallStageOf, IsDone
<1>2. ASSUME RecoveryInv, RecoveryInv', [RecoveryNext]_recVars
      PROVE  [AtomicLifecycle!LifeNext]_(AtomicLifecycle!lifeVars)
  <2>1. CASE UNCHANGED recVars
    BY <1>2, <2>1, ExecutorStutters DEF recVars
  <2>2. CASE RecoveryNext
    <3> broken = "no"
      BY <2>2 DEF RecoveryNext, Defined
    <3>1. CASE \E t \in Tasks : AddTaskPush(t) /\ UNCHANGED wakeVars
      BY <1>2, <3>1, AddingSubmits DEF AtomicLifecycle!LifeNext
    <3>2. CASE (PickAwoken \/ PickRunnable) /\ UNCHANGED wakeVars
      BY <1>2, <3>2, PickingStarts DEF AtomicLifecycle!LifeNext
    <3>3. CASE BodyLeaves \/ HoldPush
      BY <1>2, <3>3, RunEndsOrSuspends DEF AtomicLifecycle!LifeNext
    <3>4. CASE (\E w \in Wakers : WakeupPushes(w)) \/ WakeupAllCopies
      BY <1>2, <3>4, WakeupStepsWake DEF AtomicLifecycle!LifeNext
    <3>5. CASE Destroy /\ UNCHANGED wakeVars
      BY <1>2, <3>5, TeardownCloses DEF AtomicLifecycle!LifeNext
    <3>6. CASE \/ \E w \in Wakers, t \in Tasks : WakeupEnters(w, t)
               \/ \E w \in Wakers : \/ WakeupSearches(w) \/ WakeupFindsNothing(w)
                                    \/ WakeupErases(w) \/ UsesGoneExecutor(w)
               \/ WakeupAllCalled \/ WakeupAllTests \/ WakeupAllRefersToFront
      BY <1>2, <3>6, WakersStutter
    <3>7. CASE WakeupAllPops \/ HoldGiveUp
      BY <1>2, <3>7, BodyStutters
    <3>8. CASE /\ \/ \E t \in Tasks : AddTaskNotify(t)
                  \/ LoopTop \/ PickNothing \/ AfterResume \/ AfterExcept \/ CheckPredicate
                  \/ Block \/ TimeOut \/ TimeOutStops \/ Process \/ SpuriousWakeup \/ Stop
               /\ UNCHANGED wakeVars
      BY <1>2, <3>8, ExecutorStutters
    <3> QED BY <2>2, <3>1, <3>2, <3>3, <3>4, <3>5, <3>6, <3>7, <3>8
            DEF RecoveryNext, WakeupStep, WakeupAllStep, HoldStep, ProcessStep
  <2> QED BY <1>2, <2>1, <2>2
<1> QED BY <1>1, <1>2, RecoveryInvariance, PTL DEF RecoverySpec, WakeupsLookAtomic, AtomicLifecycle!LifeSpec

=============================================================================
