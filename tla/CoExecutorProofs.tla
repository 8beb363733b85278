-------------------------- MODULE CoExecutorProofs --------------------------
(***************************************************************************)
(* Safety of CoExecutor for every set of tasks, every garbage limit, with  *)
(* and without a timeout.                                                  *)
(*                                                                         *)
(* IInv is inductive: one lemma per action, or per group of actions that   *)
(* disturb the same conjuncts of QueueInv, which is inductive alone, and   *)
(* one lemma for HeldInv relative to it.                                   *)
(***************************************************************************)
EXTENDS CoExecutorRefinement, QueueLemmas

\* Removing one element of a queue of distinct elements removes that element and
\* no other (ThreadSafeDeque::Erase).
LEMMA EraseQueue ==
  ASSUME NEW S, NEW q \in Seq(S), NEW i \in DOMAIN q
  PROVE  /\ Erase(q, i) \in Seq(S)
         /\ Range(q) = Range(Erase(q, i)) \cup {q[i]}
         /\ IsInjective(q) => IsInjective(Erase(q, i)) /\ q[i] \notin Range(Erase(q, i))
<1> DEFINE p == Erase(q, i)
           front == SubSeq(q, 1, i - 1)
           back  == SubSeq(q, i + 1, Len(q))
<1>1. i \in Int /\ Len(q) \in Nat /\ 1 <= i /\ i <= Len(q) /\ DOMAIN q = 1 .. Len(q)
  OBVIOUS
<1>2. /\ front \in Seq(S) /\ DOMAIN front = 1 .. (i - 1) /\ Len(front) = i - 1
      /\ \A k \in DOMAIN front : front[k] = q[k]
  BY <1>1
<1>3. /\ back \in Seq(S) /\ DOMAIN back = 1 .. (Len(q) - i)
      /\ \A k \in DOMAIN back : back[k] = q[i + k]
  BY <1>1
<1>4. p \in Seq(S) /\ Range(p) = Range(front) \cup Range(back)
  BY <1>2, <1>3, JoinQueues DEF Erase
<1>5. Range(q) = Range(front) \cup Range(back) \cup {q[i]}
  <2>1. ASSUME NEW y \in Range(q)
        PROVE  y \in Range(front) \cup Range(back) \cup {q[i]}
    <3>1. PICK k \in DOMAIN q : y = q[k]
      BY DEF Range
    <3>2. CASE k < i
      <4>1. k \in DOMAIN front /\ front[k] = y
        BY <1>1, <1>2, <3>1, <3>2
      <4> QED BY <4>1 DEF Range
    <3>3. CASE k > i
      <4>1. k - i \in DOMAIN back
        BY <1>1, <1>3, <3>3
      <4>2. back[k - i] = q[i + (k - i)] /\ i + (k - i) = k
        BY <1>1, <1>3, <4>1
      <4> QED BY <3>1, <4>1, <4>2 DEF Range
    <3> QED BY <1>1, <3>1, <3>2, <3>3
  <2>2. Range(front) \subseteq Range(q)
    BY <1>1, <1>2 DEF Range
  <2>3. ASSUME NEW y \in Range(back)
        PROVE  y \in Range(q)
    <3>1. PICK k \in DOMAIN back : y = back[k]
      BY DEF Range
    <3>2. i + k \in DOMAIN q /\ q[i + k] = y
      BY <1>1, <1>3, <3>1
    <3> QED BY <3>2 DEF Range
  <2> QED BY <1>1, <2>1, <2>2, <2>3 DEF Range
<1>6. ASSUME IsInjective(q)
      PROVE  IsInjective(p) /\ q[i] \notin Range(p)
  <2>1. \A k \in DOMAIN front : k \in DOMAIN q /\ k < i
    BY <1>1, <1>2
  <2>2. \A k \in DOMAIN back : k \in Int /\ i + k \in DOMAIN q /\ i + k > i
    BY <1>1, <1>3
  <2>3. IsInjective(front)
    BY <1>2, <1>6, <2>1 DEF IsInjective
  <2>4. IsInjective(back)
    <3>1. SUFFICES ASSUME NEW k \in DOMAIN back, NEW m \in DOMAIN back, back[k] = back[m]
                   PROVE  k = m
      BY DEF IsInjective
    <3>2. i + k = i + m
      BY <1>3, <1>6, <2>2, <3>1 DEF IsInjective
    <3> QED BY <1>1, <2>2, <3>2
  <2>5. Range(front) \cap Range(back) = {}
    <3>1. SUFFICES ASSUME NEW k \in DOMAIN front, NEW m \in DOMAIN back, front[k] = back[m]
                   PROVE  FALSE
      BY DEF Range
    <3>2. k = i + m
      BY <1>2, <1>3, <1>6, <2>1, <2>2, <3>1 DEF IsInjective
    <3> QED BY <1>1, <2>1, <2>2, <3>2
  <2>6. q[i] \notin Range(front)
    <3>1. SUFFICES ASSUME NEW k \in DOMAIN front, q[i] = front[k]
                   PROVE  FALSE
      BY DEF Range
    <3>2. k = i
      BY <1>2, <1>6, <2>1, <3>1 DEF IsInjective
    <3> QED BY <1>1, <2>1, <3>2
  <2>7. q[i] \notin Range(back)
    <3>1. SUFFICES ASSUME NEW k \in DOMAIN back, q[i] = back[k]
                   PROVE  FALSE
      BY DEF Range
    <3>2. i + k = i
      BY <1>3, <1>6, <2>2, <3>1 DEF IsInjective
    <3> QED BY <1>1, <2>2, <3>2
  <2> QED BY <1>2, <1>3, <1>4, <2>3, <2>4, <2>5, <2>6, <2>7, JoinQueues DEF Erase
<1> QED BY <1>4, <1>5, <1>6

-----------------------------------------------------------------------------
\* The part of the invariant that says what each queue holds.
QueueInv == TypeOK /\ OnePlace /\ RunningInv /\ TurnInv /\ AdderInv

\* The task is in one of the queues.
Queued(t) == t \in Range(runnableQ) \cup Range(waitingQ) \cup Range(awokenQ) \cup Range(finishedQ)

LEMMA InitQueueInv == ASSUME Init PROVE QueueInv
<1>1. /\ runnableQ = <<>> /\ waitingQ = <<>> /\ awokenQ = <<>> /\ finishedQ = <<>>
      /\ pc = "out" /\ status = [t \in Tasks |-> "IDLE"] /\ adder = [t \in Tasks |-> "new"]
  BY DEF Init
<1>2. TypeOK
  BY EmptyIsQueue DEF Init, TypeOK, Statuses, Places
<1>3. OnePlace
  BY <1>1, EmptyQueue DEF OnePlace
<1>4. RunningInv /\ TurnInv /\ AdderInv
  BY <1>1, EmptyQueue DEF RunningInv, TurnInv, AdderInv
<1> QED BY <1>2, <1>3, <1>4 DEF QueueInv

\* Steps that touch neither a queue nor a coroutine.
LEMMA QuietStep ==
  ASSUME QueueInv, Process \/ LoopTop \/ PickNothing \/ Block \/ SpuriousWakeup \/ Stop
  PROVE  QueueInv'
<1> USE DEF QueueInv, queues, flags
<1>1. UNCHANGED <<queues, runningTask, status, yielded, adder>>
  BY DEF Process, LoopTop, PickNothing, Block, SpuriousWakeup, Stop
<1>2. TypeOK'
  <2>1. UNCHANGED <<entries, yielded, cleanRightNow, everCleaned, aborted>>
    BY DEF Process, LoopTop, PickNothing, Block, SpuriousWakeup, Stop
  <2>2. bothReady' \in BOOLEAN /\ fromAwoken' \in BOOLEAN
    BY DEF TypeOK, Process, LoopTop, PickNothing, Block, SpuriousWakeup, Stop
  <2>3. mWaiting' \in BOOLEAN /\ mStopping' \in BOOLEAN
    BY DEF TypeOK, Process, LoopTop, PickNothing, Block, SpuriousWakeup, Stop
  <2>4. pc' \in Places
    BY DEF TypeOK, Places, Process, LoopTop, PickNothing, Block, SpuriousWakeup, Stop
  <2> QED BY <1>1, <2>1, <2>2, <2>3, <2>4 DEF TypeOK
<1>3. OnePlace'
  BY <1>1 DEF OnePlace, IsDone
<1>4. RunningInv'
  BY <1>1 DEF RunningInv, Process, LoopTop, PickNothing, Block, SpuriousWakeup, Stop
<1>5. TurnInv'
  BY <1>1 DEF TurnInv, Process, LoopTop, PickNothing, Block, SpuriousWakeup, Stop
<1>6. AdderInv'
  BY <1>1 DEF AdderInv, Process, LoopTop, PickNothing, Block, SpuriousWakeup, Stop
<1> QED BY <1>2, <1>3, <1>4, <1>5, <1>6

\* The end of a wait keeps the finished queue or empties it.
LEMMA WaitStep ==
  ASSUME QueueInv, CheckPredicate \/ TimeOut \/ TimeOutStops
  PROVE  QueueInv'
<1> USE DEF QueueInv, queues, flags
<1>1. /\ UNCHANGED <<runnableQ, waitingQ, awokenQ, runningTask, status, entries, yielded, adder,
                    bothReady, fromAwoken, aborted>>
      /\ finishedQ' = finishedQ \/ finishedQ' = <<>>
      /\ pc \in {"check", "blocked", "expired"} /\ pc' \in {"loop", "block", "expired"}
      /\ mWaiting' \in BOOLEAN /\ mStopping' \in BOOLEAN
      /\ cleanRightNow' \in BOOLEAN /\ everCleaned' \in BOOLEAN
  BY DEF CheckPredicate, TimeOut, TimeOutStops, LeaveWait, TypeOK
<1>2. TypeOK'
  <2>1. finishedQ' \in Seq(Tasks)
    BY <1>1, EmptyIsQueue DEF TypeOK
  <2>2. pc' \in Places
    BY <1>1 DEF Places
  <2> QED BY <1>1, <2>1, <2>2 DEF TypeOK
<1>3. OnePlace'
  BY <1>1, EmptyQueue DEF OnePlace, IsDone
<1>4. RunningInv'
  BY <1>1 DEF RunningInv
<1>5. TurnInv'
  BY <1>1 DEF TurnInv
<1>6. AdderInv'
  BY <1>1 DEF AdderInv
<1> QED BY <1>2, <1>3, <1>4, <1>5, <1>6

\* A task that is being added is fresh and in no queue.
LEMMA AddTaskPushStep ==
  ASSUME QueueInv, NEW t \in Tasks, AddTaskPush(t)
  PROVE  QueueInv'
<1> USE DEF QueueInv, AddTaskPush, flags
<1>1. status[t] = "IDLE" /\ t \notin Range(runnableQ)
  BY DEF AdderInv
<1>2. /\ runnableQ' \in Seq(Tasks) /\ runnableQ' # <<>>
      /\ Range(runnableQ') = Range(runnableQ) \cup {t}
      /\ IsInjective(runnableQ')
  <2>1. runnableQ \in Seq(Tasks) /\ IsInjective(runnableQ)
    BY DEF TypeOK, OnePlace
  <2>2. runnableQ' = Append(runnableQ, t)
    OBVIOUS
  <2> HIDE DEF QueueInv, AddTaskPush
  <2> QED BY <1>1, <2>1, <2>2, PushQueue
<1>3. TypeOK'
  BY <1>2 DEF TypeOK
<1>4. OnePlace'
  BY <1>1, <1>2 DEF OnePlace, IsDone
<1>5. RunningInv'
  BY DEF RunningInv
<1>6. TurnInv'
  BY <1>2 DEF TurnInv
<1>7. AdderInv'
  BY <1>2 DEF AdderInv, TypeOK
<1> QED BY <1>3, <1>4, <1>5, <1>6, <1>7

LEMMA AddTaskNotifyStep ==
  ASSUME QueueInv, NEW t \in Tasks, AddTaskNotify(t)
  PROVE  QueueInv'
<1> USE DEF QueueInv, AddTaskNotify, queues, flags
<1>1. TypeOK'
  BY DEF TypeOK, Places
<1>2. OnePlace'
  BY DEF OnePlace, IsDone
<1>3. RunningInv'
  BY DEF RunningInv
<1>4. TurnInv'
  BY DEF TurnInv
<1>5. AdderInv'
  BY DEF AdderInv, TypeOK
<1> QED BY <1>1, <1>2, <1>3, <1>4, <1>5

\* Taking the head of a queue whose coroutines can be resumed.
LEMMA PickAwokenStep ==
  ASSUME QueueInv, PickAwoken
  PROVE  QueueInv'
<1> DEFINE t == Head(awokenQ)
<1>1. /\ awokenQ \in Seq(Tasks) /\ IsInjective(awokenQ) /\ awokenQ # <<>>
      /\ awokenQ' = Tail(awokenQ) /\ pc = "pick"
      /\ UNCHANGED <<runnableQ, waitingQ, finishedQ, entries, yielded, adder, bothReady, mWaiting,
                    mStopping, cleanRightNow, everCleaned>>
      /\ fromAwoken' = TRUE
  BY DEF QueueInv, TypeOK, OnePlace, TurnInv, PickAwoken
<1>2. /\ t \in Tasks /\ t \in Range(awokenQ)
      /\ awokenQ' \in Seq(Tasks) /\ IsInjective(awokenQ')
      /\ Range(awokenQ) = Range(awokenQ') \cup {t} /\ t \notin Range(awokenQ')
  BY <1>1, PopQueue
<1>3. status[t] = "HOLD" /\ status \in [Tasks -> Statuses]
  BY <1>2 DEF QueueInv, OnePlace, TypeOK
<1>4. /\ runningTask' = t /\ pc' = "run" /\ aborted' \in BOOLEAN
      /\ status' = [status EXCEPT ![t] = "RUNNING"]
  BY <1>3 DEF PickAwoken, Resume, CanResume
<1>5. TypeOK'
  BY <1>1, <1>2, <1>3, <1>4 DEF QueueInv, TypeOK, Statuses, Places
<1>6. OnePlace'
  BY <1>1, <1>2, <1>3, <1>4 DEF QueueInv, OnePlace, IsDone
<1>7. RunningInv'
  BY <1>1, <1>2, <1>3, <1>4 DEF QueueInv, RunningInv
<1>8. TurnInv' /\ AdderInv'
  BY <1>1, <1>2, <1>3, <1>4 DEF QueueInv, TurnInv, AdderInv
<1> QED BY <1>5, <1>6, <1>7, <1>8 DEF QueueInv

LEMMA PickRunnableStep ==
  ASSUME QueueInv, PickRunnable
  PROVE  QueueInv'
<1> DEFINE t == Head(runnableQ)
<1>1. /\ runnableQ \in Seq(Tasks) /\ IsInjective(runnableQ) /\ runnableQ # <<>>
      /\ runnableQ' = Tail(runnableQ) /\ pc = "pick"
      /\ UNCHANGED <<waitingQ, awokenQ, finishedQ, entries, yielded, adder, bothReady, mWaiting,
                    mStopping, cleanRightNow, everCleaned>>
      /\ fromAwoken' = FALSE
  BY DEF QueueInv, TypeOK, OnePlace, TurnInv, PickRunnable
<1>2. /\ t \in Tasks /\ t \in Range(runnableQ)
      /\ runnableQ' \in Seq(Tasks) /\ IsInjective(runnableQ')
      /\ Range(runnableQ) = Range(runnableQ') \cup {t} /\ t \notin Range(runnableQ')
  BY <1>1, PopQueue
<1>3. /\ status[t] = "IDLE" /\ status \in [Tasks -> Statuses]
      /\ adder[t] # "new"
  BY <1>2 DEF QueueInv, OnePlace, TypeOK, AdderInv
<1>4. /\ runningTask' = t /\ pc' = "run" /\ aborted' \in BOOLEAN
      /\ status' = [status EXCEPT ![t] = "RUNNING"]
  BY <1>3 DEF PickRunnable, Resume, CanResume
<1>5. TypeOK'
  BY <1>1, <1>2, <1>3, <1>4 DEF QueueInv, TypeOK, Statuses, Places
<1>6. OnePlace'
  BY <1>1, <1>2, <1>3, <1>4 DEF QueueInv, OnePlace, IsDone
<1>7. RunningInv'
  BY <1>1, <1>2, <1>3, <1>4 DEF QueueInv, RunningInv
<1>8. TurnInv' /\ AdderInv'
  BY <1>1, <1>2, <1>3, <1>4 DEF QueueInv, TurnInv, AdderInv
<1> QED BY <1>5, <1>6, <1>7, <1>8 DEF QueueInv

\* The task in a coroutine is in no queue.
LEMMA RunningIsUnqueued ==
  ASSUME QueueInv, pc = "run"
  PROVE  /\ runningTask \in Tasks /\ status[runningTask] = "RUNNING"
         /\ ~Queued(runningTask)
         /\ adder[runningTask] # "new"
  BY DEF QueueInv, RunningInv, OnePlace, AdderInv, Queued, IsDone

\* A body that ends, or yields, leaves the queues alone.
LEMMA LeaveStep ==
  ASSUME QueueInv, Return \/ Throw \/ YieldCurrent
  PROVE  QueueInv'
<1>1. PICK st \in {"FINISHED", "EXCEPT", "HOLD"} :
        Leave(st) /\ UNCHANGED <<queues, entries>> /\ yielded' \subseteq yielded \cup {runningTask}
  BY DEF Return, Throw, YieldCurrent
<1>2. /\ pc = "run" /\ pc' = "after"
      /\ status' = [status EXCEPT ![runningTask] = st]
      /\ UNCHANGED <<runnableQ, waitingQ, awokenQ, finishedQ, entries, runningTask, adder,
                    bothReady, fromAwoken, mWaiting, mStopping, cleanRightNow, everCleaned,
                    aborted>>
      /\ yielded' \subseteq yielded \cup {runningTask}
  BY <1>1 DEF Leave, queues, flags
<1>3. /\ runningTask \in Tasks /\ status[runningTask] = "RUNNING"
      /\ ~Queued(runningTask) /\ adder[runningTask] # "new"
      /\ status \in [Tasks -> Statuses]
  BY <1>2, RunningIsUnqueued DEF QueueInv, TypeOK
<1>4. TypeOK'
  BY <1>2, <1>3 DEF QueueInv, TypeOK, Statuses, Places
<1>5. OnePlace'
  BY <1>2, <1>3 DEF QueueInv, OnePlace, IsDone, Queued
<1>6. RunningInv'
  BY <1>2, <1>3 DEF QueueInv, RunningInv, Queued
<1>7. TurnInv' /\ AdderInv'
  BY <1>2, <1>3 DEF QueueInv, TurnInv, AdderInv
<1> QED BY <1>4, <1>5, <1>6, <1>7 DEF QueueInv

LEMMA HoldThereStep ==
  ASSUME QueueInv, HoldThere
  PROVE  QueueInv'
<1>1. /\ pc = "run" /\ pc' = "after"
      /\ status' = [status EXCEPT ![runningTask] = "HOLD"]
      /\ waitingQ' = Append(waitingQ, runningTask)
      /\ entries' = entries \cup {runningTask}
      /\ UNCHANGED <<runnableQ, awokenQ, finishedQ, yielded, runningTask, adder, bothReady,
                    fromAwoken, mWaiting, mStopping, cleanRightNow, everCleaned, aborted>>
  BY DEF HoldThere, Leave, flags
<1>2. /\ runningTask \in Tasks /\ status[runningTask] = "RUNNING"
      /\ ~Queued(runningTask) /\ adder[runningTask] # "new"
      /\ status \in [Tasks -> Statuses]
      /\ waitingQ \in Seq(Tasks) /\ IsInjective(waitingQ)
  BY <1>1, RunningIsUnqueued DEF QueueInv, TypeOK, OnePlace
<1>3. /\ waitingQ' \in Seq(Tasks) /\ IsInjective(waitingQ')
      /\ Range(waitingQ') = Range(waitingQ) \cup {runningTask}
  BY <1>1, <1>2, PushQueue DEF Queued
<1>4. TypeOK'
  BY <1>1, <1>2, <1>3 DEF QueueInv, TypeOK, Statuses, Places
<1>5. OnePlace'
  BY <1>1, <1>2, <1>3 DEF QueueInv, OnePlace, IsDone, Queued
<1>6. RunningInv'
  BY <1>1, <1>2 DEF QueueInv, RunningInv, Queued
<1>7. TurnInv' /\ AdderInv'
  BY <1>1, <1>2 DEF QueueInv, TurnInv, AdderInv
<1> QED BY <1>4, <1>5, <1>6, <1>7 DEF QueueInv

\* The effect of both wakeups on the two queues of suspended tasks: elements
\* move from the waiting to the awoken queue, and nothing else changes.
Moved ==
  /\ waitingQ' \in Seq(Tasks) /\ IsInjective(waitingQ')
  /\ awokenQ' \in Seq(Tasks)  /\ IsInjective(awokenQ')
  /\ Range(waitingQ') \subseteq Range(waitingQ)
  /\ Range(waitingQ') \cap Range(awokenQ') = {}
  /\ Range(waitingQ') \cup Range(awokenQ') = Range(waitingQ) \cup Range(awokenQ)

LEMMA WakeupMoves ==
  ASSUME QueueInv, (\E t \in Tasks : Wakeup(t)) \/ WakeupAllTasks
  PROVE  Moved
<1>1. /\ waitingQ \in Seq(Tasks) /\ IsInjective(waitingQ)
      /\ awokenQ \in Seq(Tasks)  /\ IsInjective(awokenQ)
      /\ Range(waitingQ) \cap Range(awokenQ) = {}
  BY DEF QueueInv, TypeOK, OnePlace
<1>2. CASE UNCHANGED <<waitingQ, awokenQ>>
  BY <1>1, <1>2 DEF Moved
<1>3. ASSUME NEW i \in DOMAIN waitingQ,
             waitingQ' = Erase(waitingQ, i), awokenQ' = Append(awokenQ, waitingQ[i])
      PROVE  Moved
  <2>1. waitingQ[i] \in Tasks /\ waitingQ[i] \notin Range(awokenQ)
    BY <1>1 DEF Range
  <2>2. /\ awokenQ' \in Seq(Tasks) /\ IsInjective(awokenQ')
        /\ Range(awokenQ') = Range(awokenQ) \cup {waitingQ[i]}
    BY <1>1, <1>3, <2>1, PushQueue
  <2>3. /\ waitingQ' \in Seq(Tasks) /\ IsInjective(waitingQ')
        /\ Range(waitingQ) = Range(waitingQ') \cup {waitingQ[i]}
        /\ waitingQ[i] \notin Range(waitingQ')
    BY <1>1, <1>3, EraseQueue
  <2> QED BY <1>1, <2>2, <2>3 DEF Moved
<1>4. CASE awokenQ' = awokenQ \o waitingQ /\ waitingQ' = <<>>
  <2>1. /\ awokenQ' \in Seq(Tasks) /\ IsInjective(awokenQ')
        /\ Range(awokenQ') = Range(awokenQ) \cup Range(waitingQ)
    BY <1>1, <1>4, JoinQueues
  <2>2. /\ waitingQ' \in Seq(Tasks) /\ IsInjective(waitingQ')
        /\ Range(waitingQ') = {}
    BY <1>4, EmptyQueue, EmptyIsQueue
  <2> QED BY <2>1, <2>2 DEF Moved
<1>5. CASE WakeupAllTasks
  BY <1>4, <1>5 DEF WakeupAllTasks
<1>6. CASE \E t \in Tasks : Wakeup(t)
  BY <1>2, <1>3, <1>6 DEF Wakeup, WakeupFromEntry
<1> QED BY <1>5, <1>6

LEMMA WakeupQueues ==
  ASSUME QueueInv, (\E t \in Tasks : Wakeup(t)) \/ WakeupAllTasks
  PROVE  QueueInv'
<1>1. /\ pc = "run"
      /\ UNCHANGED <<runnableQ, finishedQ, runningTask, status, entries, yielded, adder, pc,
                    bothReady, fromAwoken, mWaiting, mStopping, cleanRightNow,
                    everCleaned, aborted>>
  BY DEF Wakeup, WakeupFromEntry, WakeupAllTasks, flags
<1>2. Moved
  BY WakeupMoves
<1>3. TypeOK'
  BY <1>1, <1>2 DEF QueueInv, TypeOK, Moved
<1>4. OnePlace'
  BY <1>1, <1>2 DEF QueueInv, OnePlace, IsDone, Moved
<1>5. RunningInv' /\ TurnInv' /\ AdderInv'
  BY <1>1 DEF QueueInv, RunningInv, TurnInv, AdderInv
<1> QED BY <1>3, <1>4, <1>5 DEF QueueInv

\* Back from Resume: an ended coroutine is kept, or dropped with the others.
LEMMA AfterStep ==
  ASSUME QueueInv, AfterResume \/ AfterExcept
  PROVE  QueueInv'
<1>1. /\ pc = "after" /\ pc' \in {"loop", "thrown"}
      /\ UNCHANGED <<runnableQ, waitingQ, awokenQ, status, entries, yielded, adder, bothReady,
                    fromAwoken, mWaiting, mStopping, cleanRightNow, aborted>>
      /\ runningTask' \in {runningTask, None}
      /\ everCleaned' \in BOOLEAN
  BY DEF AfterResume, AfterExcept, flags, QueueInv, TypeOK
<1>2. /\ runningTask \in Tasks \ Range(finishedQ)
      /\ status[runningTask] \in {"HOLD", "FINISHED", "EXCEPT"}
      /\ finishedQ \in Seq(Tasks) /\ IsInjective(finishedQ)
  BY <1>1 DEF QueueInv, TypeOK, OnePlace, RunningInv
<1>3. \/ finishedQ' = <<>> \/ finishedQ' = finishedQ
      \/ finishedQ' = Append(finishedQ, runningTask) /\ IsDone(runningTask)
  BY DEF AfterResume, AfterExcept, IsDone
<1>4. /\ finishedQ' \in Seq(Tasks) /\ IsInjective(finishedQ')
      /\ \A t \in Range(finishedQ') : t \in Range(finishedQ) \/ (t = runningTask /\ IsDone(t))
  <2>1. CASE finishedQ' = <<>>
    BY <2>1, EmptyQueue, EmptyIsQueue
  <2>2. CASE finishedQ' = finishedQ
    BY <1>2, <2>2
  <2>3. CASE finishedQ' = Append(finishedQ, runningTask) /\ IsDone(runningTask)
    BY <1>2, <2>3, PushQueue
  <2> QED BY <1>3, <2>1, <2>2, <2>3
<1>5. TypeOK'
  BY <1>1, <1>4 DEF QueueInv, TypeOK, Places
<1>6. OnePlace'
  BY <1>1, <1>4 DEF QueueInv, OnePlace, IsDone
<1>7. RunningInv' /\ TurnInv' /\ AdderInv'
  BY <1>1 DEF QueueInv, RunningInv, TurnInv, AdderInv
<1> QED BY <1>5, <1>6, <1>7 DEF QueueInv

LEMMA DestroyStep ==
  ASSUME QueueInv, Destroy
  PROVE  QueueInv'
<1>1. /\ pc \in {"out", "returned", "thrown"} /\ pc' = "destroyed" /\ runningTask' = None
      /\ runnableQ' = <<>> /\ waitingQ' = <<>> /\ awokenQ' = <<>> /\ finishedQ' = <<>>
      /\ aborted' \in BOOLEAN
      /\ UNCHANGED <<status, entries, yielded, adder, bothReady, fromAwoken, mWaiting, mStopping,
                    cleanRightNow, everCleaned>>
  BY DEF Destroy, flags, QueueInv, TypeOK
<1>2. TypeOK'
  BY <1>1, EmptyIsQueue DEF QueueInv, TypeOK, Places
<1>3. OnePlace'
  BY <1>1, EmptyQueue DEF OnePlace
<1>4. RunningInv' /\ TurnInv' /\ AdderInv'
  BY <1>1, EmptyQueue DEF QueueInv, RunningInv, TurnInv, AdderInv
<1> QED BY <1>2, <1>3, <1>4 DEF QueueInv

-----------------------------------------------------------------------------
LEMMA NextKeepsQueueInv == ASSUME QueueInv, [Next]_vars PROVE QueueInv'
<1>1. CASE UNCHANGED vars
  BY <1>1 DEF vars, queues, flags, QueueInv, TypeOK, OnePlace, IsDone, RunningInv, TurnInv,
              AdderInv
<1>2. CASE \E t \in Tasks : AddTaskPush(t) \/ AddTaskNotify(t)
  BY <1>2, AddTaskPushStep, AddTaskNotifyStep
<1>3. CASE (\E t \in Tasks : Wakeup(t)) \/ WakeupAllTasks
  BY <1>3, WakeupQueues
<1>4. CASE BodyEnds
  BY <1>4, LeaveStep, HoldThereStep DEF BodyEnds
<1>5. CASE ProcessStep
  BY <1>5, QuietStep, WaitStep, PickAwokenStep, PickRunnableStep, AfterStep
  DEF ProcessStep
<1>6. CASE Process \/ SpuriousWakeup \/ Stop
  BY <1>6, QuietStep
<1>7. CASE Destroy
  BY <1>7, DestroyStep
<1> QED BY <1>1, <1>2, <1>3, <1>4, <1>5, <1>6, <1>7 DEF Next

\* A coroutine is suspended by Hold, which queues it, or by Yield, which does not;
\* it leaves the two queues of the suspended only by being resumed, or with the
\* executor.
LEMMA HeldStep ==
  ASSUME QueueInv, HeldInv, [Next]_vars
  PROVE  HeldInv'
<1> DEFINE places == Range(waitingQ) \cup Range(awokenQ)
<1>1. SUFFICES ASSUME NEW t \in Tasks
               PROVE  /\ t \in yielded' => status'[t] = "HOLD" /\ t \notin places'
                      /\ status'[t] = "HOLD" =>
                           t \in places' \/ t \in yielded' \/ pc' = "destroyed"
  BY DEF HeldInv
<1>2. /\ status \in [Tasks -> Statuses] /\ yielded \subseteq Tasks
      /\ t \in yielded => status[t] = "HOLD" /\ t \notin places
      /\ status[t] = "HOLD" => t \in places \/ t \in yielded \/ pc = "destroyed"
  BY DEF QueueInv, TypeOK, HeldInv
<1>3. ASSUME UNCHANGED <<waitingQ, awokenQ, status, yielded>>,
             pc = "destroyed" => pc' = "destroyed"
      PROVE  HeldInv'
  BY <1>3 DEF HeldInv
<1>4. CASE UNCHANGED vars
  BY <1>3, <1>4 DEF vars, queues, HeldInv
<1>5. CASE \E u \in Tasks : AddTaskPush(u) \/ AddTaskNotify(u)
  BY <1>3, <1>5 DEF AddTaskPush, AddTaskNotify, queues, HeldInv
<1>6. CASE (\E u \in Tasks : Wakeup(u)) \/ WakeupAllTasks
  <2>1. Moved /\ UNCHANGED <<status, yielded, pc>>
    BY <1>6, WakeupMoves DEF Wakeup, WakeupFromEntry, WakeupAllTasks
  <2>2. places' = places
    BY <2>1 DEF Moved
  <2> HIDE DEF places
  <2> QED BY <1>2, <2>1, <2>2
<1>7. CASE BodyEnds
  <2>1. pc = "run" /\ runningTask' = runningTask
    BY <1>7 DEF BodyEnds, Return, Throw, YieldCurrent, HoldThere, Leave
  <2>2. runningTask \in Tasks /\ status[runningTask] = "RUNNING" /\ ~Queued(runningTask)
    BY <2>1, RunningIsUnqueued
  <2>3. CASE Return \/ Throw
    <3>1. /\ UNCHANGED <<waitingQ, awokenQ, yielded>>
          /\ \/ status' = [status EXCEPT ![runningTask] = "FINISHED"]
             \/ status' = [status EXCEPT ![runningTask] = "EXCEPT"]
      BY <2>3 DEF Return, Throw, Leave, queues
    <3> QED BY <1>2, <2>1, <2>2, <3>1
  <2>4. CASE YieldCurrent
    <3>1. /\ UNCHANGED <<waitingQ, awokenQ>> /\ yielded' = yielded \cup {runningTask}
          /\ status' = [status EXCEPT ![runningTask] = "HOLD"]
      BY <2>4 DEF YieldCurrent, Leave, queues
    <3> QED BY <1>2, <2>1, <2>2, <3>1 DEF Queued
  <2>5. CASE HoldThere
    <3>1. /\ UNCHANGED <<awokenQ, yielded>> /\ waitingQ' = Append(waitingQ, runningTask)
          /\ status' = [status EXCEPT ![runningTask] = "HOLD"]
      BY <2>5 DEF HoldThere, Leave
    <3>2. Range(waitingQ') = Range(waitingQ) \cup {runningTask}
      BY <2>2, <3>1, PushQueue DEF QueueInv, TypeOK
    <3> QED BY <1>2, <2>1, <2>2, <3>1, <3>2
  <2> QED BY <1>7, <2>3, <2>4, <2>5 DEF BodyEnds
<1>8. CASE PickAwoken
  <2> DEFINE u == Head(awokenQ)
  <2>1. /\ u \in Tasks /\ u \in Range(awokenQ) /\ u \notin Range(awokenQ')
        /\ Range(awokenQ) = Range(awokenQ') \cup {u} /\ u \notin Range(waitingQ)
        /\ status[u] = "HOLD" /\ pc = "pick" /\ UNCHANGED <<waitingQ, yielded>>
    <3>1. awokenQ \in Seq(Tasks) /\ awokenQ # <<>> /\ IsInjective(awokenQ)
      BY <1>8 DEF PickAwoken, QueueInv, TypeOK, OnePlace, TurnInv
    <3> QED BY <1>8, <3>1, PopQueue DEF PickAwoken, QueueInv, OnePlace
  <2>2. status' = [status EXCEPT ![u] = "RUNNING"]
    BY <1>8, <2>1 DEF PickAwoken, Resume, CanResume
  <2> HIDE DEF u
  <2> QED BY <1>2, <2>1, <2>2
<1>9. CASE PickRunnable
  <2> DEFINE u == Head(runnableQ)
  <2>1. /\ u \in Tasks /\ status[u] = "IDLE" /\ pc = "pick"
        /\ UNCHANGED <<waitingQ, awokenQ, yielded>>
    <3>1. runnableQ \in Seq(Tasks) /\ runnableQ # <<>>
      BY <1>9 DEF PickRunnable, QueueInv, TypeOK, TurnInv
    <3> QED BY <1>9, <3>1, PopQueue DEF PickRunnable, QueueInv, OnePlace
  <2>2. status' = [status EXCEPT ![u] = "RUNNING"]
    BY <1>9, <2>1 DEF PickRunnable, Resume, CanResume
  <2> HIDE DEF u
  <2> QED BY <1>2, <2>1, <2>2
<1>10. CASE AfterResume \/ AfterExcept
  BY <1>3, <1>10 DEF AfterResume, AfterExcept, HeldInv
<1>11. CASE LoopTop \/ PickNothing \/ Block \/ SpuriousWakeup \/ Stop \/ Process
  BY <1>3, <1>11 DEF LoopTop, PickNothing, Block, SpuriousWakeup, Stop, Process, queues, HeldInv
<1>12. CASE CheckPredicate \/ TimeOut \/ TimeOutStops
  BY <1>3, <1>12 DEF CheckPredicate, TimeOut, TimeOutStops, LeaveWait, queues, HeldInv
<1>13. CASE Destroy
  BY <1>2, <1>13, EmptyQueue DEF Destroy
<1> QED
  BY <1>4, <1>5, <1>6, <1>7, <1>8, <1>9, <1>10, <1>11, <1>12, <1>13 DEF Next, ProcessStep

\* Every step of the executor, its coroutines, its callers and its owner keeps
\* the invariant.
LEMMA NextKeepsIInv == ASSUME IInv, [Next]_vars PROVE IInv'
  BY NextKeepsQueueInv, HeldStep DEF IInv, QueueInv

THEOREM Invariance == Spec => []IInv
<1>1. Init => IInv
  BY InitQueueInv, EmptyQueue DEF Init, IInv, QueueInv, HeldInv
<1>2. IInv /\ [Next]_vars => IInv'
  BY NextKeepsIInv
<1> QED BY <1>1, <1>2, PTL DEF Spec

\* The variables always hold values of their types.
THEOREM TypeCorrect == Spec => []TypeOK
  BY Invariance, PTL DEF IInv

\* At all times a task is in one queue at most, once, and in the state the
\* consumer of that queue counts on, whatever the coroutines call.
THEOREM TasksInOnePlace == Spec => []OnePlace
  BY Invariance, PTL DEF IInv

\* Every suspended coroutine is in the waiting or the awoken queue of its executor,
\* or has yielded and is in neither.
THEOREM SuspendedIsQueued == Spec => []HeldInv
  BY Invariance, PTL DEF IInv

\* No task that was added is lost by the executor, except to Yield.
THEOREM TasksAreKept == Spec => []NoTaskLost
<1>1. ASSUME IInv
      PROVE  NoTaskLost
  <2>1. \A t \in Tasks : status[t] \in Statuses
    BY <1>1 DEF IInv, TypeOK
  <2> QED BY <1>1, <2>1
          DEF IInv, HeldInv, NoTaskLost, AdderInv, RunningInv, IsDone, Statuses
<1> QED BY <1>1, Invariance, PTL

\* What is taken from a queue can be resumed.
LEMMA NoAssertStep == ASSUME QueueInv, NoAssertFails, [Next]_vars PROVE NoAssertFails'
<1>1. CASE UNCHANGED aborted
  BY <1>1 DEF NoAssertFails
<1>2. CASE PickAwoken
  <2>1. awokenQ \in Seq(Tasks) /\ awokenQ # <<>>
    BY <1>2 DEF PickAwoken, QueueInv, TypeOK, TurnInv
  <2>2. CanResume(Head(awokenQ))
    BY <2>1, PopQueue DEF QueueInv, OnePlace, CanResume
  <2> QED BY <1>2, <2>2 DEF PickAwoken, Resume, NoAssertFails
<1>3. CASE PickRunnable
  <2>1. runnableQ \in Seq(Tasks) /\ runnableQ # <<>>
    BY <1>3 DEF PickRunnable, QueueInv, TypeOK, TurnInv
  <2>2. CanResume(Head(runnableQ))
    BY <2>1, PopQueue DEF QueueInv, OnePlace, CanResume
  <2> QED BY <1>3, <2>2 DEF PickRunnable, Resume, NoAssertFails
<1>4. CASE \/ UNCHANGED vars \/ WakeupAllTasks \/ BodyEnds
           \/ \E t \in Tasks : AddTaskPush(t) \/ AddTaskNotify(t) \/ Wakeup(t)
  BY <1>1, <1>4 DEF vars, WakeupAllTasks, BodyEnds, Return, Throw, YieldCurrent, HoldThere,
                    Leave, AddTaskPush, AddTaskNotify, Wakeup, WakeupFromEntry
<1>5. CASE \/ LoopTop \/ PickNothing \/ AfterResume \/ AfterExcept \/ CheckPredicate \/ Block
           \/ TimeOut \/ TimeOutStops \/ Process \/ SpuriousWakeup \/ Stop \/ Destroy
  BY <1>1, <1>5 DEF LoopTop, PickNothing, AfterResume, AfterExcept, CheckPredicate, Block,
                    TimeOut, TimeOutStops, LeaveWait, Process, SpuriousWakeup, Stop, Destroy
<1> QED BY <1>2, <1>3, <1>4, <1>5 DEF Next, ProcessStep

\* Coroutine::Resume is called on a coroutine that can be resumed, so its assertion
\* holds, whatever the coroutines call.
THEOREM AssertionsHold == Spec => []NoAssertFails
<1>1. IInv /\ NoAssertFails /\ [Next]_vars => NoAssertFails'
  BY NoAssertStep DEF IInv, QueueInv
<1>2. Init => NoAssertFails
  BY DEF Init, NoAssertFails
<1> QED BY <1>1, <1>2, Invariance, PTL DEF Spec

-----------------------------------------------------------------------------
(***************************************************************************)
(* Properties of single steps.                                             *)
(***************************************************************************)

\* A held task leaves the waiting queue for the awoken queue, whatever the
\* coroutines call.
THEOREM HeldLeavesByWakeup == Spec => HeldUntilWoken
<1> DEFINE A == \A t \in Range(waitingQ) \ Range(waitingQ') :
                  t \in Range(awokenQ') \/ pc' = "destroyed"
<1>1. ASSUME IInv, [Next]_vars
      PROVE  A
  <2>1. CASE (\E t \in Tasks : Wakeup(t)) \/ WakeupAllTasks
    BY <1>1, <2>1, WakeupMoves DEF Moved, IInv, QueueInv
  <2>2. CASE HoldThere
    <3>1. /\ runningTask \in Tasks /\ waitingQ \in Seq(Tasks)
          /\ waitingQ' = Append(waitingQ, runningTask)
      BY <1>1, <2>2, RunningIsUnqueued DEF HoldThere, Leave, IInv, QueueInv, TypeOK
    <3> QED BY <3>1, PushQueue
  <2>3. CASE Destroy
    BY <2>3 DEF Destroy
  <2>4. CASE UNCHANGED vars \/ \E t \in Tasks : AddTaskPush(t) \/ AddTaskNotify(t)
    BY <2>4 DEF vars, queues, AddTaskPush, AddTaskNotify
  <2>5. CASE Return \/ Throw \/ YieldCurrent
    BY <2>5 DEF Return, Throw, YieldCurrent, queues
  <2>6. CASE ProcessStep \/ Process \/ SpuriousWakeup \/ Stop
    <3>1. waitingQ' = waitingQ
      BY <2>6 DEF ProcessStep, LoopTop, PickAwoken, PickRunnable, PickNothing, AfterResume,
                  AfterExcept, CheckPredicate, Block, TimeOut, TimeOutStops, LeaveWait, Process,
                  SpuriousWakeup, Stop, queues
    <3> QED BY <3>1
  <2> QED BY <1>1, <2>1, <2>2, <2>3, <2>4, <2>5, <2>6 DEF Next, BodyEnds
<1> QED BY <1>1, Invariance, PTL DEF Spec, HeldUntilWoken

\* A coroutine that has yielded is never resumed, nor given up, for every executor.
THEOREM YieldedStaysOut == Spec => YieldIsFinal
<1> DEFINE A == \A t \in yielded : t \in yielded' /\ status'[t] = "HOLD"
<1>1. ASSUME IInv, [Next]_vars
      PROVE  A
  <2>1. HeldInv /\ HeldInv' /\ yielded' \subseteq Tasks
    BY <1>1, NextKeepsIInv DEF IInv, TypeOK
  <2>2. yielded \subseteq yielded'
    BY <1>1 DEF Next, vars, BodyEnds, ProcessStep, AddTaskPush, AddTaskNotify, Wakeup, WakeupAllTasks,
                Return, Throw, YieldCurrent, HoldThere, LoopTop, PickAwoken, PickRunnable,
                PickNothing, AfterResume, AfterExcept, CheckPredicate, Block, TimeOut,
                TimeOutStops, LeaveWait, Process, SpuriousWakeup, Stop, Destroy
  <2> QED BY <2>1, <2>2 DEF HeldInv
<1> QED BY <1>1, Invariance, PTL DEF Spec, YieldIsFinal

-----------------------------------------------------------------------------
(***************************************************************************)
(* A CoExecutor implements TaskLifecycle, for every set of tasks: the      *)
(* initial state is the service's, and every step of the executor is one   *)
(* step of the service, or none.  The mapping is StageOf; IInv says which  *)
(* stage a task is in before a step, and after it.                         *)
(***************************************************************************)
\* Where a task is tells its stage.
LEMMA StageAt ==
  ASSUME IInv, NEW t \in Tasks
  PROVE  /\ adder[t] = "new" => StageOf(t) = "new"
         /\ IsDone(t) => StageOf(t) = "ended"
         /\ status[t] = "RUNNING" => StageOf(t) = "running"
         /\ adder[t] # "new" /\ ~IsDone(t) /\ pc = "destroyed" => StageOf(t) = "dropped"
         /\ pc # "destroyed" /\ t \in Range(waitingQ) \cup yielded => StageOf(t) = "held"
         /\ pc # "destroyed" /\ t \in Range(runnableQ) \cup Range(awokenQ) => StageOf(t) = "ready"
  BY DEF IInv, StageOf, TypeOK, OnePlace, AdderInv, HeldInv, RunningInv, IsDone, Statuses

\* The same after a step.
LEMMA StageAfter ==
  ASSUME IInv', NEW t \in Tasks
  PROVE  /\ adder'[t] = "new" => StageOf(t)' = "new"
         /\ status'[t] \in {"FINISHED", "EXCEPT"} => StageOf(t)' = "ended"
         /\ status'[t] = "RUNNING" => StageOf(t)' = "running"
         /\ adder'[t] # "new" /\ status'[t] \notin {"FINISHED", "EXCEPT"} /\ pc' = "destroyed"
              => StageOf(t)' = "dropped"
         /\ pc' # "destroyed" /\ t \in Range(waitingQ') \cup yielded' => StageOf(t)' = "held"
         /\ pc' # "destroyed" /\ t \in Range(runnableQ') \cup Range(awokenQ')
              => StageOf(t)' = "ready"
  BY DEF IInv, StageOf, TypeOK, OnePlace, AdderInv, HeldInv, RunningInv, IsDone, Statuses

Stage == [t \in Tasks |-> StageOf(t)]
Open  == pc # "destroyed"

\* A step that changes the stage of one task, in a service that stays open.
LEMMA MoveOne ==
  ASSUME NEW t \in Tasks, NEW from, NEW to, Open, Open',
         StageOf(t) = from, StageOf(t)' = to,
         \A u \in Tasks \ {t} : StageOf(u)' = StageOf(u)
  PROVE  Lifecycle!Move(t, from, to)
  BY DEF Lifecycle!Move, Open

\* A step that keeps every task where it is.
LEMMA MoveNone ==
  ASSUME UNCHANGED <<runnableQ, waitingQ, awokenQ, status, yielded>>, Open' = Open,
         \A t \in Tasks : (adder'[t] = "new") = (adder[t] = "new")
  PROVE  UNCHANGED Lifecycle!lifeVars
<1>1. \A t \in Tasks : StageOf(t)' = StageOf(t)
  BY DEF StageOf, IsDone, Open
<1> QED BY <1>1 DEF Lifecycle!lifeVars, Open

\* Nobody runs outside of a coroutine, so the only slot is free.
LEMMA SlotIsFree ==
  ASSUME IInv, pc = "pick", NEW t \in Tasks, Lifecycle!Move(t, "ready", "running")
  PROVE  Lifecycle!Start(t)
<1>1. Lifecycle!InStage("running") = {}
  <2>1. SUFFICES ASSUME NEW u \in Tasks, StageOf(u) = "running"
                 PROVE  FALSE
    BY DEF Lifecycle!InStage
  <2>2. status[u] = "RUNNING"
    BY <2>1 DEF StageOf
  <2> QED BY <2>2 DEF IInv, RunningInv
<1>2. Lifecycle!Cardinality({}) = Cardinality({})
  BY DEF Lifecycle!Cardinality, Cardinality
<1> QED BY <1>1, <1>2, FS_EmptySet DEF Lifecycle!Start

LEMMA AddTaskSubmits ==
  ASSUME IInv, IInv', NEW t \in Tasks, AddTaskPush(t)
  PROVE  Lifecycle!Submit(t)
<1>1. /\ adder[t] = "new" /\ adder' = [adder EXCEPT ![t] = "pushed"] /\ Open /\ Open'
      /\ UNCHANGED <<waitingQ, awokenQ, status, yielded, pc>>
      /\ Range(runnableQ') = Range(runnableQ) \cup {t}
  BY PushQueue DEF AddTaskPush, Open, IInv, TypeOK
<1>2. StageOf(t) = "new" /\ StageOf(t)' = "ready"
  BY <1>1, StageAt, StageAfter DEF Open
<1>3. \A u \in Tasks \ {t} : StageOf(u)' = StageOf(u)
  BY <1>1 DEF StageOf, IsDone, IInv, TypeOK
<1> QED BY <1>1, <1>2, <1>3, MoveOne DEF Lifecycle!Submit

LEMMA PickStarts ==
  ASSUME IInv, IInv', PickAwoken \/ PickRunnable
  PROVE  \E t \in Tasks : Lifecycle!Start(t)
<1>1. PICK t \in Tasks :
        /\ status' = [status EXCEPT ![t] = "RUNNING"]
        /\ t \in Range(runnableQ) \cup Range(awokenQ)
        /\ Range(runnableQ') \cup {t} = Range(runnableQ) \cup {t}
        /\ Range(awokenQ') \cup {t} = Range(awokenQ) \cup {t}
  <2>1. CASE PickAwoken
    <3>1. awokenQ \in Seq(Tasks) /\ awokenQ # <<>>
      BY <2>1 DEF PickAwoken, IInv, TypeOK, TurnInv
    <3>2. /\ Head(awokenQ) \in Tasks /\ Head(awokenQ) \in Range(awokenQ)
          /\ Range(awokenQ) = Range(awokenQ') \cup {Head(awokenQ)}
          /\ runnableQ' = runnableQ
      BY <2>1, <3>1, PopQueue DEF PickAwoken
    <3>3. status[Head(awokenQ)] = "HOLD"
      BY <3>2 DEF IInv, OnePlace
    <3>4. status' = [status EXCEPT ![Head(awokenQ)] = "RUNNING"]
      BY <2>1, <3>3 DEF PickAwoken, Resume, CanResume
    <3> QED BY <3>2, <3>4
  <2>2. CASE PickRunnable
    <3>1. runnableQ \in Seq(Tasks) /\ runnableQ # <<>>
      BY <2>2 DEF PickRunnable, IInv, TypeOK, TurnInv
    <3>2. /\ Head(runnableQ) \in Tasks /\ Head(runnableQ) \in Range(runnableQ)
          /\ Range(runnableQ) = Range(runnableQ') \cup {Head(runnableQ)}
          /\ awokenQ' = awokenQ
      BY <2>2, <3>1, PopQueue DEF PickRunnable
    <3>3. status[Head(runnableQ)] = "IDLE"
      BY <3>2 DEF IInv, OnePlace
    <3>4. status' = [status EXCEPT ![Head(runnableQ)] = "RUNNING"]
      BY <2>2, <3>3 DEF PickRunnable, Resume, CanResume
    <3> QED BY <3>2, <3>4
  <2> QED BY <2>1, <2>2
<1>2. UNCHANGED <<waitingQ, yielded, adder>> /\ pc = "pick" /\ pc' \in {"run", "after"}
  BY DEF PickAwoken, PickRunnable, Resume
<1>3. status \in [Tasks -> Statuses]
  BY DEF IInv, TypeOK
<1>4. StageOf(t) = "ready" /\ StageOf(t)' = "running"
  BY <1>1, <1>2, <1>3, StageAt, StageAfter
<1>5. \A u \in Tasks \ {t} : StageOf(u)' = StageOf(u)
  BY <1>1, <1>2, <1>3 DEF StageOf, IsDone
<1>6. Lifecycle!Move(t, "ready", "running")
  BY <1>2, <1>4, <1>5, MoveOne DEF Open
<1> QED BY <1>2, <1>6, SlotIsFree

LEMMA BodyEndsOrSuspends ==
  ASSUME IInv, IInv', BodyEnds
  PROVE  \E t \in Tasks : Lifecycle!End(t) \/ Lifecycle!Suspend(t)
<1>1. PICK t \in Tasks :
      /\ status[t] = "RUNNING" /\ status \in [Tasks -> Statuses]
      /\ pc = "run" /\ pc' = "after" /\ UNCHANGED <<runnableQ, awokenQ, adder>>
      /\ Range(waitingQ') \ {t} = Range(waitingQ) \ {t} /\ yielded' \ {t} = yielded \ {t}
      /\ \/ status' = [status EXCEPT ![t] = "FINISHED"]
         \/ status' = [status EXCEPT ![t] = "EXCEPT"]
         \/ status' = [status EXCEPT ![t] = "HOLD"] /\ t \in Range(waitingQ') \cup yielded'
  <2>1. pc = "run" /\ waitingQ \in Seq(Tasks) /\ status \in [Tasks -> Statuses]
    BY DEF BodyEnds, Return, Throw, YieldCurrent, HoldThere, Leave, IInv, TypeOK
  <2>2. runningTask \in Tasks /\ status[runningTask] = "RUNNING"
    BY <2>1 DEF IInv, RunningInv
  <2>3. Range(Append(waitingQ, runningTask)) = Range(waitingQ) \cup {runningTask}
    BY <2>1, <2>2, PushQueue
  <2> QED BY <2>1, <2>2, <2>3 DEF BodyEnds, Return, Throw, YieldCurrent, HoldThere, Leave, queues
<1>2. StageOf(t) = "running"
  BY <1>1, StageAt
<1>3. \A u \in Tasks \ {t} : StageOf(u)' = StageOf(u)
  <2>1. SUFFICES ASSUME NEW u \in Tasks \ {t}
                 PROVE  StageOf(u)' = StageOf(u)
    OBVIOUS
  <2>2. status'[u] = status[u]
    BY <1>1
  <2>3. /\ u \in Range(waitingQ') <=> u \in Range(waitingQ)
        /\ u \in yielded' <=> u \in yielded
    BY <1>1
  <2> QED BY <1>1, <2>2, <2>3 DEF StageOf, IsDone
<1>4. StageOf(t)' \in {"ended", "held"}
  BY <1>1, StageAfter
<1>5. CASE StageOf(t)' = "ended"
  <2>1. Lifecycle!Move(t, "running", "ended")
    BY <1>1, <1>2, <1>3, <1>5, MoveOne DEF Open
  <2> QED BY <1>1, <2>1 DEF Lifecycle!Move, Lifecycle!End
<1>6. CASE StageOf(t)' = "held"
  BY <1>1, <1>2, <1>3, <1>6, MoveOne DEF Open, Lifecycle!Suspend
<1> QED BY <1>1, <1>4, <1>5, <1>6

LEMMA WakeupsWake ==
  ASSUME IInv, IInv', (\E t \in Tasks : Wakeup(t)) \/ WakeupAllTasks
  PROVE  UNCHANGED Lifecycle!lifeVars \/ \E S \in SUBSET Tasks : Lifecycle!Wake(S)
<1> DEFINE S == Range(waitingQ) \ Range(waitingQ')
<1>1. Moved /\ pc = "run" /\ UNCHANGED <<runnableQ, status, yielded, adder, pc>>
  BY WakeupMoves DEF Wakeup, WakeupFromEntry, WakeupAllTasks, IInv, QueueInv
<1>2. S \subseteq Tasks
  BY DEF IInv, TypeOK, Range
<1>3. \A t \in S : StageOf(t) = "held" /\ StageOf(t)' = "ready"
  <2>1. SUFFICES ASSUME NEW t \in S
                 PROVE  StageOf(t) = "held" /\ StageOf(t)' = "ready"
    OBVIOUS
  <2>2. t \in Tasks /\ t \in Range(waitingQ) /\ t \in Range(awokenQ')
    BY <1>1, <1>2, <2>1 DEF Moved
  <2> QED BY <1>1, <2>2, StageAt, StageAfter
<1>4. \A t \in Tasks \ S : StageOf(t)' = StageOf(t)
  <2>1. SUFFICES ASSUME NEW t \in Tasks \ S
                 PROVE  StageOf(t)' = StageOf(t)
    OBVIOUS
  <2>2. t \in Range(waitingQ') <=> t \in Range(waitingQ)
    BY <1>1, <2>1 DEF Moved
  <2>3. t \in Range(awokenQ') <=> t \in Range(awokenQ)
    BY <1>1, <2>2 DEF Moved, IInv, OnePlace
  <2> QED BY <1>1, <2>2, <2>3 DEF StageOf, IsDone
<1> HIDE DEF S
<1>5. CASE S = {}
  BY <1>1, <1>4, <1>5 DEF Lifecycle!lifeVars
<1>6. CASE S # {}
  BY <1>1, <1>2, <1>3, <1>4, <1>6 DEF Lifecycle!Wake, Lifecycle!InStage
<1> QED BY <1>5, <1>6

LEMMA DestroyCloses == ASSUME IInv, IInv', Destroy PROVE Lifecycle!Close
<1>1. /\ pc \in {"out", "returned", "thrown"} /\ pc' = "destroyed"
      /\ UNCHANGED <<status, adder>>
      /\ status \in [Tasks -> Statuses]
  BY DEF Destroy, IInv, TypeOK
<1>2. SUFFICES ASSUME NEW t \in Tasks
               PROVE  StageOf(t)' = IF StageOf(t) \in {"ready", "held"} THEN "dropped"
                                    ELSE StageOf(t)
  BY <1>1 DEF Lifecycle!Close
<1>3. CASE adder[t] = "new" \/ IsDone(t)
  BY <1>1, <1>3, StageAt, StageAfter DEF IsDone
<1>4. CASE adder[t] # "new" /\ ~IsDone(t)
  <2>1. StageOf(t)' = "dropped"
    BY <1>1, <1>4, StageAfter DEF IsDone
  <2>2. status[t] \in {"IDLE", "HOLD"}
    BY <1>1, <1>4 DEF IInv, RunningInv, IsDone, Statuses
  <2>3. t \in Range(runnableQ) \cup Range(waitingQ) \cup Range(awokenQ) \cup yielded
    BY <1>1, <1>4, <2>2 DEF IInv, AdderInv, HeldInv
  <2> QED BY <1>1, <2>1, <2>3, StageAt
<1> QED BY <1>3, <1>4

-----------------------------------------------------------------------------
\* With any tasks and any bodies, the four queues, the wait and the two-step AddTask
\* make one service: tasks are submitted once, run one at a time, come back from
\* Hold only through Wakeup, end once, and are dropped with the executor only.
THEOREM ExecutorIsAService == Spec => ImplementsLifecycle
<1>1. Init => Lifecycle!LifeInit
  BY DEF Init, Lifecycle!LifeInit, StageOf
<1>2. ASSUME IInv, IInv', [Next]_vars
      PROVE  [Lifecycle!LifeNext]_(Lifecycle!lifeVars)
  <2>1. CASE \E t \in Tasks : AddTaskPush(t)
    BY <1>2, <2>1, AddTaskSubmits DEF Lifecycle!LifeNext
  <2>2. CASE \E t \in Tasks : AddTaskNotify(t)
    <3>1. PICK t \in Tasks : AddTaskNotify(t)
      BY <2>2
    <3>2. \A u \in Tasks : (adder'[u] = "new") = (adder[u] = "new")
      BY <1>2, <3>1 DEF AddTaskNotify, IInv, TypeOK
    <3> QED BY <3>1, <3>2, MoveNone DEF AddTaskNotify, queues, Open
  <2>3. CASE (\E t \in Tasks : Wakeup(t)) \/ WakeupAllTasks
    BY <1>2, <2>3, WakeupsWake DEF Lifecycle!LifeNext
  <2>4. CASE BodyEnds
    BY <1>2, <2>4, BodyEndsOrSuspends DEF Lifecycle!LifeNext
  <2>5. CASE PickAwoken \/ PickRunnable
    BY <1>2, <2>5, PickStarts DEF Lifecycle!LifeNext
  <2>6. CASE Destroy
    BY <1>2, <2>6, DestroyCloses DEF Lifecycle!LifeNext
  <2>7. CASE \/ LoopTop \/ PickNothing \/ AfterResume \/ AfterExcept \/ CheckPredicate
             \/ Block \/ TimeOut \/ TimeOutStops \/ Process \/ SpuriousWakeup \/ Stop \/ UNCHANGED vars
    <3>1. UNCHANGED <<runnableQ, waitingQ, awokenQ, status, yielded, adder>> /\ Open' = Open
      BY <2>7 DEF LoopTop, PickNothing, AfterResume, AfterExcept, CheckPredicate, Block,
                  TimeOut, TimeOutStops, LeaveWait, Process, SpuriousWakeup, Stop, vars, queues, Open
    <3> QED BY <3>1, MoveNone
  <2> QED BY <1>2, <2>1, <2>2, <2>3, <2>4, <2>5, <2>6, <2>7 DEF Next, ProcessStep
<1> QED BY <1>1, <1>2, Invariance, PTL DEF Spec, ImplementsLifecycle, Lifecycle!LifeSpec

=============================================================================
