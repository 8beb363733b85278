-------------------------- MODULE ThreadPoolProofs --------------------------
(***************************************************************************)
(* Safety of ThreadPool for every number of workers and tasks: IInv is     *)
(* inductive.  The lemmas follow the actions; those that move one thread   *)
(* and nothing else are treated together.                                  *)
(*                                                                         *)
(* Then that a pool implements TaskLifecycle, for every set of functions   *)
(* and any finite number of workers.  The mapping is StageOf; IInv says    *)
(* which stage a function is in before a step, and after it.               *)
(***************************************************************************)
EXTENDS ThreadPoolRefinement, QueueLemmas

LEMMA InitIInv == ASSUME Init PROVE IInv
<1>1. TypeOK
  BY EmptyIsQueue DEF Init, TypeOK
<1>2. RunOnce
  BY PoolAssumption, EmptyQueue DEF Init, RunOnce, Holders
<1>3. WorkerInv /\ NoSleepOnWork
  BY DEF Init, WorkerInv, NoSleepOnWork
<1>4. GoneInv
  BY DEF Init, GoneInv
<1> QED BY <1>1, <1>2, <1>3, <1>4 DEF IInv

\* SchedulerTask before the push, and NotifyCondition's test.
LEMMA CallerMovesStep ==
  ASSUME IInv, NEW t \in Tasks, SchedulerTask(t) \/ NotifyTest(t)
  PROVE  IInv'
<1>1. /\ UNCHANGED <<tasksQ, flags, wpc, fn, ended, own, broken>>
      /\ \/ caller[t] = "new" /\ owner # "gone" /\ caller' = [caller EXCEPT ![t] = "push"]
         \/ caller[t] = "new" /\ caller' = [caller EXCEPT ![t] = "refused"]
         \/ caller[t] = "test" /\ caller' = [caller EXCEPT ![t] = "notify"]
         \/ caller[t] = "test" /\ tasksQ = <<>> /\ caller' = [caller EXCEPT ![t] = "added"]
  BY DEF SchedulerTask, NotifyTest, CallerMoves
<1>2. caller \in [Tasks -> {"new", "push", "test", "notify", "added", "refused"}]
  BY DEF IInv, TypeOK
<1>3. TypeOK'
  BY <1>1, <1>2 DEF IInv, TypeOK, flags, own
<1>4. RunOnce'
  BY <1>1, <1>2 DEF IInv, RunOnce, Holders, own
<1>5. NoSleepOnWork'
  BY <1>1, <1>2 DEF IInv, NoSleepOnWork, flags, own
<1>6. WorkerInv'
  BY <1>1 DEF IInv, WorkerInv, flags, own
<1>7. GoneInv'
  BY <1>1, <1>2 DEF IInv, GoneInv, own
<1> QED BY <1>3, <1>4, <1>5, <1>6, <1>7 DEF IInv

LEMMA PushStep ==
  ASSUME IInv, NEW t \in Tasks, Push(t)
  PROVE  IInv'
<1>1. /\ caller[t] = "push" /\ caller' = [caller EXCEPT ![t] = "test"]
      /\ tasksQ' = Append(tasksQ, t)
      /\ UNCHANGED <<mStarted, mStopped, mIsStopping, wpc, fn, ended, owner, joinArg, handle,
                    broken>>
  BY DEF Push, CallerMoves, flags, own
<1>2. /\ t \notin Range(tasksQ) \cup ended /\ Holders(t) = {}
      /\ tasksQ \in Seq(Tasks) /\ IsInjective(tasksQ)
      /\ caller \in [Tasks -> {"new", "push", "test", "notify", "added", "refused"}]
  BY <1>1 DEF IInv, TypeOK, RunOnce
<1>3. /\ tasksQ' \in Seq(Tasks) /\ IsInjective(tasksQ')
      /\ Range(tasksQ') = Range(tasksQ) \cup {t}
  BY <1>1, <1>2, PushQueue
<1>4. TypeOK'
  BY <1>1, <1>2, <1>3 DEF IInv, TypeOK
<1>5. RunOnce'
  BY <1>1, <1>2, <1>3 DEF IInv, RunOnce, Holders
<1>6. NoSleepOnWork'
  BY <1>1, <1>2 DEF NoSleepOnWork
<1>7. WorkerInv'
  BY <1>1 DEF IInv, WorkerInv
<1>8. GoneInv'
  BY <1>1 DEF IInv, GoneInv
<1> QED BY <1>4, <1>5, <1>6, <1>7, <1>8 DEF IInv

\* Both notifications bring the blocked workers back to their predicate.
LEMMA WakeAllStep ==
  ASSUME IInv, WakeAll
  PROVE  /\ wpc' \in [Workers -> {"none", "top", "wait", "blocked", "peek", "take", "run", "exit"}]
         /\ \A w \in Workers : \/ wpc'[w] = wpc[w] /\ wpc[w] # "blocked"
                               \/ wpc'[w] = "wait" /\ wpc[w] = "blocked"
  BY DEF IInv, TypeOK, WakeAll

LEMMA NotifyStep ==
  ASSUME IInv, \/ \E t \in Tasks : Notify(t)
               \/ StopNotify
  PROVE  IInv'
<1>1. /\ UNCHANGED <<tasksQ, mStarted, mStopped, mIsStopping, fn, ended, joinArg, handle, broken>>
      /\ owner' = owner \/ (owner \notin {"start", "gone"} /\ owner' \in {"join", "detach"})
      /\ WakeAll
  BY DEF Notify, CallerMoves, StopNotify, OwnerMoves, AfterNotify, flags, own
<1>2. \/ caller' = caller
      \/ \E t \in Tasks : caller[t] = "notify" /\ caller' = [caller EXCEPT ![t] = "added"]
  BY DEF Notify, CallerMoves, StopNotify, OwnerMoves
<1>3. caller \in [Tasks -> {"new", "push", "test", "notify", "added", "refused"}]
  BY DEF IInv, TypeOK
<1>4. TypeOK'
  BY <1>1, <1>2, <1>3, WakeAllStep DEF IInv, TypeOK
<1>5. RunOnce'
  BY <1>1, <1>2, <1>3 DEF IInv, RunOnce, Holders
<1>6. WorkerInv'
  BY <1>1, WakeAllStep DEF IInv, WorkerInv
<1>7. NoSleepOnWork'
  <2>1. SUFFICES ASSUME tasksQ # <<>>, mStarted, ~mIsStopping
                 PROVE  \/ \E w \in Workers : wpc'[w] \notin {"none", "blocked", "exit"}
                        \/ owner' = "start" /\ \E w \in Workers : wpc'[w] = "none"
    BY <1>1 DEF NoSleepOnWork
  <2>2. PICK w \in Workers : owner = "start" \/ wpc[w] # "none"
    BY <2>1, PoolAssumption DEF IInv, WorkerInv
  <2>3. wpc[w] # "exit"
    BY <2>1 DEF IInv, WorkerInv, GoneInv
  <2> QED BY <1>1, <2>2, <2>3, WakeAllStep
<1>8. GoneInv'
  BY <1>1, <1>2, <1>3 DEF IInv, GoneInv
<1> QED BY <1>4, <1>5, <1>6, <1>7, <1>8 DEF IInv

\* A worker goes from one place to another; the queue, the functions and the
\* callers are as they were.
LEMMA WorkerMovesStep ==
  ASSUME IInv, NEW w \in Workers,
         WorkerTop(w) \/ WaitForCondition(w) \/ SpuriousWakeup(w) \/ Peek(w)
  PROVE  IInv'
<1>1. PICK to \in {"top", "wait", "blocked", "peek", "take", "exit"} :
        /\ owner # "gone"
        /\ wpc[w] \in {"top", "wait", "blocked", "peek"}
        /\ wpc' = [wpc EXCEPT ![w] = to]
        /\ to = "exit" => ~mStarted \/ mIsStopping
        /\ to = "blocked" => tasksQ = <<>>
        /\ UNCHANGED <<tasksQ, mStarted, mStopped, mIsStopping, fn, ended, caller, owner,
                      joinArg, handle, broken>>
  BY DEF WorkerTop, WaitForCondition, SpuriousWakeup, Peek, WorkerMoves, flags, own
<1>2. wpc \in [Workers -> {"none", "top", "wait", "blocked", "peek", "take", "run", "exit"}]
  BY DEF IInv, TypeOK
<1>3. TypeOK'
  BY <1>1, <1>2 DEF IInv, TypeOK
<1>4. RunOnce'
  BY <1>1 DEF IInv, RunOnce, Holders
<1>5. WorkerInv'
  BY <1>1, <1>2 DEF IInv, WorkerInv
<1>6. GoneInv'
  BY <1>1 DEF GoneInv
<1>7. NoSleepOnWork'
  <2>1. SUFFICES ASSUME tasksQ # <<>>, mStarted, ~mIsStopping
                 PROVE  \E v \in Workers : wpc'[v] \notin {"none", "blocked", "exit"}
    BY <1>1 DEF NoSleepOnWork
  <2> QED BY <1>1, <1>2, <2>1
<1> QED BY <1>3, <1>4, <1>5, <1>6, <1>7 DEF IInv

LEMMA TakeStep ==
  ASSUME IInv, NEW w \in Workers, Take(w)
  PROVE  IInv'
<1> DEFINE t == Head(tasksQ)
<1>1. /\ tasksQ # <<>> /\ owner # "gone" /\ wpc[w] = "take"
      /\ wpc' = [wpc EXCEPT ![w] = "run"] /\ fn' = [fn EXCEPT ![w] = t]
      /\ tasksQ' = Tail(tasksQ)
      /\ UNCHANGED <<mStarted, mStopped, mIsStopping, ended, caller, owner, joinArg, handle,
                    broken>>
  BY DEF Take, WorkerMoves, flags, own
<1>2. /\ tasksQ \in Seq(Tasks) /\ IsInjective(tasksQ)
      /\ wpc \in [Workers -> {"none", "top", "wait", "blocked", "peek", "take", "run", "exit"}]
      /\ fn \in [Workers -> Tasks \cup {None}]
      /\ fn[w] = None
  BY <1>1 DEF IInv, TypeOK, RunOnce, WorkerInv
<1>3. /\ t \in Tasks /\ t \in Range(tasksQ) /\ t \notin Range(tasksQ')
      /\ tasksQ' \in Seq(Tasks) /\ IsInjective(tasksQ')
      /\ Range(tasksQ) = Range(tasksQ') \cup {t}
  BY <1>1, <1>2, PopQueue
<1>4. /\ t \notin ended /\ Holders(t) = {}
      /\ caller[t] \notin {"new", "push", "refused"}
  BY <1>3 DEF IInv, RunOnce
<1>5. \A v \in Workers : /\ fn'[v] = t <=> v = w
                         /\ \A u \in Tasks : u # t => (fn'[v] = u <=> fn[v] = u)
  <2>1. \A v \in Workers : fn[v] # t
    BY <1>4 DEF Holders
  <2>2. t # None
    BY <1>3, PoolAssumption
  <2> QED BY <1>1, <1>2, <2>1, <2>2, PoolAssumption
<1>6. TypeOK'
  BY <1>1, <1>2, <1>3 DEF IInv, TypeOK
<1>7. RunOnce'
  <2>1. ASSUME NEW u \in Tasks, NEW v \in Workers, NEW x \in Workers,
               fn'[v] = u, fn'[x] = u
        PROVE  v = x
    <3>1. CASE u = t
      BY <1>5, <2>1, <3>1
    <3>2. CASE u # t
      <4>1. fn[v] = u /\ fn[x] = u
        BY <1>5, <2>1, <3>2
      <4> QED BY <4>1 DEF IInv, RunOnce, Holders
    <3> QED BY <3>1, <3>2
  <2>2. ASSUME NEW u \in Range(tasksQ')
        PROVE  u \in Tasks /\ u # t /\ u \in Range(tasksQ)
    <3>1. u \in Range(tasksQ) /\ u # t
      BY <1>3
    <3>2. PICK i \in 1 .. Len(tasksQ) : u = tasksQ[i]
      BY <1>2, <3>1 DEF Range
    <3> QED BY <1>2, <3>1, <3>2
  <2>3. \A u \in Range(tasksQ') : u \notin ended /\ \A v \in Workers : fn'[v] # u
    BY <1>5, <2>2 DEF IInv, RunOnce, Holders
  <2>4. \A u \in ended : \A v \in Workers : fn'[v] # u
    BY <1>4, <1>5 DEF IInv, RunOnce, Holders, TypeOK
  <2>5. ASSUME NEW u \in Tasks
        PROVE  IF caller[u] \in {"new", "push", "refused"}
               THEN u \notin Range(tasksQ') \cup ended /\ \A v \in Workers : fn'[v] # u
               ELSE u \in Range(tasksQ') \cup ended \/ \E v \in Workers : fn'[v] = u
    <3>1. CASE u = t
      BY <1>4, <1>5, <3>1
    <3>2. CASE u # t
      <4>1. u \in Range(tasksQ') <=> u \in Range(tasksQ)
        BY <1>3, <3>2
      <4>2. \A v \in Workers : fn'[v] = u <=> fn[v] = u
        BY <1>5, <3>2
      <4> QED BY <1>1, <4>1, <4>2 DEF IInv, RunOnce, Holders
    <3> QED BY <3>1, <3>2
  <2>6. UNCHANGED <<caller, ended, owner>>
    BY <1>1
  <2> QED BY <1>3, <2>1, <2>3, <2>4, <2>5, <2>6 DEF RunOnce, Holders
<1>8. WorkerInv'
  BY <1>1, <1>2, <1>3, PoolAssumption DEF IInv, WorkerInv
<1>9. NoSleepOnWork' /\ GoneInv'
  BY <1>1, <1>2 DEF NoSleepOnWork, GoneInv
<1> QED BY <1>6, <1>7, <1>8, <1>9 DEF IInv

\* The function a worker has run joins those that have ended, wherever the pool is.
LEMMA RunEndsStep ==
  ASSUME IInv, NEW w \in Workers, RunEnds(w)
  PROVE  IInv'
<1> DEFINE t == fn[w]
<1>1. /\ wpc[w] = "run" /\ wpc' = [wpc EXCEPT ![w] = "top"]
      /\ ended' = ended \cup {t} /\ fn' = [fn EXCEPT ![w] = None]
      /\ UNCHANGED <<tasksQ, mStarted, mStopped, mIsStopping, caller, owner, joinArg, handle,
                    broken>>
  BY DEF RunEnds, flags, own
<1>2. /\ wpc \in [Workers -> {"none", "top", "wait", "blocked", "peek", "take", "run", "exit"}]
      /\ fn \in [Workers -> Tasks \cup {None}]
      /\ t \in Tasks
      /\ tasksQ \in Seq(Tasks) /\ IsInjective(tasksQ)
  BY <1>1 DEF IInv, TypeOK, WorkerInv, RunOnce
<1>3. \A v \in Workers : fn[v] = t => v = w
  BY <1>2 DEF IInv, RunOnce, Holders
<1>4. \A v \in Workers : \A u \in Tasks : fn'[v] = u <=> fn[v] = u /\ u # t
  BY <1>1, <1>2, <1>3, PoolAssumption
<1>5. t \notin Range(tasksQ) /\ caller[t] \notin {"new", "push", "refused"}
  BY <1>1, <1>2 DEF IInv, RunOnce, Holders
<1>6. TypeOK'
  BY <1>1, <1>2 DEF IInv, TypeOK
<1>7. RunOnce'
  <2>1. ASSUME NEW u \in Tasks, NEW v \in Workers, NEW x \in Workers,
               fn'[v] = u, fn'[x] = u
        PROVE  v = x
    BY <1>4, <2>1 DEF IInv, RunOnce, Holders
  <2>2. \A u \in Range(tasksQ) : u \in Tasks /\ u # t
    BY <1>2, <1>5 DEF Range
  <2>3. \A u \in Range(tasksQ) : u \notin ended' /\ \A v \in Workers : fn'[v] # u
    BY <1>1, <1>4, <2>2 DEF IInv, RunOnce, Holders
  <2>4. \A u \in ended' : \A v \in Workers : fn'[v] # u
    BY <1>1, <1>2, <1>4 DEF IInv, RunOnce, Holders, TypeOK
  <2>5. ASSUME NEW u \in Tasks
        PROVE  IF caller[u] \in {"new", "push", "refused"}
               THEN u \notin Range(tasksQ) \cup ended' /\ \A v \in Workers : fn'[v] # u
               ELSE \/ u \in Range(tasksQ) \cup ended' \/ \E v \in Workers : fn'[v] = u
                    \/ owner = "gone"
    <3>1. CASE u = t
      BY <1>1, <1>5, <3>1
    <3>2. CASE u # t
      BY <1>1, <1>4, <3>2 DEF IInv, RunOnce, Holders
    <3> QED BY <3>1, <3>2
  <2>6. UNCHANGED <<tasksQ, caller, owner>>
    BY <1>1
  <2> QED BY <1>2, <2>1, <2>3, <2>4, <2>5, <2>6 DEF RunOnce, Holders
<1>8. WorkerInv'
  BY <1>1, <1>2, PoolAssumption DEF IInv, WorkerInv
<1>9. NoSleepOnWork' /\ GoneInv'
  BY <1>1, <1>2 DEF IInv, NoSleepOnWork, GoneInv
<1> QED BY <1>6, <1>7, <1>8, <1>9 DEF IInv

\* What is undefined is the end of the behaviour; the rest is as it was.
LEMMA BrokenStep ==
  ASSUME IInv, NEW w \in Workers, TakeFromEmpty(w) \/ TouchDestroyed(w)
  PROVE  IInv'
<1>1. /\ broken' \in {"popEmpty", "useAfterFree"}
      /\ UNCHANGED <<tasksQ, mStarted, mStopped, mIsStopping, wpc, fn, ended, caller, owner,
                    joinArg, handle>>
  BY DEF TakeFromEmpty, TouchDestroyed, flags, own
<1>2. TypeOK' /\ RunOnce'
  BY <1>1 DEF IInv, TypeOK, RunOnce, Holders
<1>3. WorkerInv' /\ GoneInv'
  BY <1>1 DEF IInv, WorkerInv, GoneInv
<1>4. NoSleepOnWork'
  BY <1>1 DEF NoSleepOnWork
<1> QED BY <1>2, <1>3, <1>4 DEF IInv

\* Start lets tasks in, and then makes one thread after the other.
LEMMA StartSteps ==
  ASSUME IInv, Start \/ \E w \in Workers : CreateThread(w)
  PROVE  IInv'
<1>1. /\ UNCHANGED <<tasksQ, mIsStopping, fn, ended, caller, joinArg, broken>>
      /\ owner' = "start" /\ mStarted' = TRUE /\ mStopped' \in BOOLEAN /\ owner # "gone"
      /\ \/ ~mStarted /\ owner = "idle" /\ UNCHANGED <<handle, wpc>>
         \/ \E w \in Workers : /\ owner = "start" /\ handle[w] = "none"
                               /\ handle' = [handle EXCEPT ![w] = "joinable"]
                               /\ wpc' = [wpc EXCEPT ![w] = "top"]
  BY DEF Start, CreateThread, flags, IInv, TypeOK, WorkerInv
<1>2. /\ handle \in [Workers -> {"none", "joinable", "joined", "detached"}]
      /\ wpc \in [Workers -> {"none", "top", "wait", "blocked", "peek", "take", "run", "exit"}]
  BY DEF IInv, TypeOK
<1>3. TypeOK'
  <2>1. /\ handle' \in [Workers -> {"none", "joinable", "joined", "detached"}]
        /\ wpc' \in [Workers -> {"none", "top", "wait", "blocked", "peek", "take", "run", "exit"}]
    BY <1>1, <1>2
  <2> QED BY <1>1, <2>1 DEF IInv, TypeOK
<1>4. RunOnce'
  BY <1>1 DEF IInv, RunOnce, Holders
<1>5. WorkerInv' /\ GoneInv'
  BY <1>1, <1>2 DEF IInv, WorkerInv, GoneInv
<1>6. NoSleepOnWork'
  <2>1. CASE UNCHANGED <<handle, wpc>>
    BY <1>1, <2>1, PoolAssumption DEF IInv, WorkerInv, NoSleepOnWork
  <2>2. CASE \E w \in Workers : wpc' = [wpc EXCEPT ![w] = "top"]
    BY <1>2, <2>2 DEF NoSleepOnWork
  <2> QED BY <1>1, <2>1, <2>2
<1> QED BY <1>3, <1>4, <1>5, <1>6 DEF IInv

\* The owner at the end of Start, and inside Stop.
LEMMA StopStepStep ==
  ASSUME IInv, \/ StartReturns \/ Stop \/ StopTest \/ JoinReturns \/ DetachAllThreads
               \/ \E w \in Workers : Join(w)
  PROVE  IInv'
<1>1. /\ owner # "gone" /\ owner' \notin {"start", "gone"}
      /\ owner = "start" => \A w \in Workers : handle[w] # "none"
      /\ UNCHANGED <<tasksQ, mStarted, mStopped, wpc, fn, ended, caller>>
      /\ mIsStopping => mIsStopping'
  BY DEF StartReturns, Stop, StopTest, JoinReturns, DetachAllThreads, Join, OwnerMoves, AfterNotify,
         flags
<1>2. TypeOK'
  BY PoolAssumption
  DEF StartReturns, Stop, StopTest, JoinReturns, DetachAllThreads, Join, OwnerMoves, AfterNotify,
      flags, IInv, TypeOK
<1>3. /\ \A w \in Workers : handle'[w] = "none" <=> handle[w] = "none"
      /\ broken' = "no" => broken = "no"
  BY DEF StartReturns, Stop, StopTest, JoinReturns, DetachAllThreads, Join, OwnerMoves, AfterNotify,
         flags, IInv, TypeOK
<1>4. RunOnce'
  BY <1>1 DEF IInv, RunOnce, Holders
<1>5. WorkerInv'
  BY <1>1, <1>3 DEF IInv, WorkerInv
<1>6. NoSleepOnWork'
  <2>1. owner = "start" => \A w \in Workers : wpc[w] # "none"
    BY <1>1 DEF IInv, WorkerInv
  <2> QED BY <1>1, <1>3, <2>1 DEF IInv, NoSleepOnWork
<1>7. GoneInv'
  BY <1>1 DEF GoneInv
<1> QED BY <1>2, <1>4, <1>5, <1>6, <1>7 DEF IInv

LEMMA DestroyStep ==
  ASSUME IInv, Destroy
  PROVE  IInv'
<1>1. /\ owner = "idle"
      /\ \A t \in Tasks : caller[t] \notin {"push", "test", "notify"}
      /\ UNCHANGED <<handle, wpc, fn, ended, caller, joinArg>>
  BY DEF Destroy
<1>2. CASE broken' \in {"terminate", "cvWaited"} /\ UNCHANGED <<tasksQ, flags, owner>>
  <2>1. TypeOK' /\ RunOnce'
    BY <1>1, <1>2 DEF IInv, TypeOK, RunOnce, Holders, flags
  <2>2. WorkerInv' /\ GoneInv' /\ NoSleepOnWork'
    BY <1>1, <1>2 DEF IInv, WorkerInv, GoneInv, NoSleepOnWork, flags
  <2> QED BY <2>1, <2>2 DEF IInv
<1>3. CASE /\ owner' = "gone" /\ tasksQ' = <<>> /\ UNCHANGED broken
           /\ \/ mStopped' = TRUE /\ mIsStopping' = FALSE /\ mStarted' = FALSE
              \/ UNCHANGED flags
  <2>1. TypeOK'
    BY <1>1, <1>3, EmptyIsQueue DEF IInv, TypeOK, flags
  <2>2. RunOnce'
    BY <1>1, <1>3, EmptyQueue DEF IInv, RunOnce, Holders
  <2>3. WorkerInv' /\ GoneInv' /\ NoSleepOnWork'
    BY <1>1, <1>3 DEF IInv, WorkerInv, GoneInv, NoSleepOnWork, flags
  <2> QED BY <2>1, <2>2, <2>3 DEF IInv
<1> QED BY <1>2, <1>3 DEF Destroy

-----------------------------------------------------------------------------
LEMMA NextKeepsIInv == ASSUME IInv, [Next]_vars PROVE IInv'
<1>1. CASE UNCHANGED vars
  BY <1>1 DEF vars, flags, own, IInv, TypeOK, RunOnce, Holders, WorkerInv, GoneInv,
              NoSleepOnWork
<1>2. CASE \E t \in Tasks : SchedulerTask(t) \/ CallerStep(t)
  BY <1>2, CallerMovesStep, PushStep, NotifyStep DEF CallerStep
<1>3. CASE \E w \in Workers : WorkerStep(w) \/ SpuriousWakeup(w)
  BY <1>3, WorkerMovesStep, TakeStep, RunEndsStep, BrokenStep DEF WorkerStep
<1>4. CASE StopStep \/ Stop \/ StartReturns
  BY <1>4, StopStepStep, NotifyStep DEF StopStep
<1>5. CASE Start \/ \E w \in Workers : CreateThread(w)
  BY <1>5, StartSteps
<1>6. CASE Destroy
  BY <1>6, DestroyStep
<1> QED BY <1>1, <1>2, <1>3, <1>4, <1>5, <1>6 DEF Next, StartStep

THEOREM Invariance == Spec => []IInv
<1>1. Init => IInv
  BY InitIInv
<1>2. IInv /\ [Next]_vars => IInv'
  BY NextKeepsIInv
<1> QED BY <1>1, <1>2, PTL DEF Spec

\* With any number of workers, a function that is pushed is taken by one worker
\* only, runs once, and is in the queue until then.
THEOREM PushedRunsOnce == Spec => []RunOnce
  BY Invariance, PTL DEF IInv

\* With any number of workers, they never all sleep on a queue with work and no
\* notification on its way.
THEOREM NoLostWakeup == Spec => []NoSleepOnWork
  BY Invariance, PTL DEF IInv

-----------------------------------------------------------------------------
\* Where a function is tells its stage, and there is no other place.
LEMMA StageAt ==
  ASSUME IInv, NEW t \in Tasks
  PROVE  /\ Holders(t) # {} => StageOf(t) = "running"
         /\ t \in ended => StageOf(t) = "ended"
         /\ t \in Range(tasksQ) => StageOf(t) = "ready"
         /\ caller[t] \in {"new", "push", "refused"} => StageOf(t) = "new"
         /\ \/ Holders(t) # {} \/ t \in ended \/ t \in Range(tasksQ)
            \/ caller[t] \in {"new", "push", "refused"}
            \/ owner = "gone" /\ StageOf(t) = "dropped"
  BY DEF IInv, RunOnce, StageOf

\* The same after a step.
LEMMA StageAfter ==
  ASSUME IInv', NEW t \in Tasks
  PROVE  /\ Holders(t)' # {} => StageOf(t)' = "running"
         /\ t \in ended' => StageOf(t)' = "ended"
         /\ t \in Range(tasksQ') => StageOf(t)' = "ready"
         /\ caller'[t] \in {"new", "push", "refused"} => StageOf(t)' = "new"
         /\ \/ Holders(t)' # {} \/ t \in ended' \/ t \in Range(tasksQ')
            \/ caller'[t] \in {"new", "push", "refused"}
            \/ owner' = "gone" /\ StageOf(t)' = "dropped"
  BY DEF IInv, RunOnce, StageOf

Open == owner # "gone"

\* A step that changes the stage of one function, in a pool that stays.
LEMMA MoveOne ==
  ASSUME NEW t \in Tasks, NEW from, NEW to, Open, Open',
         StageOf(t) = from, StageOf(t)' = to,
         \A u \in Tasks \ {t} : StageOf(u)' = StageOf(u)
  PROVE  Lifecycle!Move(t, from, to)
  BY DEF Lifecycle!Move, Open

\* A step that keeps every function where it is.
LEMMA MoveNone ==
  ASSUME UNCHANGED <<tasksQ, fn, ended>>, Open' = Open,
         \A t \in Tasks : caller'[t] \in {"new", "push", "refused"}
                            <=> caller[t] \in {"new", "push", "refused"}
  PROVE  UNCHANGED Lifecycle!lifeVars
<1>1. \A t \in Tasks : StageOf(t)' = StageOf(t)
  BY DEF StageOf, Holders, Open
<1> QED BY <1>1 DEF Lifecycle!lifeVars, Open

\* A worker that is about to take a function has none, so it is a free slot.
LEMMA SlotIsFree ==
  ASSUME IInv, NEW w \in Workers, wpc[w] = "take"
  PROVE  Lifecycle!Cardinality(Lifecycle!InStage("running")) < Cardinality(Workers)
<1> DEFINE R == Lifecycle!InStage("running")
           f == [t \in R |-> CHOOSE v \in Workers : fn[v] = t]
<1>1. \A t \in R : t \in Tasks /\ Holders(t) # {}
  BY DEF Lifecycle!InStage, StageOf
<1>2. \A t \in R : f[t] \in Workers /\ fn[f[t]] = t
  BY <1>1 DEF Holders
<1>3. fn[w] = None
  BY DEF IInv, WorkerInv
<1>4. \A t \in R : f[t] \in Workers \ {w}
  BY <1>1, <1>2, <1>3, PoolAssumption
<1> HIDE DEF R
<1>5. f \in Injection(R, Workers \ {w})
  BY <1>2, <1>4 DEF Injection, IsInjective
<1> HIDE DEF f
<1>6. /\ IsFiniteSet(Workers \ {w}) /\ Cardinality(Workers) \in Nat
      /\ Cardinality(Workers \ {w}) = Cardinality(Workers) - 1
  BY WorkersAssumption, FS_RemoveElement, FS_CardinalityType
<1>7. IsFiniteSet(R) /\ Cardinality(R) <= Cardinality(Workers \ {w})
  BY <1>5, <1>6, FS_Injection
<1>8. Cardinality(R) \in Nat
  BY <1>7, FS_CardinalityType
<1>9. Lifecycle!Cardinality(R) = Cardinality(R)
  BY DEF Lifecycle!Cardinality, Cardinality
<1> QED BY <1>6, <1>7, <1>8, <1>9 DEF R

LEMMA PushSubmits ==
  ASSUME IInv, IInv', NEW t \in Tasks, Push(t)
  PROVE  Lifecycle!Submit(t)
<1>1. /\ caller[t] = "push" /\ caller' = [caller EXCEPT ![t] = "test"]
      /\ UNCHANGED <<fn, ended, owner>>
      /\ Range(tasksQ') = Range(tasksQ) \cup {t}
  BY PushQueue DEF Push, CallerMoves, own, IInv, TypeOK
<1>2. Open /\ Open'
  BY <1>1 DEF Open, IInv, GoneInv
<1>3. StageOf(t) = "new" /\ StageOf(t)' = "ready"
  BY <1>1, StageAt, StageAfter
<1>4. \A u \in Tasks \ {t} : StageOf(u)' = StageOf(u)
  BY <1>1 DEF StageOf, Holders, IInv, TypeOK
<1> QED BY <1>2, <1>3, <1>4, MoveOne DEF Lifecycle!Submit

LEMMA TakeStarts ==
  ASSUME IInv, IInv', NEW w \in Workers, Take(w)
  PROVE  \E t \in Tasks : Lifecycle!Start(t)
<1>1. PICK t \in Tasks :
        /\ wpc[w] = "take" /\ fn' = [fn EXCEPT ![w] = t]
        /\ t \in Range(tasksQ) /\ t \notin Range(tasksQ')
        /\ Range(tasksQ) = Range(tasksQ') \cup {t}
  BY PopQueue DEF Take, WorkerMoves, IInv, TypeOK, RunOnce
<1>2. /\ UNCHANGED <<ended, caller, owner>> /\ Open /\ Open'
      /\ fn \in [Workers -> Tasks \cup {None}]
  BY DEF Take, WorkerMoves, own, Open, IInv, TypeOK
<1>3. fn[w] = None
  BY <1>1 DEF IInv, WorkerInv
<1>4. StageOf(t) = "ready"
  BY <1>1, StageAt
<1>5. Holders(t)' # {}
  BY <1>1, <1>2 DEF Holders
<1>6. \A u \in Tasks \ {t} : Holders(u)' = Holders(u)
  BY <1>1, <1>2, <1>3, PoolAssumption DEF Holders
<1>7. \A u \in Tasks \ {t} : StageOf(u)' = StageOf(u)
  BY <1>1, <1>2, <1>6 DEF StageOf
<1>8. StageOf(t)' = "running"
  BY <1>5, StageAfter
<1>9. Lifecycle!Move(t, "ready", "running")
  BY <1>1, <1>2, <1>4, <1>7, <1>8, MoveOne
<1> QED BY <1>1, <1>2, <1>9, SlotIsFree DEF Lifecycle!Start

LEMMA RunEndsEnds ==
  ASSUME IInv, IInv', NEW w \in Workers, RunEnds(w)
  PROVE  \E t \in Tasks : Lifecycle!End(t)
<1>1. PICK t : t = fn[w]
  OBVIOUS
<1>2. /\ wpc[w] = "run" /\ fn' = [fn EXCEPT ![w] = None] /\ ended' = ended \cup {t}
      /\ UNCHANGED <<tasksQ, caller, owner>>
      /\ fn \in [Workers -> Tasks \cup {None}]
  BY <1>1 DEF RunEnds, own, IInv, TypeOK
<1>3. t \in Tasks /\ Holders(t) # {}
  BY <1>1, <1>2 DEF IInv, WorkerInv, Holders
<1>4. StageOf(t) = "running" /\ StageOf(t)' = "ended"
  BY <1>2, <1>3, StageAt, StageAfter
<1>5. \A u \in Tasks \ {t} : Holders(u)' = Holders(u)
  BY <1>1, <1>2, PoolAssumption DEF Holders
<1>6. \A u \in Tasks \ {t} : StageOf(u)' = StageOf(u)
  BY <1>2, <1>5 DEF StageOf
<1> QED BY <1>2, <1>3, <1>4, <1>6 DEF Lifecycle!End

LEMMA DestroyCloses ==
  ASSUME IInv, IInv', Destroy, owner' = "gone"
  PROVE  Lifecycle!Close
<1>1. /\ owner = "idle" /\ UNCHANGED <<fn, ended, caller>>
      /\ tasksQ' = <<>>
      /\ \A t \in Tasks : caller[t] \notin {"push", "test", "notify"}
  BY DEF Destroy
<1>2. SUFFICES ASSUME NEW t \in Tasks
               PROVE  StageOf(t)' = IF StageOf(t) \in {"ready", "held"} THEN "dropped"
                                    ELSE StageOf(t)
  BY <1>1 DEF Lifecycle!Close
<1>3. Holders(t)' = Holders(t)
  BY <1>1 DEF Holders
<1>4. t \notin Range(tasksQ')
  BY <1>1, EmptyQueue
<1>5. CASE t \in Range(tasksQ)
  <2>1. /\ t \notin ended /\ Holders(t) = {}
        /\ caller[t] \notin {"new", "push", "refused"}
    BY <1>5 DEF IInv, RunOnce
  <2> QED BY <1>1, <1>3, <1>4, <1>5, <2>1, StageAt, StageAfter
<1>6. CASE t \notin Range(tasksQ)
  BY <1>1, <1>3, <1>4, <1>6, StageAt, StageAfter
<1> QED BY <1>5, <1>6

-----------------------------------------------------------------------------
\* With any workers and any functions, the queue, the two-step notification and the
\* workers make one service: a function is submitted once, never runs on more threads
\* than there are, is run by one of them, ends once, and is dropped with the pool only.
THEOREM PoolIsAService == Spec => ImplementsLifecycle
<1>1. Init => Lifecycle!LifeInit
  <2>1. SUFFICES ASSUME Init PROVE Lifecycle!LifeInit
    OBVIOUS
  <2>2. \A t \in Tasks : Holders(t) = {}
    BY <2>1, PoolAssumption DEF Init, Holders
  <2>3. \A t \in Tasks : StageOf(t) = "new"
    BY <2>1, <2>2, EmptyQueue DEF Init, StageOf
  <2> QED BY <2>1, <2>3 DEF Init, Lifecycle!LifeInit
<1>2. ASSUME IInv, IInv', [Next]_vars
      PROVE  [Lifecycle!LifeNext]_(Lifecycle!lifeVars)
  <2>1. CASE \E t \in Tasks : Push(t)
    BY <1>2, <2>1, PushSubmits DEF Lifecycle!LifeNext
  <2>2. CASE \E t \in Tasks : SchedulerTask(t) \/ NotifyTest(t) \/ Notify(t)
    <3>1. PICK t \in Tasks : SchedulerTask(t) \/ NotifyTest(t) \/ Notify(t)
      BY <2>2
    <3>2. UNCHANGED <<tasksQ, fn, ended>> /\ Open' = Open
      BY <3>1 DEF SchedulerTask, NotifyTest, Notify, CallerMoves, own, Open
    <3>3. \A u \in Tasks : caller'[u] \in {"new", "push", "refused"}
                             <=> caller[u] \in {"new", "push", "refused"}
      BY <1>2, <3>1 DEF SchedulerTask, NotifyTest, Notify, CallerMoves, IInv, TypeOK
    <3> QED BY <3>2, <3>3, MoveNone
  <2>3. CASE \E w \in Workers : Take(w)
    BY <1>2, <2>3, TakeStarts DEF Lifecycle!LifeNext
  <2>4. CASE \E w \in Workers : RunEnds(w)
    BY <1>2, <2>4, RunEndsEnds DEF Lifecycle!LifeNext
  <2>5. CASE Destroy
    <3>1. CASE owner' = "gone"
      BY <1>2, <2>5, <3>1, DestroyCloses DEF Lifecycle!LifeNext
    <3>2. CASE owner' # "gone"
      BY <2>5, <3>2, MoveNone DEF Destroy, Open
    <3> QED BY <3>1, <3>2
  <2>6. CASE \/ \E w \in Workers : \/ WorkerTop(w) \/ WaitForCondition(w) \/ Peek(w)
                                   \/ TakeFromEmpty(w) \/ TouchDestroyed(w)
                                   \/ SpuriousWakeup(w) \/ CreateThread(w) \/ Join(w)
             \/ StopTest \/ StopNotify \/ JoinReturns \/ DetachAllThreads
             \/ Start \/ StartReturns \/ Stop \/ UNCHANGED vars
    <3>1. UNCHANGED <<tasksQ, fn, ended, caller>> /\ Open' = Open
      BY <2>6 DEF WorkerTop, WaitForCondition, Peek, TakeFromEmpty, TouchDestroyed,
                  SpuriousWakeup, WorkerMoves, Join, StopTest, StopNotify, JoinReturns,
                  DetachAllThreads, OwnerMoves, AfterNotify, Start, CreateThread, StartReturns,
                  Stop, vars, own, Open
    <3> QED BY <3>1, MoveNone
  <2> QED BY <1>2, <2>1, <2>2, <2>3, <2>4, <2>5, <2>6
      DEF Next, CallerStep, WorkerStep, StartStep, StopStep
<1> QED BY <1>1, <1>2, Invariance, PTL DEF Spec, ImplementsLifecycle, Lifecycle!LifeSpec

=============================================================================
