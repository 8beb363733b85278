------------------------------ MODULE Recovery ------------------------------
(***************************************************************************)
(* Hold and Wakeup of a CoExecutor step by step, with wakeups from threads *)
(* other than the executor's.  WakeupFromEntry searches m_waiting_queue    *)
(* with bare iterators and takes the queue's lock only to erase; Hold      *)
(* queues its task before the coroutine has stopped; WakeupAll tests the   *)
(* queue, takes a reference to its front, copies what it refers to and     *)
(* pops the front, each under a lock of its own or none.  Nothing of this  *)
(* notifies a thread that waits in Process.                                *)
(*                                                                         *)
(* What these steps are meant to amount to are the atomic HoldThere,       *)
(* Wakeup and WakeupAllTasks of module CoExecutor, the rest of whose       *)
(* actions are taken over as they are.                                     *)
(***************************************************************************)
EXTENDS CoExecutor, FiniteSets

CONSTANTS
  Outside,  \* threads that call Wakeup
  Inside    \* the thread in Process, when a coroutine calls Wakeup or WakeupAll

ASSUME RecoveryAssumption == Inside \notin Outside

Wakers == Outside \cup {Inside}

VARIABLES
  holding,  \* the running coroutine is in HoldThere, its task queued already
  wpc,      \* where each waker is
  target,   \* the task whose entry it was given
  broken    \* what ended the defined behaviour of the program, if anything

wakeVars == <<holding, wpc, target, broken>>
recVars  == <<vars, wakeVars>>

WakerPlaces == {"idle", "entered", "search", "push", "allTest", "allFront", "allCopy", "allPop"}

RecoveryTypeOK ==
  /\ holding \in BOOLEAN
  /\ wpc \in [Wakers -> WakerPlaces]
  /\ target \in [Wakers -> Tasks \cup {None}]
  /\ broken \in {"no", "raced", "mixed", "frontGone", "entryGone", "executorGone"}

RecoveryInit ==
  /\ Init
  /\ holding = FALSE
  /\ wpc = [w \in Wakers |-> "idle"]
  /\ target = [w \in Wakers |-> None]
  /\ broken = "no"

\* A coroutine calls from its body, outside of Hold.
MayCall(w) == w = Inside => pc = "run" /\ ~holding

Goes(w, to, t) ==
  /\ wpc' = [wpc EXCEPT ![w] = to]
  /\ target' = [target EXCEPT ![w] = t]

\* Another thread is in the search of m_waiting_queue: a change of the queue now is
\* a data race, and its iterators are not valid any more.
Searched(w) == \E x \in Wakers \ {w} : wpc[x] = "search"

Changes(w) == broken' = IF Searched(w) THEN "raced" ELSE "no"

(***************************************************************************)
(* HoldThere: the push, then GiveUp.                                       *)
(***************************************************************************)
HoldPush ==
  /\ "hold" \in Calls
  /\ pc = "run" /\ ~holding /\ wpc[Inside] = "idle"
  /\ waitingQ' = Append(waitingQ, runningTask)
  /\ entries' = entries \cup {runningTask}
  /\ holding' = TRUE
  /\ Changes(Inside)
  /\ UNCHANGED <<runnableQ, awokenQ, finishedQ, runningTask, status, yielded, adder, pc,
                 flags, aborted, wpc, target>>

\* Mutant: the coroutine is left without being marked suspended.
HoldGiveUpRunning ==
  /\ holding
  /\ Leave("RUNNING")
  /\ holding' = FALSE
  /\ UNCHANGED <<queues, entries, yielded, wpc, target, broken>>

HoldGiveUp ==
  /\ holding
  /\ Leave("HOLD")
  /\ holding' = FALSE
  /\ UNCHANGED <<queues, entries, yielded, wpc, target, broken>>

(***************************************************************************)
(* Wakeup(entry).                                                          *)
(***************************************************************************)
\* Nobody refers to the task any more, so the entry's weak pointer is empty.
Freed(t) ==
  /\ IsDone(t)
  /\ t \notin Range(finishedQ) \cup {runningTask}
  /\ adder[t] = "added"

\* The entry is tested.
WakeupEnters(w, t) ==
  /\ Id # 0
  /\ MayCall(w) /\ wpc[w] = "idle"
  /\ t \in entries /\ ~Freed(t)
  /\ Goes(w, "entered", t)
  /\ UNCHANGED <<vars, holding, broken>>

\* The task of the entry is asked for its executor, and the search begins.
WakeupSearches(w) ==
  /\ wpc[w] = "entered"
  /\ broken' = IF Freed(target[w]) THEN "entryGone"
               ELSE IF pc = "destroyed" THEN "executorGone" ELSE "no"
  /\ Goes(w, "search", target[w])
  /\ UNCHANGED <<vars, holding>>

\* Wakeup returns false.
WakeupFindsNothing(w) ==
  /\ wpc[w] = "search" /\ pc # "destroyed"
  /\ target[w] \notin Range(waitingQ)
  /\ Goes(w, "idle", None)
  /\ UNCHANGED <<vars, holding, broken>>

\* Erasing the task that WakeupAll has copied and not yet popped makes WakeupAll
\* pop another one; a std::deque keeps the reference WakeupAll has taken to its front
\* only when the last of several elements is erased.
WakeupErases(w) ==
  /\ wpc[w] = "search" /\ pc # "destroyed"
  /\ \E i \in DOMAIN waitingQ :
       /\ waitingQ[i] = target[w]
       /\ waitingQ' = Erase(waitingQ, i)
       /\ IF wpc[Inside] = "allPop" /\ target[Inside] = target[w] THEN broken' = "mixed"
          ELSE IF wpc[Inside] = "allCopy" /\ (i = 1 \/ i < Len(waitingQ)) THEN broken' = "frontGone"
          ELSE Changes(w)
  /\ Goes(w, "push", target[w])
  /\ UNCHANGED <<runnableQ, awokenQ, finishedQ, runningTask, status, entries, yielded, adder,
                 pc, flags, aborted, holding>>

\* Mutant: a task that has not stopped yet is not queued.
WakeupPushesStopped(w) ==
  /\ wpc[w] = "push" /\ pc # "destroyed"
  /\ awokenQ' = IF status[target[w]] = "HOLD" THEN Append(awokenQ, target[w]) ELSE awokenQ
  /\ Goes(w, "idle", None)
  /\ UNCHANGED <<runnableQ, waitingQ, finishedQ, runningTask, status, entries, yielded, adder,
                 pc, flags, aborted, holding, broken>>

WakeupPushes(w) ==
  /\ wpc[w] = "push" /\ pc # "destroyed"
  /\ awokenQ' = Append(awokenQ, target[w])
  /\ Goes(w, "idle", None)
  /\ UNCHANGED <<runnableQ, waitingQ, finishedQ, runningTask, status, entries, yielded, adder,
                 pc, flags, aborted, holding, broken>>

\* Any use of the executor's queues once it is destroyed.
UsesGoneExecutor(w) ==
  /\ wpc[w] \in {"search", "push"} /\ pc = "destroyed"
  /\ broken' = "executorGone"
  /\ UNCHANGED <<vars, holding, wpc, target>>

(***************************************************************************)
(* WakeupAll, which works on the calling thread's executor only.           *)
(***************************************************************************)
WakeupAllCalled ==
  /\ "wakeupAll" \in Calls
  /\ pc = "run" /\ ~holding /\ wpc[Inside] = "idle"
  /\ Goes(Inside, "allTest", None)
  /\ UNCHANGED <<vars, holding, broken>>

WakeupAllTests ==
  /\ wpc[Inside] = "allTest"
  /\ Goes(Inside, IF waitingQ = <<>> THEN "idle" ELSE "allFront", None)
  /\ UNCHANGED <<vars, holding, broken>>

\* Front returns a reference, to nothing when the queue has been emptied since.
WakeupAllRefersToFront ==
  /\ wpc[Inside] = "allFront"
  /\ Goes(Inside, "allCopy", None)
  /\ broken' = IF waitingQ = <<>> THEN "frontGone" ELSE "no"
  /\ UNCHANGED <<vars, holding>>

WakeupAllCopies ==
  /\ wpc[Inside] = "allCopy"
  /\ Goes(Inside, "allPop", Head(waitingQ))
  /\ awokenQ' = Append(awokenQ, Head(waitingQ))
  /\ UNCHANGED <<runnableQ, waitingQ, finishedQ, runningTask, status, entries, yielded, adder,
                 pc, flags, aborted, holding, broken>>

WakeupAllPops ==
  /\ wpc[Inside] = "allPop"
  /\ waitingQ' = Tail(waitingQ)
  /\ Goes(Inside, "allTest", None)
  /\ Changes(Inside)
  /\ UNCHANGED <<runnableQ, awokenQ, finishedQ, runningTask, status, entries, yielded, adder,
                 pc, flags, aborted, holding>>

-----------------------------------------------------------------------------
\* A Wakeup or WakeupAll that has begun.
WakeupStep(w) ==
  \/ WakeupSearches(w) \/ WakeupFindsNothing(w) \/ WakeupErases(w) \/ WakeupPushes(w)
  \/ UsesGoneExecutor(w)

WakeupAllStep == WakeupAllTests \/ WakeupAllRefersToFront \/ WakeupAllCopies \/ WakeupAllPops

BodyLeaves ==
  /\ ~holding /\ wpc[Inside] = "idle"
  /\ Return \/ Throw \/ YieldCurrent
  /\ UNCHANGED wakeVars

HoldStep == HoldPush \/ HoldGiveUp

Defined == ~aborted /\ broken = "no"

RecoveryNext ==
  /\ Defined
  /\ \/ \E t \in Tasks : (AddTaskPush(t) \/ AddTaskNotify(t)) /\ UNCHANGED wakeVars
     \/ \E w \in Wakers, t \in Tasks : WakeupEnters(w, t)
     \/ \E w \in Wakers : WakeupStep(w)
     \/ WakeupAllCalled \/ WakeupAllStep
     \/ BodyLeaves \/ HoldStep
     \/ (ProcessStep \/ Process \/ SpuriousWakeup \/ Stop \/ Destroy) /\ UNCHANGED wakeVars

RecoverySpec == RecoveryInit /\ [][RecoveryNext]_recVars

(***************************************************************************)
(* Fairness: that of CoExecutor, and a wakeup that has begun goes on.  A   *)
(* coroutine gives control back however often it wakes others before.      *)
(* Nobody has to wake anybody.                                             *)
(***************************************************************************)
RecoveryFairSpec ==
  /\ RecoverySpec
  /\ WF_recVars(Defined /\ ProcessStep /\ UNCHANGED wakeVars)
  /\ SF_recVars(Defined /\ (BodyLeaves \/ HoldStep))
  /\ \A t \in Tasks : WF_recVars(Defined /\ AddTaskNotify(t) /\ UNCHANGED wakeVars)
  /\ \A w \in Wakers : WF_recVars(Defined /\ WakeupStep(w))
  /\ WF_recVars(Defined /\ WakeupAllStep)

-----------------------------------------------------------------------------
\* The wakers that have erased t and not yet queued it.
Carriers(t) == {w \in Wakers : wpc[w] = "push" /\ target[w] = t}

\* WakeupAll has copied t and not yet popped it.
Copied(t) == wpc[Inside] = "allPop" /\ target[Inside] = t

Held(t) == status[t] = "HOLD" \/ (holding /\ t = runningTask)

\* What the coroutine that runs is in: nothing, Hold, Wakeup or WakeupAll.
CallInv ==
  /\ holding => pc = "run"
  /\ wpc[Inside] # "idle" => pc = "run" /\ ~holding
  /\ \A w \in Outside : wpc[w] \notin {"allTest", "allFront", "allCopy", "allPop"}
  /\ \A w \in Wakers : wpc[w] \in {"entered", "search", "push"} => target[w] \in Tasks

\* What no wakeup disturbs of CoExecutor's OnePlace.
QueuesInv ==
  /\ IsInjective(runnableQ) /\ IsInjective(waitingQ)
  /\ IsInjective(awokenQ)   /\ IsInjective(finishedQ)
  /\ \A t \in Range(runnableQ) : status[t] = "IDLE"
  /\ \A t \in Range(finishedQ) : IsDone(t)

\* The four places a held task can be in are apart, but for the task WakeupAll has
\* copied and is about to pop from the front.
SuspendedInv ==
  pc # "destroyed" /\ broken \notin {"mixed", "frontGone"} =>
    /\ wpc[Inside] = "allCopy" => waitingQ # <<>>
    /\ wpc[Inside] = "allPop" => waitingQ # <<>> /\ Head(waitingQ) = target[Inside]
    /\ \A t \in Tasks :
         /\ Copied(t) <=> t \in Range(waitingQ) /\ t \in Range(awokenQ)
         /\ t \in yielded => t \notin Range(waitingQ) \cup Range(awokenQ)
         /\ \A w, x \in Carriers(t) : w = x
         /\ Carriers(t) # {} => t \notin Range(waitingQ) \cup Range(awokenQ) \cup yielded
         /\ Held(t) <=> \/ t \in Range(waitingQ) \cup Range(awokenQ) \cup yielded
                        \/ Carriers(t) # {}

\* The inductive invariant of every instance.
RecoveryInv ==
  /\ TypeOK /\ RecoveryTypeOK /\ NoAssertFails
  /\ RunningInv /\ TurnInv /\ AdderInv
  /\ CallInv /\ QueuesInv /\ SuspendedInv

\* However many threads wake however many tasks, also one that is still on its way
\* out of Hold: a held task is in one place, and there once.  It waits, or has been
\* woken, or is in the hands of one waker between the two queues, or has yielded.
KeptOnce ==
  Defined /\ pc # "destroyed" =>
    /\ RecoveryTypeOK
    /\ IsInjective(waitingQ) /\ IsInjective(awokenQ)
    /\ \A t \in Tasks :
         LET places == Cardinality(Carriers(t))
                       + (IF t \in Range(waitingQ) /\ ~Copied(t) THEN 1 ELSE 0)
                       + (IF t \in Range(awokenQ) THEN 1 ELSE 0)
                       + (IF t \in yielded THEN 1 ELSE 0)
         IN  places = IF Held(t) THEN 1 ELSE 0

\* Neither queue starves the other, and no wakeup from outside is slept over, though
\* it notifies nobody: a task that can run is given its turn, as long as the thread
\* stays in Process(timeout) and is not told to stop.
TurnComes ==
  \A t \in Tasks :
    (InProcess /\ t \in Range(runnableQ) \cup Range(awokenQ))
      ~> (t \notin Range(runnableQ) \cup Range(awokenQ) \/ mStopping \/ ~InProcess \/ ~Defined)

\* m_is_stopping takes the thread out of Process, whatever is still queued.
StopCompletes == (mStopping /\ InProcess) ~> (~InProcess \/ ~Defined)

-----------------------------------------------------------------------------
\* A task is held from the push of Hold on, and until a waker has queued it again.
CallStageOf(t) ==
  CASE adder[t] = "new" -> "new"
    [] IsDone(t)        -> "ended"
    [] adder[t] # "new" /\ ~IsDone(t) /\ pc = "destroyed" -> "dropped"
    [] adder[t] # "new" /\ ~IsDone(t) /\ pc # "destroyed" ->
         IF t \in Range(runnableQ) \cup Range(awokenQ) THEN "ready"
         ELSE IF t \in Range(waitingQ) \cup yielded \/ Carriers(t) # {} THEN "held"
         ELSE IF status[t] = "RUNNING" THEN "running" ELSE "lost"

AtomicLifecycle == INSTANCE TaskLifecycle
  WITH Slots <- 1,
       stage <- [t \in Tasks |-> CallStageOf(t)],
       open  <- pc # "destroyed"

\* Split in their steps and called from several threads, Hold, Wakeup and WakeupAll
\* still make one service of the executor, up to the first overlap that has no
\* defined outcome.
WakeupsLookAtomic == AtomicLifecycle!LifeSpec

=============================================================================
