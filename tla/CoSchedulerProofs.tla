------------------------- MODULE CoSchedulerProofs --------------------------
(***************************************************************************)
(* Safety of CoScheduler for every number of executors and tasks: IInv is  *)
(* inductive.  Each of its parts depends on a few variables; a step that   *)
(* leaves them alone is a matter of one lemma per part, and what remains   *)
(* are the steps that move a task, that read a load, or that belong to     *)
(* Start.                                                                  *)
(***************************************************************************)
EXTENDS CoScheduler, QueueLemmas

USE DEF ExecutorPlaces

LEMMA InitIInv == ASSUME Init PROVE IInv
<1>1. TypeOK
  <2>1. N \in Nat /\ N >= 1 /\ 0 \in Executors
    BY SchedulerAssumption DEF Executors
  <2>2. <<>> \in Seq(Tasks)
    BY EmptyIsQueue
  <2>3. size = 1 /\ 1 \in 0 .. N
    BY <2>1 DEF Init
  <2> QED BY <2>1, <2>2, <2>3 DEF Init, TypeOK
<1>2. StartInv
  BY SchedulerAssumption DEF Init, StartInv, Executors
<1>3. RoundInv
  BY SchedulerAssumption DEF Init, RoundInv
<1>4. OutsideInv
  BY FS_EmptySet DEF Init, OutsideInv
<1>5. PlacedInv
  BY EmptyQueue DEF Init, PlacedInv, Waits
<1>6. FrontIsStable
  BY DEF Init, FrontIsStable
<1> QED BY <1>1, <1>2, <1>3, <1>4, <1>5, <1>6 DEF IInv

-----------------------------------------------------------------------------
(***************************************************************************)
(* What a step cannot disturb.                                             *)
(***************************************************************************)
LEMMA StartFrame ==
  ASSUME TypeOK, StartInv, UNCHANGED <<size, spc, stpc>>, dpc' # "none" => dpc # "none",
         \A e \in Executors : epc'[e] = "none" <=> epc[e] = "none"
  PROVE  StartInv'
<1>1. N \in Nat /\ size \in 0 .. N
  BY SchedulerAssumption DEF TypeOK
<1>2. 0 \in Executors /\ \A e \in 1 .. size - 1 : e \in Executors
  BY <1>1, SchedulerAssumption DEF Executors
<1>3. size >= 1 /\ size < N => size \in Executors
  BY <1>1 DEF Executors
<1> QED BY <1>2, <1>3 DEF StartInv, Cleared

LEMMA RoundFrame ==
  ASSUME RoundInv, UNCHANGED <<dpc, load, avgLoad, low, stolen>>
  PROVE  RoundInv'
  BY DEF RoundInv

LEMMA OutsideFrame ==
  ASSUME OutsideInv, UNCHANGED <<adding, added, held>>
  PROVE  OutsideInv'
  BY DEF OutsideInv

\* The places of the tasks, when no executor takes or leaves a task.
LEMMA PlacedFrame ==
  ASSUME PlacedInv, FrontIsStable, broken = "no",
         UNCHANGED <<runnableQ, stolen, running, status, added, overtaken>>,
         \A e \in Executors : /\ epc'[e] = "run" <=> epc[e] = "run"
                              /\ epc'[e] = "copy" => epc[e] = "copy"
                              /\ epc'[e] = "pop" => epc[e] = "pop"
  PROVE  PlacedInv' /\ FrontIsStable'
<1>1. FrontIsStable'
  BY DEF FrontIsStable
<1>2. \A t \in Tasks : (Waits(t)' <=> Waits(t)) /\ Runs(t)' = Runs(t)
  BY DEF Waits, Runs
<1>3. PlacedInv'
  BY <1>2 DEF PlacedInv
<1> QED BY <1>1, <1>3

\* The queues stay apart when one of them and what the dispatcher has in hand change,
\* exchange tasks, and get only tasks that waited nowhere else.
LEMMA QueuesApart ==
  ASSUME PlacedInv, broken = "no", ~overtaken,
         NEW e \in Executors, \A f \in Executors \ {e} : runnableQ'[f] = runnableQ[f],
         IsInjective(runnableQ'[e]), IsInjective(stolen'),
         Range(runnableQ'[e]) \cap Range(stolen') = {},
         \A x \in Range(runnableQ'[e]) \cup Range(stolen') :
           x \in Range(runnableQ[e]) \/ x \in Range(stolen) \/ ~Waits(x)
  PROVE  /\ \A f \in Executors : IsInjective(runnableQ'[f])
         /\ \A f \in Executors : Range(runnableQ'[f]) \cap Range(stolen') = {}
         /\ \A f, g \in Executors : f # g => Range(runnableQ'[f]) \cap Range(runnableQ'[g]) = {}
<1>1. /\ \A f \in Executors : IsInjective(runnableQ[f])
      /\ \A f \in Executors : Range(runnableQ[f]) \cap Range(stolen) = {}
      /\ \A f, g \in Executors : f # g => Range(runnableQ[f]) \cap Range(runnableQ[g]) = {}
  BY DEF PlacedInv
<1>2. \A f \in Executors : IsInjective(runnableQ'[f])
  BY <1>1
<1>3. ASSUME NEW f \in Executors \ {e}
      PROVE  /\ Range(runnableQ'[f]) \cap Range(stolen') = {}
             /\ Range(runnableQ'[f]) \cap Range(runnableQ'[e]) = {}
  <2>1. runnableQ'[f] = runnableQ[f]
    OBVIOUS
  <2>2. \A x \in Range(runnableQ[f]) :
          Waits(x) /\ x \notin Range(runnableQ[e]) /\ x \notin Range(stolen)
    BY <1>1 DEF Waits
  <2> QED BY <2>1, <2>2
<1>4. ASSUME NEW f \in Executors, NEW g \in Executors, f # g
      PROVE  Range(runnableQ'[f]) \cap Range(runnableQ'[g]) = {}
  <2>1. CASE f = e
    BY <1>3, <1>4, <2>1
  <2>2. CASE g = e
    BY <1>3, <1>4, <2>2
  <2>3. CASE f # e /\ g # e
    BY <1>1, <1>4, <2>3
  <2> QED BY <2>1, <2>2, <2>3
<1> QED BY <1>2, <1>3, <1>4

-----------------------------------------------------------------------------
(***************************************************************************)
(* Start, Stop, and what ends the defined behaviour.                       *)
(***************************************************************************)
LEMMA StartSteps ==
  ASSUME IInv, broken = "no",
         \/ StartCalled \/ Reserve \/ CreateNewExecutor \/ PushBack \/ StartDispatcher
         \/ ProcessMain
  PROVE  IInv'
<1>1. /\ ~Cleared
      /\ UNCHANGED <<adding, runnableQ, held, running, exStopping, status, added, stopVars,
                     idx, readings, stolen, overtaken>>
  BY DEF StartCalled, Reserve, CreateNewExecutor, PushBack, StartDispatcher, ProcessMain, Starting,
         stopVars, Cleared
<1>2. /\ N \in Nat /\ N >= 1 /\ size \in 1 .. N
      /\ epc \in [Executors -> ExecutorPlaces]
      /\ 0 \in Executors /\ (size < N => size \in Executors)
      /\ \A e \in 1 .. (size - 1) : e \in Executors
      /\ spc \in {"create", "push"} => size < N
  BY <1>1, SchedulerAssumption DEF IInv, TypeOK, StartInv, Executors
<1>3. \/ epc' = epc
      \/ \E e \in Executors : epc[e] = "none" /\ epc' = [epc EXCEPT ![e] = "loop"]
  BY <1>1, <1>2 DEF IInv, StartInv, StartCalled, Reserve, CreateNewExecutor, PushBack, StartDispatcher, ProcessMain, Starting
<1>4. TypeOK'
  <2>1. epc' \in [Executors -> ExecutorPlaces]
    BY <1>2, <1>3
  <2>2. /\ size' \in 0 .. N
        /\ spc' \in {"none", "reserve", "create", "push", "dispatcher", "main", "process"}
        /\ dpc' \in {dpc, "top"} /\ broken' \in {"no", "vectorMoved"}
    BY <1>2 DEF StartCalled, Reserve, CreateNewExecutor, PushBack, StartDispatcher, ProcessMain, Starting
  <2> QED BY <1>1, <2>1, <2>2 DEF IInv, TypeOK, readings, stopVars
<1>5. StartInv'
  <2> ~Cleared'
    BY <1>1 DEF Cleared, stopVars
  <2>1. CASE StartCalled
    BY <1>1, <1>2, <2>1 DEF IInv, StartInv, StartCalled, Starting
  <2>2. CASE Reserve
    BY <1>1, <1>2, <2>2 DEF IInv, StartInv, Reserve, Starting
  <2>3. CASE CreateNewExecutor
    BY <1>1, <1>2, <2>3 DEF IInv, StartInv, CreateNewExecutor, Starting
  <2>4. CASE PushBack
    <3>1. /\ spc = "push" /\ spc' # "push" /\ spc' \in {"create", "dispatcher"}
          /\ size' = size + 1 /\ (size + 1 < N <=> spc' = "create")
          /\ UNCHANGED <<epc, dpc>>
      BY <2>4 DEF PushBack, Starting
    <3>2. \A e \in 1 .. (size' - 1) : e \in 1 .. (size - 1) \/ e = size
      BY <1>2, <3>1
    <3>3. \A e \in Executors : e >= size' => e > size
      BY <1>2, <3>1 DEF Executors
    <3>4. ASSUME NEW e \in 1 .. (size' - 1) PROVE epc'[e] # "none"
      BY <1>1, <3>1, <3>2 DEF IInv, StartInv
    <3>5. ASSUME NEW e \in Executors, e > size' \/ e = size' PROVE epc'[e] = "none"
      BY <1>1, <1>2, <3>1, <3>3, <3>5 DEF IInv, StartInv, Executors
    <3> QED BY <1>1, <1>2, <3>1, <3>4, <3>5 DEF IInv, StartInv
  <2>5. CASE StartDispatcher
    BY <1>1, <1>2, <2>5 DEF IInv, StartInv, StartDispatcher, Starting
  <2>6. CASE ProcessMain
    BY <1>1, <1>2, <2>6 DEF IInv, StartInv, ProcessMain, Starting
  <2> QED BY <2>1, <2>2, <2>3, <2>4, <2>5, <2>6
<1>6. RoundInv'
  <2>1. dpc' = dpc \/ (dpc = "none" /\ dpc' = "top")
    BY <1>1 DEF IInv, StartInv, StartCalled, Reserve, CreateNewExecutor, PushBack, StartDispatcher,
                ProcessMain, Starting
  <2> QED BY <1>1, <2>1 DEF IInv, RoundInv, readings
<1>7. OutsideInv'
  BY <1>1, OutsideFrame DEF IInv
<1>8. PlacedInv' /\ FrontIsStable'
  <2>1. \A e \in Executors : /\ epc'[e] = "run" <=> epc[e] = "run"
                             /\ epc'[e] = "copy" => epc[e] = "copy"
                             /\ epc'[e] = "pop" => epc[e] = "pop"
    BY <1>2, <1>3
  <2> QED BY <1>1, <2>1, PlacedFrame DEF IInv, readings
<1> QED BY <1>4, <1>5, <1>6, <1>7, <1>8 DEF IInv

\* Only broken changes.
LEMMA EndSteps ==
  ASSUME IInv, broken = "no", StartMeetsStop \/ UsesGoneVector \/ GiveUpReferred
  PROVE  IInv'
<1>1. broken' \in {"vectorGone", "frontGone"}
      /\ UNCHANGED <<startVars, adding, runnableQ, exVars, added, stopVars, dispVars, overtaken>>
  BY DEF StartMeetsStop, UsesGoneVector, GiveUpReferred, otherCalls
<1>2. TypeOK'
  BY <1>1 DEF IInv, TypeOK, startVars, exVars, stopVars, dispVars, readings
<1>3. StartInv' /\ RoundInv' /\ OutsideInv'
  BY <1>1
  DEF IInv, StartInv, RoundInv, OutsideInv, startVars, exVars, stopVars, dispVars, readings, Cleared
<1>4. PlacedInv' /\ FrontIsStable'
  BY <1>1 DEF PlacedInv, FrontIsStable
<1> QED BY <1>2, <1>3, <1>4 DEF IInv

LEMMA StopSteps ==
  ASSUME IInv, broken = "no", StopCalled \/ StopStep
  PROVE  IInv'
<1>1. /\ exStopping' = exStopping \/ exStopping' = [exStopping EXCEPT ![told] = TRUE]
      /\ told' = told \/ (told < size /\ told' = told + 1)
      /\ \/ stpc' \in {"tell", "clear"} /\ ~Cleared /\ size' = size
         \/ stpc' = "done" /\ size' = 0
      /\ UNCHANGED <<spc, adding, added, runnableQ, held, running, epc, status, dispVars,
                     overtaken, broken>>
  BY DEF StopCalled, StopStep, StopTells, StopClears, startVars, exVars, mStopping, Cleared
<1>2. /\ N \in Nat /\ size \in 0 .. N /\ told \in 0 .. N
      /\ exStopping \in [Executors -> BOOLEAN]
  BY SchedulerAssumption DEF IInv, TypeOK
<1>3. TypeOK'
  <2>1. told' \in 0 .. N /\ size' \in 0 .. N
    BY <1>1, <1>2
  <2>2. exStopping' \in [Executors -> BOOLEAN]
    BY <1>1, <1>2
  <2> QED BY <1>1, <2>1, <2>2 DEF IInv, TypeOK, dispVars, readings
<1>4. StartInv'
  BY <1>1 DEF IInv, StartInv, dispVars, Cleared
<1>5. RoundInv' /\ OutsideInv'
  BY <1>1, RoundFrame, OutsideFrame DEF IInv, dispVars, readings
<1>6. PlacedInv' /\ FrontIsStable'
  BY <1>1, PlacedFrame DEF IInv, dispVars
<1> QED BY <1>3, <1>4, <1>5, <1>6 DEF IInv

-----------------------------------------------------------------------------
(***************************************************************************)
(* SchedulerTask.                                                          *)
(***************************************************************************)
LEMMA AddTaskChoosesStep ==
  ASSUME IInv, broken = "no", NEW t \in Tasks, AddTaskChooses(t)
  PROVE  IInv'
<1>1. /\ t \notin added
      /\ UNCHANGED <<startVars, runnableQ, exVars, added, stopVars, dispVars, overtaken, broken>>
  BY DEF AddTaskChooses
<1>2. PICK e \in 0 .. size - 1 : adding' = [adding EXCEPT ![t] = e]
  BY DEF AddTaskChooses
<1>3. e \in Executors
  BY SchedulerAssumption DEF IInv, TypeOK, Executors
<1>4. TypeOK'
  <2>1. adding' \in [Tasks -> Executors \cup {-1}]
    BY <1>2, <1>3 DEF IInv, TypeOK
  <2> QED BY <1>1, <2>1 DEF IInv, TypeOK, startVars, exVars, stopVars, dispVars, readings
<1>5. StartInv' /\ RoundInv'
  BY <1>1, StartFrame, RoundFrame DEF IInv, startVars, exVars, stopVars, dispVars, readings
<1>6. OutsideInv'
  BY <1>1, <1>2 DEF IInv, OutsideInv, TypeOK, exVars
<1>7. PlacedInv' /\ FrontIsStable'
  BY <1>1, PlacedFrame DEF IInv, exVars, dispVars
<1> QED BY <1>4, <1>5, <1>6, <1>7 DEF IInv

LEMMA AddTaskPutsStep ==
  ASSUME IInv, broken = "no", NEW t \in Tasks, AddTaskPuts(t)
  PROVE  IInv'
<1>1. /\ adding[t] # -1 /\ adding' = [adding EXCEPT ![t] = -1]
      /\ UNCHANGED <<startVars, exVars, stopVars, dispVars, overtaken>>
  BY DEF AddTaskPuts
<1> DEFINE e == adding[t]
<1>2. /\ e \in Executors /\ t \notin added
      /\ runnableQ[e] \in Seq(Tasks) /\ runnableQ \in [Executors -> Seq(Tasks)]
  BY <1>1 DEF IInv, TypeOK, OutsideInv
<1>3. StartInv' /\ RoundInv'
  BY <1>1, StartFrame, RoundFrame DEF IInv, startVars, exVars, stopVars, dispVars, readings
<1>4. CASE Cleared
  <2>1. broken' = "vectorGone" /\ UNCHANGED <<added, runnableQ>>
    BY <1>4 DEF AddTaskPuts
  <2>2. TypeOK' /\ OutsideInv'
    BY <1>1, <2>1 DEF IInv, TypeOK, OutsideInv, startVars, exVars, stopVars, dispVars, readings
  <2>3. PlacedInv' /\ FrontIsStable'
    BY <2>1 DEF PlacedInv, FrontIsStable
  <2> QED BY <1>3, <2>2, <2>3 DEF IInv
<1>5. CASE ~Cleared
  <2>1. /\ added' = added \cup {t}
        /\ runnableQ' = [runnableQ EXCEPT ![e] = Append(@, t)]
        /\ broken' = broken
    BY <1>5 DEF AddTaskPuts
  <2> DEFINE q == runnableQ[e]
             p == Append(q, t)
  <2>2. /\ p \in Seq(Tasks) /\ p # <<>>
        /\ Range(p) = Range(q) \cup {t}
        /\ IsInjective(q) /\ t \notin Range(q) => IsInjective(p)
        /\ q # <<>> => Head(p) = Head(q)
    BY <1>2, PushQueue
  <2>3. /\ runnableQ'[e] = p
        /\ \A f \in Executors \ {e} : runnableQ'[f] = runnableQ[f]
    BY <1>2, <2>1
  <2>4. TypeOK'
    BY <1>1, <1>2, <2>1, <2>2 DEF IInv, TypeOK, startVars, exVars, stopVars, dispVars, readings
  <2>5. OutsideInv'
    BY <1>1, <2>1 DEF IInv, OutsideInv, TypeOK, exVars
  <2>6. FrontIsStable'
    BY <1>1, <2>1, <2>2, <2>3 DEF IInv, FrontIsStable, exVars
  <2> HIDE DEF q, p, e
  <2>7. PlacedInv'
    <3>1. SUFFICES ASSUME ~overtaken
                   PROVE  PlacedInv'
      BY <1>1 DEF PlacedInv
    <3>2. ~Waits(t) /\ status[t] = "IDLE"
      BY <1>2, <3>1 DEF IInv, PlacedInv
    <3>3. \A x \in Tasks : (Waits(x)' <=> Waits(x) \/ x = t) /\ Runs(x)' = Runs(x)
      BY <1>1, <1>2, <2>2, <2>3 DEF Waits, Runs, exVars, dispVars, q
    <3>4. t \notin Range(stolen) /\ \A f \in Executors : t \notin Range(runnableQ[f])
      BY <3>2 DEF Waits
    <3>5. /\ \A f \in Executors : IsInjective(runnableQ'[f]) /\ Range(runnableQ'[f]) \cap Range(stolen) = {}
          /\ \A f, g \in Executors : f # g => Range(runnableQ'[f]) \cap Range(runnableQ'[g]) = {}
      <4>1. /\ UNCHANGED stolen /\ IsInjective(stolen) /\ IsInjective(p)
            /\ Range(p) \cap Range(stolen) = {}
        BY <1>1, <1>2, <2>2, <3>1, <3>4 DEF IInv, PlacedInv, q, dispVars
      <4>2. \A x \in Range(p) : x \in Range(runnableQ[e]) \/ ~Waits(x)
        BY <2>2, <3>2 DEF q
      <4> QED BY <1>2, <2>3, <3>1, <4>1, <4>2, QueuesApart DEF IInv
    <3> QED BY <1>1, <2>1, <3>1, <3>2, <3>3, <3>5 DEF IInv, PlacedInv, exVars, dispVars
  <2> QED BY <1>3, <2>4, <2>5, <2>6, <2>7 DEF IInv
<1> QED BY <1>4, <1>5

-----------------------------------------------------------------------------
(***************************************************************************)
(* The executors.                                                          *)
(***************************************************************************)
LEMMA IdleSteps ==
  ASSUME IInv, broken = "no", NEW e \in Executors,
         Loop(e) \/ IdleEnds(e) \/ IdleTimeout(e) \/ IdleStops(e)
  PROVE  IInv'
<1>1. /\ epc[e] \in {"loop", "idle", "expired"}
      /\ \E to \in {"loop", "front", "idle", "expired", "exited"} : epc' = [epc EXCEPT ![e] = to]
      /\ exStopping' = exStopping \/ exStopping' = [exStopping EXCEPT ![e] = TRUE]
      /\ UNCHANGED <<runnableQ, held, running, status, otherCalls, stopVars, dispVars,
                     overtaken, broken>>
  BY DEF Loop, IdleEnds, IdleTimeout, IdleStops, Goes
<1>2. epc \in [Executors -> ExecutorPlaces]
  BY DEF IInv, TypeOK
<1>3. TypeOK'
  <2>1. epc' \in [Executors -> ExecutorPlaces]
    BY <1>1, <1>2
  <2>2. exStopping' \in [Executors -> BOOLEAN]
    BY <1>1 DEF IInv, TypeOK
  <2> QED BY <1>1, <2>1, <2>2 DEF IInv, TypeOK, otherCalls, startVars, stopVars, dispVars, readings
<1>4. StartInv' /\ RoundInv' /\ OutsideInv'
  BY <1>1, <1>2, StartFrame, RoundFrame, OutsideFrame
  DEF IInv, otherCalls, startVars, stopVars, dispVars, readings
<1>5. PlacedInv' /\ FrontIsStable'
  BY <1>1, <1>2, PlacedFrame DEF IInv, otherCalls, dispVars
<1> QED BY <1>3, <1>4, <1>5 DEF IInv

LEMMA FrontStep ==
  ASSUME IInv, broken = "no", NEW e \in Executors, Front(e)
  PROVE  IInv'
<1>1. /\ epc[e] = "front" /\ epc' = [epc EXCEPT ![e] = "copy"]
      /\ (runnableQ[e] # <<>> /\ broken' = broken) \/ broken' = "frontEmpty"
      /\ UNCHANGED <<runnableQ, held, running, exStopping, status, otherCalls, stopVars, dispVars,
                     overtaken>>
  BY DEF Front, Goes
<1>2. epc \in [Executors -> ExecutorPlaces]
  BY DEF IInv, TypeOK
<1>3. TypeOK'
  BY <1>1, <1>2 DEF IInv, TypeOK, otherCalls, startVars, stopVars, dispVars, readings
<1>4. StartInv' /\ RoundInv' /\ OutsideInv'
  BY <1>1, <1>2, StartFrame, RoundFrame, OutsideFrame
  DEF IInv, otherCalls, startVars, stopVars, dispVars, readings
<1>5. FrontIsStable'
  BY <1>1, <1>2 DEF IInv, FrontIsStable
<1>6. PlacedInv'
  <2>1. \A x \in Tasks : (Waits(x)' <=> Waits(x)) /\ Runs(x)' = Runs(x)
    BY <1>1, <1>2 DEF Waits, Runs, dispVars
  <2>2. \A f \in Executors : epc'[f] = "run" => epc[f] = "run"
    BY <1>1, <1>2
  <2> QED BY <1>1, <2>1, <2>2 DEF IInv, PlacedInv, otherCalls, dispVars
<1> QED BY <1>3, <1>4, <1>5, <1>6 DEF IInv

\* What it copies is the front, as long as the queue keeps one.
LEMMA AssignStep ==
  ASSUME IInv, broken = "no", NEW e \in Executors, Assign(e)
  PROVE  IInv'
<1> PICK q \in Seq(Tasks) : q = runnableQ[e]
  BY DEF IInv, TypeOK
<1>1. /\ epc[e] = "copy" /\ epc' = [epc EXCEPT ![e] = "pop"]
      /\ running' = [running EXCEPT ![e] = Head(q)]
      /\ UNCHANGED <<runnableQ, held, exStopping, status, otherCalls, stopVars, dispVars, overtaken,
                     broken>>
  BY DEF Assign, Goes
<1>2. /\ epc \in [Executors -> ExecutorPlaces]
      /\ running \in [Executors -> Tasks \cup {None}]
  BY DEF IInv, TypeOK
<1>3. q # <<>> /\ Head(q) \in Tasks
  BY <1>1, PopQueue DEF IInv, FrontIsStable
<1>4. TypeOK'
  <2>1. running' \in [Executors -> Tasks \cup {None}]
    BY <1>1, <1>2, <1>3
  <2> QED BY <1>1, <1>2, <2>1 DEF IInv, TypeOK, otherCalls, startVars, stopVars, dispVars, readings
<1>5. StartInv' /\ RoundInv' /\ OutsideInv'
  BY <1>1, <1>2, StartFrame, RoundFrame, OutsideFrame
  DEF IInv, otherCalls, startVars, stopVars, dispVars, readings
<1>6. FrontIsStable'
  BY <1>1, <1>2, <1>3 DEF IInv, FrontIsStable
<1>7. PlacedInv'
  <2>1. \A x \in Tasks : (Waits(x)' <=> Waits(x)) /\ Runs(x)' = Runs(x)
    BY <1>1, <1>2 DEF Waits, Runs, dispVars
  <2>2. \A f \in Executors : epc'[f] = "run" => epc[f] = "run" /\ running'[f] = running[f]
    BY <1>1, <1>2
  <2>3. UNCHANGED <<runnableQ, stolen, status, added, overtaken, broken>>
    BY <1>1 DEF otherCalls, dispVars
  <2>4. SUFFICES ASSUME ~overtaken
                 PROVE  PlacedInv'
    BY <2>3 DEF PlacedInv
  <2>5. /\ \A f \in Executors :
             epc'[f] = "run" => running'[f] \in Tasks /\ status'[running'[f]] = "RUNNING"
        /\ \A f, g \in Executors :
             f # g /\ epc'[f] = "run" /\ epc'[g] = "run" => running'[f] # running'[g]
    BY <2>2, <2>3, <2>4 DEF IInv, PlacedInv
  <2>6. /\ \A x \in Tasks : Waits(x)' <=> x \in added' /\ status'[x] = "IDLE"
        /\ \A x \in Tasks : status'[x] = "RUNNING" => Runs(x)' # {}
    BY <2>1, <2>3, <2>4 DEF IInv, PlacedInv
  <2> QED BY <2>3, <2>4, <2>5, <2>6 DEF IInv, PlacedInv
<1> QED BY <1>4, <1>5, <1>6, <1>7 DEF IInv

LEMMA PopStep ==
  ASSUME IInv, broken = "no", NEW e \in Executors, Pop(e)
  PROVE  IInv'
<1> DEFINE q == runnableQ[e]
<1> PICK t : t = running[e]
  OBVIOUS
<1>1. /\ epc \in [Executors -> ExecutorPlaces]
      /\ running \in [Executors -> Tasks \cup {None}]
      /\ runnableQ \in [Executors -> Seq(Tasks)] /\ q \in Seq(Tasks)
      /\ status \in [Tasks -> {"IDLE", "RUNNING", "HOLD", "FINISHED"}]
  BY DEF IInv, TypeOK
<1>2. /\ epc[e] = "pop"
      /\ \/ epc' = [epc EXCEPT ![e] = "loop"]
         \/ status[t] # "FINISHED" /\ epc' = [epc EXCEPT ![e] = "run"]
      /\ running' = running \/ running' = [running EXCEPT ![e] = None]
      /\ runnableQ' = [runnableQ EXCEPT ![e] = IF @ = <<>> THEN @ ELSE Tail(@)]
      /\ status' = status \/ status' = [status EXCEPT ![t] = "RUNNING"]
      /\ broken' \in {"no", "popEmpty", "assert"}
      /\ UNCHANGED <<held, exStopping, otherCalls, stopVars, dispVars, overtaken>>
  <2>1. CASE status[t] = "FINISHED"
    BY <2>1 DEF Pop, Goes
  <2>2. CASE status[t] # "FINISHED"
    BY <1>1, <2>2 DEF Pop, Goes
  <2> QED BY <2>1, <2>2
<1>3. TypeOK'
  <2>1. /\ epc' \in [Executors -> ExecutorPlaces]
        /\ running' \in [Executors -> Tasks \cup {None}]
    BY <1>2, <1>1
  <2>2. runnableQ' \in [Executors -> Seq(Tasks)]
    BY <1>2, <1>1, PopQueue
  <2>3. status' \in [Tasks -> {"IDLE", "RUNNING", "HOLD", "FINISHED"}]
    BY <1>2, <1>1
  <2> QED BY <1>2, <2>1, <2>2, <2>3 DEF IInv, TypeOK, otherCalls, startVars, stopVars, dispVars, readings
<1>4. StartInv' /\ RoundInv' /\ OutsideInv'
  BY <1>2, <1>1, StartFrame, RoundFrame, OutsideFrame
  DEF IInv, otherCalls, startVars, stopVars, dispVars, readings
<1>5. ASSUME ~overtaken
      PROVE  PlacedInv' /\ FrontIsStable'
  <2>1. q # <<>> /\ t = Head(q)
    BY <1>2, <1>5 DEF IInv, FrontIsStable
  <2>2. /\ t \in Tasks /\ Tail(q) \in Seq(Tasks)
        /\ Range(q) = Range(Tail(q)) \cup {t}
        /\ IsInjective(Tail(q)) /\ t \notin Range(Tail(q))
    BY <1>1, <1>5, <2>1, PopQueue DEF IInv, PlacedInv
  <2>3. t \in added /\ status[t] = "IDLE"
    BY <1>5, <2>2 DEF IInv, PlacedInv, Waits
  <2>4. /\ epc' = [epc EXCEPT ![e] = "run"] /\ running' = running
        /\ runnableQ' = [runnableQ EXCEPT ![e] = Tail(q)]
        /\ status' = [status EXCEPT ![t] = "RUNNING"]
    BY <1>1, <2>1, <2>3 DEF Pop, Goes
  <2>5. /\ runnableQ'[e] = Tail(q)
        /\ \A f \in Executors \ {e} : runnableQ'[f] = runnableQ[f] /\ epc'[f] = epc[f]
        /\ UNCHANGED <<stolen, added>>
        /\ epc'[e] = "run" /\ running'[e] = t
        /\ status'[t] = "RUNNING" /\ \A x \in Tasks \ {t} : status'[x] = status[x]
    BY <1>2, <1>1, <2>2, <2>4 DEF otherCalls, dispVars
  <2> HIDE DEF q
  <2>6. FrontIsStable'
    BY <1>5, <2>4, <2>5 DEF IInv, FrontIsStable
  <2>7. t \notin Range(stolen) /\ \A f \in Executors \ {e} : t \notin Range(runnableQ[f])
    BY <1>5, <2>2 DEF IInv, PlacedInv, q
  <2>8. /\ \A f \in Executors : epc[f] = "run" => running[f] # t
        /\ \A f \in Executors : epc[f] = "run" => f # e
    BY <1>2, <1>5, <2>3 DEF IInv, PlacedInv
  <2>9. \A x \in Tasks : Waits(x)' <=> Waits(x) /\ x # t
    BY <2>2, <2>5, <2>7 DEF Waits, q
  <2>10. /\ \A f \in Executors : IsInjective(runnableQ'[f])
         /\ \A f \in Executors : Range(runnableQ'[f]) \cap Range(stolen') = {}
         /\ \A f, g \in Executors : f # g => Range(runnableQ'[f]) \cap Range(runnableQ'[g]) = {}
    <3>1. /\ IsInjective(stolen)
          /\ Range(Tail(q)) \cap Range(stolen) = {}
          /\ \A x \in Range(Tail(q)) : x \in Range(runnableQ[e])
      BY <1>5, <2>2 DEF IInv, PlacedInv, q
    <3> QED BY <1>5, <2>2, <2>5, <3>1, QueuesApart DEF IInv
  <2>11. \A x \in Tasks : status'[x] = "RUNNING" => Runs(x)' # {}
    <3>1. e \in Runs(t)'
      BY <2>5 DEF Runs
    <3>2. \A x \in Tasks \ {t}, f \in Executors : f \in Runs(x) => f \in Runs(x)'
      BY <2>4, <2>5, <2>8 DEF Runs
    <3>3. \A x \in Tasks : Runs(x) \subseteq Executors
      BY DEF Runs
    <3>4. \A x \in Tasks : status[x] = "RUNNING" => Runs(x) # {}
      BY <1>5 DEF IInv, PlacedInv
    <3> QED BY <2>5, <3>1, <3>2, <3>3, <3>4
  <2>12. /\ \A f \in Executors : epc'[f] = "run" => running'[f] \in Tasks /\ status'[running'[f]] = "RUNNING"
         /\ \A f, g \in Executors :
              f # g /\ epc'[f] = "run" /\ epc'[g] = "run" => running'[f] # running'[g]
    BY <1>5, <2>2, <2>4, <2>5, <2>8 DEF IInv, PlacedInv
  <2>13. /\ \A x \in Tasks : Waits(x)' <=> x \in added' /\ status'[x] = "IDLE"
         /\ \A x \in Tasks \ added' : status'[x] = "IDLE"
    BY <1>5, <2>3, <2>5, <2>9 DEF IInv, PlacedInv
  <2>14. IsInjective(stolen')
    BY <1>5, <2>5 DEF IInv, PlacedInv
  <2> QED BY <2>6, <2>10, <2>11, <2>12, <2>13, <2>14 DEF PlacedInv
<1>6. ASSUME overtaken
      PROVE  PlacedInv' /\ FrontIsStable'
  <2>1. \A f \in Executors : epc'[f] = "copy" => epc[f] = "copy" /\ runnableQ'[f] = runnableQ[f]
    BY <1>1, <1>2
  <2> QED BY <1>2, <1>6, <2>1 DEF IInv, PlacedInv, FrontIsStable
<1> QED BY <1>3, <1>4, <1>5, <1>6 DEF IInv

\* The coroutine comes back, for good or to be held.
LEMMA RunStep ==
  ASSUME IInv, broken = "no", NEW e \in Executors, RunEnds(e) \/ RunHolds(e)
  PROVE  IInv'
<1> PICK t : t = running[e]
  OBVIOUS
<1>1. /\ epc \in [Executors -> ExecutorPlaces]
      /\ running \in [Executors -> Tasks \cup {None}]
      /\ held \in [Executors -> SUBSET Tasks]
      /\ status \in [Tasks -> {"IDLE", "RUNNING", "HOLD", "FINISHED"}]
  BY DEF IInv, TypeOK
<1>2. /\ epc[e] = "run" /\ epc' = [epc EXCEPT ![e] = "loop"]
      /\ running' = running \/ running' = [running EXCEPT ![e] = None]
      /\ \E to \in {"HOLD", "FINISHED"} : status' = [status EXCEPT ![t] = to]
      /\ held' = held \/ (t \in Tasks /\ held' = [held EXCEPT ![e] = @ \cup {t}])
      /\ UNCHANGED <<runnableQ, exStopping, otherCalls, stopVars, dispVars, overtaken, broken>>
  BY SchedulerAssumption DEF RunEnds, RunHolds, Goes
<1>3. TypeOK'
  <2>1. /\ epc' \in [Executors -> ExecutorPlaces]
        /\ running' \in [Executors -> Tasks \cup {None}]
    BY <1>1, <1>2
  <2>2. status' \in [Tasks -> {"IDLE", "RUNNING", "HOLD", "FINISHED"}]
    BY <1>1, <1>2
  <2>3. held' \in [Executors -> SUBSET Tasks]
    BY <1>1, <1>2
  <2> QED BY <1>2, <2>1, <2>2, <2>3 DEF IInv, TypeOK, otherCalls, startVars, stopVars, dispVars, readings
<1>4. StartInv' /\ RoundInv'
  BY <1>1, <1>2, StartFrame, RoundFrame DEF IInv, otherCalls, startVars, stopVars, dispVars, readings
<1>5. OutsideInv'
  <2>1. IsFiniteSet(held[e] \cup {t})
    BY FS_AddElement DEF IInv, OutsideInv
  <2>2. \A f \in Executors : IsFiniteSet(held'[f])
    BY <1>1, <1>2, <2>1 DEF IInv, OutsideInv
  <2> QED BY <1>2, <2>2 DEF IInv, OutsideInv, otherCalls
<1>6. FrontIsStable'
  BY <1>1, <1>2 DEF IInv, FrontIsStable
<1>7. PlacedInv'
  <2>1. SUFFICES ASSUME ~overtaken
                 PROVE  PlacedInv'
    BY <1>2 DEF PlacedInv
  <2>2. t \in Tasks /\ status[t] = "RUNNING"
    BY <1>2, <2>1 DEF IInv, PlacedInv
  <2>3. /\ epc'[e] = "loop" /\ \A f \in Executors \ {e} : epc'[f] = epc[f] /\ running'[f] = running[f]
        /\ status'[t] \in {"HOLD", "FINISHED"} /\ \A x \in Tasks \ {t} : status'[x] = status[x]
        /\ UNCHANGED <<runnableQ, stolen, added, overtaken, broken>>
    BY <1>1, <1>2, <2>2 DEF otherCalls, dispVars
  <2>4. \A f \in Executors \ {e} : epc[f] = "run" => running[f] # t
    BY <1>2, <2>1 DEF IInv, PlacedInv
  <2>5. \A x \in Tasks : Waits(x)' <=> Waits(x)
    BY <2>3 DEF Waits
  <2>6. \A x \in Tasks \ {t} : Runs(x)' = Runs(x)
    BY <1>2, <2>3 DEF Runs
  <2>7. \A x \in Tasks : status'[x] = "RUNNING" => Runs(x)' # {}
    BY <2>1, <2>3, <2>6 DEF IInv, PlacedInv
  <2>8. \A f \in Executors :
          epc'[f] = "run" => running'[f] \in Tasks /\ status'[running'[f]] = "RUNNING"
    BY <2>1, <2>3, <2>4 DEF IInv, PlacedInv
  <2>9. \A f, g \in Executors :
          f # g /\ epc'[f] = "run" /\ epc'[g] = "run" => running'[f] # running'[g]
    BY <2>1, <2>3 DEF IInv, PlacedInv
  <2>10. /\ \A x \in Tasks : Waits(x)' <=> x \in added' /\ status'[x] = "IDLE"
         /\ \A x \in Tasks \ added' : status'[x] = "IDLE"
    BY <2>1, <2>2, <2>3, <2>5 DEF IInv, PlacedInv
  <2> QED BY <2>1, <2>3, <2>7, <2>8, <2>9, <2>10 DEF IInv, PlacedInv
<1> QED BY <1>3, <1>4, <1>5, <1>6, <1>7 DEF IInv

-----------------------------------------------------------------------------
(***************************************************************************)
(* The dispatcher.                                                         *)
(***************************************************************************)
\* Whatever is added up, the average is a number of tasks.
LEMMA AverageIsNat == ASSUME NEW n \in Nat PROVE n \div N \in Nat
  BY SchedulerAssumption

\* The index of a loop stays one of an executor.
LEMMA NextIsIndex == ASSUME NEW i \in Executors PROVE NextIndex(i) \in Executors
<1>1. N \in Nat /\ N > 0 /\ i + 1 \in Nat
  BY SchedulerAssumption DEF Executors
<1>2. (i + 1) % N \in 0 .. (N - 1)
  BY <1>1
<1> QED BY <1>2 DEF NextIndex, Executors

\* A round, until it takes the first task: it reads loads, and nothing else.
LEMMA ReadSteps ==
  ASSUME IInv, broken = "no",
         \/ DispatcherLoop \/ DispatcherWakes \/ CountRunnable \/ CountWaiting \/ Average
         \/ Scan \/ IsBlocking
  PROVE  IInv'
<1>1. /\ UNCHANGED <<runnableQ, exVars, otherCalls, stopVars, overtaken, broken>>
      /\ dpc # "none"
  BY DEF DispatcherLoop, DispatcherWakes, CountRunnable, CountWaiting, Average, Scan, IsBlocking,
         Dispatching
<1>2. /\ totalLoads \in Nat /\ avgLoad \in Nat /\ minLoad \in Nat /\ load \in Nat
      /\ idx \in Executors /\ minLoadIdx \in Executors /\ NextIndex(idx) \in Executors
      /\ 0 \in Executors
      /\ low \in [Executors -> Nat \cup {-1}]
      /\ \A e \in Executors : GetRunnableCount(e) \in Nat
  <2>1. 0 \in Executors
    BY SchedulerAssumption DEF Executors
  <2>2. \A e \in Executors : GetRunnableCount(e) \in Nat
    BY DEF IInv, TypeOK, GetRunnableCount
  <2> QED BY <2>1, <2>2, NextIsIndex DEF IInv, TypeOK
<1>3. stolen' = stolen
  BY DEF IInv, RoundInv, DispatcherLoop, DispatcherWakes, CountRunnable, CountWaiting, Average,
         Scan, IsBlocking, Dispatching
<1>4. TypeOK' /\ RoundInv'
  <2> SUFFICES /\ dpc' \in {"none", "top", "sleep", "countRunnable", "countWaiting", "average", "scan",
                            "blocking", "give", "supply", "rest", "exited"}
               /\ idx' \in Executors
               /\ totalLoads' \in Nat /\ avgLoad' \in Nat /\ minLoad' \in Nat /\ load' \in Nat
               /\ minLoadIdx' \in Executors
               /\ takeAll' \in BOOLEAN
               /\ low' \in [Executors -> Nat \cup {-1}]
               /\ RoundInv'
    BY <1>1, <1>3 DEF IInv, TypeOK, exVars, otherCalls, startVars, stopVars
  <2>1. CASE DispatcherLoop
    <3>1. /\ dpc' \in {"exited", "sleep"} /\ idx' = 0 /\ totalLoads' = 0 /\ avgLoad' = 0
          /\ minLoad' = 0 /\ minLoadIdx' = 0 /\ load' = 0 /\ takeAll' = FALSE
          /\ low' = [e \in Executors |-> -1] /\ stolen' = <<>>
      BY <2>1 DEF DispatcherLoop
    <3>2. low' \in [Executors -> Nat \cup {-1}] /\ \A e \in Executors : low'[e] <= avgLoad'
      BY <3>1
    <3> QED BY <1>2, <3>1, <3>2 DEF RoundInv
  <2>2. CASE DispatcherWakes
    BY <1>1, <1>2, <2>2 DEF IInv, TypeOK, RoundInv, DispatcherWakes, readings
  <2>3. CASE CountRunnable
    BY <1>1, <1>2, <2>3 DEF IInv, TypeOK, RoundInv, CountRunnable, Dispatching
  <2>4. CASE CountWaiting
    <3>1. GetWaitingCount(idx) \in Nat
      BY <1>2, FS_CardinalityType DEF IInv, OutsideInv, GetWaitingCount
    <3> QED BY <1>1, <1>2, <2>4, <3>1 DEF IInv, TypeOK, RoundInv, CountWaiting, Dispatching
  <2>5. CASE Average
    <3>1. totalLoads \div N \in Nat
      BY <1>2, AverageIsNat
    <3>2. dpc = "average"
      BY <2>5 DEF Average, Dispatching
    <3>3. CASE totalLoads = 0
      BY <1>1, <1>2, <2>5, <3>2, <3>3 DEF IInv, TypeOK, RoundInv, Average, Dispatching
    <3>4. CASE totalLoads # 0
      BY <1>1, <1>2, <2>5, <3>1, <3>2, <3>4 DEF IInv, TypeOK, RoundInv, Average, Dispatching
    <3> QED BY <3>3, <3>4
  <2>6. CASE Scan
    <3> PICK l \in Nat : l = GetRunnableCount(idx)
      BY <1>2
    <3>1. /\ dpc = "scan" /\ load' = l
          /\ \/ minLoad' = l /\ minLoadIdx' = idx
             \/ UNCHANGED <<minLoad, minLoadIdx>>
          /\ \/ l > avgLoad /\ dpc' = "blocking" /\ UNCHANGED <<low, idx>>
             \/ /\ ~(l > avgLoad)
                /\ dpc' \in {"scan", "supply"} \/ (dpc' = "top" /\ stolen = <<>>)
                /\ low' = [low EXCEPT ![idx] = l] /\ idx' = NextIndex(idx)
          /\ UNCHANGED <<totalLoads, avgLoad, takeAll>>
      BY <2>6 DEF Scan, Dispatching, AfterScan, Overloaded
    <3>2. low' \in [Executors -> Nat \cup {-1}]
      BY <1>2, <3>1
    <3>3. \A e \in Executors : low'[e] <= avgLoad'
      BY <1>2, <3>1 DEF IInv, RoundInv
    <3>4. RoundInv'
      BY <1>3, <3>1, <3>3 DEF RoundInv
    <3> QED BY <1>2, <3>1, <3>2, <3>4 DEF IInv, TypeOK
  <2>7. CASE IsBlocking
    BY <1>1, <1>2, <2>7 DEF IInv, TypeOK, RoundInv, IsBlocking, Dispatching
  <2> QED BY <2>1, <2>2, <2>3, <2>4, <2>5, <2>6, <2>7
<1>5. StartInv' /\ OutsideInv'
  BY <1>1, StartFrame, OutsideFrame DEF IInv, exVars, otherCalls, startVars, stopVars
<1>6. PlacedInv' /\ FrontIsStable'
  BY <1>1, <1>3, PlacedFrame DEF IInv, exVars, otherCalls
<1> QED BY <1>4, <1>5, <1>6 DEF IInv

\* GiveUpTasks cuts the queue in two.
LEMMA GivenUpParts ==
  ASSUME NEW q \in Seq(Tasks), NEW n \in Nat
  PROVE  LET given == GivenUp(q, n)
         IN  given[1] \in Seq(Tasks) /\ given[2] \in Seq(Tasks) /\ given[1] \o given[2] = q
<1> DEFINE k == IF n = 0 \/ n > Len(q) THEN Len(q) ELSE n
           m == Len(q) - k
<1>1. m \in 0 .. Len(q) /\ Len(q) - k + 1 = m + 1
  OBVIOUS
<1>2. /\ GivenUp(q, n)[1] = SubSeq(q, 1, m)
      /\ GivenUp(q, n)[2] = SubSeq(q, m + 1, Len(q))
  BY <1>1 DEF GivenUp
<1> HIDE DEF m
<1>3. /\ SubSeq(q, 1, m) \in Seq(Tasks) /\ SubSeq(q, m + 1, Len(q)) \in Seq(Tasks)
      /\ SubSeq(q, 1, m) \o SubSeq(q, m + 1, Len(q)) = q
  BY <1>1, CutQueue
<1> QED BY <1>2, <1>3

\* Moving tasks between a queue and the dispatcher's hands changes nobody's status.
LEMMA MovedTasks ==
  ASSUME PlacedInv, broken = "no", ~overtaken,
         UNCHANGED <<epc, running, status, added>>,
         \A t \in Tasks : Waits(t)' <=> Waits(t),
         IsInjective(stolen'),
         \A e \in Executors : IsInjective(runnableQ'[e]),
         \A e \in Executors : Range(runnableQ'[e]) \cap Range(stolen') = {},
         \A e, f \in Executors : e # f => Range(runnableQ'[e]) \cap Range(runnableQ'[f]) = {}
  PROVE  PlacedInv'
<1>1. \A t \in Tasks : Runs(t)' = Runs(t)
  BY DEF Runs
<1> QED BY <1>1 DEF PlacedInv

LEMMA GiveUpStep == ASSUME IInv, broken = "no", GiveUpTasks PROVE IInv'
<1> DEFINE n == IF takeAll THEN 0 ELSE load - avgLoad
<1>1. n \in Nat
  BY DEF IInv, TypeOK, RoundInv, GiveUpTasks, Dispatching
<1> PICK e \in Executors : e = idx
  BY DEF IInv, TypeOK
<1> PICK q \in Seq(Tasks) : q = runnableQ[e]
  BY DEF IInv, TypeOK
<1> PICK a, b : a = GivenUp(q, n)[1] /\ b = GivenUp(q, n)[2]
  OBVIOUS
<1> HIDE DEF n
<1>2. a \in Seq(Tasks) /\ b \in Seq(Tasks) /\ a \o b = q
  BY <1>1, GivenUpParts
<1>3. /\ dpc = "give" /\ dpc' = AfterScan(stolen')
      /\ runnableQ' = [runnableQ EXCEPT ![e] = a]
      /\ stolen' = stolen \o b
      /\ overtaken' = (overtaken \/ (epc[e] = "pop" /\ running[e] \in Range(b)))
      /\ idx' = NextIndex(idx)
      /\ UNCHANGED <<readings, exVars, otherCalls, stopVars, broken>>
  BY DEF GiveUpTasks, Dispatching, Given, n
<1>4. stolen \in Seq(Tasks) /\ runnableQ \in [Executors -> Seq(Tasks)]
  BY DEF IInv, TypeOK
<1>5. stolen' \in Seq(Tasks) /\ Range(stolen') = Range(stolen) \cup Range(b)
  BY <1>2, <1>3, <1>4, JoinQueues
<1>6. TypeOK'
  <2>1. /\ dpc' \in {"scan", "top", "supply"} /\ NextIndex(idx) \in Executors
        /\ runnableQ' \in [Executors -> Seq(Tasks)]
    BY <1>2, <1>3, <1>4, NextIsIndex DEF AfterScan
  <2>2. overtaken' \in BOOLEAN
    BY <1>3 DEF IInv, TypeOK
  <2> QED BY <1>3, <1>5, <2>1, <2>2 DEF IInv, TypeOK, readings, exVars, otherCalls, startVars, stopVars
<1>7. StartInv' /\ OutsideInv'
  BY <1>3, StartFrame, OutsideFrame DEF IInv, exVars, otherCalls, startVars, stopVars
<1>8. RoundInv'
  <2>1. dpc' \in {"scan", "supply"} \/ (dpc' = "top" /\ stolen' = <<>>)
    BY <1>3 DEF AfterScan
  <2> QED BY <1>3, <2>1 DEF IInv, RoundInv, readings
<1>9. epc[e] = "copy" => a # <<>>
  BY DEF GiveUpTasks, TakesReferred, Given, n
<1>10. ASSUME ~overtaken'
      PROVE  PlacedInv' /\ FrontIsStable'
  <2>1. ~overtaken /\ (epc[e] = "pop" => running[e] \notin Range(b))
    BY <1>3, <1>10 DEF IInv, TypeOK
  <2>2. /\ Range(q) = Range(a) \cup Range(b) /\ IsInjective(a) /\ IsInjective(b)
        /\ Range(a) \cap Range(b) = {}
    <3>1. Range(a \o b) = Range(a) \cup Range(b)
      <4>1. a \in Seq(Tasks) /\ b \in Seq(Tasks)
        BY <1>2
      <4> QED BY ONLY <4>1, JoinQueues
    <3>2. IsInjective(a \o b)
      BY <1>2, <2>1 DEF IInv, PlacedInv
    <3>3. /\ IsInjective(a) /\ IsInjective(b)
          /\ Range(a) \cap Range(b) = {}
      BY <1>2, <3>2, PartsOfQueue
    <3> QED BY <1>2, <3>1, <3>3
  <2>3. /\ runnableQ'[e] = a /\ \A f \in Executors \ {e} : runnableQ'[f] = runnableQ[f]
        /\ UNCHANGED <<epc, running, status, added>>
    BY <1>3, <1>4 DEF exVars, otherCalls
  <2>4. \A t \in Tasks : Waits(t)' <=> Waits(t)
    BY <1>5, <2>2, <2>3 DEF Waits
  <2>5. Range(q) \cap Range(stolen) = {} /\ IsInjective(stolen)
    BY <2>1 DEF IInv, PlacedInv
  <2>6. IsInjective(stolen') /\ Range(a) \cap Range(stolen') = {}
    BY <1>2, <1>3, <1>4, <1>5, <2>2, <2>5, JoinQueues
  <2>7. /\ \A f \in Executors : IsInjective(runnableQ'[f])
        /\ \A f \in Executors : Range(runnableQ'[f]) \cap Range(stolen') = {}
        /\ \A f, g \in Executors : f # g => Range(runnableQ'[f]) \cap Range(runnableQ'[g]) = {}
    <3>1. \A x \in Range(a) \cup Range(stolen') :
            x \in Range(runnableQ[e]) \/ x \in Range(stolen) \/ ~Waits(x)
      BY <1>5, <2>2
    <3> QED BY <2>1, <2>2, <2>3, <2>6, <3>1, QueuesApart DEF IInv
  <2>8. PlacedInv'
    BY <2>1, <2>3, <2>4, <2>6, <2>7, MovedTasks DEF IInv
  <2>9. FrontIsStable'
    <3>1. ASSUME epc[e] = "pop"
          PROVE  a # <<>> /\ Head(a) = running[e]
      <4>1. q # <<>> /\ Head(q) = running[e] /\ Head(q) \notin Range(b)
        BY <2>1, <3>1 DEF IInv, FrontIsStable
      <4>2. a # <<>>
        <5>1. a = <<>> => q = b
          BY <1>2
        <5> QED BY <4>1, <5>1, PopQueue
      <4> QED BY <1>2, <4>1, <4>2, FrontStays
    <3> QED BY <1>9, <2>1, <2>3, <3>1 DEF IInv, FrontIsStable
  <2> QED BY <2>8, <2>9
<1>11. ASSUME overtaken'
       PROVE  PlacedInv' /\ FrontIsStable'
  <2>1. \A f \in Executors : epc'[f] = "copy" => runnableQ'[f] # <<>>
    BY <1>3, <1>4, <1>9 DEF IInv, FrontIsStable, exVars
  <2> QED BY <1>3, <1>11, <2>1 DEF IInv, PlacedInv, FrontIsStable
<1> QED BY <1>6, <1>7, <1>8, <1>10, <1>11 DEF IInv

\* Supply and Rest: the first tasks in hand, or all, go to the end of a queue.
LEMMA AddTasksStep ==
  ASSUME IInv, broken = "no", ~overtaken,
         NEW e \in Executors, NEW a \in Seq(Tasks), NEW b \in Seq(Tasks), stolen = a \o b,
         runnableQ' = [runnableQ EXCEPT ![e] = @ \o a], stolen' = b,
         UNCHANGED <<epc, running, status, added, overtaken, broken>>
  PROVE  PlacedInv' /\ FrontIsStable'
<1> PICK q \in Seq(Tasks) : q = runnableQ[e]
  BY DEF IInv, TypeOK
<1>1. /\ runnableQ'[e] = q \o a /\ \A f \in Executors \ {e} : runnableQ'[f] = runnableQ[f]
  BY DEF IInv, TypeOK
<1>2. IsInjective(stolen) /\ IsInjective(q) /\ Range(q) \cap Range(stolen) = {}
  BY DEF IInv, PlacedInv
<1>3. /\ Range(stolen) = Range(a) \cup Range(b) /\ IsInjective(a) /\ IsInjective(b)
      /\ Range(a) \cap Range(b) = {}
  BY <1>2, JoinQueues, PartsOfQueue
<1>4. Range(q \o a) = Range(q) \cup Range(a) /\ IsInjective(q \o a)
  BY <1>2, <1>3, JoinQueues
<1>5. \A t \in Tasks : Waits(t)' <=> Waits(t)
  BY <1>1, <1>3, <1>4 DEF Waits
<1>6. /\ \A f \in Executors : IsInjective(runnableQ'[f])
      /\ \A f \in Executors : Range(runnableQ'[f]) \cap Range(stolen') = {}
      /\ \A f, g \in Executors : f # g => Range(runnableQ'[f]) \cap Range(runnableQ'[g]) = {}
  BY <1>1, <1>2, <1>3, <1>4, QueuesApart DEF IInv
<1>7. PlacedInv'
  BY <1>3, <1>5, <1>6, MovedTasks DEF IInv
<1>8. FrontIsStable'
  BY <1>1, FrontStays DEF IInv, FrontIsStable
<1> QED BY <1>7, <1>8

\* A queue that only grows keeps what an executor refers to.
LEMMA AddedStayReferred ==
  ASSUME IInv, broken = "no", overtaken,
         NEW e \in Executors, NEW a \in Seq(Tasks),
         runnableQ' = [runnableQ EXCEPT ![e] = @ \o a],
         UNCHANGED <<epc, overtaken, broken>>
  PROVE  FrontIsStable'
<1>1. \A f \in Executors : runnableQ[f] # <<>> => runnableQ'[f] # <<>>
  BY DEF IInv, TypeOK
<1> QED BY <1>1 DEF IInv, FrontIsStable

LEMMA SupplyStep == ASSUME IInv, broken = "no", Supply PROVE IInv'
<1> DEFINE lacks == IF low[idx] = -1 THEN 0 ELSE avgLoad - low[idx]
           n     == IF lacks < Len(stolen) THEN lacks ELSE Len(stolen)
<1>1. idx \in Executors /\ stolen \in Seq(Tasks) /\ n \in 0 .. Len(stolen)
  BY DEF IInv, TypeOK, RoundInv
<1> PICK e \in Executors : e = idx
  BY <1>1
<1> PICK a, b : a = SubSeq(stolen, 1, n) /\ b = SubSeq(stolen, n + 1, Len(stolen))
  OBVIOUS
<1>2. a \in Seq(Tasks) /\ b \in Seq(Tasks) /\ a \o b = stolen
  BY <1>1, CutQueue
<1>3. /\ dpc = "supply" /\ runnableQ' = [runnableQ EXCEPT ![e] = @ \o a] /\ stolen' = b
      /\ dpc' = IF stolen' = <<>> THEN "top" ELSE IF idx + 1 < N THEN "supply" ELSE "rest"
      /\ idx' = NextIndex(idx)
      /\ UNCHANGED <<readings, exVars, otherCalls, stopVars, overtaken, broken>>
  BY DEF Supply, Dispatching, AddTasks
<1> HIDE DEF n
<1>4. TypeOK'
  <2>1. runnableQ[e] \o a \in Seq(Tasks)
    BY <1>2, JoinQueues DEF IInv, TypeOK
  <2>2. runnableQ' \in [Executors -> Seq(Tasks)] /\ NextIndex(idx) \in Executors
    BY <1>1, <1>3, <2>1, NextIsIndex DEF IInv, TypeOK
  <2> QED BY <1>2, <1>3, <2>2 DEF IInv, TypeOK, readings, exVars, otherCalls, startVars, stopVars
<1>5. StartInv' /\ OutsideInv'
  BY <1>3, StartFrame, OutsideFrame DEF IInv, exVars, otherCalls, startVars, stopVars
<1>6. RoundInv'
  BY <1>3 DEF IInv, RoundInv, readings
<1>7. ~overtaken => PlacedInv' /\ FrontIsStable'
  BY <1>2, <1>3, AddTasksStep DEF exVars, otherCalls
<1>8. overtaken => PlacedInv' /\ FrontIsStable'
  BY <1>2, <1>3, AddedStayReferred DEF PlacedInv, exVars
<1> QED BY <1>4, <1>5, <1>6, <1>7, <1>8 DEF IInv

LEMMA RestStep == ASSUME IInv, broken = "no", Rest PROVE IInv'
<1> PICK e \in Executors : e = minLoadIdx
  BY DEF IInv, TypeOK
<1>1. /\ dpc = "rest" /\ dpc' = "top"
      /\ runnableQ' = [runnableQ EXCEPT ![e] = @ \o stolen] /\ stolen' = <<>>
      /\ UNCHANGED <<idx, readings, exVars, otherCalls, stopVars, overtaken, broken>>
  BY DEF Rest, Dispatching, AddTasks
<1>2. stolen \in Seq(Tasks) /\ <<>> \in Seq(Tasks) /\ stolen = stolen \o <<>>
  BY EmptyIsQueue DEF IInv, TypeOK
<1>3. TypeOK'
  <2>1. runnableQ[e] \o stolen \in Seq(Tasks)
    BY <1>2, JoinQueues DEF IInv, TypeOK
  <2>2. runnableQ' \in [Executors -> Seq(Tasks)]
    BY <1>1, <2>1 DEF IInv, TypeOK
  <2> QED BY <1>1, <1>2, <2>2 DEF IInv, TypeOK, readings, exVars, otherCalls, startVars, stopVars
<1>4. StartInv' /\ OutsideInv'
  BY <1>1, StartFrame, OutsideFrame DEF IInv, exVars, otherCalls, startVars, stopVars
<1>5. RoundInv'
  BY <1>1 DEF IInv, RoundInv, readings
<1>6. ~overtaken => PlacedInv' /\ FrontIsStable'
  BY <1>1, <1>2, AddTasksStep DEF exVars, otherCalls
<1>7. overtaken => PlacedInv' /\ FrontIsStable'
  BY <1>1, <1>2, AddedStayReferred DEF PlacedInv, exVars
<1> QED BY <1>3, <1>4, <1>5, <1>6, <1>7 DEF IInv

-----------------------------------------------------------------------------
LEMMA NextKeepsIInv == ASSUME IInv, [Next]_vars PROVE IInv'
<1>1. CASE UNCHANGED vars
  <2>1. UNCHANGED <<size, spc, adding, runnableQ, held, running, epc, exStopping, status, added,
                    stpc, told, dpc, idx, totalLoads, avgLoad, minLoad, minLoadIdx, load, takeAll,
                    low, stolen, overtaken, broken>>
    BY <1>1 DEF vars, startVars, exVars, stopVars, dispVars, readings
  <2>2. TypeOK' /\ StartInv' /\ RoundInv' /\ OutsideInv'
    BY <2>1 DEF IInv, TypeOK, StartInv, RoundInv, OutsideInv, Cleared
  <2>3. PlacedInv' /\ FrontIsStable'
    BY <2>1 DEF IInv, PlacedInv, FrontIsStable, Waits, Runs
  <2> QED BY <2>2, <2>3 DEF IInv
<1>2. CASE Next
  <2> broken = "no"
    BY <1>2 DEF Next
  <2>1. CASE \E t \in Tasks : AddTaskChooses(t) \/ AddTaskPuts(t)
    BY <2>1, AddTaskChoosesStep, AddTaskPutsStep
  <2>2. CASE StartCalled \/ StartStep
    BY <2>2, StartSteps, EndSteps DEF StartStep
  <2>3. CASE \E e \in Executors : ExecutorStep(e) \/ IdleTimeout(e)
    BY <2>3, IdleSteps, FrontStep, AssignStep, PopStep, RunStep DEF ExecutorStep
  <2>4. CASE DispatcherStep
    BY <2>4, ReadSteps, GiveUpStep, SupplyStep, RestStep, EndSteps DEF DispatcherStep
  <2>5. CASE StopCalled \/ StopStep
    BY <2>5, StopSteps
  <2> QED BY <1>2, <2>1, <2>2, <2>3, <2>4, <2>5 DEF Next
<1> QED BY <1>1, <1>2

\* In every behaviour of the scheduler: the types, what Start has done when, the loads
\* a round works with, and where each task is.
THEOREM Invariance == Spec => []IInv
<1>1. Init => IInv
  BY InitIInv
<1>2. IInv /\ [Next]_vars => IInv'
  BY NextKeepsIInv
<1> QED BY <1>1, <1>2, PTL DEF Spec

-----------------------------------------------------------------------------
LEMMA IInvPlacesOnce == IInv => OncePlaced
<1> SUFFICES ASSUME IInv, broken = "no", ~overtaken, NEW t \in added
             PROVE  Cardinality(InQueue(t)) + Cardinality(Runs(t))
                      + (IF t \in Range(stolen) THEN 1 ELSE 0)
                      + (IF status[t] \in {"HOLD", "FINISHED"} THEN 1 ELSE 0) = 1
  BY DEF IInv, PlacedInv, OncePlaced
<1>1. t \in Tasks /\ status[t] \in {"IDLE", "RUNNING", "HOLD", "FINISHED"}
  BY DEF IInv, TypeOK
<1>2. /\ Waits(t) <=> status[t] = "IDLE"
      /\ Runs(t) # {} <=> status[t] = "RUNNING"
  BY <1>1 DEF IInv, PlacedInv, Runs
<1>3. /\ InQueue(t) # {} \/ t \in Range(stolen) <=> Waits(t)
      /\ InQueue(t) = {} \/ t \notin Range(stolen)
  BY DEF IInv, PlacedInv, InQueue, Waits
<1>4. Cardinality(InQueue(t)) = IF InQueue(t) = {} THEN 0 ELSE 1
  <2>1. \A e, f \in InQueue(t) : e = f
    BY DEF IInv, PlacedInv, InQueue
  <2>2. PICK e : InQueue(t) \subseteq {e}
    BY <2>1
  <2> QED BY <2>2, CountOne
<1>5. Cardinality(Runs(t)) = IF Runs(t) = {} THEN 0 ELSE 1
  <2>1. \A e, f \in Runs(t) : e = f
    BY DEF IInv, PlacedInv, Runs
  <2>2. PICK e : Runs(t) \subseteq {e}
    BY <2>1
  <2> QED BY <2>2, CountOne
<1> QED BY <1>1, <1>2, <1>3, <1>4, <1>5

\* Load balancing keeps every task, and keeps it in one place: no dispatch loses a task,
\* doubles it or gives it to two executors, unless it overtakes a PopFront.
THEOREM PlacedOnce == Spec => []OncePlaced
<1> QED BY Invariance, IInvPlacesOnce, PTL

\* What Front has read is what PopFront takes, unless a dispatch has taken it between.
THEOREM FrontStable == Spec => []FrontIsStable
<1>1. IInv => FrontIsStable
  BY DEF IInv
<1> QED BY <1>1, Invariance, PTL

\* Every dispatch round reads all the executors that Start makes, and the thread of each
\* runs by then: the dispatcher is not created before the last of them is in place.
THEOREM EveryRoundSeesAll == Spec => []RoundSeesAll
<1>1. IInv => RoundSeesAll
  BY SchedulerAssumption DEF IInv, StartInv, RoundSeesAll, Executors, Cleared
<1> QED BY <1>1, Invariance, PTL

\* However stale the loads a round works with are, none of the unsigned differences it
\* forms wraps around, and it gives up no more than it means to: load - avgLoad is not 0,
\* which GiveUpTasks takes for all.
THEOREM NoDifferenceWraps == Spec => []RoundInv
<1>1. IInv => RoundInv
  BY DEF IInv
<1> QED BY <1>1, Invariance, PTL

=============================================================================
