--------------------------- MODULE CoroutineProofs --------------------------
(***************************************************************************)
(* The objects and their threads, for any number of them, whatever runs on *)
(* the threads.  Everything follows from who owns what: m_thread is only   *)
(* ever moved between objects, so a thread has at most one of them, and    *)
(* one that is destroyed has detached its own.                             *)
(*                                                                         *)
(* Then that contexts work like calls, for any number of threads and       *)
(* coroutines, as long as no Resume goes through a master context that is  *)
(* in use.                                                                 *)
(***************************************************************************)
EXTENDS ThreadedCoroutines, TLAPS

LEMMA NoneIsNoObject == None \notin Objects
BY CoroutineAssumption, ThreadsAssumption

\* No two objects have the same thread, and only threads that were created.
Moved ==
  /\ \A o \in Objects : handle[o] # None => os[handle[o]] # "none"
  /\ \A p \in detached : os[p] # "none"
  /\ \A o, x \in Objects : handle[o] = handle[x] /\ handle[o] # None => o = x

\* What the life of an object says of its members and of the thread it created.
LifeInv ==
  \A o \in Objects :
    /\ obj[o] = "new" => os[o] = "none" /\ handle[o] = None /\ joinable[o] /\ sem[o] = 0
    /\ obj[o] = "constructing" =>
         /\ handle[o] = o /\ joinable[o] /\ o \notin detached
         /\ os[o] \in {"created", "starting"} <=> sem[o] = 0
    /\ obj[o] = "destroyed" /\ handle[o] # None => handle[o] \in detached

\* A thread that can still be joined or detached has an owner.
Owned ==
  \A p \in Objects :
    os[p] \notin {"none", "gone"} /\ p \notin detached => \E o \in Objects : handle[o] = p

ThreadInv == T!ThreadTypeOK /\ Moved /\ LifeInv /\ RunFindsItsObject /\ Owned /\ JoinableIsRight

\* What every step on the objects does, as far as their threads go.
ThreadStep ==
  \/ \E o \in Objects : T!OwnerStep(o)
  \/ \E p \in Objects : T!TakeCallback(p) \/ T!SetName(p) \/ T!Post(p) \/ T!RunReturns(p)

USE NoneIsNoObject

LEMMA ThreadInvInit == T!ThreadInit => ThreadInv
<1> SUFFICES ASSUME T!ThreadInit
             PROVE  ThreadInv
  OBVIOUS
<1> USE DEF T!ThreadInit
<1>1. T!ThreadTypeOK
  BY DEF T!ThreadTypeOK
<1>2. Moved /\ LifeInv
  BY DEF Moved, LifeInv
<1>3. RunFindsItsObject /\ Owned /\ JoinableIsRight
  BY DEF RunFindsItsObject, T!RunFindsItsObject, Owned, JoinableIsRight, T!JoinableIsRight
<1> QED BY <1>1, <1>2, <1>3 DEF ThreadInv

LEMMA ConstructStep ==
  ASSUME ThreadInv, NEW o \in Objects,
         T!DefaultConstruct(o) \/ T!Construct(o) \/ T!Wait(o)
  PROVE  ThreadInv'
<1>1. CASE T!DefaultConstruct(o)
  BY <1>1
  DEF T!DefaultConstruct, T!members, ThreadInv, T!ThreadTypeOK, Moved, LifeInv, RunFindsItsObject,
      T!RunFindsItsObject, Owned, JoinableIsRight, T!JoinableIsRight
<1>2. CASE T!Construct(o)
  <2> USE <1>2 DEF T!Construct, ThreadInv, T!ThreadTypeOK
  <2>1. T!ThreadTypeOK' /\ RunFindsItsObject'
    BY DEF RunFindsItsObject, T!RunFindsItsObject
  <2>2. o \notin detached
    BY DEF Moved, LifeInv
  <2> QED BY <2>1, <2>2 DEF Moved, LifeInv, Owned, JoinableIsRight, T!JoinableIsRight
<1>3. CASE T!Wait(o)
  <2> USE <1>3 DEF T!Wait, ThreadInv, T!ThreadTypeOK
  <2>1. T!ThreadTypeOK' /\ RunFindsItsObject'
    BY DEF RunFindsItsObject, T!RunFindsItsObject, LifeInv
  <2> QED BY <2>1 DEF Moved, LifeInv, Owned, JoinableIsRight, T!JoinableIsRight
<1> QED BY <1>1, <1>2, <1>3

\* What the new thread does.
LEMMA RunStep ==
  ASSUME ThreadInv, NEW p \in Objects,
         T!TakeCallback(p) \/ T!SetName(p) \/ T!Post(p) \/ T!RunReturns(p)
  PROVE  ThreadInv'
<1> USE DEF ThreadInv, T!ThreadTypeOK
<1>1. CASE T!TakeCallback(p)
  <2> USE <1>1 DEF T!TakeCallback, T!members
  <2>1. T!ThreadTypeOK' /\ RunFindsItsObject'
    BY DEF RunFindsItsObject, T!RunFindsItsObject
  <2>2. Moved' /\ LifeInv'
    BY DEF Moved, LifeInv
  <2> QED BY <2>1, <2>2 DEF Owned, JoinableIsRight, T!JoinableIsRight
<1>2. CASE T!Post(p)
  <2> USE <1>2 DEF T!Post
  <2>1. T!ThreadTypeOK' /\ RunFindsItsObject'
    BY DEF RunFindsItsObject, T!RunFindsItsObject
  <2>2. obj[p] = "constructing" /\ sem[p] = 0 /\ sem'[p] = 1
    BY DEF RunFindsItsObject, T!RunFindsItsObject, LifeInv
  <2>3. Moved' /\ LifeInv'
    BY <2>2 DEF Moved, LifeInv
  <2> QED BY <2>1, <2>3 DEF Owned, JoinableIsRight, T!JoinableIsRight
<1>3. CASE T!RunReturns(p)
  <2> USE <1>3 DEF T!RunReturns, T!members
  <2>1. T!ThreadTypeOK' /\ RunFindsItsObject'
    BY DEF RunFindsItsObject, T!RunFindsItsObject
  <2>2. Moved' /\ LifeInv'
    BY DEF Moved, LifeInv
  <2> QED BY <2>1, <2>2 DEF Owned, JoinableIsRight, T!JoinableIsRight
<1>4. CASE T!SetName(p)
  BY <1>4
  DEF T!SetName, T!members, Moved, LifeInv, RunFindsItsObject, T!RunFindsItsObject, Owned,
      JoinableIsRight, T!JoinableIsRight
<1> QED BY <1>1, <1>2, <1>3, <1>4

\* Join, Detach and the destructor.
LEMMA LetGoStep ==
  ASSUME ThreadInv, NEW o \in Objects,
         T!Join(o) \/ T!Detach(o) \/ T!Destroy(o)
  PROVE  ThreadInv'
<1> USE DEF ThreadInv, T!ThreadTypeOK
<1>1. CASE T!Join(o)
  <2> USE <1>1 DEF T!Join
  <2>1. T!ThreadTypeOK' /\ RunFindsItsObject'
    BY DEF RunFindsItsObject, T!RunFindsItsObject
  <2>2. Moved' /\ LifeInv'
    BY DEF Moved, LifeInv
  <2>3. Owned'
    BY DEF Owned, Moved
  <2> QED BY <2>1, <2>2, <2>3 DEF JoinableIsRight, T!JoinableIsRight
<1>2. CASE T!Detach(o)
  <2> USE <1>2 DEF T!Detach, T!PthreadDetach
  <2>1. handle[o] \in Objects
    OBVIOUS
  <2>2. T!ThreadTypeOK'
    BY <2>1
  <2>3. RunFindsItsObject'
    BY <2>1 DEF RunFindsItsObject, T!RunFindsItsObject
  <2>4. Moved' /\ LifeInv'
    BY DEF Moved, LifeInv
  <2>5. Owned' /\ JoinableIsRight'
    BY DEF Owned, Moved, JoinableIsRight, T!JoinableIsRight
  <2> QED BY <2>2, <2>3, <2>4, <2>5
<1>3. CASE T!Destroy(o)
  <2> USE <1>3 DEF T!Destroy, T!PthreadDetach, T!members
  <2>1. T!ThreadTypeOK'
    <3>1. CASE handle[o] = None
      BY <3>1
    <3>2. CASE handle[o] \in Objects
      <4>1. /\ obj' = [obj EXCEPT ![o] = "destroyed"]
            /\ detached' = detached \cup {handle[o]}
            /\ os' = [os EXCEPT ![handle[o]] = IF @ = "ended" THEN "gone" ELSE @]
            /\ stale' = (stale \/ os[handle[o]] = "gone")
            /\ UNCHANGED <<handle, joinable, sem>>
        BY <3>2
      <4>2. os' \in [Objects -> {"none", "created", "starting", "running", "ended", "gone"}]
        BY <3>2, <4>1
      <4> QED BY <3>2, <4>1, <4>2
    <3> QED BY <3>1, <3>2
  <2>2. RunFindsItsObject'
    BY DEF RunFindsItsObject, T!RunFindsItsObject
  <2>3. Moved' /\ LifeInv'
    BY DEF Moved, LifeInv
  <2>4. Owned' /\ JoinableIsRight'
    BY DEF Owned, Moved, JoinableIsRight, T!JoinableIsRight
  <2> QED BY <2>1, <2>2, <2>3, <2>4
<1> QED BY <1>1, <1>2, <1>3

\* The threads of two objects change places, and their flags with them.
LEMMA SwapStep ==
  ASSUME ThreadInv, NEW o \in Objects, NEW x \in Objects, T!Swap(o, x)
  PROVE  ThreadInv'
<1> USE DEF ThreadInv, T!ThreadTypeOK, T!Swap
<1>1. T!ThreadTypeOK' /\ RunFindsItsObject'
  BY DEF RunFindsItsObject, T!RunFindsItsObject
<1>2. Moved' /\ LifeInv'
  BY DEF Moved, LifeInv
<1>3. Owned'
  BY DEF Owned
<1>4. JoinableIsRight'
  BY DEF JoinableIsRight, T!JoinableIsRight
<1> QED BY <1>1, <1>2, <1>3, <1>4

\* Coroutines do nothing to the objects.
LEMMA ThreadInvStep == ThreadInv /\ [Next]_vars => ThreadInv'
<1> SUFFICES ASSUME ThreadInv, [Next]_vars
             PROVE  ThreadInv'
  OBVIOUS
<1>1. CASE ThreadStep
  BY <1>1, ConstructStep, RunStep, LetGoStep, SwapStep DEF ThreadStep, T!OwnerStep
<1>2. CASE UNCHANGED threadVars
  <2> USE <1>2 DEF threadVars
  <2>1. T!ThreadTypeOK' /\ RunFindsItsObject' /\ JoinableIsRight'
    BY DEF ThreadInv, T!ThreadTypeOK, RunFindsItsObject, T!RunFindsItsObject, JoinableIsRight, T!JoinableIsRight
  <2> QED BY <2>1 DEF ThreadInv, Moved, LifeInv, Owned
<1> QED
  BY <1>1, <1>2 DEF Next, vars, ThreadStep, CallbackBegins, CallbackReturns

LEMMA ThreadInvariance == Spec => []ThreadInv
<1>1. Init => ThreadInv
  BY ThreadInvInit DEF Init
<1> QED BY <1>1, ThreadInvStep, PTL DEF Spec

-----------------------------------------------------------------------------
\* Whatever the owners do with their objects, every Run reads the callback and the name
\* from, and posts the semaphore of, an object that is still under construction: neither
\* swapped nor destroyed.
THEOREM RunIsServed == Spec => []RunFindsItsObject
<1>1. ThreadInv => RunFindsItsObject
  BY DEF ThreadInv
<1> QED BY <1>1, ThreadInvariance, PTL

\* However objects are swapped, joined, detached and destroyed, each thread that can
\* still be joined has exactly one object that owns it.
THEOREM ThreadsHaveOneOwner == Spec => []OneOwner
<1>1. ASSUME ThreadInv, NEW p \in Objects, os[p] \notin {"none", "gone"}, p \notin detached
      PROVE  \E o \in Objects : /\ obj[o] \in {"constructing", "alive"}
                                /\ \A x \in Objects : handle[x] = p <=> x = o
  <2>1. PICK o \in Objects : handle[o] = p
    BY <1>1 DEF ThreadInv, Owned
  <2>2. obj[o] \in {"constructing", "alive"}
    BY <1>1, <2>1 DEF ThreadInv, LifeInv, T!ThreadTypeOK
  <2>3. \A x \in Objects : handle[x] = p <=> x = o
    BY <1>1, <2>1 DEF ThreadInv, Moved
  <2> QED BY <2>2, <2>3
<1>2. ThreadInv => OneOwner
  BY <1>1 DEF OneOwner, T!OneOwner
<1> QED BY <1>2, ThreadInvariance, PTL

\* m_joinable follows the thread through any sequence of Swap, Join and Detach.
THEOREM JoinableFollows == Spec => []JoinableIsRight
<1>1. ThreadInv => JoinableIsRight
  BY DEF ThreadInv
<1> QED BY <1>1, ThreadInvariance, PTL


-----------------------------------------------------------------------------
\* A coroutine that has begun, and whatever may go on from a context, has a master
\* context to leave to; a thread has a flow while it is up.
MasterInv ==
  /\ \A c \in Cos : status[c] \in {"RUNNING", "HOLD"} => master[c] # None
  /\ \A th \in Threads : flow[th] \in Cos => master[flow[th]] # None
  /\ \A f \in Flows : slot[f] \in Cos => master[slot[f]] # None
  /\ \A th \in Threads : th \in up <=> flow[th] # None

\* Only the thread of a callback that runs is there.
UpInv == \A p \in Objects : p \in up => os[p] = "running"

\* A context holds the flow that is parked in it, its own one if it is a coroutine's.
ParkedInv ==
  /\ \A f \in Flows : parked[f] # None => slot[parked[f]] = f
  /\ \A f \in Flows : parked[f] \in Cos => f = parked[f] /\ status[f] = "HOLD"
  /\ \A c \in Cos : status[c] = "HOLD" => parked[c] = c /\ master[c] # None
  /\ \A th \in Threads \ up : parked[th] = None

\* The calls of a thread: its own flow, then coroutines that run, each called through
\* its master context by the one before.
Stacked(th) ==
  /\ Len(calls[th]) >= 1 /\ calls[th][1] = th
  /\ flow[th] = calls[th][Len(calls[th])] /\ parked[flow[th]] = None
  /\ \A i \in 2 .. Len(calls[th]) : /\ calls[th][i] \in Cos
                                    /\ status[calls[th][i]] = "RUNNING"
                                    /\ master[calls[th][i]] # None
  /\ \A i \in 1 .. Len(calls[th]) - 1 : parked[calls[th][i]] = master[calls[th][i + 1]]

CallsInv == \A th \in up : Stacked(th)

\* A flow is called once, and a coroutine that runs is called.
CalledOnce ==
  /\ \A p, q \in up : \A i \in 1 .. Len(calls[p]), j \in 1 .. Len(calls[q]) :
       calls[p][i] = calls[q][j] => p = q /\ i = j
  /\ \A c \in Cos : status[c] = "RUNNING" => \E th \in up : \E i \in 1 .. Len(calls[th]) :
                                               calls[th][i] = c

Orderly == broken = "no" /\ ~overlapped

FlowInv == ParkedInv /\ CallsInv /\ CalledOnce

TypesInv == TypeOK /\ MasterInv

USE CoroutineAssumption, ThreadsAssumption

-----------------------------------------------------------------------------
\* Types.
LEMMA SwitchTypes ==
  ASSUME TypesInv, NEW th \in Threads, NEW s \in Flows,
         NEW saved \in [Flows -> Flows \cup {None}], NEW left \in [Flows -> Flows \cup {None}],
         Switch(th, s, saved, left)
  PROVE  /\ flow' \in [Threads -> Flows \cup {None}]
         /\ slot' = saved
         /\ parked' \in [Flows -> Flows \cup {None}]
         /\ broken' \in {"no", "assert", "stale", "masterGone"}
         /\ \/ flow' = flow
            \/ flow' = [flow EXCEPT ![th] = saved[s]] /\ saved[s] \in Flows
<1> USE DEF TypesInv, TypeOK, CoTypeOK, Switch
<1>1. CASE s \in Threads \ up
  BY <1>1
<1>2. CASE s \notin Threads \ up /\ (saved[s] = None \/ left[saved[s]] # s)
  BY <1>2
<1>3. CASE s \notin Threads \ up /\ ~(saved[s] = None \/ left[saved[s]] # s)
  <2>1. saved[s] \in Flows
    BY <1>3
  <2>2. /\ flow' = [flow EXCEPT ![th] = saved[s]]
        /\ parked' = [left EXCEPT ![saved[s]] = None]
        /\ slot' = saved /\ UNCHANGED broken
    BY <1>3
  <2> QED BY <2>1, <2>2
<1> QED BY <1>1, <1>2, <1>3

LEMMA ResumeTypes ==
  ASSUME TypesInv, NEW th \in Threads, NEW c \in Cos, Resume(th, c)
  PROVE  CoTypeOK' /\ MasterInv'
<1> DEFINE m     == Master(th, c)
           fresh == status[c] = "IDLE"
           saved == [slot EXCEPT ![m] = flow[th], ![c] = IF fresh THEN c ELSE @]
           left  == [parked EXCEPT ![flow[th]] = m, ![c] = IF fresh THEN c ELSE @]
<1>1. m \in Threads /\ flow[th] \in Flows /\ c \in Flows /\ m \in Flows /\ th \in up
  BY DEF Resume, CanResume, Master, MasterInv, Flows, TypesInv, TypeOK, CoTypeOK
<1>2. /\ saved \in [Flows -> Flows \cup {None}] /\ left \in [Flows -> Flows \cup {None}]
      /\ \A f \in Flows : saved[f] \in {slot[f], flow[th], c}
  BY <1>1 DEF TypesInv, TypeOK, CoTypeOK
<1>3. /\ up' = up
      /\ status' = [status EXCEPT ![c] = "RUNNING"]
      /\ master' = [master EXCEPT ![c] = IF fresh THEN m ELSE @]
      /\ calls' = [calls EXCEPT ![th] = Append(@, c)]
      /\ overlapped' \in BOOLEAN
      /\ m \notin up => broken' = "masterGone" /\ UNCHANGED <<flow, slot, parked>>
      /\ m \in up => Switch(th, c, saved, left)
  BY DEF Resume
<1>4. /\ flow' \in [Threads -> Flows \cup {None}] /\ slot' \in [Flows -> Flows \cup {None}]
      /\ parked' \in [Flows -> Flows \cup {None}]
      /\ broken' \in {"no", "assert", "stale", "masterGone"}
      /\ \/ flow' = flow /\ slot' = slot
         \/ slot' = saved /\ flow' = flow
         \/ slot' = saved /\ flow' = [flow EXCEPT ![th] = saved[c]] /\ saved[c] \in Flows
  <2> HIDE DEF m, saved, left, fresh
  <2>1. CASE m \notin up
    BY <1>3, <2>1 DEF TypesInv, TypeOK, CoTypeOK
  <2>2. CASE m \in up
    BY <1>1, <1>2, <1>3, <2>2, SwitchTypes
  <2> QED BY <2>1, <2>2
<1>5. CoTypeOK'
  <2>1. calls' \in [Threads -> Seq(Flows)]
    BY <1>1, <1>3 DEF TypesInv, TypeOK, CoTypeOK
  <2>2. /\ status' \in [Cos -> {"IDLE", "RUNNING", "FINISHED", "HOLD", "EXCEPT", "destroyed"}]
        /\ master' \in [Cos -> Threads \cup {None}]
    BY <1>1, <1>3 DEF TypesInv, TypeOK, CoTypeOK
  <2> HIDE DEF m, saved, left, fresh
  <2> QED BY <1>3, <1>4, <2>1, <2>2 DEF TypesInv, TypeOK, CoTypeOK
<1>6. MasterInv'
  <2>1. master'[c] # None /\ (\A d \in Cos : master[d] # None => master'[d] # None)
    BY <1>1, <1>3 DEF Resume, CanResume, MasterInv, TypesInv, TypeOK, CoTypeOK
  <2>2. \A f \in Flows : saved[f] \in Cos => master'[saved[f]] # None
    BY <1>1, <1>2, <2>1 DEF MasterInv, TypesInv, TypeOK, CoTypeOK
  <2>3. \A d \in Cos : status'[d] \in {"RUNNING", "HOLD"} => master'[d] # None
    BY <1>3, <2>1 DEF MasterInv, TypesInv, TypeOK, CoTypeOK
  <2> HIDE DEF m, saved, left, fresh
  <2>5. \A f \in Flows : slot'[f] \in Cos => master'[slot'[f]] # None
    BY <1>4, <2>1, <2>2 DEF MasterInv, TypesInv, TypeOK, CoTypeOK
  <2>6. \A p \in Threads : flow'[p] \in Cos => master'[flow'[p]] # None
    BY <1>1, <1>4, <2>1, <2>2 DEF MasterInv, TypesInv, TypeOK, CoTypeOK
  <2>7. \A p \in Threads : p \in up' <=> flow'[p] # None
    BY <1>1, <1>3, <1>4 DEF MasterInv, Flows, TypesInv, TypeOK, CoTypeOK
  <2> QED BY <2>3, <2>5, <2>6, <2>7 DEF MasterInv, TypesInv, TypeOK, CoTypeOK
<1> QED BY <1>5, <1>6

LEMMA LeavesTypes ==
  ASSUME TypesInv, NEW th \in Threads, NEW c \in Cos, GiveUp(th, c) \/ Run(th, c)
  PROVE  CoTypeOK' /\ MasterInv'
<1>1. PICK saved \in [Flows -> Flows \cup {None}], left \in [Flows -> Flows \cup {None}],
           st \in {"HOLD", "FINISHED", "EXCEPT"} :
        /\ Leaves(th, c, st) /\ Switch(th, master[c], saved, left)
        /\ \A f \in Flows : saved[f] \in {slot[f], c}
  <2>1. CASE GiveUp(th, c)
    <3> DEFINE saved == [slot EXCEPT ![c] = c]
               left  == [parked EXCEPT ![c] = c]
    <3>1. /\ saved \in [Flows -> Flows \cup {None}] /\ left \in [Flows -> Flows \cup {None}]
          /\ \A f \in Flows : saved[f] \in {slot[f], c}
      BY DEF Flows, TypesInv, TypeOK, CoTypeOK
    <3>2. Leaves(th, c, "HOLD") /\ Switch(th, master[c], saved, left)
      BY <2>1 DEF GiveUp
    <3> HIDE DEF saved, left
    <3> QED BY <3>1, <3>2
  <2>2. CASE Run(th, c)
    BY <2>2 DEF Run, TypesInv, TypeOK, CoTypeOK
  <2> QED BY <2>1, <2>2
<1>2. /\ c \in Flows /\ th \in up /\ flow[th] = c /\ master[c] \in Threads /\ master[c] \in Flows
      /\ status' = [status EXCEPT ![c] = st]
      /\ calls' = [calls EXCEPT ![th] = SubSeq(@, 1, Len(@) - 1)]
      /\ UNCHANGED <<up, master, overlapped>>
  BY <1>1 DEF Leaves, MasterInv, Flows, TypesInv, TypeOK, CoTypeOK
<1>3. /\ flow' \in [Threads -> Flows \cup {None}]
      /\ slot' = saved
      /\ parked' \in [Flows -> Flows \cup {None}]
      /\ broken' \in {"no", "assert", "stale", "masterGone"}
      /\ \/ flow' = flow
         \/ flow' = [flow EXCEPT ![th] = saved[master[c]]] /\ saved[master[c]] \in Flows
  BY <1>1, <1>2, SwitchTypes
<1>4. calls' \in [Threads -> Seq(Flows)]
  <2>1. calls[th] \in Seq(Flows) /\ Len(calls[th]) \in Nat
    BY DEF TypesInv, TypeOK, CoTypeOK
  <2>2. SubSeq(calls[th], 1, Len(calls[th]) - 1) \in Seq(Flows)
    <3>1. \A i \in 1 .. Len(calls[th]) - 1 : calls[th][i] \in Flows
      BY <2>1
    <3> QED BY <2>1, <3>1
  <2> QED BY <1>2, <2>2 DEF TypesInv, TypeOK, CoTypeOK
<1>5. CoTypeOK'
  BY <1>1, <1>2, <1>3, <1>4 DEF TypesInv, TypeOK, CoTypeOK
<1>6. MasterInv'
  <2>1. \A d \in Cos : status'[d] \in {"RUNNING", "HOLD"} => master'[d] # None
    BY <1>1, <1>2 DEF MasterInv, TypesInv, TypeOK, CoTypeOK
  <2>2. \A f \in Flows : saved[f] \in Cos => master[saved[f]] # None
    BY <1>1, <1>2 DEF MasterInv, TypesInv
  <2>3. \A f \in Flows : slot'[f] \in Cos => master'[slot'[f]] # None
    BY <1>2, <1>3, <2>2
  <2>4. /\ None \notin Flows /\ flow[th] # None /\ master' = master /\ up' = up
        /\ flow'[th] \in {flow[th], saved[master[c]]} /\ flow'[th] # None
        /\ \A p \in Threads \ {th} : flow'[p] = flow[p]
    BY <1>2, <1>3 DEF Flows, TypesInv, TypeOK, CoTypeOK
  <2>5. \A p \in Threads : flow'[p] \in Cos => master'[flow'[p]] # None
    BY <1>2, <2>2, <2>4 DEF MasterInv, TypesInv
  <2>6. \A p \in Threads : p \in up' <=> flow'[p] # None
    BY <1>2, <2>4 DEF MasterInv, TypesInv
  <2> QED BY <2>1, <2>3, <2>5, <2>6 DEF MasterInv
<1> QED BY <1>5, <1>6

LEMMA TypesStep ==
  ASSUME ThreadInv', TypesInv, UpInv, [Next]_vars
  PROVE  TypesInv'
<1> USE DEF TypesInv, TypeOK, CoTypeOK
<1>1. ASSUME NEW th \in Threads, ThreadBegins(th) \/ ThreadEnds(th)
      PROVE  CoTypeOK' /\ MasterInv'
  <2>1. th \in Flows /\ th \notin Cos
    BY DEF Flows
  <2>2. <<th>> \in Seq(Flows) /\ <<>> \in Seq(Flows)
    BY <2>1
  <2>3. PICK g \in {th, None}, q \in Seq(Flows) :
          /\ flow' = [flow EXCEPT ![th] = g] /\ calls' = [calls EXCEPT ![th] = q]
          /\ up' = IF g = th THEN up \cup {th} ELSE up \ {th}
          /\ UNCHANGED <<slot, parked, status, master, overlapped, broken>>
    BY <1>1, <2>1, <2>2 DEF ThreadBegins, ThreadEnds
  <2>4. CoTypeOK'
    BY <2>1, <2>3
  <2> QED BY <2>1, <2>3, <2>4 DEF MasterInv
<1>2. ASSUME NEW th \in Threads, NEW c \in Cos, ResumeRunning(th, c) \/ Destroy(c)
      PROVE  CoTypeOK' /\ MasterInv'
  BY <1>2 DEF ResumeRunning, Destroy, MasterInv
<1>3. CASE UNCHANGED coVars
  BY <1>3 DEF coVars, MasterInv, ThreadInv
<1> HIDE DEF TypesInv, TypeOK, CoTypeOK
<1>4. ASSUME NEW th \in Threads, CoStep(th)
      PROVE  CoTypeOK' /\ MasterInv'
  BY <1>2, <1>4, ResumeTypes, LeavesTypes DEF CoStep
<1>5. CoTypeOK' /\ MasterInv'
  BY <1>1, <1>3, <1>4 DEF Next, vars, CallbackBegins, CallbackReturns, TypesInv, TypeOK
<1> QED BY <1>5 DEF ThreadInv, TypesInv, TypeOK

\* A thread is up while its callback runs.
LEMMA UpStep ==
  ASSUME ThreadInv, UpInv, [Next]_vars
  PROVE  UpInv'
<1>1. ASSUME NEW o \in Objects, T!OwnerStep(o), UNCHANGED coVars
      PROVE  UpInv'
  <2>1. \A p \in Objects : os[p] = "running" => os'[p] = "running"
    <3>1. CASE T!DefaultConstruct(o) \/ T!Wait(o)
      BY <3>1 DEF T!DefaultConstruct, T!Wait
    <3>2. CASE T!Construct(o)
      BY <3>2 DEF T!Construct, ThreadInv, LifeInv, T!ThreadTypeOK
    <3>3. CASE T!Join(o)
      BY <3>3 DEF T!Join, ThreadInv, T!ThreadTypeOK
    <3>4. CASE T!Detach(o)
      BY <3>4 DEF T!Detach, T!PthreadDetach, ThreadInv, T!ThreadTypeOK
    <3>5. CASE T!Destroy(o)
      BY <3>5 DEF T!Destroy, T!PthreadDetach, ThreadInv, T!ThreadTypeOK
    <3>6. CASE \E x \in Objects : T!Swap(o, x)
      BY <3>6 DEF T!Swap
    <3> QED BY <1>1, <3>1, <3>2, <3>3, <3>4, <3>5, <3>6 DEF T!OwnerStep
  <2> QED BY <1>1, <2>1 DEF UpInv, coVars
<1>2. ASSUME NEW o \in Objects, T!TakeCallback(o) \/ T!SetName(o), UNCHANGED coVars
      PROVE  UpInv'
  BY <1>2 DEF T!TakeCallback, T!SetName, UpInv, coVars, ThreadInv, T!ThreadTypeOK
<1>3. ASSUME NEW o \in Objects, CallbackBegins(o) \/ CallbackReturns(o)
      PROVE  UpInv'
  BY <1>3
  DEF CallbackBegins, CallbackReturns, T!Post, T!RunReturns, ThreadBegins, ThreadEnds, UpInv,
      ThreadInv, T!ThreadTypeOK
<1>4. ASSUME NEW th \in Threads, CoStep(th), UNCHANGED threadVars
      PROVE  UpInv'
  BY <1>4
  DEF CoStep, Resume, ResumeRunning, GiveUp, Run, Leaves, Destroy, threadVars, UpInv
<1>5. CASE UNCHANGED vars
  BY <1>5 DEF vars, coVars, threadVars, UpInv
<1> QED BY <1>1, <1>2, <1>3, <1>4, <1>5 DEF Next

-----------------------------------------------------------------------------
\* Flows.  What runs, and what is parked, is called or held.
LEMMA CalledOrHeld ==
  ASSUME TypesInv, FlowInv, NEW th \in up, NEW c \in Cos
  PROVE  /\ Len(calls[th]) \in Nat /\ flow[th] \in Flows
         /\ flow[th] = c => Len(calls[th]) >= 2 /\ status[c] = "RUNNING"
         /\ status[c] # "RUNNING" => \A i \in 1 .. Len(calls[th]) : calls[th][i] # c
<1>1. th \in Threads /\ calls[th] \in Seq(Flows) /\ flow[th] \in Flows /\ th # c
  BY DEF TypesInv, TypeOK, CoTypeOK, MasterInv
<1>2. Len(calls[th]) \in Nat /\ Len(calls[th]) >= 1 /\ calls[th][1] = th
  BY <1>1 DEF FlowInv, CallsInv, Stacked
<1> QED BY <1>1, <1>2 DEF FlowInv, CallsInv, Stacked

\* What a Resume does that finds its master context free: the flow of th is parked
\* in it, and c goes on.
LEMMA ResumeSwitches ==
  ASSUME TypesInv, FlowInv, NEW th \in Threads, NEW c \in Cos, Resume(th, c),
         broken' = "no", ~overlapped'
  PROVE  /\ th \in up /\ status[c] \in {"IDLE", "HOLD"} /\ flow[th] # c
         /\ \E m \in Threads :
              /\ \A f \in Flows : parked[f] # m
              /\ flow' = [flow EXCEPT ![th] = c]
              /\ slot'[m] = flow[th] /\ slot'[c] = c
              /\ \A f \in Flows \ {m, c} : slot'[f] = slot[f]
              /\ parked'[flow[th]] = m /\ parked'[c] = None
              /\ \A f \in Flows \ {flow[th], c} : parked'[f] = parked[f]
              /\ status' = [status EXCEPT ![c] = "RUNNING"]
              /\ master' = [master EXCEPT ![c] = m]
              /\ calls' = [calls EXCEPT ![th] = Append(@, c)]
              /\ up' = up
<1> DEFINE m     == Master(th, c)
           fresh == status[c] = "IDLE"
           saved == [slot EXCEPT ![m] = flow[th], ![c] = IF fresh THEN c ELSE @]
           left  == [parked EXCEPT ![flow[th]] = m, ![c] = IF fresh THEN c ELSE @]
<1>1. /\ th \in up /\ status[c] \in {"IDLE", "HOLD"} /\ m \in up /\ ~InUse(m)
      /\ Switch(th, c, saved, left)
      /\ status' = [status EXCEPT ![c] = "RUNNING"]
      /\ master' = [master EXCEPT ![c] = IF fresh THEN m ELSE @]
      /\ calls' = [calls EXCEPT ![th] = Append(@, c)]
      /\ up' = up
  BY DEF Resume, CanResume
<1>2. /\ m \in Threads /\ m \in Flows /\ c \in Flows /\ flow[th] \in Flows /\ c \notin Threads
      /\ m # c /\ flow[th] # c
  BY <1>1, CalledOrHeld DEF TypesInv, TypeOK, CoTypeOK, Flows
<1>3. saved[c] = c /\ left[c] = c
  BY <1>1, <1>2 DEF TypesInv, TypeOK, CoTypeOK, FlowInv, ParkedInv
<1>4. /\ flow' = [flow EXCEPT ![th] = c] /\ parked' = [left EXCEPT ![c] = None] /\ slot' = saved
  <2> HIDE DEF m, saved, left
  <2> QED BY <1>1, <1>2, <1>3 DEF Switch
<1>5. master' = [master EXCEPT ![c] = m]
  BY <1>1, <1>2 DEF Master, TypesInv, TypeOK, CoTypeOK
<1>6. \A f \in Flows : parked[f] # m
  <2> HIDE DEF m
  <2> QED BY <1>1 DEF InUse
<1>7. /\ slot'[m] = flow[th] /\ slot'[c] = c
      /\ \A f \in Flows \ {m, c} : slot'[f] = slot[f]
      /\ parked'[flow[th]] = m /\ parked'[c] = None
      /\ \A f \in Flows \ {flow[th], c} : parked'[f] = parked[f]
  BY <1>2, <1>3, <1>4 DEF TypesInv, TypeOK, CoTypeOK
<1> HIDE DEF m
<1> QED BY <1>1, <1>2, <1>4, <1>5, <1>6, <1>7

LEMMA ResumeStep ==
  ASSUME TypesInv, FlowInv, NEW th \in Threads, NEW c \in Cos, Resume(th, c),
         broken' = "no", ~overlapped'
  PROVE  FlowInv'
<1>1. /\ th \in up /\ status[c] \in {"IDLE", "HOLD"} /\ flow[th] # c
  BY ResumeSwitches
<1>2. PICK m \in Threads :
        /\ \A f \in Flows : parked[f] # m
        /\ flow' = [flow EXCEPT ![th] = c]
        /\ slot'[m] = flow[th] /\ slot'[c] = c
        /\ \A f \in Flows \ {m, c} : slot'[f] = slot[f]
        /\ parked'[flow[th]] = m /\ parked'[c] = None
        /\ \A f \in Flows \ {flow[th], c} : parked'[f] = parked[f]
        /\ status' = [status EXCEPT ![c] = "RUNNING"]
        /\ master' = [master EXCEPT ![c] = m]
        /\ calls' = [calls EXCEPT ![th] = Append(@, c)]
        /\ up' = up
  BY ResumeSwitches
<1>3. /\ c \in Flows /\ m \in Flows /\ m \notin Cos /\ c \notin Threads /\ flow[th] \in Flows
      /\ m # None /\ None \notin Flows
      /\ \A f \in Flows : parked[f] \in Flows \cup {None}
      /\ status \in [Cos -> {"IDLE", "RUNNING", "FINISHED", "HOLD", "EXCEPT", "destroyed"}]
      /\ master \in [Cos -> Threads \cup {None}] /\ flow \in [Threads -> Flows \cup {None}]
      /\ calls \in [Threads -> Seq(Flows)] /\ up \subseteq Threads
  BY <1>1, CalledOrHeld DEF TypesInv, TypeOK, CoTypeOK, Flows
<1>4. ParkedInv'
  <2>1. ASSUME NEW f \in Flows, parked'[f] # None
        PROVE  slot'[parked'[f]] = f
    <3>1. CASE f = flow[th]
      BY <1>2, <3>1
    <3>2. CASE f # flow[th]
      <4>1. f # c /\ parked'[f] = parked[f] /\ parked[f] \in Flows \ {m}
        BY <1>2, <1>3, <2>1, <3>2
      <4>2. parked[f] # c /\ slot[parked[f]] = f
        BY <1>3, <4>1 DEF FlowInv, ParkedInv
      <4> QED BY <1>2, <4>1, <4>2
    <3> QED BY <3>1, <3>2
  <2>2. \A f \in Flows : parked'[f] \in Cos => f = parked'[f] /\ status'[f] = "HOLD"
    BY <1>2, <1>3 DEF FlowInv, ParkedInv
  <2>3. \A d \in Cos : status'[d] = "HOLD" => parked'[d] = d /\ master'[d] # None
    <3>1. flow[th] \in Cos => status[flow[th]] = "RUNNING"
      BY <1>1, CalledOrHeld
    <3> QED BY <1>1, <1>2, <1>3, <3>1 DEF FlowInv, ParkedInv, Flows
  <2>4. \A p \in Threads \ up' : parked'[p] = None
    <3>1. \A p \in Threads \ up : flow[th] # p
      BY <1>1, <1>3, CalledOrHeld DEF FlowInv, CallsInv, Stacked
    <3> QED BY <1>2, <1>3, <3>1 DEF FlowInv, ParkedInv, Flows
  <2> QED BY <2>1, <2>2, <2>3, <2>4 DEF ParkedInv
<1>5. \A p \in up : \A i \in 1 .. Len(calls[p]) : calls[p][i] # c
  BY <1>1, CalledOrHeld
<1>6. /\ \A p \in up \ {th} : calls'[p] = calls[p]
      /\ calls'[th] = Append(calls[th], c) /\ Len(calls'[th]) = Len(calls[th]) + 1
      /\ calls'[th][Len(calls[th]) + 1] = c
      /\ \A i \in 1 .. Len(calls[th]) : calls'[th][i] = calls[th][i]
      /\ \A p \in up : Len(calls[p]) \in Nat /\ Len(calls[p]) >= 1
                       /\ \A i \in 1 .. Len(calls[p]) : calls[p][i] \in Flows
  BY <1>1, <1>2, <1>3 DEF FlowInv, CallsInv, Stacked
<1>7. ASSUME NEW p \in up, NEW i \in 1 .. Len(calls[p]), p # th \/ i < Len(calls[p])
      PROVE  parked'[calls[p][i]] = parked[calls[p][i]]
  <2>1. calls[p][i] # flow[th]
    <3>1. flow[th] = calls[th][Len(calls[th])] /\ Len(calls[th]) \in 1 .. Len(calls[th])
      BY <1>1, <1>6 DEF FlowInv, CallsInv, Stacked
    <3>2. p # th \/ i # Len(calls[th])
      BY <1>1, <1>6, <1>7
    <3> QED BY <1>1, <3>1, <3>2 DEF FlowInv, CalledOnce
  <2> QED BY <1>2, <1>5, <1>6, <1>7, <2>1
<1>8. CallsInv'
  <2>1. ASSUME NEW p \in up, p # th
        PROVE  Stacked(p)'
    <3>1. calls'[p] = calls[p] /\ flow'[p] = flow[p]
      BY <1>2, <1>3, <1>6, <2>1
    <3>2. \A i \in 1 .. Len(calls[p]) : parked'[calls[p][i]] = parked[calls[p][i]]
      BY <1>7, <2>1
    <3>3. \A i \in 2 .. Len(calls[p]) : calls[p][i] \in Cos /\ calls[p][i] # c
                                        /\ master'[calls[p][i]] = master[calls[p][i]]
                                        /\ status'[calls[p][i]] = status[calls[p][i]]
      <4>1. \A i \in 2 .. Len(calls[p]) : calls[p][i] \in Cos /\ i \in 1 .. Len(calls[p])
        BY <1>6 DEF FlowInv, CallsInv, Stacked
      <4>2. \A d \in Cos \ {c} : master'[d] = master[d] /\ status'[d] = status[d]
        BY <1>2, <1>3
      <4> QED BY ONLY <1>5, <4>1, <4>2, p \in up
    <3>4. \A i \in 1 .. Len(calls[p]) - 1 : i + 1 \in 2 .. Len(calls[p]) /\ i \in 1 .. Len(calls[p])
      BY <1>6
    <3>5. /\ Len(calls[p]) \in 1 .. Len(calls[p])
          /\ flow[p] = calls[p][Len(calls[p])] /\ parked[flow[p]] = None /\ calls[p][1] = p
      BY <1>6 DEF FlowInv, CallsInv, Stacked
    <3>6. parked'[flow[p]] = None
      BY <3>2, <3>5
    <3>7. \A i \in 2 .. Len(calls[p]) : status[calls[p][i]] = "RUNNING" /\ master[calls[p][i]] # None
      BY DEF FlowInv, CallsInv, Stacked
    <3>8. \A i \in 1 .. Len(calls[p]) - 1 : parked[calls[p][i]] = master[calls[p][i + 1]]
      BY DEF FlowInv, CallsInv, Stacked
    <3>9. \A i \in 1 .. Len(calls[p]) - 1 : parked'[calls[p][i]] = master'[calls[p][i + 1]]
      BY <3>2, <3>3, <3>4, <3>8
    <3>10. \A i \in 2 .. Len(calls[p]) : /\ calls[p][i] \in Cos
                                         /\ status'[calls[p][i]] = "RUNNING"
                                         /\ master'[calls[p][i]] # None
      BY <3>3, <3>7
    <3>11. Len(calls[p]) >= 1
      BY <1>6
    <3> QED BY <3>1, <3>5, <3>6, <3>9, <3>10, <3>11 DEF Stacked
  <2>2. /\ Len(calls'[th]) >= 1 /\ calls'[th][1] = th
        /\ flow'[th] = calls'[th][Len(calls'[th])] /\ parked'[flow'[th]] = None
    BY <1>1, <1>2, <1>3, <1>6 DEF FlowInv, CallsInv, Stacked
  <2>3. ASSUME NEW i \in 2 .. Len(calls'[th])
        PROVE  /\ calls'[th][i] \in Cos /\ status'[calls'[th][i]] = "RUNNING"
               /\ master'[calls'[th][i]] # None
    <3>1. CASE i = Len(calls[th]) + 1
      BY <1>2, <1>3, <1>6, <3>1
    <3>2. CASE i \in 2 .. Len(calls[th])
      <4>1. /\ calls'[th][i] = calls[th][i] /\ calls[th][i] \in Cos /\ calls[th][i] # c
            /\ status[calls[th][i]] = "RUNNING" /\ master[calls[th][i]] # None
        BY <1>1, <1>5, <1>6, <3>2 DEF FlowInv, CallsInv, Stacked
      <4> QED BY <1>2, <1>3, <4>1
    <3> QED BY <1>1, <1>6, <2>3, <3>1, <3>2
  <2>4. ASSUME NEW i \in 1 .. Len(calls'[th]) - 1
        PROVE  parked'[calls'[th][i]] = master'[calls'[th][i + 1]]
    <3>1. CASE i = Len(calls[th])
      <4>1. calls'[th][i] = flow[th] /\ calls'[th][i + 1] = c
        BY <1>1, <1>6, <3>1 DEF FlowInv, CallsInv, Stacked
      <4> QED BY <1>2, <1>3, <4>1
    <3>2. CASE i \in 1 .. Len(calls[th]) - 1
      <4>1. /\ i \in 1 .. Len(calls[th]) /\ i + 1 \in 2 .. Len(calls[th])
            /\ i + 1 \in 1 .. Len(calls[th]) /\ i < Len(calls[th])
        BY <1>1, <1>6, <3>2
      <4>2. /\ calls'[th][i] = calls[th][i] /\ calls'[th][i + 1] = calls[th][i + 1]
            /\ calls[th][i + 1] \in Cos /\ calls[th][i + 1] # c
            /\ parked[calls[th][i]] = master[calls[th][i + 1]]
        BY <1>1, <1>5, <1>6, <3>2, <4>1 DEF FlowInv, CallsInv, Stacked
      <4>3. parked'[calls[th][i]] = parked[calls[th][i]]
        BY <1>1, <1>7, <4>1
      <4> QED BY <1>2, <1>3, <4>2, <4>3
    <3> QED BY <1>1, <1>6, <2>4, <3>1, <3>2
  <2>5. SUFFICES ASSUME NEW p \in up
                 PROVE  Stacked(p)'
    BY <1>2 DEF CallsInv
  <2>6. CASE p = th
    BY <2>2, <2>3, <2>4, <2>6 DEF Stacked
  <2>7. CASE p # th
    BY <2>1, <2>7
  <2> QED BY <2>6, <2>7
<1>9. CalledOnce'
  <2>1. ASSUME NEW p \in up, NEW q \in up, NEW i \in 1 .. Len(calls'[p]), NEW j \in 1 .. Len(calls'[q]),
               calls'[p][i] = calls'[q][j]
        PROVE  p = q /\ i = j
    <3>1. ASSUME NEW r \in up, NEW k \in 1 .. Len(calls'[r])
          PROVE  \/ k \in 1 .. Len(calls[r]) /\ calls'[r][k] = calls[r][k]
                 \/ r = th /\ k = Len(calls[th]) + 1 /\ calls'[r][k] = c
      <4>1. CASE r = th
        <5>1. k \in 1 .. Len(calls[th]) \/ k = Len(calls[th]) + 1
          BY <1>1, <1>6, <3>1, <4>1
        <5> QED BY <1>6, <4>1, <5>1
      <4>2. CASE r # th
        BY <1>6, <3>1, <4>2
      <4> QED BY <4>1, <4>2
    <3>2. /\ \/ i \in 1 .. Len(calls[p]) /\ calls'[p][i] = calls[p][i]
             \/ p = th /\ i = Len(calls[th]) + 1 /\ calls'[p][i] = c
          /\ \/ j \in 1 .. Len(calls[q]) /\ calls'[q][j] = calls[q][j]
             \/ q = th /\ j = Len(calls[th]) + 1 /\ calls'[q][j] = c
      BY <3>1
    <3> QED BY <1>5, <2>1, <3>2 DEF FlowInv, CalledOnce
  <2>2. ASSUME NEW d \in Cos, status'[d] = "RUNNING"
        PROVE  \E p \in up : \E i \in 1 .. Len(calls'[p]) : calls'[p][i] = d
    <3>1. CASE d = c
      <4>1. Len(calls[th]) + 1 \in 1 .. Len(calls'[th])
        BY <1>1, <1>6
      <4> QED BY <1>1, <1>6, <3>1, <4>1
    <3>2. CASE d # c
      <4>1. status[d] = "RUNNING"
        BY <1>2, <1>3, <2>2, <3>2
      <4>2. PICK p \in up : \E i \in 1 .. Len(calls[p]) : calls[p][i] = d
        BY <4>1 DEF FlowInv, CalledOnce
      <4>3. PICK i \in 1 .. Len(calls[p]) : calls[p][i] = d
        BY <4>2
      <4>4. i \in 1 .. Len(calls'[p]) /\ calls'[p][i] = d
        BY <1>1, <1>6, <4>3
      <4> QED BY <4>4
    <3> QED BY <3>1, <3>2
  <2> QED BY <1>2, <2>1, <2>2 DEF CalledOnce
<1> QED BY <1>4, <1>8, <1>9 DEF FlowInv

\* What GiveUp, or the end of the body, does: the flow below in the calls goes on.
LEMMA LeaveSwitches ==
  ASSUME TypesInv, FlowInv, NEW th \in Threads, NEW c \in Cos, GiveUp(th, c) \/ Run(th, c),
         broken' = "no"
  PROVE  LET n     == Len(calls[th])
             below == calls[th][n - 1]
         IN  /\ th \in up /\ flow[th] = c /\ n \in Nat /\ n >= 2 /\ calls[th][n] = c
             /\ below \in Flows /\ below # c /\ calls'[th] \in Seq(Flows)
             /\ flow' = [flow EXCEPT ![th] = below] /\ parked'[below] = None
             /\ \A f \in Flows \ {below, c} : parked'[f] = parked[f] /\ slot'[f] = slot[f]
             /\ slot'[below] = slot[below]
             /\ \/ status' = [status EXCEPT ![c] = "HOLD"] /\ parked'[c] = c /\ slot'[c] = c
                \/ /\ \E st \in {"FINISHED", "EXCEPT"} : status' = [status EXCEPT ![c] = st]
                   /\ parked'[c] = None /\ slot'[c] = slot[c]
             /\ \A p \in up \ {th} : calls'[p] = calls[p]
             /\ Len(calls'[th]) = n - 1 /\ \A i \in 1 .. n - 1 : calls'[th][i] = calls[th][i]
             /\ UNCHANGED <<up, master>>
<1> DEFINE n == Len(calls[th])
           below == calls[th][n - 1]
           m == master[c]
<1>1. PICK st \in {"HOLD", "FINISHED", "EXCEPT"} : Leaves(th, c, st) /\
          Switch(th, m, IF st = "HOLD" THEN [slot EXCEPT ![c] = c] ELSE slot,
                        IF st = "HOLD" THEN [parked EXCEPT ![c] = c] ELSE parked)
  BY DEF GiveUp, Run
<1>2. /\ th \in up /\ flow[th] = c /\ status' = [status EXCEPT ![c] = st]
      /\ calls' = [calls EXCEPT ![th] = SubSeq(@, 1, Len(@) - 1)] /\ UNCHANGED <<up, master>>
  BY <1>1 DEF Leaves
<1>3. n \in Nat /\ n >= 2 /\ calls[th] \in Seq(Flows) /\ c \in Flows
  BY <1>2, CalledOrHeld DEF TypesInv, TypeOK, CoTypeOK, Flows
<1>4. /\ calls[th][n] = c /\ below \in Flows /\ below # c
      /\ parked[c] = None /\ parked[below] = m /\ m \in Threads /\ slot[m] = below
  <2>1. n \in 1 .. n /\ n - 1 \in 1 .. n /\ n - 1 \in 1 .. n - 1 /\ (n - 1) + 1 = n /\ n - 1 # n
        /\ n \in 2 .. n
    BY <1>3
  <2>2. calls[th][n] = c /\ below \in Flows /\ parked[c] = None /\ parked[below] = master[calls[th][(n - 1) + 1]]
        /\ master[calls[th][n]] # None
    BY <1>2, <1>3, <2>1 DEF FlowInv, CallsInv, Stacked
  <2>3. below # c
    BY <1>2, <2>1, <2>2 DEF FlowInv, CalledOnce
  <2>4. m \in Threads /\ parked[below] = m
    BY <2>1, <2>2 DEF TypesInv, TypeOK, CoTypeOK
  <2> QED BY <2>2, <2>3, <2>4 DEF FlowInv, ParkedInv
<1>5. /\ calls'[th] \in Seq(Flows) /\ Len(calls'[th]) = n - 1
      /\ \A i \in 1 .. n - 1 : calls'[th][i] = calls[th][i]
      /\ \A p \in up \ {th} : calls'[p] = calls[p]
  <2>1. calls'[th] = SubSeq(calls[th], 1, n - 1) /\ \A p \in up \ {th} : calls'[p] = calls[p]
    BY <1>2 DEF TypesInv, TypeOK, CoTypeOK
  <2>2. n - 1 \in Nat /\ 1 .. n - 1 \subseteq DOMAIN calls[th]
    BY <1>3
  <2> QED BY <1>3, <2>1, <2>2
<1>6. CASE st = "HOLD"
  <2> DEFINE saved == [slot EXCEPT ![c] = c]
             left  == [parked EXCEPT ![c] = c]
  <2>1. saved[m] = below /\ left[below] = m /\ m \in Flows /\ m # c
    BY <1>3, <1>4 DEF TypesInv, TypeOK, CoTypeOK, Flows
  <2>2. Switch(th, m, saved, left)
    BY <1>1, <1>6
  <2>3. flow' = [flow EXCEPT ![th] = below] /\ parked' = [left EXCEPT ![below] = None] /\ slot' = saved
    <3> HIDE DEF saved, left, m, below
    <3> QED BY <1>4, <2>1, <2>2 DEF Switch, Flows
  <2>4. /\ parked'[below] = None /\ parked'[c] = c /\ slot'[c] = c /\ slot'[below] = slot[below]
        /\ \A f \in Flows \ {below, c} : parked'[f] = parked[f] /\ slot'[f] = slot[f]
    BY <1>3, <1>4, <2>3 DEF TypesInv, TypeOK, CoTypeOK
  <2> HIDE DEF below, m, n, saved, left
  <2> QED BY <1>2, <1>3, <1>4, <1>5, <1>6, <2>3, <2>4 DEF n, below
<1>7. CASE st # "HOLD"
  <2>1. Switch(th, m, slot, parked)
    BY <1>1, <1>7
  <2>2. flow' = [flow EXCEPT ![th] = below] /\ parked' = [parked EXCEPT ![below] = None] /\ slot' = slot
    <3> HIDE DEF m, below
    <3> QED BY <1>4, <2>1 DEF Switch, Flows
  <2>3. /\ parked'[below] = None /\ parked'[c] = None
        /\ \A f \in Flows \ {below, c} : parked'[f] = parked[f] /\ slot'[f] = slot[f]
    BY <1>3, <1>4, <2>2 DEF TypesInv, TypeOK, CoTypeOK
  <2> HIDE DEF below, m, n
  <2> QED BY <1>1, <1>2, <1>3, <1>4, <1>5, <1>7, <2>2, <2>3 DEF n, below
<1> QED BY <1>1, <1>6, <1>7

LEMMA LeaveStep ==
  ASSUME TypesInv, FlowInv, NEW th \in Threads, NEW c \in Cos, GiveUp(th, c) \/ Run(th, c),
         broken' = "no"
  PROVE  FlowInv'
<1> DEFINE n == Len(calls[th])
           below == calls[th][n - 1]
<1>1. /\ n \in Nat /\ below \in Flows /\ n = Len(calls[th]) /\ below = calls[th][n - 1]
      /\ th \in up /\ flow[th] = c /\ n >= 2 /\ calls[th][n] = c
      /\ below # c /\ calls'[th] \in Seq(Flows)
      /\ flow' = [flow EXCEPT ![th] = below] /\ parked'[below] = None
      /\ \A f \in Flows \ {below, c} : parked'[f] = parked[f] /\ slot'[f] = slot[f]
      /\ slot'[below] = slot[below]
      /\ \/ status' = [status EXCEPT ![c] = "HOLD"] /\ parked'[c] = c /\ slot'[c] = c
         \/ /\ \E st \in {"FINISHED", "EXCEPT"} : status' = [status EXCEPT ![c] = st]
            /\ parked'[c] = None /\ slot'[c] = slot[c]
      /\ \A p \in up \ {th} : calls'[p] = calls[p]
      /\ Len(calls'[th]) = n - 1 /\ \A i \in 1 .. n - 1 : calls'[th][i] = calls[th][i]
      /\ UNCHANGED <<up, master>>
  BY LeaveSwitches
<1> HIDE DEF n, below
<1>2. /\ c \in Flows /\ c \notin Threads /\ None \notin Flows
      /\ \A f \in Flows : parked[f] \in Flows \cup {None}
      /\ status \in [Cos -> {"IDLE", "RUNNING", "FINISHED", "HOLD", "EXCEPT", "destroyed"}]
      /\ flow \in [Threads -> Flows \cup {None}] /\ up \subseteq Threads
      /\ \A p \in up : /\ Len(calls[p]) \in Nat /\ Len(calls[p]) >= 1
                       /\ \A i \in 1 .. Len(calls[p]) : calls[p][i] \in Flows
  BY DEF TypesInv, TypeOK, CoTypeOK, Flows, FlowInv, CallsInv, Stacked
<1>3. /\ n \in 1 .. n /\ n - 1 \in 1 .. n /\ n - 1 # n
      /\ parked[c] = None /\ status[c] = "RUNNING" /\ master[c] # None
  BY <1>1, <1>2 DEF FlowInv, CallsInv, Stacked
<1>4. \A p \in up, i \in Nat : i \in 1 .. Len(calls[p]) =>
        /\ calls[p][i] = c => p = th /\ i = n
        /\ calls[p][i] = below => p = th /\ i = n - 1
  <2> SUFFICES ASSUME NEW p \in up, NEW i \in 1 .. Len(calls[p])
               PROVE  /\ calls[p][i] = c => p = th /\ i = n
                      /\ calls[p][i] = below => p = th /\ i = n - 1
    OBVIOUS
  <2>1. th \in up /\ n \in 1 .. Len(calls[th]) /\ n - 1 \in 1 .. Len(calls[th])
    BY <1>1, <1>3
  <2>2. \A j \in 1 .. Len(calls[th]) : calls[p][i] = calls[th][j] => p = th /\ i = j
    BY <2>1 DEF FlowInv, CalledOnce
  <2>3. calls[th][n] = c /\ calls[th][n - 1] = below
    BY <1>1
  <2> QED BY <2>1, <2>2, <2>3
<1>5. ParkedInv'
  <2>1. ASSUME NEW f \in Flows, parked'[f] # None
        PROVE  slot'[parked'[f]] = f
    <3>1. CASE f = c
      BY <1>1, <2>1, <3>1
    <3>2. CASE f # c
      <4>1. f # below /\ parked'[f] = parked[f] /\ parked[f] \in Flows
        BY <1>1, <1>2, <2>1, <3>2
      <4>2. parked[f] # c /\ slot[parked[f]] = f
        BY <1>3, <2>1, <3>2, <4>1 DEF FlowInv, ParkedInv
      <4> QED BY <1>1, <4>1, <4>2
    <3> QED BY <3>1, <3>2
  <2>2. \A f \in Flows : parked'[f] \in Cos => f = parked'[f] /\ status'[f] = "HOLD"
    BY <1>1, <1>2 DEF FlowInv, ParkedInv
  <2>3. ASSUME NEW d \in Cos, status'[d] = "HOLD"
        PROVE  parked'[d] = d /\ master'[d] # None
    <3>1. CASE d = c
      BY <1>1, <1>2, <1>3, <2>3, <3>1
    <3>2. CASE d # c
      <4>1. status[d] = "HOLD" /\ d \in Flows
        BY <1>1, <1>2, <2>3, <3>2 DEF Flows
      <4>2. below # d
        BY <1>1, <1>2, <1>3, <4>1, CalledOrHeld
      <4> QED BY <1>1, <3>2, <4>1, <4>2 DEF FlowInv, ParkedInv
    <3> QED BY <3>1, <3>2
  <2>4. ASSUME NEW p \in Threads \ up
        PROVE  parked'[p] = None
    <3>1. p \in Flows /\ p # c /\ parked[p] = None
      BY <1>2 DEF Flows, FlowInv, ParkedInv
    <3> QED BY <1>1, <3>1
  <2> QED BY <1>1, <2>1, <2>2, <2>3, <2>4 DEF ParkedInv
<1>6. ASSUME NEW p \in up, NEW i \in 1 .. Len(calls'[p])
      PROVE  /\ i \in 1 .. Len(calls[p]) /\ calls'[p][i] = calls[p][i] /\ calls[p][i] # c
             /\ calls[p][i] \in Flows
             /\ calls[p][i] = below <=> p = th /\ i = n - 1
  <2>1. CASE p = th
    <3>1. i \in 1 .. n - 1 /\ i \in 1 .. n /\ i # n /\ i \in Nat
      BY <1>1, <1>6, <2>1
    <3>2. i \in 1 .. Len(calls[p]) /\ calls'[p][i] = calls[p][i]
      BY <1>1, <2>1, <3>1
    <3>3. calls[p][i] # c /\ calls[p][i] \in Flows
      BY <1>2, <1>4, <3>1, <3>2
    <3>4. calls[p][i] = below <=> i = n - 1
      BY <1>1, <1>4, <2>1, <3>1, <3>2
    <3> QED BY <2>1, <3>2, <3>3, <3>4
  <2>2. CASE p # th
    BY <1>1, <1>2, <1>4, <1>6, <2>2
  <2> QED BY <2>1, <2>2
<1>7. ASSUME NEW p \in up
      PROVE  Stacked(p)'
  <2>1. /\ Len(calls'[p]) >= 1 /\ Len(calls'[p]) \in 1 .. Len(calls'[p]) /\ 1 \in 1 .. Len(calls'[p])
        /\ Len(calls'[p]) \in Nat /\ Len(calls'[p]) <= Len(calls[p])
        /\ Len(calls'[p]) = IF p = th THEN n - 1 ELSE Len(calls[p])
    BY <1>1, <1>2
  <2>2. calls'[p][1] = p
    BY <1>6, <2>1 DEF FlowInv, CallsInv, Stacked
  <2>3. flow'[p] = calls'[p][Len(calls'[p])] /\ parked'[flow'[p]] = None
    <3>1. CASE p = th
      <4>1. n - 1 \in 1 .. Len(calls'[p]) /\ Len(calls'[p]) = n - 1
        BY <2>1, <3>1
      <4>2. calls'[p][n - 1] = below
        BY <1>6, <3>1, <4>1
      <4>3. flow'[p] = below /\ parked'[below] = None
        BY <1>1, <1>2, <3>1
      <4> QED BY <4>1, <4>2, <4>3
    <3>2. CASE p # th
      <4>1. flow'[p] = flow[p] /\ calls'[p] = calls[p] /\ flow[p] = calls[p][Len(calls[p])]
            /\ parked[flow[p]] = None
        BY <1>1, <1>2, <3>2 DEF FlowInv, CallsInv, Stacked
      <4>2. flow[p] \in Flows /\ flow[p] # c /\ flow[p] # below
        BY <1>6, <2>1, <3>2, <4>1
      <4> QED BY <1>1, <4>1, <4>2
    <3> QED BY <3>1, <3>2
  <2>4. ASSUME NEW i \in 2 .. Len(calls'[p])
        PROVE  /\ calls'[p][i] \in Cos /\ status'[calls'[p][i]] = "RUNNING"
               /\ master'[calls'[p][i]] # None
    <3>1. i \in 1 .. Len(calls'[p]) /\ i \in 2 .. Len(calls[p])
      BY <1>2, <2>1, <2>4
    <3>2. /\ calls'[p][i] = calls[p][i] /\ calls[p][i] # c /\ calls[p][i] \in Cos
          /\ status[calls[p][i]] = "RUNNING" /\ master[calls[p][i]] # None
      BY <1>6, <3>1 DEF FlowInv, CallsInv, Stacked
    <3> QED BY <1>1, <1>2, <3>2
  <2>5. ASSUME NEW i \in 1 .. Len(calls'[p]) - 1
        PROVE  parked'[calls'[p][i]] = master'[calls'[p][i + 1]]
    <3>1. /\ i \in 1 .. Len(calls'[p]) /\ i + 1 \in 1 .. Len(calls'[p])
          /\ i \in 1 .. Len(calls[p]) - 1 /\ ~(p = th /\ i = n - 1)
      BY <1>2, <2>1, <2>5
    <3>2. /\ calls'[p][i] = calls[p][i] /\ calls'[p][i + 1] = calls[p][i + 1]
          /\ calls[p][i] \in Flows \ {c, below}
      BY <1>6, <3>1
    <3>3. parked[calls[p][i]] = master[calls[p][i + 1]]
      BY <3>1 DEF FlowInv, CallsInv, Stacked
    <3> QED BY <1>1, <3>2, <3>3
  <2> QED BY <2>1, <2>2, <2>3, <2>4, <2>5 DEF Stacked
<1>8. CalledOnce'
  <2>1. ASSUME NEW p \in up, NEW q \in up, NEW i \in 1 .. Len(calls'[p]), NEW j \in 1 .. Len(calls'[q]),
               calls'[p][i] = calls'[q][j]
        PROVE  p = q /\ i = j
    BY <1>6, <2>1 DEF FlowInv, CalledOnce
  <2>2. ASSUME NEW d \in Cos, status'[d] = "RUNNING"
        PROVE  \E p \in up : \E i \in 1 .. Len(calls'[p]) : calls'[p][i] = d
    <3>1. d # c /\ status[d] = "RUNNING"
      BY <1>1, <1>2, <2>2
    <3>2. PICK p \in up : \E i \in 1 .. Len(calls[p]) : calls[p][i] = d
      BY <3>1 DEF FlowInv, CalledOnce
    <3>3. PICK i \in 1 .. Len(calls[p]) : calls[p][i] = d
      BY <3>2
    <3>4. i \in 1 .. Len(calls'[p]) /\ calls'[p][i] = d
      <4>1. CASE p = th
        <5>1. i # n
          BY <1>1, <3>1, <3>3, <4>1
        <5>2. i \in 1 .. n - 1
          BY <1>1, <3>3, <4>1, <5>1
        <5> QED BY <1>1, <3>3, <4>1, <5>2
      <4>2. CASE p # th
        BY <1>1, <3>3, <4>2
      <4> QED BY <4>1, <4>2
    <3> QED BY <3>4
  <2> QED BY <1>1, <2>1, <2>2 DEF CalledOnce
<1>9. CallsInv'
  BY <1>1, <1>7 DEF CallsInv
<1> QED BY <1>5, <1>8, <1>9 DEF FlowInv

\* A thread that begins is called by nobody; one that ends is in no coroutine.
LEMMA BeginStep ==
  ASSUME TypesInv, FlowInv, NEW th \in Threads \ up, ThreadBegins(th)
  PROVE  FlowInv'
<1>1. /\ th \in Flows /\ th \notin Cos /\ None \notin Flows /\ up \subseteq Threads /\ Cos \subseteq Flows
      /\ up' = up \cup {th} /\ calls'[th] = <<th>> /\ flow'[th] = th
      /\ \A p \in up : calls'[p] = calls[p] /\ flow'[p] = flow[p] /\ Len(calls[p]) \in Nat
      /\ UNCHANGED <<slot, parked, status, master>>
  BY DEF ThreadBegins, TypesInv, TypeOK, CoTypeOK, Flows
<1>2. ParkedInv'
  BY <1>1 DEF FlowInv, ParkedInv
<1>3. \A p \in up : Stacked(p)'
  BY <1>1 DEF FlowInv, CallsInv, Stacked
<1>4. Stacked(th)'
  BY <1>1 DEF FlowInv, ParkedInv, Stacked
<1>5. \A p \in up : \A i \in 1 .. Len(calls[p]) : calls[p][i] # th
  BY <1>1 DEF FlowInv, CallsInv, Stacked
<1>6. \A i \in 1 .. Len(calls'[th]) : i = 1 /\ calls'[th][i] = th
  BY <1>1
<1>7. CalledOnce'
  <2>1. ASSUME NEW p \in up', NEW q \in up', NEW i \in 1 .. Len(calls'[p]), NEW j \in 1 .. Len(calls'[q]),
               calls'[p][i] = calls'[q][j]
        PROVE  p = q /\ i = j
    BY <1>1, <1>5, <1>6, <2>1 DEF FlowInv, CalledOnce
  <2>2. \A c \in Cos : status'[c] = "RUNNING" =>
          \E p \in up' : \E i \in 1 .. Len(calls'[p]) : calls'[p][i] = c
    BY <1>1 DEF FlowInv, CalledOnce
  <2> QED BY <2>1, <2>2 DEF CalledOnce
<1> QED BY <1>1, <1>2, <1>3, <1>4, <1>7 DEF FlowInv, CallsInv

LEMMA EndStep ==
  ASSUME TypesInv, FlowInv, NEW th \in up, ThreadEnds(th)
  PROVE  FlowInv'
<1>1. /\ th \in Threads /\ th \in Flows /\ th \notin Cos /\ up \subseteq Threads
      /\ flow[th] = th /\ up' = up \ {th}
      /\ \A p \in up \ {th} : calls'[p] = calls[p] /\ flow'[p] = flow[p]
      /\ \A p \in up : Len(calls[p]) \in Nat
      /\ UNCHANGED <<slot, parked, status, master>>
  BY DEF ThreadEnds, TypesInv, TypeOK, CoTypeOK, Flows
<1>2. Len(calls[th]) = 1 /\ calls[th][1] = th /\ parked[th] = None
  <2>1. Stacked(th)
    BY DEF FlowInv, CallsInv
  <2>2. Len(calls[th]) >= 2 => Len(calls[th]) \in 2 .. Len(calls[th])
    BY <1>1
  <2>3. ~(Len(calls[th]) >= 2)
    BY <1>1, <2>1, <2>2 DEF Stacked
  <2>4. Len(calls[th]) >= 1 /\ calls[th][1] = th /\ parked[th] = None
    BY <1>1, <2>1 DEF Stacked
  <2>5. Len(calls[th]) \in Nat
    BY <1>1
  <2>6. \A n \in Nat : n >= 1 /\ ~(n >= 2) => n = 1
    OBVIOUS
  <2>7. Len(calls[th]) = 1
    BY <2>3, <2>4, <2>5, <2>6
  <2> QED BY <2>4, <2>7
<1>3. ParkedInv'
  BY <1>1, <1>2 DEF FlowInv, ParkedInv
<1>4. \A p \in up \ {th} : Stacked(p)'
  BY <1>1 DEF FlowInv, CallsInv, Stacked
<1>5. CalledOnce'
  <2>1. ASSUME NEW c \in Cos, status[c] = "RUNNING"
        PROVE  \E p \in up \ {th} : \E i \in 1 .. Len(calls[p]) : calls[p][i] = c
    <3>1. PICK p \in up : \E i \in 1 .. Len(calls[p]) : calls[p][i] = c
      BY <2>1 DEF FlowInv, CalledOnce
    <3>2. p # th
      BY <1>1, <1>2, <3>1
    <3> QED BY <3>1, <3>2
  <2>2. \A p, q \in up' : \A i \in 1 .. Len(calls'[p]), j \in 1 .. Len(calls'[q]) :
          calls'[p][i] = calls'[q][j] => p = q /\ i = j
    BY <1>1 DEF FlowInv, CalledOnce
  <2>3. ASSUME NEW c \in Cos, status'[c] = "RUNNING"
        PROVE  \E p \in up' : \E i \in 1 .. Len(calls'[p]) : calls'[p][i] = c
    <3>1. PICK p \in up \ {th} : \E i \in 1 .. Len(calls[p]) : calls[p][i] = c
      BY <1>1, <2>1, <2>3
    <3> QED BY <1>1, <3>1
  <2> QED BY <2>2, <2>3 DEF CalledOnce
<1> QED BY <1>1, <1>3, <1>4, <1>5 DEF FlowInv, CallsInv

LEMMA DestroyStep ==
  ASSUME TypesInv, FlowInv, NEW c \in Cos, Destroy(c), broken' = "no", broken = "no"
  PROVE  FlowInv'
<1>1. /\ status[c] \notin {"RUNNING", "HOLD"} /\ status' = [status EXCEPT ![c] = "destroyed"]
      /\ UNCHANGED <<up, flow, slot, parked, master, calls>>
  BY DEF Destroy
<1>2. \A d \in Cos : \A st \in {"RUNNING", "HOLD"} : status'[d] = st <=> status[d] = st
  BY <1>1 DEF TypesInv, TypeOK, CoTypeOK
<1>3. ParkedInv'
  BY <1>1, <1>2 DEF FlowInv, ParkedInv, Flows
<1>4. CallsInv' /\ CalledOnce'
  BY <1>1, <1>2 DEF FlowInv, CallsInv, Stacked, CalledOnce
<1> QED BY <1>3, <1>4 DEF FlowInv

-----------------------------------------------------------------------------
CoInv == TypesInv /\ UpInv /\ (Orderly => FlowInv)

LEMMA CoInvInit == ASSUME ThreadInv, Init PROVE CoInv
<1>1. /\ up = {Main} /\ Main \in Flows /\ Main \notin Cos
      /\ \A th \in Threads : flow[th] = IF th = Main THEN Main ELSE None
      /\ calls[Main] = <<Main>>
      /\ \A f \in Flows : slot[f] = None /\ parked[f] = None
      /\ \A c \in Cos : status[c] = "IDLE" /\ c # None /\ c \in Flows
      /\ None \notin Flows
  BY DEF Init, CoInit, Flows
<1>2. CoTypeOK
  <2>1. <<Main>> \in Seq(Flows) /\ <<>> \in Seq(Flows)
    BY <1>1
  <2> QED BY <1>1, <2>1 DEF Init, CoInit, CoTypeOK, Flows
<1>3. MasterInv
  BY <1>1 DEF MasterInv
<1>4. UpInv
  BY <1>1 DEF UpInv
<1>5. FlowInv
  <2>1. ParkedInv
    BY <1>1 DEF ParkedInv, Flows
  <2>2. CallsInv /\ CalledOnce
    BY <1>1 DEF CallsInv, Stacked, CalledOnce
  <2> QED BY <2>1, <2>2 DEF FlowInv
<1> QED BY <1>2, <1>3, <1>4, <1>5 DEF CoInv, TypesInv, TypeOK, ThreadInv

LEMMA CoInvStep == ASSUME ThreadInv, ThreadInv', CoInv, [Next]_vars PROVE CoInv'
<1>1. TypesInv' /\ UpInv'
  BY TypesStep, UpStep DEF CoInv
<1>2. CASE UNCHANGED coVars
  BY <1>1, <1>2
  DEF CoInv, coVars, Orderly, FlowInv, ParkedInv, CallsInv, Stacked, CalledOnce
<1>3. ASSUME NEW p \in Objects, CallbackBegins(p)
      PROVE  CoInv'
  <2>1. ThreadBegins(p) /\ p \in Threads \ up
    BY <1>3 DEF CallbackBegins, T!Post, CoInv, UpInv
  <2>2. Orderly' => Orderly
    BY <2>1 DEF ThreadBegins, Orderly
  <2> QED BY <1>1, <2>1, <2>2, BeginStep DEF CoInv
<1>4. ASSUME NEW p \in Objects, CallbackReturns(p)
      PROVE  CoInv'
  <2>1. ThreadEnds(p) /\ p \in Threads /\ flow[p] = p
    BY <1>4 DEF CallbackReturns, ThreadEnds
  <2>2. Orderly' => Orderly
    BY <2>1 DEF ThreadEnds, Orderly
  <2>3. p \in up
    BY <2>1 DEF CoInv, TypesInv, MasterInv, Flows
  <2> QED BY <1>1, <2>1, <2>2, <2>3, EndStep DEF CoInv
<1>5. ASSUME NEW th \in Threads, CoStep(th), broken = "no"
      PROVE  CoInv'
  <2>1. PICK c \in Cos : Resume(th, c) \/ ResumeRunning(th, c) \/ GiveUp(th, c) \/ Run(th, c) \/ Destroy(c)
    BY <1>5 DEF CoStep
  <2>2. Orderly' => Orderly
    BY <1>5, <2>1 DEF Orderly, Resume, ResumeRunning, GiveUp, Run, Leaves, Destroy
  <2>3. ASSUME Orderly'
        PROVE  FlowInv'
    <3>1. ~ResumeRunning(th, c) /\ broken' = "no" /\ ~overlapped'
      BY <2>3 DEF Orderly, ResumeRunning
    <3>2. TypesInv /\ FlowInv
      BY <2>2, <2>3 DEF CoInv
    <3> QED BY <1>5, <2>1, <3>1, <3>2, ResumeStep, LeaveStep, DestroyStep
  <2> QED BY <1>1, <2>3 DEF CoInv
<1> QED BY <1>2, <1>3, <1>4, <1>5 DEF Next, vars

LEMMA CoInvariance == Spec => []CoInv
<1>1. Spec => []ThreadInv
  BY ThreadInvariance
<1>2. ThreadInv /\ Init => CoInv
  BY CoInvInit
<1>3. ThreadInv /\ ThreadInv' /\ CoInv /\ [Next]_vars => CoInv'
  BY CoInvStep
<1> QED BY <1>1, <1>2, <1>3, PTL DEF Spec

-----------------------------------------------------------------------------
\* The objects, the threads and the contexts keep their types, whatever switches are
\* made and however the program ends.
THEOREM TypeCorrect == Spec => []TypeOK
<1>1. CoInv => TypeOK
  BY DEF CoInv, TypesInv
<1> QED BY <1>1, CoInvariance, PTL

\* As long as no Resume overlaps, GiveUp and the end of a body go back to the flow
\* that called Resume, on any number of threads and at any depth.
THEOREM LeavesGoBack == Spec => []LeavesToResumer
<1>1. ASSUME CoInv, broken = "no", ~overlapped, NEW th \in up
      PROVE  /\ flow[th] = calls[th][Len(calls[th])]
             /\ \A i \in 1 .. Len(calls[th]) - 1 :
                  /\ parked[calls[th][i]] = master[calls[th][i + 1]]
                  /\ slot[parked[calls[th][i]]] = calls[th][i]
  <2>1. FlowInv /\ th \in Threads /\ calls[th] \in Seq(Flows)
    BY <1>1 DEF CoInv, Orderly, TypesInv, TypeOK, CoTypeOK
  <2>2. Stacked(th)
    BY <2>1 DEF FlowInv, CallsInv
  <2>3. ASSUME NEW i \in 1 .. Len(calls[th]) - 1
        PROVE  slot[parked[calls[th][i]]] = calls[th][i]
    <3>1. i + 1 \in 2 .. Len(calls[th]) /\ calls[th][i] \in Flows
      BY <2>1
    <3>2. parked[calls[th][i]] # None
      BY <2>2, <3>1 DEF Stacked
    <3> QED BY <2>1, <3>1, <3>2 DEF FlowInv, ParkedInv
  <2> QED BY <2>2, <2>3 DEF Stacked
<1>2. CoInv => LeavesToResumer
  BY <1>1 DEF LeavesToResumer
<1> QED BY <1>2, CoInvariance, PTL

\* And a flow that has begun and not ended runs on one thread or is still in the
\* context it stopped in.
THEOREM FlowsAreKept == Spec => []NoFlowLost
<1>1. ASSUME CoInv, broken = "no", ~overlapped
      PROVE  /\ \A p, q \in up : flow[p] = flow[q] => p = q
             /\ \A f \in up \cup {c \in Cos : status[c] \in {"RUNNING", "HOLD"}} :
                  IF parked[f] = None
                  THEN \E th \in up : flow[th] = f
                  ELSE slot[parked[f]] = f /\ \A th \in up : flow[th] # f
  <2>1. FlowInv /\ up \subseteq Threads /\ calls \in [Threads -> Seq(Flows)]
    BY <1>1 DEF CoInv, Orderly, TypesInv, TypeOK, CoTypeOK
  <2>2. \A p \in up : /\ Len(calls[p]) \in 1 .. Len(calls[p]) /\ flow[p] = calls[p][Len(calls[p])]
                      /\ parked[flow[p]] = None
    BY <2>1 DEF FlowInv, CallsInv, Stacked
  <2>3. \A p, q \in up : flow[p] = flow[q] => p = q
    BY <2>1, <2>2 DEF FlowInv, CalledOnce
  <2>4. ASSUME NEW f \in up \cup {c \in Cos : status[c] \in {"RUNNING", "HOLD"}}, parked[f] = None
        PROVE  \E th \in up : flow[th] = f
    <3>1. \E p \in up : \E i \in 1 .. Len(calls[p]) : calls[p][i] = f
      <4>1. CASE f \in up
        <5>1. 1 \in 1 .. Len(calls[f]) /\ calls[f][1] = f
          BY <2>1, <2>2, <4>1 DEF FlowInv, CallsInv, Stacked
        <5> QED BY <4>1, <5>1
      <4>2. CASE f \in Cos /\ status[f] = "RUNNING"
        BY <2>1, <4>2 DEF FlowInv, CalledOnce
      <4>3. CASE f \in Cos /\ status[f] = "HOLD"
        BY <2>1, <2>4, <4>3 DEF FlowInv, ParkedInv
      <4> QED BY <4>1, <4>2, <4>3
    <3>2. PICK p \in up : \E i \in 1 .. Len(calls[p]) : calls[p][i] = f
      BY <3>1
    <3>3. PICK i \in 1 .. Len(calls[p]) : calls[p][i] = f
      BY <3>2
    <3>4. Stacked(p) /\ Len(calls[p]) \in Nat
      BY <2>1 DEF FlowInv, CallsInv
    <3>5. i = Len(calls[p])
      <4>1. SUFFICES ASSUME i # Len(calls[p])
                     PROVE  FALSE
        OBVIOUS
      <4>2. i \in 1 .. Len(calls[p]) - 1 /\ i + 1 \in 2 .. Len(calls[p])
        BY <3>4, <4>1
      <4> QED BY <2>4, <3>3, <3>4, <4>2 DEF Stacked
    <3> QED BY <2>2, <3>3, <3>5
  <2>5. ASSUME NEW f \in up \cup {c \in Cos : status[c] \in {"RUNNING", "HOLD"}}, parked[f] # None
        PROVE  slot[parked[f]] = f /\ \A th \in up : flow[th] # f
    <3>1. f \in Flows
      BY <2>1 DEF Flows
    <3> QED BY <2>1, <2>2, <2>5, <3>1 DEF FlowInv, ParkedInv
  <2> QED BY <2>3, <2>4, <2>5
<1>2. CoInv => NoFlowLost
  BY <1>1 DEF NoFlowLost
<1> QED BY <1>2, CoInvariance, PTL

=============================================================================
