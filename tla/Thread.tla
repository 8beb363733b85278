------------------------------- MODULE Thread -------------------------------
(***************************************************************************)
(* Thread (src/src/thread.cpp): objects that own a POSIX thread each, and  *)
(* the threads they have created.  A thread is named by the object whose   *)
(* constructor created it; Swap may move it to another object.             *)
(*                                                                         *)
(* One thread at a time calls the members of an object.  What the names    *)
(* are is left out, not where they are kept.  A pthread call on a thread   *)
(* that does not exist any more is undefined, one on a detached thread     *)
(* that still runs fails with EINVAL.                                      *)
(***************************************************************************)
EXTENDS Naturals

CONSTANTS
  Objects,  \* the Thread objects of the program
  None      \* m_thread = 0

VARIABLES
  obj,       \* the life of each object
  handle,    \* m_thread: the thread the object owns
  joinable,  \* m_joinable
  sem,       \* the count of m_semaphore
  os,        \* the life of each thread
  detached,  \* the threads for which pthread_detach was called
  stale      \* a call was made on a thread or an object that is gone

members == <<handle, joinable, sem>>
threadVars == <<obj, members, os, detached, stale>>

ThreadTypeOK ==
  /\ obj \in [Objects -> {"new", "constructing", "alive", "destroyed"}]
  /\ handle \in [Objects -> Objects \cup {None}]
  /\ joinable \in [Objects -> BOOLEAN]
  /\ sem \in [Objects -> Nat]
  /\ os \in [Objects -> {"none", "created", "starting", "running", "ended", "gone"}]
  /\ detached \in SUBSET Objects
  /\ stale \in BOOLEAN

ThreadInit ==
  /\ obj = [o \in Objects |-> "new"]
  /\ handle = [o \in Objects |-> None]
  /\ joinable = [o \in Objects |-> TRUE]
  /\ sem = [o \in Objects |-> 0]
  /\ os = [o \in Objects |-> "none"]
  /\ detached = {}
  /\ stale = FALSE

(***************************************************************************)
(* Construction: pthread_create, then the creator waits for the new thread *)
(* to have taken what it needs from the object.                            *)
(***************************************************************************)
\* Thread(): no thread.
DefaultConstruct(o) ==
  /\ obj[o] = "new"
  /\ obj' = [obj EXCEPT ![o] = "alive"]
  /\ UNCHANGED <<members, os, detached, stale>>

Construct(o) ==
  /\ obj[o] = "new"
  /\ obj' = [obj EXCEPT ![o] = "constructing"]
  /\ handle' = [handle EXCEPT ![o] = o]
  /\ os' = [os EXCEPT ![o] = "created"]
  /\ UNCHANGED <<joinable, sem, detached, stale>>

\* Mutant: the constructor does not wait for the new thread.
WaitNot(o) ==
  /\ obj[o] = "constructing"
  /\ sem' = [sem EXCEPT ![o] = @ - 1]
  /\ obj' = [obj EXCEPT ![o] = "alive"]
  /\ UNCHANGED <<handle, joinable, os, detached, stale>>

Wait(o) ==
  /\ obj[o] = "constructing"
  /\ sem[o] > 0
  /\ sem' = [sem EXCEPT ![o] = @ - 1]
  /\ obj' = [obj EXCEPT ![o] = "alive"]
  /\ UNCHANGED <<handle, joinable, os, detached, stale>>

(***************************************************************************)
(* Run, in the new thread, which keeps the address of its object in        *)
(* t_thread: for Run itself up to the post, for SetName and for the        *)
(* callers of GetThis as long as it runs.                                  *)
(***************************************************************************)
TakeCallback(p) ==
  /\ os[p] = "created"
  /\ os' = [os EXCEPT ![p] = "starting"]
  /\ UNCHANGED <<obj, members, detached, stale>>

Post(p) ==
  /\ os[p] = "starting"
  /\ os' = [os EXCEPT ![p] = "running"]
  /\ sem' = [sem EXCEPT ![p] = @ + 1]
  /\ UNCHANGED <<obj, handle, joinable, detached, stale>>

\* SetName, or a use of what GetThis returns: it writes into the object, if that is
\* still there.
SetName(p) ==
  /\ os[p] = "running" /\ obj[p] = "destroyed"
  /\ stale' = TRUE
  /\ UNCHANGED <<obj, members, os, detached>>

\* A detached thread leaves nothing behind.
RunReturns(p) ==
  /\ os[p] = "running"
  /\ os' = [os EXCEPT ![p] = IF p \in detached THEN "gone" ELSE "ended"]
  /\ UNCHANGED <<obj, members, detached, stale>>

(***************************************************************************)
(* Join, Detach, Swap and the destructor.                                  *)
(***************************************************************************)
\* pthread_detach: what it does to a thread, and when it is undefined.
PthreadDetach(p) ==
  /\ detached' = detached \cup {p}
  /\ os' = [os EXCEPT ![p] = IF @ = "ended" THEN "gone" ELSE @]
  /\ stale' = (stale \/ os[p] = "gone")

\* pthread_join returns when the thread has ended; it fails, and Join throws, for
\* a detached thread.
Join(o) ==
  /\ obj[o] = "alive" /\ handle[o] # None
  /\ \/ /\ handle[o] \notin detached
        /\ os[handle[o]] = "ended"
        /\ os' = [os EXCEPT ![handle[o]] = "gone"]
        /\ joinable' = [joinable EXCEPT ![o] = FALSE]
        /\ handle' = [handle EXCEPT ![o] = None]
        /\ UNCHANGED stale
     \/ /\ handle[o] \in detached
        /\ os[handle[o]] = "gone"
        /\ stale' = TRUE
        /\ UNCHANGED <<os, joinable, handle>>
  /\ UNCHANGED <<obj, sem, detached>>

\* m_thread stays: the destructor will detach once more.  For a thread that is
\* detached already, and runs, Detach throws.
Detach(o) ==
  /\ obj[o] = "alive" /\ handle[o] # None
  /\ handle[o] \in detached => os[handle[o]] = "gone"
  /\ PthreadDetach(handle[o])
  /\ joinable' = [joinable EXCEPT ![o] = FALSE]
  /\ UNCHANGED <<obj, handle, sem>>

\* Mutants: m_thread is copied; m_joinable is forgotten.
SwapCopies(o, x) ==
  /\ obj[o] = "alive" /\ obj[x] = "alive" /\ o # x
  /\ handle' = [handle EXCEPT ![o] = handle[x]]
  /\ joinable' = [joinable EXCEPT ![o] = joinable[x], ![x] = joinable[o]]
  /\ sem' = [sem EXCEPT ![o] = sem[x], ![x] = sem[o]]
  /\ UNCHANGED <<obj, os, detached, stale>>

SwapNotJoinable(o, x) ==
  /\ obj[o] = "alive" /\ obj[x] = "alive" /\ o # x
  /\ handle' = [handle EXCEPT ![o] = handle[x], ![x] = handle[o]]
  /\ sem' = [sem EXCEPT ![o] = sem[x], ![x] = sem[o]]
  /\ UNCHANGED <<obj, joinable, os, detached, stale>>

Swap(o, x) ==
  /\ obj[o] = "alive" /\ obj[x] = "alive" /\ o # x
  /\ handle' = [handle EXCEPT ![o] = handle[x], ![x] = handle[o]]
  /\ joinable' = [joinable EXCEPT ![o] = joinable[x], ![x] = joinable[o]]
  /\ sem' = [sem EXCEPT ![o] = sem[x], ![x] = sem[o]]
  /\ UNCHANGED <<obj, os, detached, stale>>

\* The error of a second pthread_detach is ignored here.
Destroy(o) ==
  /\ obj[o] = "alive"
  /\ obj' = [obj EXCEPT ![o] = "destroyed"]
  /\ IF handle[o] # None THEN PthreadDetach(handle[o]) ELSE UNCHANGED <<os, detached, stale>>
  /\ UNCHANGED members

-----------------------------------------------------------------------------
\* What the owners of the objects do.
OwnerStep(o) ==
  \/ DefaultConstruct(o) \/ Construct(o) \/ Wait(o)
  \/ Join(o) \/ Detach(o) \/ Destroy(o)
  \/ \E x \in Objects : Swap(o, x)

-----------------------------------------------------------------------------
\* Run finds what it needs, up to its post, in an object whose constructor still waits:
\* the owner may swap or destroy it as soon as it is constructed and the callback runs
\* all the same.  Of later uses through t_thread this says nothing: see SetName.
RunFindsItsObject == \A p \in Objects : os[p] \in {"created", "starting"} => obj[p] = "constructing"

\* A thread that was neither joined nor detached has one object that still can:
\* none is leaked, and none is joined or detached behind the back of its owner.
OneOwner ==
  \A p \in Objects :
    os[p] \notin {"none", "gone"} /\ p \notin detached =>
      \E o \in Objects : /\ obj[o] \in {"constructing", "alive"}
                         /\ \A x \in Objects : handle[x] = p <=> x = o

\* Joinable() tells whether the thread an object owns was detached, whatever was
\* swapped before.
JoinableIsRight ==
  \A o \in Objects :
    obj[o] \in {"constructing", "alive"} /\ handle[o] # None =>
      (joinable[o] <=> handle[o] \notin detached)

=============================================================================
