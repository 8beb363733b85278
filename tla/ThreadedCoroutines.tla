------------------------- MODULE ThreadedCoroutines -------------------------
(***************************************************************************)
(* Coroutines on the threads of Thread objects, the way                    *)
(* tests/test_coroutine.cpp and CoScheduler use both: the main thread is   *)
(* there from the start, every other one is created by an object, has its  *)
(* own master coroutine, and ends when its callback returns.               *)
(***************************************************************************)
EXTENDS Coroutine

CONSTANTS
  Main,     \* the thread that main() runs on
  Objects   \* the Thread objects, which name the threads they create

ASSUME ThreadsAssumption ==
  /\ Main \notin Objects
  /\ Threads = {Main} \cup Objects

VARIABLES obj, handle, joinable, sem, os, detached, stale

T == INSTANCE Thread

threadVars == <<obj, handle, joinable, sem, os, detached, stale>>
vars == <<coVars, threadVars>>

TypeOK == CoTypeOK /\ T!ThreadTypeOK

Init == CoInit({Main}) /\ T!ThreadInit

\* The callback begins once the thread has posted, and its end is the end of the
\* thread: Run has nothing to do after it.
CallbackBegins(p) == T!Post(p) /\ ThreadBegins(p)
CallbackReturns(p) == T!RunReturns(p) /\ ThreadEnds(p)

Next ==
  /\ broken = "no" /\ ~stale
  /\ \/ \E o \in Objects : T!OwnerStep(o) /\ UNCHANGED coVars
     \/ \E p \in Objects : (T!TakeCallback(p) \/ T!SetName(p)) /\ UNCHANGED coVars
     \/ \E p \in Objects : CallbackBegins(p) \/ CallbackReturns(p)
     \/ \E th \in Threads : CoStep(th) /\ UNCHANGED threadVars

Spec == Init /\ [][Next]_vars

-----------------------------------------------------------------------------
RunFindsItsObject == T!RunFindsItsObject
OneOwner          == T!OneOwner
JoinableIsRight   == T!JoinableIsRight

=============================================================================
