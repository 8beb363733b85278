----------------------------- MODULE Coroutine ------------------------------
(***************************************************************************)
(* Coroutine (src/src/coroutine.cpp) and the contexts it switches between. *)
(* A flow of control is the body of a thread or the body of a coroutine.   *)
(* It runs on a thread, or is saved in a context: the one of a coroutine,  *)
(* or the one of a thread's master coroutine (CoExecutor::GetMasterCo).    *)
(* swapcontext saves the flow that runs and goes on with the saved one; a  *)
(* context that was not saved since the flow in it went on is stale, and   *)
(* switching to it is undefined.                                           *)
(*                                                                         *)
(* Any flow may call Resume, also the body of a coroutine, and on another  *)
(* thread than the one before; one thread at a time calls the members of a *)
(* coroutine.  A thread's master coroutine is destroyed with the thread.   *)
(***************************************************************************)
EXTENDS Naturals, Sequences, Functions

CONSTANTS
  Threads,  \* the threads, each also naming its flow and its master context
  Cos,      \* the coroutines, each also naming its flow and its context
  None

ASSUME CoroutineAssumption ==
  /\ Threads \cap Cos = {}
  /\ None \notin Threads \cup Cos

Flows == Threads \cup Cos

VARIABLES
  up,          \* the threads that run
  flow,        \* the flow that runs on each thread
  slot,        \* the flow last saved in each context (m_ctx)
  parked,      \* the context a flow was saved in when it stopped, None if it runs
  status,      \* m_status of each coroutine
  master,      \* m_master_co and uc_link, set by the first Resume
  calls,       \* the flows of each thread that have not come back, in the order
               \* they were resumed: what a stack of calls would be
  overlapped,  \* a Resume saved into a master context that was in use
  broken       \* what ended the defined behaviour of the program, if anything

coVars == <<up, flow, slot, parked, status, master, calls, overlapped, broken>>

CoTypeOK ==
  /\ up \in SUBSET Threads
  /\ flow \in [Threads -> Flows \cup {None}]
  /\ slot \in [Flows -> Flows \cup {None}]
  /\ parked \in [Flows -> Flows \cup {None}]
  /\ status \in [Cos -> {"IDLE", "RUNNING", "FINISHED", "HOLD", "EXCEPT", "destroyed"}]
  /\ master \in [Cos -> Threads \cup {None}]
  /\ calls \in [Threads -> Seq(Flows)]
  /\ overlapped \in BOOLEAN
  /\ broken \in {"no", "assert", "stale", "masterGone"}

CoInit(first) ==
  /\ up = first
  /\ flow = [th \in Threads |-> IF th \in first THEN th ELSE None]
  /\ slot = [f \in Flows |-> None]
  /\ parked = [f \in Flows |-> None]
  /\ status = [c \in Cos |-> "IDLE"]
  /\ master = [c \in Cos |-> None]
  /\ calls = [th \in Threads |-> IF th \in first THEN <<th>> ELSE <<>>]
  /\ overlapped = FALSE
  /\ broken = "no"

(***************************************************************************)
(* A thread begins and ends outside of any coroutine.                      *)
(***************************************************************************)
ThreadBegins(th) ==
  /\ up' = up \cup {th}
  /\ flow' = [flow EXCEPT ![th] = th]
  /\ calls' = [calls EXCEPT ![th] = <<th>>]
  /\ UNCHANGED <<slot, parked, status, master, overlapped, broken>>

ThreadEnds(th) ==
  /\ flow[th] = th
  /\ up' = up \ {th}
  /\ flow' = [flow EXCEPT ![th] = None]
  /\ calls' = [calls EXCEPT ![th] = <<>>]
  /\ UNCHANGED <<slot, parked, status, master, overlapped, broken>>

(***************************************************************************)
(* The flow of th has stopped and goes on from context s.  "saved" and     *)
(* "left" are slot and parked after it has stopped.                        *)
(***************************************************************************)
Switch(th, s, saved, left) ==
  /\ slot' = saved
  /\ IF s \in Threads \ up
     THEN broken' = "masterGone" /\ parked' = left /\ UNCHANGED flow
     ELSE IF saved[s] = None \/ left[saved[s]] # s
     THEN broken' = "stale" /\ parked' = left /\ UNCHANGED flow
     ELSE /\ flow' = [flow EXCEPT ![th] = saved[s]]
          /\ parked' = [left EXCEPT ![saved[s]] = None]
          /\ UNCHANGED broken

(***************************************************************************)
(* Resume.                                                                 *)
(***************************************************************************)
CanResume(c) == status[c] \in {"IDLE", "HOLD"}

\* A master context is in use while a flow is parked in it.
InUse(m) == \E f \in Flows : parked[f] = m

\* The master context a Resume on th goes through: that of the thread of the
\* first Resume.  Mutant: that of the resuming thread, every time.
MasterAlways(th, c) == th

Master(th, c) == IF status[c] = "IDLE" THEN th ELSE master[c]

\* The first Resume makes a context that starts at the top of the body.
Resume(th, c) ==
  LET m     == Master(th, c)
      fresh == status[c] = "IDLE"
      saved == [slot EXCEPT ![m] = flow[th], ![c] = IF fresh THEN c ELSE @]
      left  == [parked EXCEPT ![flow[th]] = m, ![c] = IF fresh THEN c ELSE @]
  IN
  /\ th \in up
  /\ CanResume(c)
  /\ IF m \notin up
     THEN broken' = "masterGone" /\ UNCHANGED <<flow, slot, parked>>
     ELSE Switch(th, c, saved, left)
  /\ status' = [status EXCEPT ![c] = "RUNNING"]
  /\ master' = [master EXCEPT ![c] = IF fresh THEN m ELSE @]
  /\ calls' = [calls EXCEPT ![th] = Append(@, c)]
  /\ overlapped' = (overlapped \/ InUse(m))
  /\ UNCHANGED up

\* A coroutine that resumes itself, or one that waits for it.
ResumeRunning(th, c) ==
  /\ th \in up
  /\ status[c] = "RUNNING" /\ (flow[th] = c \/ parked[c] # None)
  /\ broken' = "assert"
  /\ UNCHANGED <<up, flow, slot, parked, status, master, calls, overlapped>>

(***************************************************************************)
(* GiveUp, and the end of the body with uc_link: the flow saved in the     *)
(* master context goes on.                                                 *)
(***************************************************************************)
\* The flow c leaves thread th in status st.
Leaves(th, c, st) ==
  /\ th \in up /\ flow[th] = c
  /\ status' = [status EXCEPT ![c] = st]
  /\ calls' = [calls EXCEPT ![th] = SubSeq(@, 1, Len(@) - 1)]
  /\ UNCHANGED <<up, master, overlapped>>

\* Mutant: the context of the coroutine is not saved.
GiveUpUnsaved(th, c) ==
  /\ Leaves(th, c, "HOLD")
  /\ Switch(th, master[c], slot, parked)

GiveUp(th, c) ==
  /\ Leaves(th, c, "HOLD")
  /\ Switch(th, master[c], [slot EXCEPT ![c] = c], [parked EXCEPT ![c] = c])

Run(th, c) ==
  /\ \E st \in {"FINISHED", "EXCEPT"} : Leaves(th, c, st)
  /\ Switch(th, master[c], slot, parked)

\* The destructor asserts that a coroutine with a stack is not suspended.
Destroy(c) ==
  /\ status[c] \in {"IDLE", "HOLD", "FINISHED", "EXCEPT"}
  /\ status' = [status EXCEPT ![c] = "destroyed"]
  /\ broken' = IF status[c] = "HOLD" THEN "assert" ELSE broken
  /\ UNCHANGED <<up, flow, slot, parked, master, calls, overlapped>>

-----------------------------------------------------------------------------
\* What the code that runs on thread th may do next.
CoStep(th) ==
  \E c \in Cos : \/ Resume(th, c) \/ ResumeRunning(th, c)
                 \/ GiveUp(th, c) \/ Run(th, c) \/ Destroy(c)

-----------------------------------------------------------------------------
\* As long as no Resume goes through a master context that is in use, the contexts
\* work like calls: the flow that resumed a coroutine is parked where that coroutine
\* will leave to, so every switch goes back to the resumer, on the resumer's thread,
\* even for a coroutine that moves between threads.
LeavesToResumer ==
  broken = "no" /\ ~overlapped =>
    \A th \in up :
      /\ flow[th] = calls[th][Len(calls[th])]
      /\ \A i \in 1 .. Len(calls[th]) - 1 :
           /\ parked[calls[th][i]] = master[calls[th][i + 1]]
           /\ slot[parked[calls[th][i]]] = calls[th][i]

\* And no flow is lost: one that has begun and not ended runs on one thread, or
\* the context it stopped in still holds it.
NoFlowLost ==
  broken = "no" /\ ~overlapped =>
    /\ \A p, q \in up : flow[p] = flow[q] => p = q
    /\ \A f \in up \cup {c \in Cos : status[c] \in {"RUNNING", "HOLD"}} :
         IF parked[f] = None
         THEN \E th \in up : flow[th] = f
         ELSE slot[parked[f]] = f /\ \A th \in up : flow[th] # f

=============================================================================
