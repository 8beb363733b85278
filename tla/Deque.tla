-------------------------------- MODULE Deque -------------------------------
(***************************************************************************)
(* The bulk moves of ThreadSafeDeque (src/src/containers.hpp) from one     *)
(* deque to another, in the sequences of tests/test_containers.cpp and any *)
(* other.  Each clamps its count to the length, and takes a slice that it  *)
(* then erases.                                                            *)
(***************************************************************************)
EXTENDS Integers, Sequences, Functions

Sequence == INSTANCE SequencesExt

CONSTANT Values  \* how many values the deque holds at first

ASSUME DequeAssumption == Values \in Nat

VARIABLES
  datas,   \* the deque the values are taken from, first filled with 1, 2, ...
  out,     \* the other deque
  called   \* the last call, as a name and a count

dequeVars == <<datas, out, called>>

DequeInit ==
  /\ datas = [i \in 1 .. Values |-> i]
  /\ out = <<>>
  /\ called = <<"none", 0>>

\* std::min(n, m_datas.size()); mutant: without it the slice is empty.
ClampNot(n) == IF n > Len(datas) THEN 0 ELSE n

Clamp(n) == IF n > Len(datas) THEN Len(datas) ELSE n

FrontSlice(n) == SubSeq(datas, 1, Clamp(n))
FrontErased(n) == SubSeq(datas, Clamp(n) + 1, Len(datas))
BackSlice(n) == SubSeq(datas, Len(datas) - Clamp(n) + 1, Len(datas))
BackErased(n) == SubSeq(datas, 1, Len(datas) - Clamp(n))

PopFrontAndReplace(n) == out' = FrontSlice(n) /\ datas' = FrontErased(n)

PopBackAndReplace(n) == out' = BackSlice(n) /\ datas' = BackErased(n)

PopFrontAndAppend(n) == out' = out \o FrontSlice(n) /\ datas' = FrontErased(n)

PopBackAndAppend(n) == out' = out \o BackSlice(n) /\ datas' = BackErased(n)

\* The two deques change their contents.
Swap == out' = datas /\ datas' = out

DequeNext ==
  \/ \E n \in 0 .. Values + 1 :
       \/ PopFrontAndReplace(n) /\ called' = <<"frontReplace", n>>
       \/ PopBackAndReplace(n)  /\ called' = <<"backReplace", n>>
       \/ PopFrontAndAppend(n)  /\ called' = <<"frontAppend", n>>
       \/ PopBackAndAppend(n)   /\ called' = <<"backAppend", n>>
  \/ Swap /\ called' = <<"swap", 0>>

DequeSpec == DequeInit /\ [][DequeNext]_dequeVars

-----------------------------------------------------------------------------
\* k times Front and PopFront, with PushBack to another deque: both deques.
FrontSingles[k \in Nat] ==
  IF k = 0 THEN <<datas, <<>>>>
  ELSE LET last == FrontSingles[k - 1] IN
       IF last[1] = <<>> THEN last
       ELSE <<Tail(last[1]), Append(last[2], Head(last[1]))>>

\* k times Back and PopBack, with PushFront to another deque: both deques.
BackSingles[k \in Nat] ==
  IF k = 0 THEN <<datas, <<>>>>
  ELSE LET last == BackSingles[k - 1] IN
       IF last[1] = <<>> THEN last
       ELSE <<Sequence!Front(last[1]), <<Sequence!Last(last[1])>> \o last[2]>>

\* A bulk move does what as many single operations do, and stops where the deque is
\* empty; what an append moves keeps its order, and no value gets lost.
BulkAsSingles ==
  [][LET n      == called'[2]
         moved  == IF called'[1] \in {"frontReplace", "frontAppend"}
                   THEN FrontSingles[n] ELSE BackSingles[n]
         before == IF called'[1] \in {"frontAppend", "backAppend"} THEN out ELSE <<>>
     IN  called'[1] # "swap" => datas' = moved[1] /\ out' = before \o moved[2]]_dequeVars

=============================================================================
