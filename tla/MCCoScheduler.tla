--------------------------- MODULE MCCoScheduler ----------------------------
(***************************************************************************)
(* CoScheduler on small instances.                                         *)
(***************************************************************************)
EXTENDS CoScheduler, TLC

\* Tasks differ only by the call that adds them and by what they may do.
TaskSymmetry == Permutations(Holds) \cup Permutations(Tasks \ Holds)

=============================================================================
