---------------------------- MODULE MCCoExecutor ----------------------------
(***************************************************************************)
(* CoExecutor, and what it implements, on small instances.                 *)
(***************************************************************************)
EXTENDS CoExecutorRefinement, TLC

\* The tasks only differ by the calls that name them.
TaskSymmetry == Permutations(Tasks)

=============================================================================
