---------------------------- MODULE MCThreadPool ----------------------------
(***************************************************************************)
(* ThreadPool, and what it implements, on small instances.                 *)
(***************************************************************************)
EXTENDS ThreadPoolRefinement, TLC

\* Tasks differ only by the calls that name them, workers not at all.
PoolSymmetry == Permutations(Tasks) \cup Permutations(Workers)

=============================================================================
