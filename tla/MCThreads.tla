----------------------------- MODULE MCThreads ------------------------------
(***************************************************************************)
(* Coroutines and threads for TLC.                                         *)
(***************************************************************************)
EXTENDS ThreadedCoroutines, TLC

\* Objects and coroutines play the same parts: sound for the safety properties.
PartSymmetry == Permutations(Objects) \cup Permutations(Cos)

=============================================================================
