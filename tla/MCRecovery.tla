----------------------------- MODULE MCRecovery -----------------------------
(***************************************************************************)
(* Wakeups of an executor's coroutines from inside and outside, for TLC.   *)
(***************************************************************************)
EXTENDS Recovery, TLC

=============================================================================
