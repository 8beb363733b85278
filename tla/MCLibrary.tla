----------------------------- MODULE MCLibrary ------------------------------
(***************************************************************************)
(* What one thread does alone, or a few with a lock or the file system, on *)
(* small instances.  The parts share nothing, so each behaviour is one of  *)
(* the dispatcher's round, of the files, of the guards or of the deques.   *)
(***************************************************************************)
EXTENDS DispatchRound, FileUtils, Guards, Deque

VARIABLE part

roundVars == <<vars, before>>

LibraryInit ==
  /\ part \in {"round", "files", "guards", "deque"}
  /\ FilesInit /\ GuardsInit /\ DequeInit
  /\ part # "files" => wanted \in [Writers -> {1}] /\ allowed = 0 /\ present = 0
  /\ IF part = "round" THEN RoundInit ELSE Init /\ before = runnableQ

LibraryNext ==
  /\ UNCHANGED part
  /\ \/ part = "round"  /\ RoundNext  /\ UNCHANGED <<fileVars, guardVars, dequeVars>>
     \/ part = "files"  /\ FilesNext  /\ UNCHANGED <<roundVars, guardVars, dequeVars>>
     \/ part = "guards" /\ GuardsNext /\ UNCHANGED <<roundVars, fileVars, dequeVars>>
     \/ part = "deque"  /\ DequeNext  /\ UNCHANGED <<roundVars, fileVars, guardVars>>

LibrarySpec ==
  LibraryInit /\ [][LibraryNext]_<<part, roundVars, fileVars, guardVars, dequeVars>>

=============================================================================
