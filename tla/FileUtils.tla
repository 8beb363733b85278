----------------------------- MODULE FileUtils ------------------------------
(***************************************************************************)
(* FileUtils::OpenForWrite and MakeDir (src/src/utils.cpp) called by       *)
(* several threads, or processes, for files below the same directories.    *)
(* MakeDir tests and creates one directory after the other, in two system  *)
(* calls each, and takes EEXIST for a failure.                             *)
(*                                                                         *)
(* All files are below one chain of directories, of which only the depth   *)
(* matters: directory l is in directory l - 1.  Nothing is ever removed    *)
(* (Rm and Mv do nothing).                                                 *)
(***************************************************************************)
EXTENDS Integers, FiniteSets

CONSTANTS
  Writers,  \* the calls of OpenForWrite, each made once
  Depth     \* how deep the directories go

ASSUME FilesAssumption == Depth \in Nat \ {0}

VARIABLES
  wanted,    \* the depth of the directory of each writer's file: DirName(filename)
  allowed,   \* directories may be created down to this depth
  present,   \* the depth down to which they exist
  fpc,       \* where each call is
  level,     \* the directory MakeDir has got to
  disturbed  \* another call created a directory since this one began

fileVars == <<wanted, allowed, present, fpc, level, disturbed>>

FilesInit ==
  /\ wanted \in [Writers -> 1 .. Depth]
  /\ allowed \in 0 .. Depth
  /\ present \in 0 .. Depth
  /\ fpc = [w \in Writers |-> "called"]
  /\ level = [w \in Writers |-> 1]
  /\ disturbed = [w \in Writers |-> FALSE]

MovesTo(w, from, to) ==
  /\ fpc[w] = from
  /\ fpc' = [fpc EXCEPT ![w] = to]
  /\ UNCHANGED <<wanted, allowed>>

Reads == UNCHANGED <<present, level, disturbed>>

Exists(l) == l <= present

\* ofs.open, which needs the directory of the file; MakeDir otherwise, the lstat of
\* which finds the whole path, or not.
OpenFirst(w) ==
  /\ MovesTo(w, "called", IF Exists(wanted[w]) THEN "opened" ELSE "lstat")
  /\ Reads

Lstat(w) ==
  /\ MovesTo(w, "lstat", IF Exists(wanted[w]) THEN "made" ELSE "access")
  /\ Reads

\* On to the next directory, after the last one MakeDir returns true.
\* Mutant: the loop ends before the last component.
AfterDirShort(w) == IF level[w] + 1 < wanted[w] THEN "access" ELSE "made"

AfterDir(w) == IF level[w] < wanted[w] THEN "access" ELSE "made"

Deeper(w) == level' = [level EXCEPT ![w] = IF @ < wanted[w] THEN @ + 1 ELSE @]

\* __mkdir, first half: nothing is done for a path that can be accessed.
\* Mutant: it goes straight to mkdir.
AccessSkipped(w) ==
  /\ MovesTo(w, "access", "mkdir")
  /\ Reads

Access(w) ==
  /\ MovesTo(w, "access", IF Exists(level[w]) THEN AfterDir(w) ELSE "mkdir")
  /\ IF Exists(level[w]) THEN Deeper(w) ELSE UNCHANGED level
  /\ UNCHANGED <<present, disturbed>>

\* Second half: mkdir fails without permission, and when the directory has come
\* into being meanwhile; MakeDir gives up, and returns false.
Mkdir(w) ==
  IF Exists(level[w]) \/ level[w] > allowed
  THEN MovesTo(w, "mkdir", "notMade") /\ Reads
  ELSE /\ MovesTo(w, "mkdir", AfterDir(w))
       /\ present' = level[w]
       /\ Deeper(w)
       /\ disturbed' = [x \in Writers |-> disturbed[x] \/ (x # w /\ fpc[x] # "called")]

\* OpenForWrite opens again, whatever MakeDir returned.
OpenAgain(w) ==
  /\ fpc[w] \in {"made", "notMade"}
  /\ fpc' = [fpc EXCEPT ![w] = IF Exists(wanted[w]) THEN "opened" ELSE "failed"]
  /\ UNCHANGED <<wanted, allowed>>
  /\ Reads

FilesNext ==
  \E w \in Writers : OpenFirst(w) \/ Lstat(w) \/ Access(w) \/ Mkdir(w) \/ OpenAgain(w)

FilesSpec == FilesInit /\ [][FilesNext]_fileVars

-----------------------------------------------------------------------------
Creatable(w) == wanted[w] <= allowed

Refused == {w \in Writers : fpc[w] \in {"notMade", "failed"} /\ Creatable(w)}

\* A call whose directories may all be created fails only because another one
\* created some of them under its hands; what it has passed on its way exists.
FailsOnlyInRace ==
  \A w \in Writers :
    /\ w \in Refused => disturbed[w] /\ Exists(level[w])
    /\ fpc[w] = "access" => Exists(level[w] - 1)

\* MakeDir that returns true has made the whole path, also if others made parts.
MadeIsComplete == \A w \in Writers : fpc[w] \in {"made", "opened"} => Exists(wanted[w])

\* Where permissions are no obstacle a race has a winner: for every call that is
\* refused there is another, of a file at least as deep as the refusal, that has
\* opened its file or is still at work.
SomebodyOpens ==
  (\A w \in Writers : Creatable(w)) =>
    \A w \in Refused : \E x \in Writers \ Refused : wanted[x] >= level[w]

=============================================================================
