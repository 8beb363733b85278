--------------------------- MODULE LibraryProofs ----------------------------
(***************************************************************************)
(* The leaf components: OpenForWrite and MakeDir for any number of callers *)
(* and any depth of directories, the lock guards for any threads, and the  *)
(* bulk moves of the deque for any length.                                 *)
(***************************************************************************)
EXTENDS FileUtils, Guards, Deque, QueueLemmas

(***************************************************************************)
(* Directories.  Three facts carry the proof: a call has passed only       *)
(* directories that exist; it is refused only where another call made one  *)
(* under its hands; and the call that made the deepest directory of all    *)
(* goes on, because nothing exists where it goes.                          *)
(***************************************************************************)

Places == {"called", "lstat", "access", "mkdir", "made", "notMade", "opened", "failed"}

FilesTypeOK ==
  /\ wanted \in [Writers -> 1 .. Depth]
  /\ allowed \in 0 .. Depth /\ present \in 0 .. Depth
  /\ fpc \in [Writers -> Places]
  /\ level \in [Writers -> 1 .. Depth]
  /\ disturbed \in [Writers -> BOOLEAN]

\* What call w knows of the directories.
PassedInv(w) ==
  /\ level[w] <= wanted[w]
  /\ fpc[w] \in {"access", "mkdir"} => Exists(level[w] - 1)
  /\ fpc[w] \in {"made", "opened"} => Exists(wanted[w])
  /\ fpc[w] \in {"called", "lstat"} => level[w] = 1
  /\ fpc[w] = "mkdir" /\ Exists(level[w]) => disturbed[w]
  /\ fpc[w] \in {"notMade", "failed"} /\ Creatable(w) => disturbed[w] /\ Exists(level[w])

\* Call x made the deepest directory, or opened its file as deep as that.
Leads(x) ==
  /\ wanted[x] >= present
  /\ \/ fpc[x] \in {"made", "opened"}
     \/ fpc[x] \in {"access", "mkdir"} /\ level[x] > present

LeaderInv ==
  (\A w \in Writers : Creatable(w)) /\ (\E w \in Writers : disturbed[w]) =>
    \E x \in Writers : Leads(x)

FilesInv == FilesTypeOK /\ (\A w \in Writers : PassedInv(w)) /\ LeaderInv

\* A step that creates nothing disturbs nobody and keeps the leader.
LEMMA QuietStep ==
  ASSUME FilesAssumption, FilesInv, NEW w \in Writers,
         OpenFirst(w) \/ Lstat(w) \/ Access(w) \/ OpenAgain(w)
  PROVE  FilesInv'
<1>1. /\ UNCHANGED <<wanted, allowed, present, disturbed>>
      /\ fpc' = [fpc EXCEPT ![w] = fpc'[w]] /\ fpc'[w] \in Places
      /\ level' = [level EXCEPT ![w] = level'[w]] /\ level'[w] \in 1 .. Depth
      /\ level[w] <= level'[w] /\ level'[w] <= wanted[w]
  BY DEF OpenFirst, Lstat, Access, OpenAgain, MovesTo, Reads, AfterDir, Deeper, FilesInv,
         FilesTypeOK, PassedInv, Places
<1>2. FilesTypeOK'
  BY <1>1 DEF FilesInv, FilesTypeOK
<1>3. PassedInv(w)'
  BY <1>1, FilesAssumption
  DEF OpenFirst, Lstat, Access, OpenAgain, MovesTo, Reads, AfterDir, Deeper, Exists, Creatable,
      FilesInv, FilesTypeOK, PassedInv
<1>4. \A x \in Writers \ {w} : PassedInv(x)'
  BY <1>1 DEF Exists, Creatable, FilesInv, FilesTypeOK, PassedInv
<1>5. \A x \in Writers : Leads(x) => Leads(x)'
  <2>1. Leads(w) => Leads(w)'
    BY <1>1
    DEF OpenFirst, Lstat, Access, OpenAgain, MovesTo, Reads, AfterDir, Deeper, Exists, Leads,
        FilesInv, FilesTypeOK, PassedInv
  <2>2. \A x \in Writers \ {w} : Leads(x) => Leads(x)'
    BY <1>1 DEF Leads, FilesInv, FilesTypeOK
  <2> QED BY <2>1, <2>2
<1>6. LeaderInv'
  BY <1>1, <1>5 DEF LeaderInv, FilesInv, Creatable
<1> QED BY <1>2, <1>3, <1>4, <1>6 DEF FilesInv

\* A directory that is made is the deepest one; who made it leads now.
LEMMA MkdirStep ==
  ASSUME FilesAssumption, FilesInv, NEW w \in Writers, Mkdir(w)
  PROVE  FilesInv'
<1>1. CASE Exists(level[w]) \/ level[w] > allowed
  <2>1. /\ fpc[w] = "mkdir" /\ fpc' = [fpc EXCEPT ![w] = "notMade"]
        /\ UNCHANGED <<wanted, allowed, present, level, disturbed>>
    BY <1>1 DEF Mkdir, MovesTo, Reads
  <2>2. FilesTypeOK'
    BY <2>1 DEF FilesInv, FilesTypeOK, Places
  <2>3. \A x \in Writers : PassedInv(x)'
    BY <1>1, <2>1 DEF Exists, Creatable, FilesInv, FilesTypeOK, PassedInv
  <2>4. ASSUME \A x \in Writers : Creatable(x), NEW x \in Writers, Leads(x)
        PROVE  Leads(x)'
    <3>1. x # w
      BY <1>1, <2>1, <2>4 DEF Leads, Exists, Creatable, FilesInv, FilesTypeOK, PassedInv
    <3> QED BY <2>1, <2>4, <3>1 DEF Leads, FilesInv, FilesTypeOK
  <2>5. LeaderInv'
    BY <2>1, <2>4 DEF LeaderInv, FilesInv, Creatable
  <2> QED BY <2>2, <2>3, <2>5 DEF FilesInv
<1>2. CASE ~(Exists(level[w]) \/ level[w] > allowed)
  <2>1. /\ fpc[w] = "mkdir" /\ present' = level[w] /\ present < level[w]
        /\ fpc' = [fpc EXCEPT ![w] = AfterDir(w)]
        /\ level' = [level EXCEPT ![w] = IF level[w] < wanted[w] THEN level[w] + 1 ELSE level[w]]
        /\ disturbed' = [x \in Writers |-> disturbed[x] \/ (x # w /\ fpc[x] # "called")]
        /\ UNCHANGED <<wanted, allowed>>
    BY <1>2 DEF Mkdir, MovesTo, Deeper, Exists, FilesInv, FilesTypeOK
  <2>2. FilesTypeOK'
    BY <2>1 DEF FilesInv, FilesTypeOK, PassedInv, Places, AfterDir
  <2>3. PassedInv(w)'
    BY <2>1 DEF FilesInv, FilesTypeOK, PassedInv, AfterDir, Exists, Creatable
  <2>4. ASSUME NEW x \in Writers, x # w
        PROVE  PassedInv(x)'
    <3>1. /\ fpc'[x] = fpc[x] /\ level'[x] = level[x]
          /\ wanted'[x] = wanted[x] /\ Creatable(x)' = Creatable(x)
          /\ disturbed'[x] = (disturbed[x] \/ fpc[x] # "called")
      BY <2>1, <2>4 DEF FilesInv, FilesTypeOK, Creatable
    <3>2. /\ level[x] \in Nat /\ wanted[x] \in Nat
          /\ present \in Nat /\ present' \in Nat /\ present < present'
      BY <2>1, FilesAssumption DEF FilesInv, FilesTypeOK
    <3>3. /\ Exists(level[x]) => Exists(level[x])'
          /\ Exists(level[x] - 1) => Exists(level[x] - 1)'
          /\ Exists(wanted[x]) => Exists(wanted[x])'
      BY <3>1, <3>2 DEF Exists
    <3>4. PassedInv(x)
      BY DEF FilesInv
    <3> QED BY <3>1, <3>3, <3>4 DEF PassedInv
  <2>5. Leads(w)'
    BY <2>1 DEF FilesInv, FilesTypeOK, PassedInv, AfterDir, Leads
  <2> QED BY <2>2, <2>3, <2>4, <2>5 DEF FilesInv, LeaderInv
<1> QED BY <1>1, <1>2

LEMMA FilesInvariance == FilesSpec => []FilesInv
<1>1. FilesInit => FilesInv
  BY FilesAssumption
  DEF FilesInit, FilesInv, FilesTypeOK, PassedInv, LeaderInv, Places
<1>2. FilesInv /\ [FilesNext]_fileVars => FilesInv'
  <2>1. CASE UNCHANGED fileVars
    BY <2>1 DEF fileVars, FilesInv, FilesTypeOK, PassedInv, LeaderInv, Leads, Exists, Creatable
  <2> QED BY <2>1, QuietStep, MkdirStep, FilesAssumption DEF FilesNext
<1> QED BY <1>1, <1>2, PTL DEF FilesSpec

-----------------------------------------------------------------------------
\* However many threads make however deep directories at a time, MakeDir returns
\* true only when the whole path exists.
THEOREM MakeDirMakesAll == FilesSpec => []MadeIsComplete
<1>1. FilesInv => MadeIsComplete
  BY DEF FilesInv, PassedInv, MadeIsComplete
<1> QED BY <1>1, FilesInvariance, PTL

\* A call that could make its directories is refused only when another one made the
\* very directory it was about to make.
THEOREM RefusedInRace == FilesSpec => []FailsOnlyInRace
<1>1. FilesInv => FailsOnlyInRace
  BY DEF FilesInv, PassedInv, FailsOnlyInRace, Refused, Creatable
<1> QED BY <1>1, FilesInvariance, PTL

\* Of any number of calls that race for directories, some call that is not refused
\* wants a file at least as deep as each refusal: not all of them can fail.
THEOREM RaceHasWinner == FilesSpec => []SomebodyOpens
<1>1. ASSUME FilesInv, \A w \in Writers : Creatable(w), NEW w \in Refused
      PROVE  \E x \in Writers \ Refused : wanted[x] >= level[w]
  <2>1. /\ w \in Writers /\ disturbed[w] /\ level[w] <= present
        /\ present \in Nat /\ level[w] \in Nat /\ wanted \in [Writers -> Nat]
    BY <1>1, FilesAssumption DEF FilesInv, FilesTypeOK, PassedInv, Refused, Exists
  <2>2. PICK x \in Writers : Leads(x)
    BY <1>1, <2>1 DEF FilesInv, LeaderInv
  <2>3. x \notin Refused /\ wanted[x] >= present
    BY <2>2 DEF Leads, Refused
  <2> QED BY <2>1, <2>3
<1>2. FilesInv => SomebodyOpens
  BY <1>1 DEF SomebodyOpens
<1> QED BY <1>2, FilesInvariance, PTL

-----------------------------------------------------------------------------
(***************************************************************************)
(* Guards.  What a guard's destructor unlocks is what a guard has locked:  *)
(* the guards alive are counted by their set, to which a new guard adds    *)
(* one element and from which a destructor takes one.                      *)
(***************************************************************************)
LEMMA InitGuardsInv == ASSUME GuardsInit PROVE GuardsInv
<1>1. /\ guards = [w \in Lockers |-> <<>>] /\ readers = 0 /\ writer = Nobody
      /\ nested = FALSE /\ corrupt = FALSE
  BY DEF GuardsInit
<1>2. Alive = {}
  BY <1>1 DEF Alive
<1>3. guards \in [Lockers -> Seq({"read", "write"})]
  BY <1>1, EmptyIsQueue
<1>4. \A w \in Lockers : Len(guards[w]) <= MaxGuards
  BY <1>1, GuardsAssumption
<1> QED BY <1>1, <1>2, <1>3, <1>4, FS_EmptySet, EmptyQueue DEF GuardsInv

\* A guard in a thread adds one to the guards alive, and its kind to those of the thread.
LEMMA GuardAdds ==
  ASSUME GuardsInv, NEW w \in Lockers, NEW kind \in {"read", "write"}, Guard(w, kind)
  PROVE  /\ guards' \in [Lockers -> Seq({"read", "write"})]
         /\ \A x \in Lockers : Len(guards'[x]) <= MaxGuards
         /\ \A x \in Lockers \ {w} : guards'[x] = guards[x]
         /\ Range(guards'[w]) = Range(guards[w]) \cup {kind}
         /\ guards[w] = <<>> => guards'[w] = <<kind>>
         /\ <<w, Len(guards[w]) + 1>> \notin Alive
         /\ Alive' = Alive \cup {<<w, Len(guards[w]) + 1>>}
<1> PICK q \in Seq({"read", "write"}) : q = guards[w]
  BY DEF GuardsInv
<1>1. /\ guards \in [Lockers -> Seq({"read", "write"})] /\ Len(q) < MaxGuards
      /\ guards' = [guards EXCEPT ![w] = Append(q, kind)]
  BY DEF GuardsInv, Guard
<1>2. Append(q, kind) \in Seq({"read", "write"}) /\ Range(Append(q, kind)) = Range(q) \cup {kind}
  BY PushQueue
<1>3. /\ guards'[w] = Append(q, kind) /\ \A x \in Lockers \ {w} : guards'[x] = guards[x]
      /\ guards' \in [Lockers -> Seq({"read", "write"})]
  BY <1>1, <1>2
<1>4. /\ Len(q) \in Nat /\ Len(guards'[w]) = Len(q) + 1 /\ MaxGuards \in Nat
      /\ q = <<>> => Append(q, kind) = <<kind>>
  <2>1. Len(q) \in Nat /\ Len(Append(q, kind)) = Len(q) + 1
    BY q \in Seq({"read", "write"}), kind \in {"read", "write"}
  <2>2. Append(<<>>, kind) = <<kind>>
    OBVIOUS
  <2> QED BY <1>3, <2>1, <2>2, GuardsAssumption
<1>5. \A x \in Lockers : Len(guards'[x]) <= MaxGuards
  BY <1>1, <1>3, <1>4 DEF GuardsInv
<1>6. <<w, Len(q) + 1>> \notin Alive
  BY <1>4 DEF Alive
<1>7. ASSUME NEW x \in Lockers, NEW i \in 1 .. MaxGuards
      PROVE  i <= Len(guards'[x]) <=> i <= Len(guards[x]) \/ <<x, i>> = <<w, Len(q) + 1>>
  BY <1>3, <1>4
<1>8. Alive' = Alive \cup {<<w, Len(q) + 1>>}
  BY <1>1, <1>4, <1>7 DEF Alive
<1> QED BY <1>2, <1>3, <1>4, <1>5, <1>6, <1>8

\* A destructor takes the innermost guard of its thread from them.
LEMMA UnguardTakes ==
  ASSUME GuardsInv, NEW w \in Lockers, Unguard(w)
  PROVE  /\ guards' \in [Lockers -> Seq({"read", "write"})]
         /\ \A x \in Lockers : Len(guards'[x]) <= MaxGuards
         /\ \A x \in Lockers \ {w} : guards'[x] = guards[x]
         /\ Range(guards'[w]) \subseteq Range(guards[w])
         /\ guards[w] = <<"write">> => guards'[w] = <<>>
         /\ <<w, Len(guards[w])>> \in Alive
         /\ Alive' = Alive \ {<<w, Len(guards[w])>>}
<1> PICK q \in Seq({"read", "write"}) : q = guards[w]
  BY DEF GuardsInv
<1> DEFINE p == SubSeq(q, 1, Len(q) - 1)
<1>1. /\ guards \in [Lockers -> Seq({"read", "write"})] /\ q # <<>> /\ Len(q) <= MaxGuards
      /\ guards' = [guards EXCEPT ![w] = p] /\ MaxGuards \in Nat
  BY GuardsAssumption DEF GuardsInv, Unguard
<1>2. /\ p \in Seq({"read", "write"}) /\ Len(p) = Len(q) - 1 /\ Len(q) \in Nat \ {0}
      /\ \A i \in DOMAIN p : i \in DOMAIN q /\ p[i] = q[i]
      /\ q = <<"write">> => p = <<>>
  <2>1. Len(q) \in Nat \ {0}
    BY <1>1
  <2>2. p \in Seq({"read", "write"}) /\ Len(p) = Len(q) - 1
    BY <2>1
  <2>3. \A i \in DOMAIN p : i \in DOMAIN q /\ p[i] = q[i]
    BY <2>1
  <2>4. ASSUME q = <<"write">>
        PROVE  p = <<>>
    <3>1. Len(q) = 1
      BY <2>4
    <3> QED BY <2>2, <3>1
  <2> QED BY <2>1, <2>2, <2>3, <2>4
<1>3. Range(p) \subseteq Range(q)
  BY <1>2 DEF Range
<1> HIDE DEF p
<1>4. /\ guards'[w] = p /\ \A x \in Lockers \ {w} : guards'[x] = guards[x]
      /\ guards' \in [Lockers -> Seq({"read", "write"})]
  BY <1>1, <1>2
<1>5. \A x \in Lockers : Len(guards'[x]) <= MaxGuards
  BY <1>1, <1>2, <1>4 DEF GuardsInv
<1>6. <<w, Len(q)>> \in Alive
  BY <1>1, <1>2 DEF Alive
<1>7. ASSUME NEW x \in Lockers, NEW i \in 1 .. MaxGuards
      PROVE  i <= Len(guards'[x]) <=> i <= Len(guards[x]) /\ <<x, i>> # <<w, Len(q)>>
  BY <1>2, <1>4
<1>8. Alive' = Alive \ {<<w, Len(q)>>}
  BY <1>7 DEF Alive
<1> QED BY <1>2, <1>3, <1>4, <1>5, <1>6, <1>8

LEMMA GuardStep ==
  ASSUME GuardsInv, ~corrupt, NEW w \in Lockers, RdLockGuard(w) \/ WrLockGuard(w)
  PROVE  GuardsInv'
<1>1. PICK kind \in {"read", "write"} :
        /\ Guard(w, kind)
        /\ \/ writer = w /\ readers' = readers /\ writer' = writer
           \/ writer = Nobody /\ kind = "read" /\ readers' = readers + 1 /\ writer' = writer
           \/ writer = Nobody /\ kind = "write" /\ readers = 0 /\ readers' = readers /\ writer' = w
  BY DEF RdLockGuard, WrLockGuard, RdLock, WrLock, Refuses
<1> DEFINE new == <<w, Len(guards[w]) + 1>>
<1>2. /\ guards' \in [Lockers -> Seq({"read", "write"})]
      /\ \A x \in Lockers : Len(guards'[x]) <= MaxGuards
      /\ \A x \in Lockers \ {w} : guards'[x] = guards[x]
      /\ Range(guards'[w]) = Range(guards[w]) \cup {kind}
      /\ guards[w] = <<>> => guards'[w] = <<kind>>
      /\ new \notin Alive /\ Alive' = Alive \cup {new}
  BY <1>1, GuardAdds
<1>3. corrupt' = FALSE /\ nested' = (nested \/ writer = w)
  BY <1>1 DEF Guard, GuardsInv
<1>4. /\ readers' \in Nat /\ writer' \in Lockers \cup {Nobody} /\ nested' \in BOOLEAN
  BY <1>1, <1>3 DEF GuardsInv
<1> HIDE DEF new
<1>5. ASSUME ~nested'
      PROVE  /\ writer' # Nobody => /\ readers' = 0 /\ guards'[writer'] = <<"write">>
                                    /\ \A x \in Lockers \ {writer'} : guards'[x] = <<>>
             /\ writer' = Nobody => /\ IsFiniteSet(Alive') /\ readers' = Cardinality(Alive')
                                    /\ \A x \in Lockers : "write" \notin Range(guards'[x])
  <2>1. /\ ~nested /\ writer = Nobody /\ w # Nobody
        /\ IsFiniteSet(Alive) /\ readers = Cardinality(Alive)
        /\ \A x \in Lockers : "write" \notin Range(guards[x])
    BY <1>1, <1>3, <1>5, GuardsAssumption DEF GuardsInv
  <2>2. CASE kind = "read" /\ readers' = readers + 1 /\ writer' = writer
    <3>1. IsFiniteSet(Alive') /\ readers' = Cardinality(Alive')
      BY <1>2, <2>1, <2>2, FS_AddElement
    <3> QED BY <1>2, <2>1, <2>2, <3>1
  <2>3. CASE kind = "write" /\ readers = 0 /\ readers' = readers /\ writer' = w
    <3>1. Alive = {}
      BY <2>1, <2>3, FS_EmptySet
    <3>2. ASSUME NEW x \in Lockers
          PROVE  guards[x] = <<>>
      <4>1. guards[x] \in Seq({"read", "write"}) /\ Len(guards[x]) <= MaxGuards /\ MaxGuards \in Nat
        BY GuardsAssumption DEF GuardsInv
      <4>2. guards[x] # <<>> => Len(guards[x]) \in 1 .. MaxGuards
        BY <4>1
      <4>3. guards[x] # <<>> => <<x, Len(guards[x])>> \in Alive
        BY <4>1, <4>2 DEF Alive
      <4> QED BY <3>1, <4>3
    <3> QED BY <1>2, <2>1, <2>3, <3>2
  <2> QED BY <1>1, <2>1, <2>2, <2>3
<1> QED BY <1>2, <1>3, <1>4, <1>5 DEF GuardsInv

LEMMA UnguardStep ==
  ASSUME GuardsInv, ~corrupt, NEW w \in Lockers, Unguard(w)
  PROVE  GuardsInv'
<1> DEFINE old == <<w, Len(guards[w])>>
<1>1. /\ guards' \in [Lockers -> Seq({"read", "write"})]
      /\ \A x \in Lockers : Len(guards'[x]) <= MaxGuards
      /\ \A x \in Lockers \ {w} : guards'[x] = guards[x]
      /\ Range(guards'[w]) \subseteq Range(guards[w])
      /\ guards[w] = <<"write">> => guards'[w] = <<>>
      /\ old \in Alive /\ Alive' = Alive \ {old}
  BY UnguardTakes
<1>2. /\ nested' = nested /\ guards[w] # <<>>
      /\ \/ writer = w /\ writer' = Nobody /\ readers' = readers /\ corrupt' = corrupt
         \/ /\ writer # w /\ writer' = writer
            /\ readers' = IF readers > 0 THEN readers - 1 ELSE 0
            /\ corrupt' = (readers = 0)
  BY DEF Unguard, Unlock
<1> HIDE DEF old
<1>3. /\ readers' \in Nat /\ writer' \in Lockers \cup {Nobody} /\ nested' \in BOOLEAN
      /\ corrupt' \in BOOLEAN
  <2>1. /\ readers \in Nat /\ writer \in Lockers \cup {Nobody}
        /\ nested \in BOOLEAN /\ corrupt \in BOOLEAN
    BY DEF GuardsInv
  <2>2. readers' \in Nat
    BY <1>2, <2>1
  <2>3. corrupt' \in BOOLEAN
    <3>1. (readers = 0) \in BOOLEAN
      OBVIOUS
    <3> QED BY ONLY <1>2, <2>1, <3>1
  <2> QED BY <1>2, <2>1, <2>2, <2>3
<1>4. ASSUME ~nested
      PROVE  /\ ~corrupt' /\ writer' = Nobody
             /\ IsFiniteSet(Alive') /\ readers' = Cardinality(Alive')
             /\ \A x \in Lockers : "write" \notin Range(guards'[x])
  <2>1. CASE writer = w
    <3>1. readers = 0 /\ guards[w] = <<"write">> /\ \A x \in Lockers \ {w} : guards[x] = <<>>
      BY <1>4, <2>1, GuardsAssumption DEF GuardsInv
    <3>2. \A x \in Lockers : guards'[x] = <<>>
      BY <1>1, <3>1
    <3>3. Alive' = {}
      BY <3>2 DEF Alive
    <3>4. corrupt' = FALSE /\ writer' = Nobody /\ readers' = 0
      BY <1>2, <2>1, <3>1 DEF GuardsInv
    <3>5. IsFiniteSet(Alive') /\ readers' = Cardinality(Alive')
      BY <3>3, <3>4, FS_EmptySet
    <3>6. \A x \in Lockers : "write" \notin Range(guards'[x])
      BY ONLY <3>2, EmptyQueue
    <3> QED BY <3>4, <3>5, <3>6
  <2>2. CASE writer # w
    <3>1. /\ writer = Nobody /\ IsFiniteSet(Alive) /\ readers = Cardinality(Alive)
          /\ \A x \in Lockers : "write" \notin Range(guards[x])
      BY <1>2, <1>4, <2>2 DEF GuardsInv
    <3>2. readers > 0
      BY <1>1, <3>1, FS_EmptySet DEF GuardsInv
    <3>3. IsFiniteSet(Alive') /\ readers' = Cardinality(Alive')
      BY <1>1, <1>2, <2>2, <3>1, <3>2, FS_RemoveElement
    <3>4. readers # 0 /\ corrupt' = (readers = 0) /\ writer' = Nobody
      BY <1>2, <2>2, <3>1, <3>2
    <3>5. ~corrupt'
      BY ONLY <3>4
    <3>6. \A x \in Lockers : "write" \notin Range(guards'[x])
      BY ONLY <1>1, <3>1
    <3> QED BY <3>3, <3>4, <3>5, <3>6
  <2> QED BY <2>1, <2>2
<1> QED BY <1>1, <1>2, <1>3, <1>4 DEF GuardsInv

THEOREM GuardsInvariance == GuardsSpec => []GuardsInv
<1>1. GuardsInit => GuardsInv
  BY InitGuardsInv
<1>2. ASSUME GuardsInv, [GuardsNext]_guardVars
      PROVE  GuardsInv'
  <2>1. CASE UNCHANGED guardVars
    BY <1>2, <2>1 DEF guardVars, GuardsInv, Alive
  <2>2. CASE GuardsNext
    BY <1>2, <2>2, GuardStep, UnguardStep DEF GuardsNext
  <2> QED BY <1>2, <2>1, <2>2
<1> QED BY <1>1, <1>2, PTL DEF GuardsSpec

\* A write guard excludes every other guard, and no guard unlocks what it did not lock,
\* for any threads and any depth of guards, unless a thread guards what it writes.
THEOREM WriterIsAlone == GuardsSpec => []GuardsExclude
<1>1. ASSUME GuardsInv
      PROVE  GuardsExclude
  <2>1. SUFFICES ASSUME ~nested, NEW w \in Lockers, NEW x \in Lockers, w # x,
                        "write" \in Range(guards[w])
                 PROVE  guards[x] = <<>>
    BY <1>1 DEF GuardsExclude, GuardsInv
  <2>2. guards[w] # <<>> /\ writer # Nobody
    BY <1>1, <2>1, EmptyQueue DEF GuardsInv
  <2> QED BY <1>1, <2>1, <2>2 DEF GuardsInv
<1> QED BY <1>1, GuardsInvariance, PTL

-----------------------------------------------------------------------------
(***************************************************************************)
(* The bulk moves of the deque.                                            *)
(***************************************************************************)
\* A slice that is not empty.
LEMMA NonemptySlice ==
  ASSUME NEW q \in Seq(Nat), NEW j \in 1 .. Len(q), NEW k \in j .. Len(q)
  PROVE  SubSeq(q, j, k) # <<>> /\ Len(SubSeq(q, j, k)) = k - j + 1
<1>1. Len(q) \in Nat /\ \A i \in j .. k : q[i] \in Nat
  OBVIOUS
<1>2. Len(SubSeq(q, j, k)) = IF j <= k THEN k - j + 1 ELSE 0
  BY <1>1, SubSeqProperties
<1>3. Len(SubSeq(q, j, k)) # 0 /\ Len(SubSeq(q, j, k)) = k - j + 1
  BY <1>1, <1>2
<1> QED BY <1>3

\* What PopBack leaves of the first j values, and what it takes.
LEMMA WithoutLast ==
  ASSUME NEW q \in Seq(Nat), NEW j \in 1 .. Len(q)
  PROVE  /\ Sequence!Front(SubSeq(q, 1, j)) = SubSeq(q, 1, j - 1)
         /\ Sequence!Last(SubSeq(q, 1, j)) = q[j]
<1> DEFINE p == SubSeq(q, 1, j)
<1>1. Len(q) \in Nat /\ j \in 0 .. Len(q) /\ j - 1 \in 0 .. Len(q) /\ \A i \in 1 .. j : q[i] \in Nat
  OBVIOUS
<1>2. p \in Seq(Nat) /\ Len(p) = j /\ \A i \in 1 .. j : p[i] = q[i]
  BY <1>1, SubSeqProperties
<1> HIDE DEF p
<1>3. SubSeq(p, 1, j - 1) = SubSeq(q, 1, j - 1)
  <2>1. \A i \in 1 .. j - 1 : p[i] \in Nat /\ q[i] \in Nat /\ p[i] = q[i]
    BY <1>1, <1>2
  <2>2. /\ SubSeq(p, 1, j - 1) \in Seq(Nat) /\ SubSeq(q, 1, j - 1) \in Seq(Nat)
        /\ Len(SubSeq(p, 1, j - 1)) = j - 1 /\ Len(SubSeq(q, 1, j - 1)) = j - 1
        /\ \A i \in 1 .. j - 1 : SubSeq(p, 1, j - 1)[i] = p[i] /\ SubSeq(q, 1, j - 1)[i] = q[i]
    BY <1>1, <2>1, SubSeqProperties
  <2> QED BY <2>1, <2>2, SeqEqual
<1> QED BY <1>1, <1>2, <1>3 DEF p, Sequence!Front, Sequence!Last

\* k single operations at the front leave and move what the slice of k does.
LEMMA FrontSinglesSlice ==
  ASSUME datas \in Seq(Nat)
  PROVE  \A k \in Nat : FrontSingles[k] = <<FrontErased(k), FrontSlice(k)>>
<1> DEFINE L == Len(datas)
           g == [k \in Nat |-> <<FrontErased(k), FrontSlice(k)>>]
           Once(p) == IF p[1] = <<>> THEN p ELSE <<Tail(p[1]), Append(p[2], Head(p[1]))>>
           OnceOf(x, y) == IF x = <<>> THEN <<x, y>> ELSE <<Tail(x), Append(y, Head(x))>>
<1>1. L \in Nat
  OBVIOUS
<1>2. g[0] = <<datas, <<>>>>
  <2>1. Clamp(0) = 0
    BY <1>1 DEF Clamp
  <2>2. FrontErased(0) = datas /\ FrontSlice(0) = <<>>
    BY <1>1, <2>1, SubSeqFull, SubSeqEmpty DEF FrontErased, FrontSlice
  <2> QED BY <2>2
<1>3. ASSUME NEW x, NEW y
      PROVE  Once(<<x, y>>) = OnceOf(x, y)
  OBVIOUS
<1>4. ASSUME NEW k \in Nat
      PROVE  /\ g[k + 1] = <<FrontErased(k + 1), FrontSlice(k + 1)>>
             /\ Once(g[k]) = OnceOf(FrontErased(k), FrontSlice(k))
  <2>1. /\ g[k + 1] = <<FrontErased(k + 1), FrontSlice(k + 1)>>
        /\ g[k] = <<FrontErased(k), FrontSlice(k)>>
    OBVIOUS
  <2> HIDE DEF g, Once, OnceOf
  <2> QED BY <1>3, <2>1
<1> HIDE DEF g, Once
<1>5. ASSUME NEW k \in Nat
      PROVE  g[k + 1] = Once(g[k])
  <2>1. CASE k >= L
    <3>1. Clamp(k) = L /\ Clamp(k + 1) = L
      BY <1>1, <2>1 DEF Clamp
    <3>2. FrontErased(k) = <<>>
      BY <1>1, <3>1, SubSeqEmpty DEF FrontErased
    <3>3. FrontErased(k + 1) = FrontErased(k) /\ FrontSlice(k + 1) = FrontSlice(k)
      BY <3>1 DEF FrontErased, FrontSlice
    <3> QED BY <1>4, <3>2, <3>3
  <2>2. CASE k < L
    <3>1. Clamp(k) = k /\ Clamp(k + 1) = k + 1 /\ k + 1 \in 1 .. L /\ L \in (k + 1) .. L
      BY <1>1, <2>2 DEF Clamp
    <3>2. /\ Head(SubSeq(datas, k + 1, L)) = datas[k + 1]
          /\ Tail(SubSeq(datas, k + 1, L)) = SubSeq(datas, (k + 1) + 1, L)
      BY <3>1, HeadTailOfSubSeq
    <3>3. SubSeq(datas, k + 1, L) # <<>>
      BY <1>1, <3>1, NonemptySlice
    <3>4. SubSeq(datas, 1, k + 1) = Append(SubSeq(datas, 1, k), datas[k + 1])
      <4>1. SubSeq(datas, 1, k + 1) = SubSeq(datas, 1, (k + 1) - 1) \o <<datas[k + 1]>>
        BY <1>1, <3>1, SubSeqRecursiveSecond
      <4>2. SubSeq(datas, 1, k) \in Seq(Nat) /\ datas[k + 1] \in Nat /\ (k + 1) - 1 = k
        BY <1>1, <3>1, CutQueue
      <4> QED BY <4>1, <4>2
    <3>5. /\ FrontErased(k) = SubSeq(datas, k + 1, L) /\ FrontSlice(k) = SubSeq(datas, 1, k)
          /\ FrontErased(k + 1) = SubSeq(datas, (k + 1) + 1, L)
          /\ FrontSlice(k + 1) = SubSeq(datas, 1, k + 1)
      BY <3>1 DEF FrontErased, FrontSlice
    <3> QED BY <1>4, <3>2, <3>3, <3>4, <3>5
  <2> QED BY <1>1, <2>1, <2>2
<1>6. g = [k \in Nat |-> IF k = 0 THEN <<datas, <<>>>> ELSE Once(g[k - 1])]
  <2>1. \A k \in Nat : g[k] = IF k = 0 THEN <<datas, <<>>>> ELSE Once(g[k - 1])
    <3> SUFFICES ASSUME NEW k \in Nat, k # 0
                 PROVE  g[k] = Once(g[k - 1])
      BY <1>2
    <3>1. k - 1 \in Nat /\ (k - 1) + 1 = k
      OBVIOUS
    <3> QED BY <1>5, <3>1
  <2>2. g = [k \in Nat |-> g[k]]
    BY DEF g
  <2> QED BY <2>1, <2>2
<1>7. FrontSingles = [k \in Nat |-> IF k = 0 THEN <<datas, <<>>>> ELSE Once(FrontSingles[k - 1])]
  BY <1>6 DEF FrontSingles, Once
<1> DEFINE Same == {k \in Nat : FrontSingles[k] = g[k]}
<1>8. 0 \in Same /\ Same \in SUBSET Nat
  BY <1>2, <1>7
<1>9. ASSUME NEW k \in Same
      PROVE  k + 1 \in Same
  <2>1. k \in Nat /\ FrontSingles[k] = g[k] /\ k + 1 \in Nat /\ k + 1 # 0 /\ (k + 1) - 1 = k
    OBVIOUS
  <2>2. FrontSingles[k + 1] = Once(FrontSingles[k])
    BY <1>7, <2>1
  <2>3. g[k + 1] = Once(g[k])
    BY <1>5, <2>1
  <2> QED BY <2>1, <2>2, <2>3
<1> HIDE DEF Same
<1>10. Same = Nat
  BY <1>8, <1>9, Induction
<1> QED BY <1>10 DEF Same, g

\* The same at the back.
LEMMA BackSinglesSlice ==
  ASSUME datas \in Seq(Nat)
  PROVE  \A k \in Nat : BackSingles[k] = <<BackErased(k), BackSlice(k)>>
<1> DEFINE L == Len(datas)
           g == [k \in Nat |-> <<BackErased(k), BackSlice(k)>>]
           Once(p) == IF p[1] = <<>> THEN p ELSE <<Sequence!Front(p[1]), <<Sequence!Last(p[1])>> \o p[2]>>
           OnceOf(x, y) == IF x = <<>> THEN <<x, y>> ELSE <<Sequence!Front(x), <<Sequence!Last(x)>> \o y>>
<1>1. L \in Nat
  OBVIOUS
<1>2. g[0] = <<datas, <<>>>>
  <2>1. Clamp(0) = 0 /\ L - 0 = L
    BY <1>1 DEF Clamp
  <2>2. BackErased(0) = datas /\ BackSlice(0) = <<>>
    BY <1>1, <2>1, SubSeqFull, SubSeqEmpty DEF BackErased, BackSlice
  <2> QED BY <2>2
<1>3. ASSUME NEW x, NEW y
      PROVE  Once(<<x, y>>) = OnceOf(x, y)
  OBVIOUS
<1>4. ASSUME NEW k \in Nat
      PROVE  /\ g[k + 1] = <<BackErased(k + 1), BackSlice(k + 1)>>
             /\ Once(g[k]) = OnceOf(BackErased(k), BackSlice(k))
  <2>1. /\ g[k + 1] = <<BackErased(k + 1), BackSlice(k + 1)>>
        /\ g[k] = <<BackErased(k), BackSlice(k)>>
    OBVIOUS
  <2> HIDE DEF g, Once, OnceOf
  <2> QED BY <1>3, <2>1
<1> HIDE DEF g, Once
<1>5. ASSUME NEW k \in Nat
      PROVE  g[k + 1] = Once(g[k])
  <2>1. CASE k >= L
    <3>1. Clamp(k) = L /\ Clamp(k + 1) = L
      BY <1>1, <2>1 DEF Clamp
    <3>2. BackErased(k) = <<>>
      BY <1>1, <3>1, SubSeqEmpty DEF BackErased
    <3>3. BackErased(k + 1) = BackErased(k) /\ BackSlice(k + 1) = BackSlice(k)
      BY <3>1 DEF BackErased, BackSlice
    <3> QED BY <1>4, <3>2, <3>3
  <2>2. CASE k < L
    <3>1. PICK j \in 1 .. L : j = L - k
      <4>1. L - k \in 1 .. L
        BY <1>1, <2>2
      <4> QED BY <4>1
    <3>2. /\ Clamp(k) = k /\ Clamp(k + 1) = k + 1 /\ L - k = j /\ L - (k + 1) = j - 1
          /\ L \in j .. L /\ j \in 1 .. j /\ 1 \in 1 .. L
      BY <1>1, <2>2, <3>1 DEF Clamp
    <3>3. SubSeq(datas, 1, j) # <<>>
      BY <1>1, <3>1, <3>2, NonemptySlice
    <3>4. Sequence!Front(SubSeq(datas, 1, j)) = SubSeq(datas, 1, j - 1)
          /\ Sequence!Last(SubSeq(datas, 1, j)) = datas[j]
      BY <1>1, <3>1, WithoutLast
    <3>5. SubSeq(datas, j, L) = <<datas[j]>> \o SubSeq(datas, j + 1, L)
      BY <1>1, <3>1, <3>2, SubSeqRecursiveFirst
    <3>6. /\ BackErased(k) = SubSeq(datas, 1, j) /\ BackSlice(k) = SubSeq(datas, j + 1, L)
          /\ BackErased(k + 1) = SubSeq(datas, 1, j - 1)
          /\ BackSlice(k + 1) = SubSeq(datas, j, L)
      <4>1. (j - 1) + 1 = j
        BY <3>1
      <4> QED BY <3>2, <4>1 DEF BackErased, BackSlice
    <3> QED BY <1>4, <3>3, <3>4, <3>5, <3>6
  <2> QED BY <1>1, <2>1, <2>2
<1>6. g = [k \in Nat |-> IF k = 0 THEN <<datas, <<>>>> ELSE Once(g[k - 1])]
  <2>1. \A k \in Nat : g[k] = IF k = 0 THEN <<datas, <<>>>> ELSE Once(g[k - 1])
    <3> SUFFICES ASSUME NEW k \in Nat, k # 0
                 PROVE  g[k] = Once(g[k - 1])
      BY <1>2
    <3>1. k - 1 \in Nat /\ (k - 1) + 1 = k
      OBVIOUS
    <3> QED BY <1>5, <3>1
  <2>2. g = [k \in Nat |-> g[k]]
    BY DEF g
  <2> QED BY <2>1, <2>2
<1>7. BackSingles = [k \in Nat |-> IF k = 0 THEN <<datas, <<>>>> ELSE Once(BackSingles[k - 1])]
  BY <1>6 DEF BackSingles, Once
<1> DEFINE Same == {k \in Nat : BackSingles[k] = g[k]}
<1>8. 0 \in Same /\ Same \in SUBSET Nat
  BY <1>2, <1>7
<1>9. ASSUME NEW k \in Same
      PROVE  k + 1 \in Same
  <2>1. k \in Nat /\ BackSingles[k] = g[k] /\ k + 1 \in Nat /\ k + 1 # 0 /\ (k + 1) - 1 = k
    OBVIOUS
  <2>2. BackSingles[k + 1] = Once(BackSingles[k])
    BY <1>7, <2>1
  <2>3. g[k + 1] = Once(g[k])
    BY <1>5, <2>1
  <2> QED BY <2>1, <2>2, <2>3
<1> HIDE DEF Same
<1>10. Same = Nat
  BY <1>8, <1>9, Induction
<1> QED BY <1>10 DEF Same, g

\* The deques hold values, and a step is a Swap or a bulk move of some n.
LEMMA BulkMoves ==
  ASSUME datas \in Seq(Nat), out \in Seq(Nat), DequeNext
  PROVE  /\ datas' \in Seq(Nat) /\ out' \in Seq(Nat)
         /\ \/ called' = <<"swap", 0>>
            \/ \E n \in Nat :
                 \/ /\ called'[1] \in {"frontReplace", "frontAppend"} /\ called'[2] = n
                    /\ datas' = FrontErased(n)
                    /\ out' = (IF called'[1] = "frontAppend" THEN out ELSE <<>>) \o FrontSlice(n)
                 \/ /\ called'[1] \in {"backReplace", "backAppend"} /\ called'[2] = n
                    /\ datas' = BackErased(n)
                    /\ out' = (IF called'[1] = "backAppend" THEN out ELSE <<>>) \o BackSlice(n)
<1>1. ASSUME NEW n \in Nat
      PROVE  /\ FrontErased(n) \in Seq(Nat) /\ FrontSlice(n) \in Seq(Nat)
             /\ BackErased(n) \in Seq(Nat) /\ BackSlice(n) \in Seq(Nat)
             /\ <<>> \o FrontSlice(n) = FrontSlice(n) /\ <<>> \o BackSlice(n) = BackSlice(n)
             /\ out \o FrontSlice(n) \in Seq(Nat) /\ out \o BackSlice(n) \in Seq(Nat)
  <2>1. Clamp(n) \in 0 .. Len(datas) /\ Len(datas) - Clamp(n) \in 0 .. Len(datas)
    BY DEF Clamp
  <2>2. /\ FrontErased(n) \in Seq(Nat) /\ FrontSlice(n) \in Seq(Nat)
        /\ BackErased(n) \in Seq(Nat) /\ BackSlice(n) \in Seq(Nat)
    BY <2>1, CutQueue DEF FrontErased, FrontSlice, BackErased, BackSlice
  <2> QED BY <2>2
<1>2. CASE Swap /\ called' = <<"swap", 0>>
  BY <1>2 DEF Swap
<1>3. ASSUME NEW n \in 0 .. Values + 1, PopFrontAndReplace(n) /\ called' = <<"frontReplace", n>>
      PROVE  /\ n \in Nat /\ called'[1] = "frontReplace" /\ called'[2] = n
             /\ datas' = FrontErased(n) /\ out' = <<>> \o FrontSlice(n)
  BY <1>1, <1>3, DequeAssumption DEF PopFrontAndReplace
<1>4. ASSUME NEW n \in 0 .. Values + 1, PopBackAndReplace(n) /\ called' = <<"backReplace", n>>
      PROVE  /\ n \in Nat /\ called'[1] = "backReplace" /\ called'[2] = n
             /\ datas' = BackErased(n) /\ out' = <<>> \o BackSlice(n)
  BY <1>1, <1>4, DequeAssumption DEF PopBackAndReplace
<1>5. ASSUME NEW n \in 0 .. Values + 1, PopFrontAndAppend(n) /\ called' = <<"frontAppend", n>>
      PROVE  /\ n \in Nat /\ called'[1] = "frontAppend" /\ called'[2] = n
             /\ datas' = FrontErased(n) /\ out' = out \o FrontSlice(n)
  BY <1>5, DequeAssumption DEF PopFrontAndAppend
<1>6. ASSUME NEW n \in 0 .. Values + 1, PopBackAndAppend(n) /\ called' = <<"backAppend", n>>
      PROVE  /\ n \in Nat /\ called'[1] = "backAppend" /\ called'[2] = n
             /\ datas' = BackErased(n) /\ out' = out \o BackSlice(n)
  BY <1>6, DequeAssumption DEF PopBackAndAppend
<1>7. CASE \E n \in 0 .. Values + 1 : PopFrontAndReplace(n) /\ called' = <<"frontReplace", n>>
  BY <1>1, <1>3, <1>7
<1>8. CASE \E n \in 0 .. Values + 1 : PopBackAndReplace(n) /\ called' = <<"backReplace", n>>
  BY <1>1, <1>4, <1>8
<1>9. CASE \E n \in 0 .. Values + 1 : PopFrontAndAppend(n) /\ called' = <<"frontAppend", n>>
  BY <1>1, <1>5, <1>9
<1>10. CASE \E n \in 0 .. Values + 1 : PopBackAndAppend(n) /\ called' = <<"backAppend", n>>
  BY <1>1, <1>6, <1>10
<1> QED BY <1>2, <1>7, <1>8, <1>9, <1>10 DEF DequeNext

\* In any sequence of calls, and for any length of the deques, a bulk move does what as
\* many single operations do: what is moved keeps its order, and nothing gets lost.
THEOREM BulkIsSingles == DequeSpec => BulkAsSingles
<1> DEFINE Filled == datas \in Seq(Nat) /\ out \in Seq(Nat)
           n      == called'[2]
           moved  == IF called'[1] \in {"frontReplace", "frontAppend"}
                     THEN FrontSingles[n] ELSE BackSingles[n]
           before == IF called'[1] \in {"frontAppend", "backAppend"} THEN out ELSE <<>>
           A      == called'[1] # "swap" => datas' = moved[1] /\ out' = before \o moved[2]
<1>1. DequeInit => Filled
  BY DequeAssumption DEF DequeInit
<1>2. Filled /\ [DequeNext]_dequeVars => Filled'
  BY BulkMoves DEF dequeVars
<1>3. ASSUME Filled, DequeNext
      PROVE  A
  <2>1. CASE called' = <<"swap", 0>>
    BY <2>1
  <2>2. ASSUME NEW m \in Nat, called'[1] \in {"frontReplace", "frontAppend"}, called'[2] = m,
               datas' = FrontErased(m),
               out' = (IF called'[1] = "frontAppend" THEN out ELSE <<>>) \o FrontSlice(m)
        PROVE  A
    <3>1. moved = <<FrontErased(m), FrontSlice(m)>>
      BY <1>3, <2>2, FrontSinglesSlice
    <3>2. moved[1] = FrontErased(m) /\ moved[2] = FrontSlice(m)
      BY <3>1
    <3>3. before = IF called'[1] = "frontAppend" THEN out ELSE <<>>
      BY <2>2
    <3> HIDE DEF moved, before
    <3> QED BY <2>2, <3>2, <3>3
  <2>3. ASSUME NEW m \in Nat, called'[1] \in {"backReplace", "backAppend"}, called'[2] = m,
               datas' = BackErased(m),
               out' = (IF called'[1] = "backAppend" THEN out ELSE <<>>) \o BackSlice(m)
        PROVE  A
    <3>1. moved = <<BackErased(m), BackSlice(m)>>
      BY <1>3, <2>3, BackSinglesSlice
    <3>2. moved[1] = BackErased(m) /\ moved[2] = BackSlice(m)
      BY <3>1
    <3>3. before = IF called'[1] = "backAppend" THEN out ELSE <<>>
      BY <2>3
    <3> HIDE DEF moved, before
    <3> QED BY <2>3, <3>2, <3>3
  <2> HIDE DEF A
  <2> QED BY <1>3, <2>1, <2>2, <2>3, BulkMoves
<1>4. Filled /\ [DequeNext]_dequeVars => [A]_dequeVars
  BY <1>3
<1> QED BY <1>1, <1>2, <1>4, PTL DEF DequeSpec, BulkAsSingles

=============================================================================
