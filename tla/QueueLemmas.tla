---------------------------- MODULE QueueLemmas -----------------------------
(***************************************************************************)
(* What pushing, popping and joining do to the elements of a queue, for    *)
(* queues written as sequences.  Cited by the proofs about the queues of   *)
(* tasks (ThreadSafeDeque, containers.hpp), with a lemma on counting the   *)
(* places of something that is in one place at most, and induction over    *)
(* the natural numbers, for a property that is given as a set.             *)
(***************************************************************************)
EXTENDS Integers, Sequences, Functions, SequenceTheorems, FiniteSetTheorems, TLAPS

\* The empty queue has no elements.
LEMMA EmptyQueue == Range(<<>>) = {} /\ IsInjective(<<>>)
  BY DEF Range, IsInjective

\* It is a queue of anything.
LEMMA EmptyIsQueue == ASSUME NEW S PROVE <<>> \in Seq(S)
  OBVIOUS

\* push_back adds its argument and keeps the elements distinct if it is new.
LEMMA PushQueue ==
  ASSUME NEW S, NEW q \in Seq(S), NEW x \in S
  PROVE  /\ Append(q, x) \in Seq(S) /\ Append(q, x) # <<>>
         /\ Range(Append(q, x)) = Range(q) \cup {x}
         /\ IsInjective(q) /\ x \notin Range(q) => IsInjective(Append(q, x))
<1> DEFINE p == Append(q, x)
<1>1. /\ p \in Seq(S) /\ p # <<>>
      /\ DOMAIN p = DOMAIN q \cup {Len(q) + 1}
      /\ p[Len(q) + 1] = x
      /\ \A i \in DOMAIN q : p[i] = q[i] /\ i # Len(q) + 1
  OBVIOUS
<1>2. Range(p) = Range(q) \cup {x}
  BY <1>1 DEF Range
<1>3. ASSUME IsInjective(q), x \notin Range(q)
      PROVE  IsInjective(p)
  BY <1>1, <1>3 DEF Range, IsInjective
<1> QED BY <1>1, <1>2, <1>3

\* pop_front takes the head and, when the elements are distinct, only the head.
LEMMA PopQueue ==
  ASSUME NEW S, NEW q \in Seq(S), q # <<>>
  PROVE  /\ Head(q) \in S /\ Head(q) \in Range(q)
         /\ Tail(q) \in Seq(S)
         /\ Range(q) = Range(Tail(q)) \cup {Head(q)}
         /\ IsInjective(q) => IsInjective(Tail(q)) /\ Head(q) \notin Range(Tail(q))
<1> DEFINE p == Tail(q)
<1>1. /\ p \in Seq(S)
      /\ Len(q) \in Nat /\ Len(q) > 0
      /\ DOMAIN q = 1 .. Len(q) /\ DOMAIN p = 1 .. (Len(q) - 1)
      /\ Head(q) = q[1] /\ Head(q) \in S
      /\ \A i \in DOMAIN p : p[i] = q[i + 1]
  OBVIOUS
<1>2. \A i \in DOMAIN q : i = 1 \/ (i - 1 \in DOMAIN p /\ q[i] = p[i - 1])
  BY <1>1
<1>3. Head(q) \in Range(q)
  BY <1>1 DEF Range
<1>4. Range(q) = Range(p) \cup {Head(q)}
  <2>1. ASSUME NEW y \in Range(q)
        PROVE  y \in Range(p) \cup {Head(q)}
    <3>1. PICK i \in DOMAIN q : y = q[i]
      BY DEF Range
    <3>2. i = 1 \/ (i - 1 \in DOMAIN p /\ y = p[i - 1])
      BY <1>2, <3>1
    <3> QED BY <1>1, <3>1, <3>2 DEF Range
  <2>2. ASSUME NEW y \in Range(p)
        PROVE  y \in Range(q)
    <3>1. PICK i \in DOMAIN p : y = p[i]
      BY DEF Range
    <3>2. i + 1 \in DOMAIN q /\ y = q[i + 1]
      BY <1>1, <3>1
    <3> QED BY <3>2 DEF Range
  <2> QED BY <1>3, <2>1, <2>2
<1>5. ASSUME IsInjective(q)
      PROVE  IsInjective(p) /\ Head(q) \notin Range(p)
  <2>1. \A i \in DOMAIN p : i \in Int /\ i + 1 \in DOMAIN q /\ i + 1 # 1
    BY <1>1
  <2>2. IsInjective(p)
    <3>1. SUFFICES ASSUME NEW i \in DOMAIN p, NEW j \in DOMAIN p, p[i] = p[j]
                   PROVE  i = j
      BY DEF IsInjective
    <3>2. q[i + 1] = q[j + 1]
      BY <1>1, <3>1
    <3>3. i + 1 = j + 1
      BY <1>5, <2>1, <3>2 DEF IsInjective
    <3> QED BY <2>1, <3>3
  <2>3. Head(q) \notin Range(p)
    <3>1. SUFFICES ASSUME NEW i \in DOMAIN p, q[1] = p[i]
                   PROVE  FALSE
      BY <1>1 DEF Range
    <3>2. q[1] = q[i + 1] /\ 1 \in DOMAIN q
      BY <1>1, <3>1
    <3> QED BY <1>5, <2>1, <3>2 DEF IsInjective
  <2> QED BY <2>2, <2>3
<1> QED BY <1>1, <1>3, <1>4, <1>5

\* Appending a whole queue adds its elements; they stay distinct if the two
\* queues share none.
LEMMA JoinQueues ==
  ASSUME NEW S, NEW q \in Seq(S), NEW r \in Seq(S)
  PROVE  /\ q \o r \in Seq(S)
         /\ Range(q \o r) = Range(q) \cup Range(r)
         /\ IsInjective(q) /\ IsInjective(r) /\ Range(q) \cap Range(r) = {}
              => IsInjective(q \o r)
<1> DEFINE p == q \o r
<1>1. /\ p \in Seq(S)
      /\ Len(q) \in Nat /\ Len(r) \in Nat
      /\ DOMAIN q = 1 .. Len(q) /\ DOMAIN r = 1 .. Len(r)
      /\ DOMAIN p = 1 .. (Len(q) + Len(r))
      /\ \A i \in DOMAIN q : p[i] = q[i]
      /\ \A i \in DOMAIN r : p[Len(q) + i] = r[i]
  OBVIOUS
<1>2. \A i \in DOMAIN p : \/ i \in DOMAIN q /\ p[i] = q[i]
                          \/ i - Len(q) \in DOMAIN r /\ p[i] = r[i - Len(q)]
  BY <1>1
<1>3. /\ \A i \in DOMAIN q : i \in DOMAIN p
      /\ \A i \in DOMAIN r : Len(q) + i \in DOMAIN p
  BY <1>1
<1>4. Range(p) = Range(q) \cup Range(r)
  <2>1. ASSUME NEW y \in Range(p)
        PROVE  y \in Range(q) \cup Range(r)
    BY <1>2 DEF Range
  <2>2. ASSUME NEW y \in Range(q)
        PROVE  y \in Range(p)
    BY <1>1, <1>3 DEF Range
  <2>3. ASSUME NEW y \in Range(r)
        PROVE  y \in Range(p)
    <3>1. PICK i \in DOMAIN r : y = r[i]
      BY DEF Range
    <3>2. Len(q) + i \in DOMAIN p /\ p[Len(q) + i] = y
      BY <1>1, <1>3, <3>1
    <3> QED BY <3>2 DEF Range
  <2> QED BY <2>1, <2>2, <2>3
<1>5. ASSUME IsInjective(q), IsInjective(r), Range(q) \cap Range(r) = {}
      PROVE  IsInjective(p)
  <2>1. SUFFICES ASSUME NEW i \in DOMAIN p, NEW j \in DOMAIN p, p[i] = p[j]
                 PROVE  i = j
    BY DEF IsInjective
  <2>2. i \in Int /\ j \in Int
    BY <1>1
  <2>3. CASE i \in DOMAIN q /\ p[i] = q[i] /\ j \in DOMAIN q /\ p[j] = q[j]
    BY <1>5, <2>1, <2>3 DEF IsInjective
  <2>4. CASE /\ i - Len(q) \in DOMAIN r /\ p[i] = r[i - Len(q)]
             /\ j - Len(q) \in DOMAIN r /\ p[j] = r[j - Len(q)]
    <3>1. i - Len(q) = j - Len(q)
      BY <1>5, <2>1, <2>4 DEF IsInjective
    <3> QED BY <1>1, <2>2, <3>1
  <2>5. CASE /\ i \in DOMAIN q /\ p[i] = q[i]
             /\ j - Len(q) \in DOMAIN r /\ p[j] = r[j - Len(q)]
    BY <1>5, <2>1, <2>5 DEF Range
  <2>6. CASE /\ j \in DOMAIN q /\ p[j] = q[j]
             /\ i - Len(q) \in DOMAIN r /\ p[i] = r[i - Len(q)]
    BY <1>5, <2>1, <2>6 DEF Range
  <2> QED BY <1>2, <2>3, <2>4, <2>5, <2>6
<1> QED BY <1>1, <1>4, <1>5

\* What is appended does not reach the front of a queue that has one.
LEMMA FrontStays ==
  ASSUME NEW S, NEW q \in Seq(S), q # <<>>, NEW r \in Seq(S)
  PROVE  q \o r # <<>> /\ Head(q \o r) = Head(q)
<1> DEFINE p == q \o r
<1>1. Len(q) \in Nat /\ Len(q) > 0 /\ Len(r) \in Nat
  OBVIOUS
<1>2. p \in Seq(S) /\ Len(p) = Len(q) + Len(r) /\ p[1] = q[1]
  BY <1>1
<1>3. p # <<>>
  BY <1>1, <1>2
<1>4. Head(p) = p[1] /\ Head(q) = q[1]
  BY <1>3
<1> QED BY <1>2, <1>3, <1>4

\* Both parts of a queue without repetitions are such, and share nothing.
LEMMA PartsOfQueue ==
  ASSUME NEW S, NEW q \in Seq(S), NEW r \in Seq(S), IsInjective(q \o r)
  PROVE  IsInjective(q) /\ IsInjective(r) /\ Range(q) \cap Range(r) = {}
<1> DEFINE p == q \o r
<1>1. /\ Len(q) \in Nat /\ Len(r) \in Nat
      /\ DOMAIN q = 1 .. Len(q) /\ DOMAIN r = 1 .. Len(r)
      /\ DOMAIN p = 1 .. (Len(q) + Len(r))
      /\ \A i \in DOMAIN q : p[i] = q[i]
      /\ \A i \in DOMAIN r : p[Len(q) + i] = r[i]
  OBVIOUS
<1>2. \A i, j \in DOMAIN p : p[i] = p[j] => i = j
  BY DEF IsInjective
<1>3. /\ \A i \in DOMAIN q : i \in DOMAIN p
      /\ \A i \in DOMAIN r : Len(q) + i \in DOMAIN p
      /\ \A i \in DOMAIN q, j \in DOMAIN r : i # Len(q) + j
      /\ \A i, j \in DOMAIN r : Len(q) + i = Len(q) + j => i = j
  BY <1>1
<1> HIDE DEF p
<1>4. IsInjective(q)
  BY <1>1, <1>2, <1>3 DEF IsInjective
<1>5. IsInjective(r)
  BY <1>1, <1>2, <1>3 DEF IsInjective
<1>6. Range(q) \cap Range(r) = {}
  BY <1>1, <1>2, <1>3 DEF Range
<1> QED BY <1>4, <1>5, <1>6

\* A queue is its first n elements and the others.
LEMMA CutQueue ==
  ASSUME NEW S, NEW q \in Seq(S), NEW n \in 0 .. Len(q)
  PROVE  /\ SubSeq(q, 1, n) \in Seq(S) /\ SubSeq(q, n + 1, Len(q)) \in Seq(S)
         /\ SubSeq(q, 1, n) \o SubSeq(q, n + 1, Len(q)) = q
<1>1. Len(q) \in Nat /\ 1 \in 1 .. (Len(q) + 1) /\ n \in (1 - 1) .. Len(q) /\ Len(q) \in n .. Len(q)
  OBVIOUS
<1>2. SubSeq(q, 1, n) \o SubSeq(q, n + 1, Len(q)) = SubSeq(q, 1, Len(q))
  BY <1>1, ConcatAdjacentSubSeq
<1>3. SubSeq(q, 1, Len(q)) = q
  BY SubSeqFull
<1>4. /\ \A i \in 1 .. n : q[i] \in S
      /\ \A i \in (n + 1) .. Len(q) : q[i] \in S
  BY <1>1
<1>5. SubSeq(q, 1, n) \in Seq(S) /\ SubSeq(q, n + 1, Len(q)) \in Seq(S)
  BY <1>1, <1>4, SubSeqProperties
<1> QED BY <1>2, <1>3, <1>5

\* A set with at most one element is counted by whether it has one.
LEMMA CountOne ==
  ASSUME NEW S, NEW x, S \subseteq {x}
  PROVE  Cardinality(S) = IF S = {} THEN 0 ELSE 1
<1>1. S = {} \/ S = {x}
  OBVIOUS
<1> QED BY <1>1, FS_EmptySet, FS_Singleton

\* A set of natural numbers has a least element.
LEMMA LeastNatural ==
  ASSUME NEW T \in SUBSET Nat, T # {}
  PROVE  \E n \in T : \A m \in T : n <= m
<1> DEFINE R == OpToRel(<, Nat)
<1>1. IsWellFoundedOn(R, Nat)
  BY NatLessThanWellFounded
<1>2. ASSUME NEW x \in Nat, NEW y \in Nat, x < y
      PROVE  <<x, y>> \in R
  BY <1>2 DEF OpToRel
<1> HIDE DEF R
<1>3. PICK n \in T : \A m \in T : <<m, n>> \notin R
  BY <1>1, WFMin
<1>4. ASSUME NEW m \in T
      PROVE  n <= m
  <2>1. m \in Nat /\ n \in Nat
    OBVIOUS
  <2>2. ~(m < n)
    BY <1>2, <1>3, <2>1
  <2> QED BY <2>1, <2>2
<1> QED BY <1>4

\* Induction, for a set in the place of a predicate.
LEMMA Induction ==
  ASSUME NEW S \in SUBSET Nat, 0 \in S, \A n \in S : n + 1 \in S
  PROVE  S = Nat
<1> SUFFICES ASSUME Nat \ S # {}
             PROVE  FALSE
  OBVIOUS
<1>1. PICK n \in Nat \ S : \A m \in Nat \ S : n <= m
  BY LeastNatural
<1>2. n # 0 /\ n - 1 \in Nat /\ n - 1 \in S
  BY <1>1
<1> QED BY <1>1, <1>2

=============================================================================
