------------------------ MODULE DispatchRoundProofs -------------------------
(***************************************************************************)
(* A round of the dispatcher, for any number of executors and any loads:   *)
(* OneRoundInv is inductive.  First what the sums over the executors are:  *)
(* they are defined by recursion over the index, so that what holds of     *)
(* them holds by induction.                                                *)
(***************************************************************************)
EXTENDS DispatchRound, QueueLemmas

\* A function on the executors has a sum up to each index.
LEMMA SumsExist ==
  ASSUME NEW f \in [Executors -> Nat]
  PROVE  \E g \in [0 .. N -> Nat] : g[0] = 0 /\ \A i \in 1 .. N : g[i] = g[i - 1] + f[i - 1]
<1> DEFINE Sums(g, n) == g[0] = 0 /\ \A i \in 1 .. n : g[i] = g[i - 1] + f[i - 1]
           Good == {n \in Nat : n <= N => \E g \in [0 .. n -> Nat] : Sums(g, n)}
<1>1. 0 \in Good
  <2>1. [i \in 0 .. 0 |-> 0] \in [0 .. 0 -> Nat] /\ Sums([i \in 0 .. 0 |-> 0], 0)
    OBVIOUS
  <2> QED BY <2>1
<1>2. ASSUME NEW n \in Nat, n \in Good, n + 1 <= N
      PROVE  \E g \in [0 .. n + 1 -> Nat] : Sums(g, n + 1)
  <2>0. n <= N
    BY <1>2, SchedulerAssumption
  <2>1. PICK g \in [0 .. n -> Nat] : Sums(g, n)
    BY <1>2, <2>0
  <2> DEFINE h == [i \in 0 .. n + 1 |-> IF i <= n THEN g[i] ELSE g[n] + f[n]]
  <2>2. h \in [0 .. n + 1 -> Nat]
    <3>1. n \in Executors /\ n \in 0 .. n
      BY <1>2, SchedulerAssumption DEF Executors
    <3>2. \A i \in 0 .. n + 1 : i <= n => i \in 0 .. n
      OBVIOUS
    <3> QED BY <2>1, <3>1, <3>2
  <2>3. Sums(h, n + 1)
    BY <2>1
  <2> QED BY <2>2, <2>3
<1>3. \A n \in Good : n + 1 \in Good
  BY <1>2
<1>4. Good \in SUBSET Nat
  OBVIOUS
<1> HIDE DEF Good
<1>5. Good = Nat
  BY <1>1, <1>3, <1>4, Induction
<1>6. N \in Good /\ N \in Nat
  BY <1>5, SchedulerAssumption
<1> QED BY <1>6 DEF Good

\* The recursive definition says what it seems to say.
LEMMA SumIsRecursive ==
  ASSUME NEW f \in [Executors -> Nat]
  PROVE  /\ SumTo(f) \in [0 .. N -> Nat] /\ SumTo(f)[0] = 0
         /\ \A i \in Executors : SumTo(f)[i + 1] = SumTo(f)[i] + f[i]
<1>1. PICK g \in [0 .. N -> Nat] : g[0] = 0 /\ \A i \in 1 .. N : g[i] = g[i - 1] + f[i - 1]
  BY SumsExist
<1>2. g = [i \in 0 .. N |-> IF i = 0 THEN 0 ELSE g[i - 1] + f[i - 1]]
  BY <1>1, SchedulerAssumption
<1> DEFINE t == SumTo(f)
<1>3. t = [i \in 0 .. N |-> IF i = 0 THEN 0 ELSE t[i - 1] + f[i - 1]]
  BY <1>2 DEF SumTo
<1> HIDE DEF t
<1>4. DOMAIN t = 0 .. N /\ t[0] = 0 /\ \A i \in 1 .. N : t[i] = t[i - 1] + f[i - 1]
  BY <1>3, SchedulerAssumption
<1> DEFINE Same == {n \in Nat : n <= N => t[n] = g[n]}
<1>5. \A n \in 0 .. N : t[n] = g[n]
  <2>1. 0 \in Same /\ Same \in SUBSET Nat
    BY <1>1, <1>4
  <2>2. ASSUME NEW n \in Same
        PROVE  n + 1 \in Same
    BY <1>1, <1>4, SchedulerAssumption
  <2> HIDE DEF Same
  <2>3. Same = Nat
    BY <2>1, <2>2, Induction
  <2> QED BY <2>3, SchedulerAssumption DEF Same
<1>6. t \in [0 .. N -> Nat]
  <2>1. \A n \in 0 .. N : t[n] \in Nat
    BY <1>1, <1>5
  <2> QED BY <1>3, <2>1
<1>7. ASSUME NEW i \in Executors
      PROVE  t[i + 1] = t[i] + f[i]
  <2>1. i + 1 \in 1 .. N /\ (i + 1) - 1 = i
    BY SchedulerAssumption DEF Executors
  <2> QED BY <1>4, <2>1
<1> QED BY <1>4, <1>6, <1>7 DEF t

LEMMA TotalIsNat == ASSUME NEW f \in [Executors -> Nat] PROVE Total(f) \in Nat
  BY SumIsRecursive, SchedulerAssumption DEF Total

\* A sum of summands that are all at least, or all at most, k.
LEMMA SumBounds ==
  ASSUME NEW f \in [Executors -> Nat], NEW k \in Nat
  PROVE  /\ (\A e \in Executors : f[e] >= k) => Total(f) >= N * k
         /\ (\A e \in Executors : f[e] <= k) => Total(f) <= N * k
<1> DEFINE t == SumTo(f)
<1>1. /\ t \in [0 .. N -> Nat] /\ t[0] = 0
      /\ \A i \in Executors : t[i + 1] = t[i] + f[i]
  BY SumIsRecursive
<1> HIDE DEF t
<1>2. ASSUME NEW n \in Nat, n + 1 <= N
      PROVE  /\ n \in Executors /\ n <= N /\ (n + 1) * k = n * k + k
             /\ t[n] \in Nat /\ t[n + 1] \in Nat /\ f[n] \in Nat /\ n * k \in Nat
  <2>1. n \in Executors /\ n \in 0 .. N /\ n + 1 \in 0 .. N
    BY <1>2, SchedulerAssumption DEF Executors
  <2>2. (n + 1) * k = n * k + k /\ n * k \in Nat
    OBVIOUS
  <2> QED BY <1>1, <2>1, <2>2
<1>3. ASSUME \A e \in Executors : f[e] >= k
      PROVE  t[N] >= N * k
  <2> DEFINE Good == {n \in Nat : n <= N => t[n] >= n * k}
  <2>1. 0 \in Good /\ Good \in SUBSET Nat
    BY <1>1
  <2>2. ASSUME NEW n \in Nat, n \in Good, n + 1 <= N
        PROVE  t[n + 1] >= (n + 1) * k
    <3>1. t[n] >= n * k /\ t[n + 1] = t[n] + f[n] /\ f[n] >= k
      BY <1>1, <1>2, <1>3, <2>2
    <3> QED BY <1>2, <2>2, <3>1
  <2>3. \A n \in Good : n + 1 \in Good
    BY <2>2
  <2> HIDE DEF Good
  <2>4. Good = Nat
    BY <2>1, <2>3, Induction
  <2>5. N \in Good /\ N \in Nat
    BY <2>4, SchedulerAssumption
  <2> QED BY <2>5 DEF Good
<1>4. ASSUME \A e \in Executors : f[e] <= k
      PROVE  t[N] <= N * k
  <2> DEFINE Good == {n \in Nat : n <= N => t[n] <= n * k}
  <2>1. 0 \in Good /\ Good \in SUBSET Nat
    BY <1>1
  <2>2. ASSUME NEW n \in Nat, n \in Good, n + 1 <= N
        PROVE  t[n + 1] <= (n + 1) * k
    <3>1. t[n] <= n * k /\ t[n + 1] = t[n] + f[n] /\ f[n] <= k
      BY <1>1, <1>2, <1>4, <2>2
    <3> QED BY <1>2, <2>2, <3>1
  <2>3. \A n \in Good : n + 1 \in Good
    BY <2>2
  <2> HIDE DEF Good
  <2>4. Good = Nat
    BY <2>1, <2>3, Induction
  <2>5. N \in Good /\ N \in Nat
    BY <2>4, SchedulerAssumption
  <2> QED BY <2>5 DEF Good
<1> QED BY <1>3, <1>4 DEF Total, t

\* A sum changes with a summand.
LEMMA SumChanges ==
  ASSUME NEW f \in [Executors -> Nat], NEW g \in [Executors -> Nat], NEW e \in Executors,
         \A x \in Executors \ {e} : g[x] = f[x]
  PROVE  Total(g) + f[e] = Total(f) + g[e]
<1> DEFINE s == SumTo(f)
           t == SumTo(g)
           Good == {n \in Nat : n <= N => /\ n <= e => t[n] = s[n]
                                          /\ n > e  => t[n] + f[e] = s[n] + g[e]}
<1>1. /\ s \in [0 .. N -> Nat] /\ s[0] = 0 /\ \A i \in Executors : s[i + 1] = s[i] + f[i]
      /\ t \in [0 .. N -> Nat] /\ t[0] = 0 /\ \A i \in Executors : t[i + 1] = t[i] + g[i]
  BY SumIsRecursive
<1> HIDE DEF s, t
<1>2. e \in Nat /\ e < N /\ N \in Nat /\ f[e] \in Nat /\ g[e] \in Nat
  BY SchedulerAssumption DEF Executors
<1>3. 0 \in Good /\ Good \in SUBSET Nat
  BY <1>1, <1>2
<1>4. ASSUME NEW n \in Nat, n \in Good, n + 1 <= N
      PROVE  n + 1 \in Good
  <2>1. n \in Executors /\ n \in 0 .. N /\ n + 1 \in 0 .. N /\ n <= N
    BY <1>2, <1>4 DEF Executors
  <2>2. /\ s[n] \in Nat /\ t[n] \in Nat /\ f[n] \in Nat /\ g[n] \in Nat
        /\ s[n + 1] = s[n] + f[n] /\ t[n + 1] = t[n] + g[n]
    BY <1>1, <2>1
  <2>3. /\ n <= e => t[n] = s[n]
        /\ n > e  => t[n] + f[e] = s[n] + g[e]
    BY <1>4, <2>1
  <2>4. n # e => g[n] = f[n]
    BY <2>1
  <2>5. /\ n + 1 <= e => t[n + 1] = s[n + 1]
        /\ n + 1 > e  => t[n + 1] + f[e] = s[n + 1] + g[e]
    BY <1>2, <2>2, <2>3, <2>4
  <2> QED BY <2>5
<1>5. \A n \in Good : n + 1 \in Good
  BY <1>4
<1>6. N \in Good
  <2> HIDE DEF Good
  <2> QED BY <1>2, <1>3, <1>5, Induction
<1> QED BY <1>2, <1>6 DEF Total, s, t

\* A summand is at most the sum.
LEMMA SummandIsLess ==
  ASSUME NEW f \in [Executors -> Nat], NEW e \in Executors
  PROVE  f[e] <= Total(f)
<1> DEFINE g == [f EXCEPT ![e] = 0]
<1>1. g \in [Executors -> Nat] /\ g[e] = 0 /\ \A x \in Executors \ {e} : g[x] = f[x]
  OBVIOUS
<1> HIDE DEF g
<1>2. Total(g) + f[e] = Total(f) + g[e]
  BY <1>1, SumChanges
<1>3. Total(g) \in Nat /\ Total(f) \in Nat /\ f[e] \in Nat
  BY <1>1, TotalIsNat
<1> QED BY <1>1, <1>2, <1>3

\* If all summands but one are k, the rest of the sum is in the other one.
LEMMA AllButOne ==
  ASSUME NEW f \in [Executors -> Nat], NEW k \in Nat, NEW m \in Executors,
         \A e \in Executors \ {m} : f[e] = k
  PROVE  Total(f) + k = N * k + f[m]
<1> DEFINE g == [e \in Executors |-> k]
<1>1. g \in [Executors -> Nat] /\ g[m] = k /\ \A x \in Executors \ {m} : g[x] = f[x]
  OBVIOUS
<1>2. \A e \in Executors : g[e] >= k /\ g[e] <= k
  OBVIOUS
<1> HIDE DEF g
<1>3. Total(g) >= N * k /\ Total(g) <= N * k
  BY <1>1, <1>2, SumBounds
<1>4. Total(g) + f[m] = Total(f) + g[m]
  BY <1>1, SumChanges
<1>5. Total(g) \in Nat /\ Total(f) \in Nat /\ f[m] \in Nat /\ N * k \in Nat
  BY <1>1, TotalIsNat, SchedulerAssumption
<1> QED BY <1>1, <1>3, <1>4, <1>5

\* If no summand is above k, and the sum is not below N * k, all of them are k.
LEMMA AllAreEqual ==
  ASSUME NEW f \in [Executors -> Nat], NEW k \in Nat, \A x \in Executors : f[x] <= k,
         Total(f) >= N * k, NEW e \in Executors
  PROVE  f[e] = k
<1> DEFINE g == [f EXCEPT ![e] = k]
<1>1. /\ g \in [Executors -> Nat] /\ g[e] = k /\ \A x \in Executors \ {e} : g[x] = f[x]
  OBVIOUS
<1>2. \A x \in Executors : g[x] <= k
  OBVIOUS
<1> HIDE DEF g
<1>3. Total(g) <= N * k
  BY <1>1, <1>2, SumBounds
<1>4. Total(g) + f[e] = Total(f) + g[e]
  BY <1>1, SumChanges
<1>5. /\ Total(g) \in Nat /\ Total(f) \in Nat /\ f[e] \in Nat /\ N * k \in Nat /\ f[e] <= k
  BY <1>1, TotalIsNat, SchedulerAssumption
<1> QED BY <1>1, <1>3, <1>4, <1>5

\* The average of a sum: no less than a bound of the summands, and off by less than N.
LEMMA Averages ==
  ASSUME NEW s \in Nat
  PROVE  /\ s \div N \in Nat
         /\ N * (s \div N) <= s /\ s < N * (s \div N) + N
         /\ \A k \in Nat : s >= N * k => s \div N >= k
<1>1. N \in Nat /\ N > 0
  BY SchedulerAssumption
<1>2. s \div N \in Nat /\ s = (N * (s \div N)) + (s % N) /\ (s % N) \in 0 .. N - 1
  BY <1>1
<1> QED BY <1>1, <1>2

\* Tasks are numbers.
LEMMA TasksAreNumbers == ASSUME NEW q \in Seq(Nat) PROVE Range(q) \subseteq Nat
<1>1. \A i \in DOMAIN q : q[i] \in Nat
  OBVIOUS
<1> QED BY ONLY <1>1 DEF Range

-----------------------------------------------------------------------------
(***************************************************************************)
(* Queues in a round: prefixes, and their order.                           *)
(***************************************************************************)
\* A prefix, element by element.
LEMMA PrefixIs ==
  ASSUME NEW p \in Seq(Nat), NEW q \in Seq(Nat)
  PROVE  Seqs!IsPrefix(p, q) <=> Len(p) <= Len(q) /\ \A i \in 1 .. Len(p) : p[i] = q[i]
<1>1. Len(p) \in Nat /\ Len(q) \in Nat
  OBVIOUS
<1>2. ASSUME Len(p) <= Len(q)
      PROVE  SubSeq(p, 1, Len(p)) = SubSeq(q, 1, Len(p)) <=> \A i \in 1 .. Len(p) : p[i] = q[i]
  <2>1. /\ SubSeq(p, 1, Len(p)) = [i \in 1 .. Len(p) |-> p[i]]
        /\ SubSeq(q, 1, Len(p)) = [i \in 1 .. Len(p) |-> q[i]]
    BY <1>1, <1>2
  <2> QED BY <2>1
<1> QED BY <1>2 DEF Seqs!IsPrefix

\* Its elements are elements of the whole; it stays one when the whole gets longer.
LEMMA PrefixFacts ==
  ASSUME NEW p \in Seq(Nat), NEW q \in Seq(Nat), Seqs!IsPrefix(p, q)
  PROVE  /\ Len(p) <= Len(q) /\ Range(p) \subseteq Range(q)
         /\ \A r \in Seq(Nat) : Seqs!IsPrefix(p, q \o r)
<1>1. /\ Len(p) \in Nat /\ Len(q) \in Nat /\ Len(p) <= Len(q)
      /\ \A i \in 1 .. Len(p) : p[i] = q[i]
      /\ DOMAIN p = 1 .. Len(p) /\ DOMAIN q = 1 .. Len(q)
  BY PrefixIs
<1>2. Range(p) \subseteq Range(q)
  BY <1>1 DEF Range
<1>3. ASSUME NEW r \in Seq(Nat)
      PROVE  Seqs!IsPrefix(p, q \o r)
  <2> DEFINE t == q \o r
  <2>1. /\ t \in Seq(Nat) /\ Len(t) = Len(q) + Len(r) /\ Len(r) \in Nat
        /\ \A i \in 1 .. Len(q) : t[i] = q[i]
    BY <1>1
  <2> HIDE DEF t
  <2>2. Len(p) <= Len(t) /\ \A i \in 1 .. Len(p) : p[i] = t[i]
    BY <1>1, <2>1
  <2>3. Seqs!IsPrefix(p, t)
    BY <2>1, <2>2, PrefixIs
  <2> QED BY <2>3 DEF t
<1> QED BY <1>1, <1>2, <1>3

LEMMA PrefixOfItself == ASSUME NEW p \in Seq(Nat) PROVE Seqs!IsPrefix(p, p)
  BY PrefixIs

\* The order of two queues one after the other is theirs and the one between them.
LEMMA OrderOfBoth ==
  ASSUME NEW q \in Seq(Nat), NEW r \in Seq(Nat)
  PROVE  Ordered(q \o r) <=>
           /\ Ordered(q) /\ Ordered(r)
           /\ \A f \in Executors :
                \A x \in Range(q) \cap Range(before[f]), y \in Range(r) \cap Range(before[f]) : x < y
<1> DEFINE p == q \o r
<1>1. /\ Len(q) \in Nat /\ Len(r) \in Nat /\ Len(p) = Len(q) + Len(r)
      /\ DOMAIN q = 1 .. Len(q) /\ DOMAIN r = 1 .. Len(r)
      /\ \A i \in 1 .. Len(q) : p[i] = q[i]
      /\ \A i \in 1 .. Len(r) : p[Len(q) + i] = r[i]
  OBVIOUS
<1>2. /\ \A i \in 1 .. Len(q) : i \in 1 .. Len(p)
      /\ \A i \in 1 .. Len(r) : Len(q) + i \in 1 .. Len(p)
      /\ \A i \in 1 .. Len(p) : i \in 1 .. Len(q) \/ i - Len(q) \in 1 .. Len(r)
      /\ \A i \in 1 .. Len(p) : i - Len(q) \in 1 .. Len(r) => p[i] = r[i - Len(q)]
  BY <1>1
<1> HIDE DEF p
<1>3. ASSUME Ordered(p)
      PROVE  /\ Ordered(q) /\ Ordered(r)
             /\ \A f \in Executors :
                  \A x \in Range(q) \cap Range(before[f]), y \in Range(r) \cap Range(before[f]) : x < y
  <2>1. \A f \in Executors : \A i, j \in 1 .. Len(p) :
          i < j /\ {p[i], p[j]} \subseteq Range(before[f]) => p[i] < p[j]
    BY <1>3 DEF Ordered
  <2>2. Ordered(q)
    BY <1>1, <1>2, <2>1 DEF Ordered
  <2>3. Ordered(r)
    <3>1. SUFFICES ASSUME NEW f \in Executors, NEW i \in 1 .. Len(r), NEW j \in 1 .. Len(r),
                          i < j, {r[i], r[j]} \subseteq Range(before[f])
                   PROVE  r[i] < r[j]
      BY DEF Ordered
    <3>2. Len(q) + i < Len(q) + j
      BY <1>1, <3>1
    <3>3. p[Len(q) + i] = r[i] /\ p[Len(q) + j] = r[j]
      BY ONLY <1>1, i \in 1 .. Len(r), j \in 1 .. Len(r)
    <3>4. Len(q) + i \in 1 .. Len(p) /\ Len(q) + j \in 1 .. Len(p)
      BY <1>1, <1>2, <3>1
    <3> QED BY <2>1, <3>1, <3>2, <3>3, <3>4
  <2>4. ASSUME NEW f \in Executors, NEW x \in Range(q) \cap Range(before[f]),
               NEW y \in Range(r) \cap Range(before[f])
        PROVE  x < y
    <3>1. PICK i \in 1 .. Len(q), j \in 1 .. Len(r) : x = q[i] /\ y = r[j]
      BY <1>1 DEF Range
    <3>2. i < Len(q) + j
      BY <1>1
    <3> QED BY <1>1, <1>2, <2>1, <3>1, <3>2
  <2> QED BY <2>2, <2>3, <2>4
<1>4. ASSUME Ordered(q), Ordered(r),
             \A f \in Executors :
               \A x \in Range(q) \cap Range(before[f]), y \in Range(r) \cap Range(before[f]) : x < y
      PROVE  Ordered(p)
  <2>1. SUFFICES ASSUME NEW f \in Executors, NEW i \in 1 .. Len(p), NEW j \in 1 .. Len(p),
                        i < j, {p[i], p[j]} \subseteq Range(before[f])
                 PROVE  p[i] < p[j]
    BY DEF Ordered
  <2>2. CASE j \in 1 .. Len(q)
    <3>1. i \in 1 .. Len(q)
      BY <2>1, <2>2
    <3> QED BY <1>1, <1>4, <2>1, <2>2, <3>1 DEF Ordered
  <2>3. CASE i - Len(q) \in 1 .. Len(r)
    <3>1. j - Len(q) \in 1 .. Len(r) /\ i - Len(q) < j - Len(q)
      BY <1>1, <2>1, <2>3
    <3>2. p[i] = r[i - Len(q)] /\ p[j] = r[j - Len(q)]
      BY <1>2, <2>3, <3>1
    <3>3. \A k, l \in 1 .. Len(r) :
            k < l /\ {r[k], r[l]} \subseteq Range(before[f]) => r[k] < r[l]
      BY <1>4 DEF Ordered
    <3> QED BY ONLY <2>1, <2>3, <3>1, <3>2, <3>3
  <2>4. CASE i \in 1 .. Len(q) /\ j - Len(q) \in 1 .. Len(r)
    <3>1. p[i] \in Range(q) /\ p[j] \in Range(r)
      BY <1>1, <1>2, <2>4 DEF Range
    <3>2. p[i] \in Range(before[f]) /\ p[j] \in Range(before[f])
      BY ONLY <2>1
    <3> QED BY ONLY <1>4, <3>1, <3>2, f \in Executors
  <2> QED BY <1>2, <2>2, <2>3, <2>4
<1> QED BY <1>3, <1>4 DEF p

\* The queues are in order when the round begins.
LEMMA BeginsOrdered ==
  ASSUME BeginInv, NEW e \in Executors
  PROVE  before[e] \in Seq(Nat) /\ Ordered(before[e]) /\ Was(e) \in Nat
<1>1. before[e] \in Seq(Nat) /\ Was(e) \in Nat
  BY DEF BeginInv, Was
<1> QED BY <1>1 DEF BeginInv, Ordered, Was

\* The functions that are summed.
LEMMA Summed ==
  ASSUME BeginInv
  PROVE  /\ Work \in [Executors -> Nat] /\ Queued \in [Executors -> Nat]
         /\ \A e \in Executors : /\ Queued[e] = Was(e) /\ Was(e) <= Work[e] /\ Was(e) \in Nat
                                 /\ Work[e] = Was(e) + Cardinality(held[e])
  BY BeginsOrdered DEF BeginInv, Work, Queued

-----------------------------------------------------------------------------
(***************************************************************************)
(* What the steps of a round do to the tasks.                              *)
(***************************************************************************)
\* Nothing changes where the round began, nor what is aimed at.
LEMMA BeginStays ==
  ASSUME BeginInv, UNCHANGED <<stpc, epc, before, held>>,
         dpc' \in {"countRunnable", "countWaiting", "average", "scan", "blocking", "give", "supply",
                   "rest", "top"}
  PROVE  /\ BeginInv' /\ Work' = Work /\ Queued' = Queued /\ Aim' = Aim
         /\ \A e \in Executors : Was(e)' = Was(e)
<1>1. \A e \in Executors : Was(e)' = Was(e)
  BY DEF Was
<1>2. BeginInv'
  BY <1>1 DEF BeginInv, Cleared
<1>3. Work' = Work /\ Queued' = Queued
  BY DEF Work, Queued, Was
<1> QED BY <1>1, <1>2, <1>3 DEF Aim

\* A step that moves no task.
LEMMA TasksStay ==
  ASSUME TasksInv, UNCHANGED <<runnableQ, stolen, before>>
  PROVE  TasksInv'
<1>1. Loads' = Loads /\ Queued' = Queued
  BY DEF Loads, Load, Queued, Was
<1>2. Ordered(stolen)' /\ \A e \in Executors : Ordered(runnableQ[e])'
  BY DEF TasksInv, Ordered
<1> QED BY <1>1, <1>2 DEF TasksInv

\* The lengths of the queues, when that of e changes.
LEMMA LoadsChange ==
  ASSUME RoundTypeOK, RoundTypeOK', NEW e \in Executors,
         \A x \in Executors \ {e} : runnableQ'[x] = runnableQ[x]
  PROVE  /\ Loads \in [Executors -> Nat] /\ Loads' \in [Executors -> Nat]
         /\ Total(Loads)' + Len(runnableQ[e]) = Total(Loads) + Len(runnableQ'[e])
<1> DEFINE f == Loads
           g == Loads'
<1>1. /\ f = [x \in Executors |-> Len(runnableQ[x])]
      /\ g = [x \in Executors |-> Len(runnableQ'[x])]
  BY DEF Loads, Load
<1>2. \A x \in Executors : Len(runnableQ[x]) \in Nat /\ Len(runnableQ'[x]) \in Nat
  <2>1. runnableQ \in [Executors -> Seq(Nat)] /\ runnableQ' \in [Executors -> Seq(Nat)]
    BY DEF RoundTypeOK
  <2>2. \A x \in Executors : runnableQ[x] \in Seq(Nat) /\ runnableQ'[x] \in Seq(Nat)
    BY ONLY <2>1
  <2> QED BY ONLY <2>2
<1>3. f \in [Executors -> Nat] /\ g \in [Executors -> Nat] /\ \A x \in Executors \ {e} : g[x] = f[x]
  <2> HIDE DEF f, g
  <2>1. f \in [Executors -> Nat]
    BY ONLY <1>1, <1>2
  <2>2. g \in [Executors -> Nat]
    BY ONLY <1>1, <1>2
  <2>3. \A x \in Executors \ {e} : g[x] = f[x]
    BY ONLY <1>1, \A x \in Executors \ {e} : runnableQ'[x] = runnableQ[x]
  <2> QED BY <2>1, <2>2, <2>3
<1>4. f[e] = Len(runnableQ[e]) /\ g[e] = Len(runnableQ'[e])
  BY <1>1
<1> HIDE DEF f, g
<1>5. Total(g) + f[e] = Total(f) + g[e]
  BY <1>3, SumChanges
<1> QED BY <1>3, <1>4, <1>5 DEF f, g

\* What leaves a queue is collected, or the other way round: the sum stays.
LEMMA SumStays ==
  ASSUME OneRoundInv, RoundTypeOK', before' = before, NEW e \in Executors,
         \A x \in Executors \ {e} : runnableQ'[x] = runnableQ[x],
         Len(runnableQ[e]) + Len(stolen) = Len(runnableQ'[e]) + Len(stolen')
  PROVE  Total(Loads)' + Len(stolen') = Total(Queued)'
<1>1. Total(Loads)' + Len(runnableQ[e]) = Total(Loads) + Len(runnableQ'[e])
  <2>1. RoundTypeOK
    BY DEF OneRoundInv
  <2> QED BY ONLY <2>1, RoundTypeOK', e \in Executors,
                  \A x \in Executors \ {e} : runnableQ'[x] = runnableQ[x], LoadsChange
<1>2. /\ Len(runnableQ[e]) \in Nat /\ Len(runnableQ'[e]) \in Nat
      /\ Len(stolen) \in Nat /\ Len(stolen') \in Nat
      /\ Len(runnableQ[e]) + Len(stolen) = Len(runnableQ'[e]) + Len(stolen')
  <2>1. /\ runnableQ \in [Executors -> Seq(Nat)] /\ runnableQ' \in [Executors -> Seq(Nat)]
        /\ stolen \in Seq(Nat) /\ stolen' \in Seq(Nat)
    BY DEF OneRoundInv, RoundTypeOK
  <2>2. runnableQ[e] \in Seq(Nat) /\ runnableQ'[e] \in Seq(Nat)
    BY ONLY <2>1, e \in Executors
  <2> QED BY <2>1, <2>2
<1>3. Total(Loads) \in Nat /\ Total(Loads)' \in Nat
  BY LoadsChange, TotalIsNat DEF OneRoundInv
<1>4. PICK t \in Nat, u \in Nat : t = Total(Loads) /\ u = Total(Loads)'
  BY <1>3
<1>5. PICK a \in Nat, b \in Nat : a = Len(runnableQ[e]) /\ b = Len(runnableQ'[e])
  BY <1>2
<1>6. u + a = t + b
  BY ONLY <1>1, <1>4, <1>5
<1>7. a + Len(stolen) = b + Len(stolen')
  BY ONLY <1>2, <1>5
<1>8. u + Len(stolen') = t + Len(stolen)
  BY ONLY <1>2, <1>6, <1>7, t \in Nat, u \in Nat, a \in Nat, b \in Nat
<1>9. Total(Queued)' = Total(Queued) /\ Total(Loads) + Len(stolen) = Total(Queued)
  BY DEF OneRoundInv, TasksInv, Queued, Was
<1> QED BY <1>4, <1>8, <1>9

\* An executor is supplied with the first of the tasks that were collected.
LEMMA TasksSupplied ==
  ASSUME OneRoundInv, RoundTypeOK', before' = before, NEW e \in Executors,
         NEW c \in Seq(Nat), NEW r \in Seq(Nat), stolen = c \o r, stolen' = r,
         runnableQ' = [runnableQ EXCEPT ![e] = @ \o c]
  PROVE  TasksInv'
<1>1. /\ runnableQ \in [Executors -> Seq(Nat)] /\ runnableQ[e] \in Seq(Nat)
      /\ runnableQ'[e] = runnableQ[e] \o c
      /\ \A x \in Executors \ {e} : runnableQ'[x] = runnableQ[x]
  BY DEF OneRoundInv, RoundTypeOK
<1>2. /\ Range(stolen) = Range(c) \cup Range(r)
      /\ Range(runnableQ'[e]) = Range(runnableQ[e]) \cup Range(c)
  BY <1>1, JoinQueues
<1>3. (UNION {Range(runnableQ'[x]) : x \in Executors}) \cup Range(stolen')
        = UNION {Range(before'[x]) : x \in Executors}
  <2>1. (UNION {Range(runnableQ'[x]) : x \in Executors}) \cup Range(r)
          = (UNION {Range(runnableQ[x]) : x \in Executors}) \cup Range(stolen)
    BY <1>1, <1>2
  <2> QED BY <2>1 DEF OneRoundInv, TasksInv
<1>4. Total(Loads)' + Len(stolen') = Total(Queued)'
  <2>1. Len(runnableQ[e]) + Len(stolen) = Len(runnableQ'[e]) + Len(stolen')
    BY <1>1
  <2> QED BY <1>1, <2>1, SumStays
<1>5. /\ Ordered(c) /\ Ordered(r) /\ \A x \in Executors : Ordered(runnableQ[x])
      /\ \A f \in Executors :
           \A x \in Range(c) \cap Range(before[f]), y \in Range(r) \cap Range(before[f]) : x < y
      /\ \A x, f \in Executors :
           \A y \in Range(runnableQ[x]) \cap Range(before[f]), z \in Range(stolen) \cap Range(before[f]) :
             y < z
  BY OrderOfBoth DEF OneRoundInv, TasksInv
<1>6. Ordered(runnableQ[e] \o c)
  BY <1>1, <1>2, <1>5, OrderOfBoth
<1>7. Ordered(stolen)' /\ \A x \in Executors : Ordered(runnableQ[x])'
  <2>1. Ordered(r) /\ \A x \in Executors : Ordered(runnableQ'[x])
    BY <1>1, <1>5, <1>6
  <2>2. Ordered(stolen)'
    BY <2>1 DEF Ordered
  <2>3. ASSUME NEW x \in Executors
        PROVE  Ordered(runnableQ[x])'
    BY ONLY <2>1, before' = before DEF Ordered
  <2> QED BY <2>2, <2>3
<1>8. \A x, f \in Executors :
        \A y \in Range(runnableQ'[x]) \cap Range(before'[f]),
           z \in Range(stolen') \cap Range(before'[f]) : y < z
  BY <1>1, <1>2, <1>5
<1> QED BY <1>3, <1>4, <1>7, <1>8 DEF TasksInv

\* An executor that still has what it had gives up the last of its tasks.
LEMMA TasksGiven ==
  ASSUME OneRoundInv, RoundTypeOK', before' = before, NEW e \in Executors,
         \A x \in Executors : Range(runnableQ[x]) \subseteq Range(before[x]),
         NEW p \in Seq(Nat), NEW c \in Seq(Nat), runnableQ[e] = p \o c, before[e] = p \o c,
         stolen' = stolen \o c, runnableQ' = [runnableQ EXCEPT ![e] = p]
  PROVE  TasksInv'
<1>1. /\ runnableQ \in [Executors -> Seq(Nat)] /\ stolen \in Seq(Nat)
      /\ runnableQ'[e] = p /\ \A x \in Executors \ {e} : runnableQ'[x] = runnableQ[x]
  BY DEF OneRoundInv, RoundTypeOK
<1>2. /\ Range(stolen') = Range(stolen) \cup Range(c)
      /\ Range(runnableQ[e]) = Range(p) \cup Range(c) /\ Range(before[e]) = Range(p) \cup Range(c)
  BY <1>1, JoinQueues
<1>3. (UNION {Range(runnableQ'[x]) : x \in Executors}) \cup Range(stolen')
        = UNION {Range(before'[x]) : x \in Executors}
  <2>1. (UNION {Range(runnableQ'[x]) : x \in Executors}) \cup Range(stolen')
          = (UNION {Range(runnableQ[x]) : x \in Executors}) \cup Range(stolen)
    BY <1>1, <1>2
  <2> QED BY <2>1 DEF OneRoundInv, TasksInv
<1>4. Total(Loads)' + Len(stolen') = Total(Queued)'
  <2>1. Len(runnableQ[e]) + Len(stolen) = Len(runnableQ'[e]) + Len(stolen')
    BY <1>1
  <2> QED BY <1>1, <2>1, SumStays
<1>5. /\ \A x, f \in Executors : x # f => Range(before[x]) \cap Range(before[f]) = {}
      /\ Ordered(stolen) /\ \A x \in Executors : Ordered(runnableQ[x])
      /\ \A x, f \in Executors :
           \A y \in Range(runnableQ[x]) \cap Range(before[f]), z \in Range(stolen) \cap Range(before[f]) :
             y < z
  BY DEF OneRoundInv, BeginInv, TasksInv
<1>6. /\ Ordered(p) /\ Ordered(c)
      /\ \A f \in Executors :
           \A x \in Range(p) \cap Range(before[f]), y \in Range(c) \cap Range(before[f]) : x < y
  <2>0. Ordered(runnableQ[e])
    BY <1>5
  <2>1. Ordered(p \o c)
    BY ONLY <2>0, runnableQ[e] = p \o c, Zenon
  <2> QED BY <2>1, OrderOfBoth
<1>7. \A f \in Executors : \A x \in Range(c) \cap Range(before[f]) : f = e
  BY <1>2, <1>5
\* None of its tasks has been collected.
<1>8. Range(stolen) \cap Range(before[e]) = {}
  <2>1. SUFFICES ASSUME NEW x \in Range(stolen) \cap Range(before[e])
                 PROVE  FALSE
    OBVIOUS
  <2>2. x \in Range(runnableQ[e]) /\ x \in Nat
    <3>1. Range(stolen) \subseteq Nat
      BY <1>1, TasksAreNumbers
    <3> QED BY <1>2, <2>1, <3>1
  <2>3. x < x
    BY <1>5, <2>1, <2>2
  <2> QED BY <2>2, <2>3
<1>9. Ordered(stolen \o c)
  BY <1>1, <1>5, <1>6, <1>7, <1>8, OrderOfBoth
<1>10. Ordered(stolen)' /\ \A x \in Executors : Ordered(runnableQ[x])'
  <2>1. Ordered(stolen \o c) /\ \A x \in Executors : Ordered(runnableQ'[x])
    BY <1>1, <1>5, <1>6, <1>9
  <2>2. Ordered(stolen)'
    BY <2>1 DEF Ordered
  <2>3. ASSUME NEW x \in Executors
        PROVE  Ordered(runnableQ[x])'
    BY ONLY <2>1, before' = before DEF Ordered
  <2> QED BY <2>2, <2>3
<1>11. ASSUME NEW x \in Executors, NEW f \in Executors,
              NEW y \in Range(runnableQ'[x]) \cap Range(before'[f]),
              NEW z \in Range(stolen') \cap Range(before'[f])
       PROVE  y < z
  <2>1. y \in Range(runnableQ[x])
    BY <1>1, <1>2, <1>11
  <2>2. CASE z \in Range(stolen)
    BY <1>5, <1>11, <2>1, <2>2
  <2>3. CASE z \in Range(c)
    <3>1. f = e
      BY <1>7, <1>11, <2>3
    <3>2. y \in Range(before[x])
      BY <2>1
    <3>3. x = e
      BY <1>5, <1>11, <3>1, <3>2
    <3> QED BY <1>1, <1>6, <1>11, <2>3, <3>1, <3>3
  <2> QED BY <1>2, <1>11, <2>2, <2>3
<1> QED BY <1>3, <1>4, <1>10, <1>11 DEF TasksInv

-----------------------------------------------------------------------------
(***************************************************************************)
(* The places of a round.                                                  *)
(***************************************************************************)
\* The index after idx, or the end of a loop over the executors.
LEMMA NextOrEnd ==
  ASSUME NEW i \in Executors
  PROVE  /\ NextIndex(i) \in Executors /\ 0 \in Executors /\ N \in Nat /\ i \in Nat /\ i < N
         /\ IF i + 1 < N THEN NextIndex(i) = i + 1 ELSE NextIndex(i) = 0 /\ i + 1 = N
<1>1. N \in Nat /\ N > 0 /\ i \in Nat /\ i < N
  BY SchedulerAssumption DEF Executors
<1>2. CASE i + 1 < N
  <2>1. (i + 1) % N = i + 1
    BY <1>1, <1>2
  <2> QED BY <1>1, <1>2, <2>1 DEF NextIndex, Executors
<1>3. CASE i + 1 = N
  <2>1. N % N = 0
    BY <1>1
  <2> QED BY <1>1, <1>3, <2>1 DEF NextIndex, Executors
<1> QED BY <1>1, <1>2, <1>3

\* The first loop.
LEMMA CountRunnableStep ==
  ASSUME OneRoundInv, CountRunnable, before' = before
  PROVE  OneRoundInv'
<1>1. /\ UNCHANGED <<stpc, epc, held>> /\ dpc = "countRunnable" /\ dpc' = "countWaiting"
      /\ totalLoads' = totalLoads + Len(runnableQ[idx])
      /\ UNCHANGED <<runnableQ, idx, avgLoad, minLoad, minLoadIdx, load, low, stolen>>
  BY DEF CountRunnable, Dispatching, exVars, stopVars, GetRunnableCount
<1>2. /\ BeginInv' /\ Work' = Work /\ Aim' = Aim /\ \A e \in Executors : Was(e)' = Was(e)
  BY <1>1, BeginStays DEF OneRoundInv
<1>3. TasksInv'
  BY <1>1, TasksStay DEF OneRoundInv
<1>4. idx \in Executors /\ Len(runnableQ[idx]) \in Nat
  BY DEF OneRoundInv, RoundTypeOK
<1>5. RoundTypeOK'
  BY <1>1, <1>4 DEF OneRoundInv, RoundTypeOK
<1>6. CountInv'
  <2>1. runnableQ = before /\ totalLoads = SumTo(Work)[idx]
    BY <1>1 DEF OneRoundInv, CountInv, Counting
  <2>2. totalLoads' = SumTo(Work)[idx] + Was(idx)
    BY <1>1, <1>4, <2>1 DEF Was
  <2>3. totalLoads' = SumTo(Work')[idx'] + Len(before'[idx'])
    BY <1>1, <1>2, <2>2 DEF Was
  <2> QED BY <1>1, <2>3 DEF OneRoundInv, CountInv, Counting, Was
<1>7. ScanInv' /\ SupplyInv'
  BY <1>1 DEF ScanInv, SupplyInv
<1> QED BY <1>2, <1>3, <1>5, <1>6, <1>7 DEF OneRoundInv

LEMMA CountWaitingStep ==
  ASSUME OneRoundInv, CountWaiting, before' = before
  PROVE  OneRoundInv'
<1>1. /\ UNCHANGED <<stpc, epc, held>> /\ dpc = "countWaiting"
      /\ dpc' = IF idx + 1 < N THEN "countRunnable" ELSE "average"
      /\ totalLoads' = totalLoads + Cardinality(held[idx]) /\ idx' = NextIndex(idx)
      /\ UNCHANGED <<runnableQ, avgLoad, minLoad, minLoadIdx, load, low, stolen>>
  BY DEF CountWaiting, Dispatching, exVars, stopVars, GetWaitingCount
<1>2. /\ BeginInv' /\ Work' = Work /\ Aim' = Aim /\ \A e \in Executors : Was(e)' = Was(e)
  BY <1>1, BeginStays DEF OneRoundInv
<1>3. TasksInv'
  BY <1>1, TasksStay DEF OneRoundInv
<1>4. idx \in Executors /\ Cardinality(held[idx]) \in Nat
  BY DEF OneRoundInv, RoundTypeOK, BeginInv
<1>5. /\ idx' \in Executors /\ N \in Nat /\ idx \in Nat
      /\ IF idx + 1 < N THEN idx' = idx + 1 ELSE idx' = 0 /\ idx + 1 = N
  BY <1>1, <1>4, NextOrEnd
<1>6. RoundTypeOK'
  BY <1>1, <1>4, <1>5 DEF OneRoundInv, RoundTypeOK
<1>7. CountInv'
  <2>1. totalLoads = SumTo(Work)[idx] + Was(idx)
    BY <1>1 DEF OneRoundInv, CountInv, Counting
  <2>2. /\ Work \in [Executors -> Nat]
        /\ Work[idx] = Was(idx) + Cardinality(held[idx]) /\ Was(idx) \in Nat
    BY <1>4, Summed DEF OneRoundInv
  <2>3. SumTo(Work)[idx + 1] = SumTo(Work)[idx] + Work[idx] /\ SumTo(Work)[idx] \in Nat
    <3>1. idx \in 0 .. N
      BY <1>4, <1>5 DEF Executors
    <3> QED BY <1>4, <2>2, <3>1, SumIsRecursive
  <2>4. totalLoads' = SumTo(Work')[idx + 1]
    BY <1>1, <1>2, <1>4, <2>1, <2>2, <2>3
  <2>5. CASE idx + 1 < N
    BY <1>1, <1>2, <1>5, <2>4, <2>5 DEF OneRoundInv, CountInv, Counting
  <2>6. CASE idx + 1 = N
    <3>1. totalLoads' = Total(Work')
      BY <2>4, <2>6 DEF Total
    <3> QED BY <1>1, <1>5, <2>6, <3>1 DEF OneRoundInv, CountInv, Counting
  <2> QED BY <1>5, <2>5, <2>6
<1>8. ScanInv' /\ SupplyInv'
  BY <1>1 DEF ScanInv, SupplyInv
<1> QED BY <1>2, <1>3, <1>6, <1>7, <1>8 DEF OneRoundInv

\* The average, or the end if there is nothing to do.
LEMMA AverageStep ==
  ASSUME OneRoundInv, Average, before' = before
  PROVE  OneRoundInv'
<1>1. /\ UNCHANGED <<stpc, epc, held>> /\ dpc = "average" /\ dpc' \in {"top", "scan"}
      /\ dpc' = "top" => totalLoads = 0 /\ avgLoad' = avgLoad /\ minLoad' = minLoad
      /\ dpc' = "scan" => avgLoad' = totalLoads \div N /\ minLoad' = Len(runnableQ[0])
      /\ UNCHANGED <<runnableQ, idx, totalLoads, minLoadIdx, load, low, stolen, epc>>
  BY DEF Average, Dispatching, exVars, stopVars, GetRunnableCount
<1>2. /\ BeginInv' /\ Work' = Work /\ Aim' = Aim /\ \A e \in Executors : Was(e)' = Was(e)
  BY <1>1, BeginStays DEF OneRoundInv
<1>3. TasksInv'
  BY <1>1, TasksStay DEF OneRoundInv
<1>4. /\ runnableQ = before /\ stolen = <<>> /\ low = [e \in Executors |-> -1]
      /\ minLoadIdx = 0 /\ avgLoad = 0 /\ totalLoads = Total(Work) /\ idx = 0
  BY <1>1 DEF OneRoundInv, CountInv, Counting
<1>5. 0 \in Executors /\ totalLoads \div N \in Nat /\ \A e \in Executors : Len(runnableQ[e]) \in Nat
  <2>1. totalLoads \in Nat /\ \A e \in Executors : Len(runnableQ[e]) \in Nat
    BY DEF OneRoundInv, RoundTypeOK
  <2> QED BY <1>4, <2>1, Averages DEF OneRoundInv, RoundTypeOK
<1>6. RoundTypeOK'
  <2>1. avgLoad' \in Nat /\ minLoad' \in Nat
    BY <1>1, <1>5 DEF OneRoundInv, RoundTypeOK
  <2> QED BY <1>1, <2>1 DEF OneRoundInv, RoundTypeOK
<1>7. Aim = totalLoads \div N
  BY <1>4 DEF Aim
<1>8. CASE dpc' = "scan"
  <2>1. CountInv'
    BY <1>1, <1>2, <1>7, <1>8 DEF CountInv, Counting
  <2>2. \A e \in Executors : ~(e < idx)
    BY <1>4 DEF Executors
  <2>3. ScanInv'
    BY <1>1, <1>4, <1>5, <1>8, <2>2 DEF ScanInv, Was
  <2>4. SupplyInv'
    BY <1>8 DEF SupplyInv
  <2> QED BY <1>2, <1>3, <1>6, <2>1, <2>3, <2>4 DEF OneRoundInv
<1>9. CASE dpc' = "top"
  <2>1. totalLoads = 0 /\ avgLoad' = 0
    BY <1>1, <1>4, <1>9
  <2>2. 0 \div N = 0
    BY SchedulerAssumption
  <2>3. CountInv'
    BY <1>1, <1>2, <1>7, <1>9, <2>1, <2>2 DEF CountInv, Counting
  <2>4. ASSUME NEW e \in Executors
        PROVE  Was(e) = 0
    <3>1. Work \in [Executors -> Nat] /\ Was(e) <= Work[e] /\ Was(e) \in Nat
      BY Summed DEF OneRoundInv
    <3>2. Work[e] <= 0
      BY <1>4, <2>1, <3>1, SummandIsLess
    <3> QED BY <3>1, <3>2
  <2>5. SupplyInv'
    <3>1. ASSUME NEW e \in Executors
          PROVE  /\ Was(e)' = 0 /\ Len(runnableQ'[e]) = 0
                 /\ Seqs!IsPrefix(before'[e], runnableQ'[e])
      <4>1. before[e] \in Seq(Nat)
        BY BeginsOrdered DEF OneRoundInv
      <4> QED BY <1>1, <1>2, <1>4, <2>4, <4>1, PrefixOfItself DEF Was
    <3>2. minLoadIdx' \in Executors
      BY <1>1, <1>4, <1>5
    <3> QED BY <1>1, <1>4, <1>9, <2>1, <3>1, <3>2 DEF SupplyInv, Load
  <2>6. ScanInv'
    BY <1>9 DEF ScanInv
  <2> QED BY <1>2, <1>3, <1>6, <2>3, <2>5, <2>6 DEF OneRoundInv
<1> QED BY <1>1, <1>8, <1>9

\* The second loop reads a load.
LEMMA ScanStep ==
  ASSUME OneRoundInv, Scan, before' = before
  PROVE  OneRoundInv'
<1> DEFINE l == Was(idx)
<1>1. /\ idx \in Executors /\ minLoadIdx \in Executors /\ minLoad \in Nat /\ avgLoad \in Nat
      /\ low \in [Executors -> Nat \cup {-1}] /\ stolen \in Seq(Nat)
      /\ \A e \in Executors : Was(e) \in Nat /\ before[e] \in Seq(Nat)
  BY BeginsOrdered DEF OneRoundInv, RoundTypeOK
<1>2. dpc = "scan" /\ UNCHANGED <<stpc, epc, held>>
  BY DEF Scan, Dispatching, exVars, stopVars, OneRoundInv, BeginInv
<1>3. /\ \A e \in Executors :
           IF e < idx /\ Was(e) > avgLoad THEN low[e] = -1 /\ Gave(e)
           ELSE runnableQ[e] = before[e] /\ low[e] = IF e < idx THEN Was(e) ELSE -1
      /\ minLoad = Was(minLoadIdx) /\ \A e \in Executors : e < idx => minLoad <= Was(e)
      /\ stolen = <<>> => \A e \in Executors : e < idx => Was(e) <= avgLoad
  BY <1>2 DEF OneRoundInv, ScanInv
<1>4. runnableQ[idx] = before[idx] /\ low[idx] = -1 /\ Len(runnableQ[idx]) = l
  BY <1>1, <1>3 DEF Was, Executors
<1>5. /\ load' = l
      /\ IF l < minLoad THEN minLoad' = l /\ minLoadIdx' = idx
         ELSE minLoad' = minLoad /\ minLoadIdx' = minLoadIdx
      /\ \/ l > avgLoad /\ dpc' = "blocking" /\ low' = low /\ idx' = idx
         \/ /\ ~(l > avgLoad) /\ dpc' = AfterScan(stolen)
            /\ low' = [low EXCEPT ![idx] = l] /\ idx' = NextIndex(idx)
      /\ UNCHANGED <<runnableQ, totalLoads, avgLoad, takeAll, stolen>>
  BY <1>4 DEF Scan, GetRunnableCount, Overloaded
<1>6. /\ idx \in Nat /\ N \in Nat /\ idx < N /\ \A e \in Executors : e \in Nat /\ e < N
      /\ NextIndex(idx) \in Executors
      /\ IF idx + 1 < N THEN NextIndex(idx) = idx + 1 ELSE NextIndex(idx) = 0 /\ idx + 1 = N
  BY <1>1, NextOrEnd
<1>7. /\ dpc' \in {"blocking", "scan", "supply", "top"}
      /\ BeginInv' /\ Work' = Work /\ Aim' = Aim /\ \A e \in Executors : Was(e)' = Was(e)
  <2>1. dpc' \in {"blocking", "scan", "supply", "top"}
    BY <1>5 DEF AfterScan
  <2> QED BY <1>2, <2>1, BeginStays DEF OneRoundInv
<1>8. TasksInv'
  BY <1>5, TasksStay DEF OneRoundInv
<1>9. \A e \in Executors : Gave(e)' <=> Gave(e)
  BY <1>2, <1>5 DEF Gave, Load
<1>10. /\ minLoad' \in Nat /\ minLoadIdx' \in Executors /\ minLoad' = Was(minLoadIdx')
       /\ \A e \in Executors : e <= idx => minLoad' <= Was(e)
  <2>1. l \in Nat
    BY <1>1
  <2>2. minLoad = Was(minLoadIdx) /\ \A e \in Executors : e < idx => minLoad <= Was(e)
    BY <1>3
  <2>3. IF l < minLoad THEN minLoad' = l /\ minLoadIdx' = idx
        ELSE minLoad' = minLoad /\ minLoadIdx' = minLoadIdx
    BY <1>5
  <2>4. \A e \in Executors : e <= idx => e < idx \/ e = idx
    BY <1>6
  <2>5. minLoad' \in Nat /\ minLoad' <= minLoad /\ minLoad' <= l
    BY <1>1, <2>1, <2>3
  <2>6. minLoadIdx' \in Executors /\ minLoad' = Was(minLoadIdx')
    BY <1>1, <2>2, <2>3
  <2>7. ASSUME NEW e \in Executors, e <= idx
        PROVE  minLoad' <= Was(e)
    <3>1. CASE e = idx
      BY <2>5, <3>1
    <3>2. CASE e < idx
      <4>1. minLoad <= Was(e) /\ Was(e) \in Nat
        BY <1>1, <2>2, <3>2
      <4> HIDE DEF l
      <4> QED BY <1>1, <2>5, <4>1
    <3> QED BY <2>4, <2>7, <3>1, <3>2
  <2> QED BY <2>5, <2>6, <2>7
<1>11. RoundTypeOK'
  BY <1>1, <1>5, <1>6, <1>10 DEF OneRoundInv, RoundTypeOK
<1>12. CountInv'
  BY <1>2, <1>5, <1>7 DEF OneRoundInv, CountInv, Counting
\* It has to give some tasks up.
<1>13. CASE l > avgLoad /\ dpc' = "blocking" /\ low' = low /\ idx' = idx
  <2>1. ScanInv'
    <3>1. \A e \in Executors :
            IF e < idx /\ Was(e) > avgLoad THEN low'[e] = -1 /\ Gave(e)'
            ELSE runnableQ'[e] = before'[e] /\ low'[e] = IF e < idx THEN Was(e) ELSE -1
      BY <1>3, <1>5, <1>9, <1>13
    <3>2. minLoad' <= l /\ \A e \in Executors : e < idx => minLoad' <= Was(e)
      BY <1>1, <1>6, <1>10
    <3> QED BY <1>3, <1>5, <1>7, <1>10, <1>13, <3>1, <3>2 DEF ScanInv, Was
  <2>2. SupplyInv'
    BY <1>13 DEF SupplyInv
  <2> QED BY <1>7, <1>8, <1>11, <1>12, <2>1, <2>2 DEF OneRoundInv
\* It is one that can be supplied, and the next one is looked at, if there is one.
<1>14. CASE /\ l <= avgLoad /\ dpc' = AfterScan(stolen)
            /\ low' = [low EXCEPT ![idx] = l] /\ idx' = NextIndex(idx)
  <2>1. \A e \in Executors :
          IF e <= idx /\ Was(e) > avgLoad THEN low'[e] = -1 /\ Gave(e)
          ELSE runnableQ'[e] = before[e] /\ low'[e] = IF e <= idx THEN Was(e) ELSE -1
    <3>1. SUFFICES ASSUME NEW e \in Executors
                   PROVE  IF e <= idx /\ Was(e) > avgLoad THEN low'[e] = -1 /\ Gave(e)
                          ELSE runnableQ'[e] = before[e] /\ low'[e] = IF e <= idx THEN Was(e) ELSE -1
      OBVIOUS
    <3>2. CASE e = idx
      <4>1. low'[idx] = Was(idx) /\ Was(idx) <= avgLoad /\ idx <= idx /\ ~(Was(idx) > avgLoad)
        BY <1>1, <1>6, <1>14
      <4> QED BY <1>4, <1>5, <3>2, <4>1
    <3>3. CASE e # idx
      <4>1. low'[e] = low[e] /\ runnableQ'[e] = runnableQ[e] /\ (e <= idx <=> e < idx)
        BY <1>1, <1>5, <1>6, <1>14, <3>3
      <4> QED BY <1>3, <4>1
    <3> QED BY <3>2, <3>3
  <2>2. stolen = <<>> => \A e \in Executors : e <= idx => Was(e) <= avgLoad
    BY <1>1, <1>3, <1>6, <1>14
  <2>3. CASE idx + 1 < N
    <3>1. dpc' = "scan" /\ idx' = idx + 1 /\ \A e \in Executors : e < idx' <=> e <= idx
      BY <1>6, <1>14, <2>3 DEF AfterScan
    <3>2. ScanInv'
      <4>1. \A e \in Executors :
              IF e < idx' /\ Was(e)' > avgLoad' THEN low'[e] = -1 /\ Gave(e)'
              ELSE runnableQ'[e] = before'[e] /\ low'[e] = IF e < idx' THEN Was(e)' ELSE -1
        BY <1>5, <1>7, <1>9, <2>1, <3>1
      <4>2. /\ minLoad' = Was(minLoadIdx)'
            /\ \A e \in Executors : e < idx' => minLoad' <= Was(e)'
        BY <1>7, <1>10, <3>1 DEF Was
      <4>3. stolen' = <<>> => \A e \in Executors : e < idx' => Was(e)' <= avgLoad'
        BY <1>5, <1>7, <2>2, <3>1
      <4> QED BY <3>1, <4>1, <4>2, <4>3 DEF ScanInv
    <3>3. SupplyInv'
      BY <3>1 DEF SupplyInv
    <3> QED BY <1>7, <1>8, <1>11, <1>12, <3>2, <3>3 DEF OneRoundInv
  <2>4. CASE idx + 1 = N
    <3>1. /\ dpc' = IF stolen = <<>> THEN "top" ELSE "supply"
          /\ idx' = 0 /\ \A e \in Executors : e <= idx /\ ~(e < idx')
      BY <1>6, <1>14, <2>4 DEF AfterScan
    <3>2. ScanInv'
      BY <3>1 DEF ScanInv
    <3>3. ASSUME NEW e \in Executors
          PROVE  /\ Was(minLoadIdx)' <= Was(e)'
                 /\ IF Was(e)' > avgLoad' THEN Gave(e)' /\ low'[e] = -1
                    ELSE runnableQ'[e] = before'[e] /\ low'[e] = Was(e)'
                         /\ Seqs!IsPrefix(before'[e], runnableQ'[e])
      <4>1. Was(minLoadIdx)' <= Was(e)'
        BY <1>7, <1>10, <3>1 DEF Was
      <4>2. IF Was(e)' > avgLoad' THEN Gave(e)' /\ low'[e] = -1
            ELSE runnableQ'[e] = before'[e] /\ low'[e] = Was(e)'
        BY <1>5, <1>7, <1>9, <2>1, <3>1
      <4> QED BY <1>1, <4>1, <4>2, PrefixOfItself
    <3>4. stolen = <<>> => \A e \in Executors : Load(e)' <= avgLoad'
      <4>1. SUFFICES ASSUME stolen = <<>>, NEW e \in Executors
                     PROVE  Load(e)' <= avgLoad'
        OBVIOUS
      <4>2. Was(e)' <= avgLoad' /\ Was(e)' \in Nat
        BY <1>1, <1>5, <1>7, <2>2, <3>1, <4>1
      <4>3. runnableQ'[e] = before'[e]
        BY <1>1, <1>5, <1>7, <2>1, <2>2, <3>1, <4>1
      <4> QED BY <4>2, <4>3 DEF Load, Was
    <3>5. SupplyInv'
      <4>1. CASE dpc' = "supply"
        <5>1. \A e \in Executors : Was(e)' <= avgLoad' => runnableQ'[e] = before'[e]
          BY <1>1, <1>5, <1>7, <3>3
        <5> QED BY <3>1, <3>3, <4>1, <5>1 DEF SupplyInv
      <4>2. CASE dpc' = "top"
        <5>1. stolen' = <<>> /\ \A e \in Executors : Load(e)' <= avgLoad'
          BY <1>5, <3>1, <3>4, <4>2
        <5> QED BY <3>3, <4>2, <5>1 DEF SupplyInv
      <4> QED BY <3>1, <4>1, <4>2
    <3> QED BY <1>7, <1>8, <1>11, <1>12, <3>2, <3>5 DEF OneRoundInv
  <2> QED BY <1>6, <2>3, <2>4
<1> QED BY <1>1, <1>5, <1>13, <1>14

\* Whether an overloaded executor blocks.
LEMMA IsBlockingStep ==
  ASSUME OneRoundInv, IsBlocking, before' = before
  PROVE  OneRoundInv'
<1>1. /\ dpc = "blocking" /\ dpc' = "give" /\ UNCHANGED <<stpc, epc, held>>
      /\ takeAll' => epc[idx] = "run"
      /\ UNCHANGED <<runnableQ, idx, totalLoads, avgLoad, minLoad, minLoadIdx, load, low, stolen>>
  BY DEF IsBlocking, Dispatching, exVars, stopVars
<1>2. /\ BeginInv' /\ Aim' = Aim /\ \A e \in Executors : Was(e)' = Was(e)
  BY <1>1, BeginStays DEF OneRoundInv
<1>3. TasksInv'
  BY <1>1, TasksStay DEF OneRoundInv
<1>4. RoundTypeOK' /\ CountInv' /\ SupplyInv'
  BY <1>1, <1>2 DEF OneRoundInv, RoundTypeOK, CountInv, Counting, SupplyInv
<1>5. ScanInv'
  <2>1. \A e \in Executors : Gave(e)' <=> Gave(e)
    BY <1>1 DEF Gave, Load
  <2>2. Was(minLoadIdx)' = Was(minLoadIdx) /\ Was(idx)' = Was(idx)
    BY <1>1 DEF Was
  <2> QED BY <1>1, <1>2, <2>1, <2>2 DEF OneRoundInv, ScanInv
<1> QED BY <1>2, <1>3, <1>4, <1>5 DEF OneRoundInv

\* The overloaded executor gives up what is above the average, or all it has.
LEMMA GiveUpStep ==
  ASSUME OneRoundInv, GiveUpTasks, before' = before
  PROVE  OneRoundInv'
<1>1. /\ idx \in Executors /\ minLoadIdx \in Executors /\ avgLoad \in Nat /\ load \in Nat
      /\ runnableQ \in [Executors -> Seq(Nat)] /\ stolen \in Seq(Nat)
      /\ \A e \in Executors : Was(e) \in Nat /\ before[e] \in Seq(Nat)
  BY BeginsOrdered DEF OneRoundInv, RoundTypeOK
<1>2. dpc = "give" /\ UNCHANGED <<stpc, epc, held>>
  BY DEF GiveUpTasks, Dispatching, exVars, stopVars, OneRoundInv, BeginInv
<1>3. /\ \A e \in Executors :
           IF e < idx /\ Was(e) > avgLoad THEN low[e] = -1 /\ Gave(e)
           ELSE runnableQ[e] = before[e] /\ low[e] = IF e < idx THEN Was(e) ELSE -1
      /\ minLoad = Was(minLoadIdx) /\ \A e \in Executors : e < idx => minLoad <= Was(e)
      /\ load = Was(idx) /\ load > avgLoad /\ minLoad <= load
      /\ takeAll => epc[idx] = "run"
  BY <1>2 DEF OneRoundInv, ScanInv
<1>4. /\ idx \in Nat /\ N \in Nat /\ idx < N /\ \A e \in Executors : e \in Nat /\ e < N
      /\ NextIndex(idx) \in Executors
      /\ IF idx + 1 < N THEN NextIndex(idx) = idx + 1 ELSE NextIndex(idx) = 0 /\ idx + 1 = N
  BY <1>1, NextOrEnd
<1> DEFINE q == before[idx]
           n == IF takeAll THEN 0 ELSE load - avgLoad
           k == IF takeAll THEN 0 ELSE avgLoad
           p == SubSeq(q, 1, k)
           c == SubSeq(q, k + 1, Len(q))
<1>5. runnableQ[idx] = q /\ Len(q) = load /\ low[idx] = -1
  BY <1>1, <1>3, <1>4 DEF Was
<1>6. GivenUp(q, n) = <<p, c>>
  <2>1. (IF n = 0 \/ n > Len(q) THEN Len(q) ELSE n) = Len(q) - k
    BY <1>1, <1>3, <1>5
  <2>2. Len(q) - (Len(q) - k) = k
    BY <1>1, <1>5
  <2> HIDE DEF n, k
  <2> QED BY <2>1, <2>2 DEF GivenUp
<1>7. k \in 0 .. Len(q) /\ k < Len(q) /\ k <= avgLoad /\ (k = avgLoad \/ takeAll)
  BY <1>1, <1>3, <1>5
<1>8. /\ p \in Seq(Nat) /\ c \in Seq(Nat) /\ q = p \o c
  <2> HIDE DEF k
  <2> QED BY <1>1, <1>7, CutQueue
<1>9. /\ runnableQ' = [runnableQ EXCEPT ![idx] = p] /\ stolen' = stolen \o c
      /\ dpc' = AfterScan(stolen') /\ idx' = NextIndex(idx)
      /\ UNCHANGED <<totalLoads, avgLoad, minLoad, minLoadIdx, load, takeAll, low>>
  <2>1. GivenUp(runnableQ[idx], IF takeAll THEN 0 ELSE load - avgLoad) = <<p, c>>
    BY <1>5, <1>6
  <2> HIDE DEF n, k, p, c
  <2>2. PICK given : /\ given = GivenUp(runnableQ[idx], IF takeAll THEN 0 ELSE load - avgLoad)
                     /\ runnableQ' = [runnableQ EXCEPT ![idx] = given[1]]
                     /\ stolen' = stolen \o given[2]
    BY DEF GiveUpTasks, Given
  <2>3. given[1] = p /\ given[2] = c
    BY <2>1, <2>2
  <2>4. /\ dpc' = AfterScan(stolen') /\ idx' = NextIndex(idx)
        /\ UNCHANGED <<totalLoads, avgLoad, minLoad, minLoadIdx, load, takeAll, low>>
    BY DEF GiveUpTasks, readings
  <2> QED BY <2>2, <2>3, <2>4
<1>10. Len(p) = k /\ Len(c) > 0
  <2> HIDE DEF k
  <2>1. Len(p) = k
    BY <1>1, <1>7
  <2>2. Len(c) = Len(q) - k
    BY <1>1, <1>7
  <2> QED BY <1>1, <1>5, <1>7, <2>1, <2>2
<1> HIDE DEF n, k, p, c
<1>11. stolen' \in Seq(Nat) /\ stolen' # <<>>
  <2>1. Len(stolen') = Len(stolen) + Len(c) /\ Len(stolen) \in Nat /\ Len(c) \in Nat
    BY <1>1, <1>8, <1>9
  <2>2. Len(stolen') # 0 /\ stolen' \in Seq(Nat)
    BY <1>1, <1>8, <1>9, <1>10, <2>1
  <2> QED BY <2>2
<1>12. /\ dpc' \in {"scan", "supply"}
       /\ BeginInv' /\ Aim' = Aim /\ \A e \in Executors : Was(e)' = Was(e)
  <2>1. dpc' \in {"scan", "supply"}
    BY <1>9, <1>11 DEF AfterScan
  <2> QED BY <1>2, <2>1, BeginStays DEF OneRoundInv
<1>13. RoundTypeOK'
  BY <1>1, <1>4, <1>8, <1>9, <1>11 DEF OneRoundInv, RoundTypeOK
<1>14. \A e \in Executors : Gave(e) => Range(runnableQ[e]) \subseteq Range(before[e])
  BY <1>1, PrefixFacts DEF Gave
<1>15. TasksInv'
  <2>1. \A e \in Executors : Range(runnableQ[e]) \subseteq Range(before[e])
    BY <1>3, <1>14
  <2> QED BY <1>1, <1>5, <1>8, <1>9, <1>13, <2>1, TasksGiven
<1>16. CountInv'
  BY <1>2, <1>9, <1>12 DEF OneRoundInv, CountInv, Counting
\* It keeps its oldest tasks, no more than the average of them.
<1>17. ASSUME NEW e \in Executors
       PROVE  IF e <= idx /\ Was(e) > avgLoad THEN low'[e] = -1 /\ Gave(e)'
              ELSE runnableQ'[e] = before[e] /\ low'[e] = IF e <= idx THEN Was(e) ELSE -1
  <2>1. CASE e = idx
    <3>1. runnableQ'[e] = p /\ e <= idx /\ Was(e) > avgLoad /\ low'[e] = -1
      BY <1>1, <1>3, <1>4, <1>5, <1>9, <2>1
    <3>2. Seqs!IsPrefix(p, q)
      BY <1>8, PrefixFacts, PrefixOfItself
    <3>3. Gave(e)'
      BY <1>2, <1>3, <1>7, <1>9, <1>10, <2>1, <3>1, <3>2 DEF Gave, Load
    <3> QED BY <3>1, <3>3
  <2>2. CASE e # idx
    <3>1. low'[e] = low[e] /\ runnableQ'[e] = runnableQ[e] /\ (e <= idx <=> e < idx)
      BY <1>1, <1>4, <1>9, <2>2
    <3>2. Gave(e)' <=> Gave(e)
      BY <1>2, <1>9, <3>1 DEF Gave, Load
    <3> QED BY <1>3, <3>1, <3>2
  <2> QED BY <2>1, <2>2
<1>18. CASE idx + 1 < N
  <2>1. dpc' = "scan" /\ idx' = idx + 1 /\ \A e \in Executors : e < idx' <=> e <= idx
    BY <1>4, <1>9, <1>18 DEF AfterScan
  <2>2. \A e \in Executors :
          IF e < idx' /\ Was(e)' > avgLoad' THEN low'[e] = -1 /\ Gave(e)'
          ELSE runnableQ'[e] = before'[e] /\ low'[e] = IF e < idx' THEN Was(e)' ELSE -1
    BY <1>9, <1>12, <1>17, <2>1
  <2>3. /\ minLoad' = Was(minLoadIdx)'
        /\ \A e \in Executors : e < idx' => minLoad' <= Was(e)'
    BY <1>3, <1>4, <1>9, <1>12, <2>1 DEF Was
  <2>4. ScanInv' /\ SupplyInv'
    BY <1>11, <2>1, <2>2, <2>3 DEF ScanInv, SupplyInv
  <2> QED BY <1>12, <1>13, <1>15, <1>16, <2>4 DEF OneRoundInv
<1>19. CASE idx + 1 = N
  <2>1. dpc' = "supply" /\ idx' = 0 /\ \A e \in Executors : e <= idx /\ ~(e < idx')
    BY <1>4, <1>9, <1>11, <1>19 DEF AfterScan
  <2>2. ASSUME NEW e \in Executors
        PROVE  /\ Was(minLoadIdx)' <= Was(e)'
               /\ IF Was(e)' > avgLoad' THEN Gave(e)' /\ low'[e] = -1
                  ELSE runnableQ'[e] = before'[e] /\ low'[e] = Was(e)'
                       /\ Seqs!IsPrefix(before'[e], runnableQ'[e])
    <3>1. Was(minLoadIdx)' <= Was(e)'
      <4>1. minLoad <= Was(e)
        BY <1>1, <1>3, <1>4, <2>1
      <4> QED BY <1>3, <1>9, <1>12, <4>1 DEF Was
    <3>2. IF Was(e)' > avgLoad' THEN Gave(e)' /\ low'[e] = -1
          ELSE runnableQ'[e] = before'[e] /\ low'[e] = Was(e)'
      BY <1>9, <1>12, <1>17, <2>1
    <3> QED BY <1>1, <3>1, <3>2, PrefixOfItself
  <2>3. \A e \in Executors : Was(e)' <= avgLoad' => runnableQ'[e] = before'[e]
    BY <1>1, <1>9, <1>12, <2>2
  <2>4. ScanInv' /\ SupplyInv'
    BY <2>1, <2>2, <2>3 DEF ScanInv, SupplyInv
  <2> QED BY <1>12, <1>13, <1>15, <1>16, <2>4 DEF OneRoundInv
<1> QED BY <1>4, <1>18, <1>19

\* The third loop: an executor gets what it lacks, or what is left.
LEMMA SupplyStep ==
  ASSUME OneRoundInv, Supply, before' = before
  PROVE  OneRoundInv'
<1>1. /\ idx \in Executors /\ minLoadIdx \in Executors /\ avgLoad \in Nat
      /\ runnableQ \in [Executors -> Seq(Nat)] /\ stolen \in Seq(Nat)
      /\ \A e \in Executors : Was(e) \in Nat /\ before[e] \in Seq(Nat)
  BY BeginsOrdered DEF OneRoundInv, RoundTypeOK
<1>2. dpc = "supply" /\ UNCHANGED <<stpc, epc, held>>
  BY DEF Supply, Dispatching, exVars, stopVars, OneRoundInv, BeginInv
<1>3. /\ \A e \in Executors : Was(minLoadIdx) <= Was(e)
      /\ \A e \in Executors :
           IF Was(e) > avgLoad THEN Gave(e) /\ low[e] = -1
           ELSE Seqs!IsPrefix(before[e], runnableQ[e]) /\ low[e] = Was(e)
      /\ \A e \in Executors : Was(e) <= avgLoad =>
           IF e < idx THEN Load(e) = avgLoad ELSE runnableQ[e] = before[e]
  BY <1>2 DEF OneRoundInv, SupplyInv
<1>4. /\ idx \in Nat /\ N \in Nat /\ idx < N /\ \A e \in Executors : e \in Nat /\ e < N
      /\ NextIndex(idx) \in Executors
      /\ IF idx + 1 < N THEN NextIndex(idx) = idx + 1 ELSE NextIndex(idx) = 0 /\ idx + 1 = N
  BY <1>1, NextOrEnd
<1> DEFINE lacks == IF low[idx] = -1 THEN 0 ELSE avgLoad - low[idx]
           n == IF lacks < Len(stolen) THEN lacks ELSE Len(stolen)
           c == SubSeq(stolen, 1, n)
           r == SubSeq(stolen, n + 1, Len(stolen))
<1>5. /\ Was(idx) > avgLoad => lacks = 0
      /\ Was(idx) <= avgLoad => lacks = avgLoad - Was(idx)
      /\ lacks \in Nat
  <2>1. CASE Was(idx) > avgLoad
    BY <1>1, <1>3, <2>1
  <2>2. CASE Was(idx) <= avgLoad
    BY <1>1, <1>3, <2>2
  <2> QED BY <1>1, <2>1, <2>2
<1>6. /\ runnableQ' = [runnableQ EXCEPT ![idx] = @ \o c] /\ stolen' = r
      /\ dpc' = IF stolen' = <<>> THEN "top" ELSE IF idx + 1 < N THEN "supply" ELSE "rest"
      /\ idx' = NextIndex(idx)
      /\ UNCHANGED <<totalLoads, avgLoad, minLoad, minLoadIdx, load, takeAll, low>>
  BY DEF Supply, AddTasks, readings
<1> HIDE DEF lacks
<1>7. n \in 0 .. Len(stolen) /\ n <= lacks /\ (n = lacks \/ n = Len(stolen)) /\ Len(stolen) \in Nat
  BY <1>1, <1>5
<1> HIDE DEF n
<1>8. /\ c \in Seq(Nat) /\ r \in Seq(Nat) /\ stolen = c \o r
      /\ Len(c) = n /\ Len(r) = Len(stolen) - n
  <2>1. c \in Seq(Nat) /\ r \in Seq(Nat) /\ stolen = c \o r
    BY <1>1, <1>7, CutQueue
  <2>2. Len(c) = n /\ Len(r) = Len(stolen) - n
    BY <1>1, <1>7
  <2> QED BY <2>1, <2>2
<1> HIDE DEF c, r
<1>9. stolen' # <<>> => n = lacks
  BY <1>6, <1>7, <1>8
<1>10. /\ dpc' \in {"supply", "rest", "top"}
       /\ BeginInv' /\ Aim' = Aim /\ \A e \in Executors : Was(e)' = Was(e)
  BY <1>2, <1>6, BeginStays DEF OneRoundInv
<1>11. RoundTypeOK'
  BY <1>1, <1>4, <1>6, <1>8 DEF OneRoundInv, RoundTypeOK
<1>12. TasksInv'
  BY <1>1, <1>6, <1>8, <1>11, TasksSupplied
<1>13. CountInv'
  BY <1>2, <1>6, <1>10 DEF OneRoundInv, CountInv, Counting
<1>14. ScanInv'
  BY <1>10 DEF ScanInv
<1>15. \A e \in Executors \ {idx} : runnableQ'[e] = runnableQ[e]
  BY <1>1, <1>6
\* Who gave tasks up gets none.
<1>16. ASSUME NEW e \in Executors, Was(e) > avgLoad
       PROVE  Gave(e)' /\ Load(e)' <= avgLoad
  <2>1. runnableQ'[e] = runnableQ[e]
    <3>1. CASE e = idx
      <4>1. c = <<>>
        BY <1>5, <1>7, <1>8, <1>16, <3>1
      <4> QED BY <1>1, <1>6, <3>1, <4>1
    <3> QED BY <1>15, <3>1
  <2>2. Gave(e)
    BY <1>3, <1>16
  <2> QED BY <1>2, <1>6, <2>1, <2>2 DEF Gave, Load
<1>17. ASSUME NEW e \in Executors, Was(e) <= avgLoad
       PROVE  /\ Seqs!IsPrefix(before[e], runnableQ'[e])
              /\ e < idx => Load(e)' = avgLoad
              /\ e = idx => Load(e)' <= avgLoad /\ (stolen' # <<>> => Load(e)' = avgLoad)
              /\ e > idx => runnableQ'[e] = before[e] /\ Load(e)' <= avgLoad
  <2>1. CASE e = idx
    <3>0. runnableQ[idx] = before[idx]
      BY <1>1, <1>3, <1>4, <1>17, <2>1
    <3>1. runnableQ[e] = before[e] /\ runnableQ'[e] = before[e] \o c
      <4>1. runnableQ'[idx] = runnableQ[idx] \o c
        BY <1>1, <1>6
      <4> QED BY <2>1, <3>0, <4>1
    <3>2. Seqs!IsPrefix(before[e], runnableQ'[e])
      BY <1>1, <1>8, <3>1, PrefixFacts, PrefixOfItself
    <3>3. Len(runnableQ'[e]) = Was(e) + n
      BY <1>1, <1>8, <3>1 DEF Was
    <3>4. n <= avgLoad - Was(e) /\ (stolen' # <<>> => n = avgLoad - Was(e))
      BY <1>5, <1>7, <1>9, <1>17, <2>1
    <3> QED BY <1>1, <1>4, <1>7, <2>1, <3>2, <3>3, <3>4 DEF Load
  <2>2. CASE e # idx
    <3>1. /\ runnableQ'[e] = runnableQ[e] /\ Seqs!IsPrefix(before[e], runnableQ[e])
          /\ IF e < idx THEN Load(e) = avgLoad ELSE runnableQ[e] = before[e]
      BY <1>1, <1>3, <1>15, <1>17, <2>2
    <3> QED BY <1>4, <1>17, <2>2, <3>1 DEF Load, Was
  <2> QED BY <2>1, <2>2
<1>18. \A e \in Executors :
         /\ Was(minLoadIdx)' <= Was(e)'
         /\ IF Was(e)' > avgLoad' THEN Gave(e)' /\ low'[e] = -1
            ELSE Seqs!IsPrefix(before'[e], runnableQ'[e]) /\ low'[e] = Was(e)'
  <2>1. Was(minLoadIdx)' = Was(minLoadIdx)
    BY <1>6 DEF Was
  <2> QED BY <1>1, <1>3, <1>6, <1>10, <1>16, <1>17, <2>1
<1>19. SupplyInv'
  <2>1. CASE dpc' = "supply"
    <3>1. stolen' # <<>> /\ idx' = idx + 1
      BY <1>4, <1>6, <2>1
    <3>2. \A e \in Executors : Was(e)' <= avgLoad' =>
            IF e < idx' THEN Load(e)' = avgLoad' ELSE runnableQ'[e] = before'[e]
      BY <1>1, <1>4, <1>6, <1>10, <1>17, <3>1
    <3> QED BY <1>18, <2>1, <3>2 DEF SupplyInv
  <2>2. CASE dpc' = "rest"
    <3>1. stolen' # <<>> /\ idx + 1 = N
      BY <1>4, <1>6, <2>2
    <3>2. \A e \in Executors : Was(e)' <= avgLoad' => Load(e)' = avgLoad'
      BY <1>1, <1>4, <1>6, <1>10, <1>17, <3>1
    <3> QED BY <1>18, <2>2, <3>2 DEF SupplyInv
  <2>3. CASE dpc' = "top"
    <3>1. stolen' = <<>>
      BY <1>6, <2>3
    <3>2. \A e \in Executors : Load(e)' <= avgLoad'
      <4>1. SUFFICES ASSUME NEW e \in Executors
                     PROVE  Load(e)' <= avgLoad
        BY <1>6
      <4>2. CASE Was(e) > avgLoad
        BY <1>16, <4>2
      <4>3. CASE Was(e) <= avgLoad
        BY <1>1, <1>4, <1>17, <4>3
      <4> QED BY <1>1, <4>2, <4>3
    <3> QED BY <1>18, <2>3, <3>1, <3>2 DEF SupplyInv
  <2> QED BY <1>10, <2>1, <2>2, <2>3
<1> QED BY <1>10, <1>11, <1>12, <1>13, <1>14, <1>19 DEF OneRoundInv

\* The least loaded executor is no more loaded than the average.
LEMMA LeastIsBelowAim ==
  ASSUME OneRoundInv, NEW m \in Executors, \A e \in Executors : Was(m) <= Was(e)
  PROVE  Was(m) <= Aim
<1>1. /\ Work \in [Executors -> Nat] /\ Was(m) \in Nat
      /\ \A e \in Executors : Was(e) <= Work[e] /\ Was(e) \in Nat
  BY Summed DEF OneRoundInv
<1>2. \A e \in Executors : Work[e] >= Was(m)
  BY <1>1
<1>3. Total(Work) >= N * Was(m) /\ Total(Work) \in Nat
  BY <1>1, <1>2, SumBounds, TotalIsNat
<1>4. Total(Work) \div N >= Was(m) /\ Total(Work) \div N \in Nat
  BY <1>1, <1>3, Averages
<1> QED BY <1>1, <1>4 DEF Aim

\* What is left goes to the least loaded executor.
LEMMA RestStep ==
  ASSUME OneRoundInv, Rest, before' = before
  PROVE  OneRoundInv'
<1> DEFINE m == minLoadIdx
<1>1. /\ m \in Executors /\ avgLoad \in Nat
      /\ runnableQ \in [Executors -> Seq(Nat)] /\ stolen \in Seq(Nat)
      /\ \A e \in Executors : Was(e) \in Nat /\ before[e] \in Seq(Nat)
  BY BeginsOrdered DEF OneRoundInv, RoundTypeOK
<1>2. /\ dpc = "rest" /\ dpc' = "top" /\ UNCHANGED <<stpc, epc, held>>
      /\ runnableQ' = [runnableQ EXCEPT ![m] = @ \o stolen] /\ stolen' = <<>>
      /\ UNCHANGED <<idx, totalLoads, avgLoad, minLoad, minLoadIdx, load, takeAll, low>>
  BY DEF Rest, Dispatching, AddTasks, exVars, stopVars, readings, OneRoundInv, BeginInv
<1>3. /\ \A e \in Executors : Was(m) <= Was(e)
      /\ \A e \in Executors :
           IF Was(e) > avgLoad THEN Gave(e) /\ low[e] = -1
           ELSE Seqs!IsPrefix(before[e], runnableQ[e]) /\ low[e] = Was(e)
      /\ \A e \in Executors : Was(e) <= avgLoad => Load(e) = avgLoad
      /\ avgLoad = Aim
  BY <1>2 DEF OneRoundInv, SupplyInv, CountInv, Counting
<1>4. Was(m) <= avgLoad
  BY <1>1, <1>3, LeastIsBelowAim
<1>5. /\ BeginInv' /\ Aim' = Aim /\ \A e \in Executors : Was(e)' = Was(e)
  BY <1>2, BeginStays DEF OneRoundInv
<1>6. RoundTypeOK'
  BY <1>1, <1>2 DEF OneRoundInv, RoundTypeOK
<1>7. TasksInv'
  <2>1. stolen = stolen \o <<>> /\ <<>> \in Seq(Nat)
    BY <1>1
  <2> QED BY <1>1, <1>2, <1>6, <2>1, TasksSupplied
<1>8. CountInv' /\ ScanInv'
  BY <1>2, <1>3, <1>5 DEF CountInv, Counting, ScanInv
<1>9. \A e \in Executors \ {m} : runnableQ'[e] = runnableQ[e]
  BY <1>1, <1>2
<1>10. Load(m)' >= avgLoad /\ Seqs!IsPrefix(before[m], runnableQ'[m])
  <2>1. runnableQ'[m] = runnableQ[m] \o stolen /\ runnableQ[m] \in Seq(Nat)
    BY <1>1, <1>2
  <2>2. Len(runnableQ'[m]) = Len(runnableQ[m]) + Len(stolen) /\ Len(stolen) \in Nat
    BY <1>1, <2>1
  <2>3. Len(runnableQ[m]) = avgLoad /\ Seqs!IsPrefix(before[m], runnableQ[m])
    BY <1>1, <1>3, <1>4 DEF Load
  <2>4. Seqs!IsPrefix(before[m], runnableQ'[m])
    BY <1>1, <2>1, <2>3, PrefixFacts
  <2>5. Len(runnableQ'[m]) >= avgLoad /\ minLoadIdx' = m
    BY <1>1, <1>2, <2>2, <2>3
  <2> QED BY <2>4, <2>5 DEF Load
<1>11. ASSUME NEW e \in Executors
       PROVE  /\ Was(m)' <= Was(e)'
              /\ IF Was(e)' > avgLoad' THEN Gave(e)'
                 ELSE Seqs!IsPrefix(before'[e], runnableQ'[e])
              /\ e # m /\ Was(e)' <= avgLoad' => Load(e)' = avgLoad'
  <2>1. Was(m)' = Was(m)
    BY <1>2 DEF Was
  <2>2. CASE e = m
    BY <1>1, <1>2, <1>4, <1>5, <1>10, <2>1, <2>2
  <2>3. CASE e # m
    <3>1. runnableQ'[e] = runnableQ[e]
      BY <1>9, <2>3
    <3>2. (Gave(e)' <=> Gave(e)) /\ Load(e)' = Load(e)
      BY <1>2, <3>1 DEF Gave, Load
    <3> QED BY <1>2, <1>3, <1>5, <2>1, <3>1, <3>2
  <2> QED BY <2>2, <2>3
<1>12. SupplyInv'
  <2>1. Load(minLoadIdx)' >= avgLoad'
    BY <1>2, <1>10
  <2>2. \A e \in Executors \ {minLoadIdx'} : Was(e)' <= avgLoad' => Load(e)' = avgLoad'
    BY <1>2, <1>11
  <2> QED BY <1>2, <1>11, <2>1, <2>2 DEF SupplyInv
<1> QED BY <1>5, <1>6, <1>7, <1>8, <1>12 DEF OneRoundInv

-----------------------------------------------------------------------------
(***************************************************************************)
(* The beginning of a round.                                               *)
(***************************************************************************)
\* The n tasks from b on, of those that are set aside for an executor.
LEMMA OwnTasks ==
  ASSUME NEW b \in Nat, NEW n \in Nat
  PROVE  LET q == [i \in 1 .. n |-> b + i]
         IN  /\ q \in Seq(Nat) /\ Len(q) = n
             /\ \A i, j \in 1 .. n : i < j => q[i] < q[j]
             /\ Range(q) = b + 1 .. b + n /\ Cardinality(Range(q)) \in Nat
<1> DEFINE q == [i \in 1 .. n |-> b + i]
<1>1. q \in Seq(Nat) /\ Len(q) = n /\ DOMAIN q = 1 .. n
  OBVIOUS
<1>2. \A i, j \in 1 .. n : i < j => q[i] < q[j]
  OBVIOUS
<1>3. Range(q) = b + 1 .. b + n
  <2>1. ASSUME NEW x \in b + 1 .. b + n
        PROVE  x \in Range(q)
    <3>1. x - b \in 1 .. n /\ q[x - b] = x
      OBVIOUS
    <3> QED BY <1>1, <3>1 DEF Range
  <2>2. ASSUME NEW i \in 1 .. n
        PROVE  q[i] \in b + 1 .. b + n
    OBVIOUS
  <2> QED BY <1>1, <2>1, <2>2 DEF Range
<1>4. Cardinality(b + 1 .. b + n) \in Nat
  BY FS_Interval, FS_CardinalityType
<1> QED BY <1>1, <1>2, <1>3, <1>4

\* What is set aside for e lies below what is set aside for f.
LEMMA OwnAreApart ==
  ASSUME NEW e \in Executors, NEW f \in Executors, e < f, NEW k \in Nat
  PROVE  e * k \in Nat /\ f * k \in Nat /\ e * k + k <= f * k
<1>1. e \in Nat /\ f \in Nat /\ e + 1 <= f
  BY DEF Executors
<1>2. PICK d \in Nat : f = (e + 1) + d
  <2>1. f - (e + 1) \in Nat /\ f = (e + 1) + (f - (e + 1))
    BY <1>1
  <2> QED BY <2>1
<1>3. f * k = e * k + k + d * k
  BY <1>1, <1>2
<1>4. e * k \in Nat /\ f * k \in Nat /\ d * k \in Nat
  BY <1>1, <1>2
<1> QED BY <1>3, <1>4

\* The queues a round begins with are in order and share nothing.
LEMMA BeginsApart ==
  ASSUME RoundInit
  PROVE  BeginInv
<1>1. PICK loads \in [Executors -> 0 .. MaxLoad] :
         runnableQ = [e \in Executors |-> Own(0, e, MaxLoad, loads[e])]
  BY DEF RoundInit
<1>2. PICK holds \in [Executors -> 0 .. MaxHeld] :
         held = [e \in Executors |-> Range(Own(N * MaxLoad, e, MaxHeld, holds[e]))]
  BY DEF RoundInit
<1>3. ~Cleared /\ dpc = "countRunnable" /\ before = runnableQ /\ epc \in [Executors -> {"idle", "run"}]
  BY DEF RoundInit, Cleared
<1>4. MaxLoad \in Nat /\ MaxHeld \in Nat /\ N \in Nat /\ N * MaxLoad \in Nat
  <2>1. MaxLoad \in Nat /\ MaxHeld \in Nat /\ N \in Nat
    BY RoundAssumption, SchedulerAssumption
  <2> QED BY <2>1
<1>5. ASSUME NEW e \in Executors
      PROVE  /\ e * MaxLoad \in Nat /\ before[e] \in Seq(Nat) /\ Was(e) = loads[e]
             /\ \A i, j \in 1 .. Was(e) : i < j => before[e][i] < before[e][j]
             /\ Range(before[e]) = e * MaxLoad + 1 .. e * MaxLoad + loads[e]
  <2>1. e \in Nat /\ loads[e] \in Nat
    BY <1>4 DEF Executors
  <2>2. PICK b \in Nat : b = e * MaxLoad
    BY <1>4, <2>1
  <2>3. before[e] = [i \in 1 .. loads[e] |-> b + i]
    <3>1. before[e] = [i \in 1 .. loads[e] |-> 0 + e * MaxLoad + i]
      BY <1>1, <1>3 DEF Own
    <3>2. before[e] = [i \in 1 .. loads[e] |-> 0 + b + i]
      BY <2>2, <3>1
    <3> QED BY <3>2
  <2> DEFINE q == [i \in 1 .. loads[e] |-> b + i]
  <2>4. /\ q \in Seq(Nat) /\ Len(q) = loads[e]
        /\ \A i, j \in 1 .. loads[e] : i < j => q[i] < q[j]
        /\ Range(q) = b + 1 .. b + loads[e]
    BY <2>1, OwnTasks
  <2> HIDE DEF q
  <2>5. before[e] = q
    BY <2>3 DEF q
  <2> QED BY <2>2, <2>4, <2>5 DEF Was
<1>6. ASSUME NEW e \in Executors
      PROVE  Cardinality(held[e]) \in Nat
  <2>1. e \in Nat /\ holds[e] \in Nat
    BY <1>4 DEF Executors
  <2>2. e * MaxHeld \in Nat
    BY <1>4, <2>1
  <2>3. PICK b \in Nat : b = N * MaxLoad + e * MaxHeld
    BY <1>4, <2>2
  <2>4. held[e] = Range([i \in 1 .. holds[e] |-> b + i])
    <3>1. held[e] = Range([i \in 1 .. holds[e] |-> N * MaxLoad + e * MaxHeld + i])
      BY <1>2 DEF Own
    <3> QED BY <2>3, <3>1
  <2> QED BY <2>1, <2>3, <2>4, OwnTasks
<1>7. ASSUME NEW e \in Executors, NEW f \in Executors, e < f
      PROVE  Range(before[e]) \cap Range(before[f]) = {}
  <2>1. PICK a \in Nat, b \in Nat : a = e * MaxLoad /\ b = f * MaxLoad
    BY <1>5
  <2>2. a + MaxLoad <= b
    BY <1>4, <1>7, <2>1, OwnAreApart
  <2>3. loads[e] \in 0 .. MaxLoad /\ loads[f] \in 0 .. MaxLoad
    OBVIOUS
  <2>4. Range(before[e]) = a + 1 .. a + loads[e] /\ Range(before[f]) = b + 1 .. b + loads[f]
    BY <1>5, <2>1
  <2> QED BY <1>4, <2>2, <2>3, <2>4
<1>8. \A e, f \in Executors : e # f => Range(before[e]) \cap Range(before[f]) = {}
  <2>1. \A e, f \in Executors : e # f => e < f \/ f < e
    BY DEF Executors
  <2> QED BY <1>7, <2>1
<1>9. before \in [Executors -> Seq(Nat)]
  <2>1. before = [e \in Executors |-> before[e]]
    BY <1>1, <1>3
  <2> QED BY <1>5, <2>1
<1> QED BY <1>3, <1>5, <1>6, <1>8, <1>9 DEF BeginInv

\* A round begins with nothing counted and nothing moved.
LEMMA InitRound ==
  ASSUME RoundInit
  PROVE  OneRoundInv
<1>1. BeginInv
  BY BeginsApart
<1>2. /\ dpc = "countRunnable" /\ before = runnableQ /\ stolen = <<>>
      /\ idx = 0 /\ totalLoads = 0 /\ avgLoad = 0 /\ minLoad = 0 /\ minLoadIdx = 0 /\ load = 0
      /\ low = [e \in Executors |-> -1]
  BY DEF RoundInit
<1>3. 0 \in Executors
  BY SchedulerAssumption DEF Executors
<1>4. RoundTypeOK
  BY <1>1, <1>2, <1>3 DEF RoundTypeOK, BeginInv
<1>5. CountInv
  BY <1>1, <1>2, Summed, SumIsRecursive DEF CountInv, Counting
<1>6. ScanInv /\ SupplyInv
  BY <1>2 DEF ScanInv, SupplyInv
<1>7. TasksInv
  <2>1. Range(stolen) = {} /\ Ordered(stolen)
    BY <1>2, EmptyQueue DEF Ordered
  <2>2. \A e \in Executors : Ordered(runnableQ[e])
    BY <1>1, <1>2, BeginsOrdered
  <2>3. Total(Loads) + Len(stolen) = Total(Queued)
    <3>1. Loads = Queued
      BY <1>2 DEF Loads, Queued, Load, Was
    <3>2. PICK t \in Nat : t = Total(Queued)
      BY <1>1, Summed, TotalIsNat
    <3>3. Len(stolen) = 0
      BY <1>2
    <3> QED BY <3>1, <3>2, <3>3
  <2>4. UNION {Range(runnableQ[e]) : e \in Executors} = UNION {Range(before[e]) : e \in Executors}
    BY <1>2
  <2> QED BY <2>1, <2>2, <2>3, <2>4 DEF TasksInv
<1> QED BY <1>1, <1>4, <1>5, <1>6, <1>7 DEF OneRoundInv

-----------------------------------------------------------------------------
(***************************************************************************)
(* The theorems.                                                           *)
(***************************************************************************)
\* No variable of the invariant changes.
LEMMA RoundStutters ==
  ASSUME OneRoundInv, UNCHANGED <<vars, before>>
  PROVE  OneRoundInv'
<1>1. UNCHANGED <<runnableQ, held, epc, stpc, dpc, idx, totalLoads, avgLoad, minLoad,
                  minLoadIdx, load, takeAll, low, stolen, before>>
  BY DEF vars, exVars, stopVars, dispVars, readings
<1>2. BeginInv'
  BY <1>1 DEF OneRoundInv, BeginInv, Was, Cleared
<1>3. /\ \A e \in Executors : Was(e)' = Was(e) /\ Load(e)' = Load(e) /\ (Gave(e)' <=> Gave(e))
      /\ Work' = Work
  BY <1>1 DEF Was, Load, Gave, Work
<1>4. RoundTypeOK' /\ TasksInv'
  BY <1>1, TasksStay DEF OneRoundInv, RoundTypeOK
<1>5. CountInv'
  <2>1. /\ Total(Work)' = Total(Work) /\ SumTo(Work)'[idx] = SumTo(Work)[idx]
        /\ Aim' = Aim /\ Was(idx)' = Was(idx)
    BY <1>1, <1>3 DEF Total, SumTo, Aim, Was
  <2> QED BY <1>1, <2>1 DEF OneRoundInv, CountInv, Counting
<1>6. ScanInv' /\ SupplyInv'
  <2>1. Was(minLoadIdx)' = Was(minLoadIdx) /\ Was(idx)' = Was(idx)
        /\ Load(minLoadIdx)' = Load(minLoadIdx)
    BY <1>1 DEF Was, Load
  <2>2. ScanInv'
    BY <1>1, <1>3, <2>1 DEF OneRoundInv, ScanInv
  <2>3. SupplyInv'
    BY <1>1, <1>3, <2>1 DEF OneRoundInv, SupplyInv
  <2> QED BY <2>2, <2>3
<1> QED BY <1>2, <1>4, <1>5, <1>6 DEF OneRoundInv

\* The invariant of a round of DispatchTasksEqually: what each of its three loops has
\* counted, taken and given so far.
THEOREM RoundInvariance == RoundSpec => []OneRoundInv
<1>1. RoundInit => OneRoundInv
  BY InitRound
<1>2. OneRoundInv /\ [RoundNext]_<<vars, before>> => OneRoundInv'
  <2> SUFFICES ASSUME OneRoundInv, [RoundNext]_<<vars, before>>
               PROVE  OneRoundInv'
    OBVIOUS
  <2>1. CASE RoundNext
    <3>1. before' = before /\ DispatcherStep /\ dpc # "top"
      BY <2>1 DEF RoundNext
    <3>2. ~DispatcherLoop /\ ~DispatcherWakes /\ ~UsesGoneVector /\ ~GiveUpReferred
      BY <3>1 DEF OneRoundInv, BeginInv, RoundTypeOK, DispatcherLoop, DispatcherWakes,
                  UsesGoneVector, GiveUpReferred, TakesReferred
    <3>3. \/ CountRunnable \/ CountWaiting \/ Average
          \/ Scan \/ IsBlocking \/ GiveUpTasks \/ Supply \/ Rest
      BY <3>1, <3>2 DEF DispatcherStep
    <3> QED BY <3>1, <3>3, CountRunnableStep, CountWaitingStep, AverageStep, ScanStep,
               IsBlockingStep, GiveUpStep, SupplyStep, RestStep
  <2>2. CASE UNCHANGED <<vars, before>>
    BY <2>2, RoundStutters
  <2> QED BY <2>1, <2>2
<1> QED BY <1>1, <1>2, PTL DEF RoundSpec

\* A round leaves nobody that was above the average and not blocked with anything but
\* the average, and puts an executor above it only if that was among the least loaded.
THEOREM NeverOvershoots == RoundSpec => []NoOvershoot
<1>1. OneRoundInv => NoOvershoot
  <2> SUFFICES ASSUME OneRoundInv, dpc = "top", NEW e \in Executors
               PROVE  /\ Was(e) > Aim /\ epc[e] # "run" => Load(e) = Aim
                      /\ Load(e) > Aim /\ Was(e) <= Aim => \A f \in Executors : Was(e) <= Was(f)
    BY DEF NoOvershoot
  <2>1. avgLoad = Aim /\ avgLoad \in Nat /\ Load(e) \in Nat
    BY DEF OneRoundInv, CountInv, Counting, RoundTypeOK, Load
  <2>2. /\ \A f \in Executors : Was(minLoadIdx) <= Was(f)
        /\ Was(e) > avgLoad => Gave(e)
        /\ \/ \A f \in Executors : Load(f) <= avgLoad
           \/ \A f \in Executors \ {minLoadIdx} : Was(f) <= avgLoad => Load(f) = avgLoad
    BY DEF OneRoundInv, SupplyInv
  <2>3. Was(e) > Aim /\ epc[e] # "run" => Load(e) = Aim
    BY <2>1, <2>2 DEF Gave
  <2>4. Load(e) > Aim /\ Was(e) <= Aim => e = minLoadIdx
    BY <2>1, <2>2
  <2> QED BY <2>2, <2>3, <2>4
<1> QED BY <1>1, RoundInvariance, PTL

\* With no task held and no executor blocked, everybody has the average after a round,
\* except one executor that may have up to N - 1 more.
THEOREM RoundEvensOut == RoundSpec => []RoundBalances
<1>1. OneRoundInv => RoundBalances
  <2> SUFFICES ASSUME OneRoundInv, dpc = "top", NEW k \in Nat, k = Aim,
                      \A e \in Executors : held[e] = {} /\ epc[e] # "run"
               PROVE  \E m \in Executors :
                        /\ \A e \in Executors \ {m} : Load(e) = k
                        /\ Load(m) \in k .. k + N - 1
    BY DEF OneRoundInv, CountInv, Counting, RoundTypeOK, RoundBalances
  <2>1. avgLoad = k /\ stolen = <<>> /\ minLoadIdx \in Executors
    BY DEF OneRoundInv, CountInv, Counting, SupplyInv, RoundTypeOK
  <2>2. /\ Loads \in [Executors -> Nat]
        /\ \A e \in Executors : Loads[e] = Load(e) /\ Load(e) \in Nat
    BY DEF OneRoundInv, RoundTypeOK, Loads, Load
  <2>3. N \in Nat /\ N > 0 /\ 0 \in Executors
    BY SchedulerAssumption DEF Executors
  <2>4. Total(Loads) = Total(Work)
    <3>1. Work = Queued
      <4>1. \A e \in Executors : Was(e) + Cardinality(held[e]) = Was(e)
        <5>1. \A e \in Executors : Was(e) \in Nat
          BY BeginsOrdered DEF OneRoundInv
        <5>2. \A e \in Executors : Cardinality(held[e]) = 0
          BY FS_EmptySet
        <5> QED BY <5>1, <5>2
      <4> QED BY <4>1 DEF Work, Queued
    <3>2. Len(stolen) = 0 /\ Total(Loads) + Len(stolen) = Total(Queued)
      BY <2>1 DEF OneRoundInv, TasksInv
    <3>3. PICK t \in Nat : t = Total(Loads)
      BY <2>2, TotalIsNat
    <3> QED BY <3>1, <3>2, <3>3
  <2>5. PICK t \in Nat : t = Total(Loads) /\ k = t \div N
    BY <2>2, <2>4, TotalIsNat DEF Aim
  <2>6. N * k \in Nat /\ N * k <= t /\ t < N * k + N
    <3>1. N * k <= t /\ t < N * k + N
      BY <2>5, Averages
    <3> QED BY <2>3, <3>1
  <2>7. CASE \A e \in Executors : Load(e) <= k
    <3>1. \A e \in Executors : Loads[e] = k
      <4>1. \A e \in Executors : Loads[e] <= k
        BY <2>2, <2>7
      <4>2. Total(Loads) >= N * k
        BY <2>5, <2>6
      <4> QED BY <2>2, <4>1, <4>2, AllAreEqual
    <3>2. \A e \in Executors : Load(e) = k
      BY <2>2, <3>1
    <3> QED BY <2>3, <3>2
  <2>8. CASE /\ Load(minLoadIdx) >= k
             /\ \A e \in Executors \ {minLoadIdx} : Was(e) <= k => Load(e) = k
    <3>1. \A e \in Executors \ {minLoadIdx} : Load(e) = k
      <4>1. \A e \in Executors : Was(e) > k => Load(e) = k
        BY <2>1 DEF OneRoundInv, SupplyInv, Gave
      <4>2. \A e \in Executors : Was(e) \in Nat
        BY BeginsOrdered DEF OneRoundInv
      <4> QED BY <2>8, <4>1, <4>2
    <3>2. Total(Loads) + k = N * k + Load(minLoadIdx)
      BY <2>1, <2>2, <3>1, AllButOne
    <3>3. PICK x \in Nat, y \in Nat : x = Load(minLoadIdx) /\ y = N * k
      BY <2>1, <2>2, <2>6
    <3>4. x >= k /\ t + k = y + x /\ t < y + N
      BY <2>2, <2>1, <2>5, <2>6, <2>8, <3>2, <3>3
    <3>5. x \in k .. k + N - 1
      BY <2>3, <3>4
    <3> QED BY <2>1, <3>1, <3>3, <3>5
  <2> QED BY <2>1, <2>7, <2>8 DEF OneRoundInv, SupplyInv
<1> QED BY <1>1, RoundInvariance, PTL

\* After a round every task is in one queue, and tasks of the same queue are in their
\* order, wherever they are.
THEOREM OrderIsKept == RoundSpec => []RoundKeepsOrder
<1>1. OneRoundInv => RoundKeepsOrder
  <2> SUFFICES ASSUME OneRoundInv, dpc = "top"
               PROVE  /\ \A e \in Executors :
                           /\ \/ Seqs!IsPrefix(runnableQ[e], before[e])
                              \/ Seqs!IsPrefix(before[e], runnableQ[e])
                           /\ Ordered(runnableQ[e])
                      /\ UNION {Range(runnableQ[e]) : e \in Executors}
                           = UNION {Range(before[e]) : e \in Executors}
                      /\ Total(Loads) = Total(Queued)
    BY DEF RoundKeepsOrder
  <2>1. stolen = <<>> /\ Range(stolen) = {}
    BY EmptyQueue DEF OneRoundInv, SupplyInv
  <2>2. \A e \in Executors :
          \/ Seqs!IsPrefix(runnableQ[e], before[e]) \/ Seqs!IsPrefix(before[e], runnableQ[e])
    BY DEF OneRoundInv, SupplyInv, Gave
  <2>3. (UNION {Range(runnableQ[e]) : e \in Executors}) \cup Range(stolen)
          = UNION {Range(before[e]) : e \in Executors}
    BY DEF OneRoundInv, TasksInv
  <2>4. Total(Loads) = Total(Queued)
    <3>1. PICK t \in Nat : t = Total(Loads)
      <4>1. Loads \in [Executors -> Nat]
        BY DEF OneRoundInv, RoundTypeOK, Loads, Load
      <4> QED BY <4>1, TotalIsNat
    <3>2. Len(stolen) = 0 /\ Total(Loads) + Len(stolen) = Total(Queued)
      BY <2>1 DEF OneRoundInv, TasksInv
    <3> QED BY <3>1, <3>2
  <2> QED BY <2>1, <2>2, <2>3, <2>4 DEF OneRoundInv, TasksInv
<1> QED BY <1>1, RoundInvariance, PTL

=============================================================================
