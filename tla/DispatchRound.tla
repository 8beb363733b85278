--------------------------- MODULE DispatchRound ----------------------------
(***************************************************************************)
(* One round of CoScheduler::DispatchTasksEqually on queues nobody else    *)
(* touches: what the algorithm does, from whatever loads it starts.  The   *)
(* interleavings with the executors are checked in CoScheduler.            *)
(*                                                                         *)
(* Tasks are numbers: MaxLoad per executor that may be queued, and then    *)
(* MaxHeld per executor that may be held.                                  *)
(***************************************************************************)
EXTENDS CoScheduler

Seqs == INSTANCE SequencesExt

CONSTANTS
  MaxLoad,  \* the longest runnable queue
  MaxHeld   \* the most tasks an executor holds

ASSUME RoundAssumption == MaxLoad \in Nat /\ MaxHeld \in Nat

VARIABLE before  \* the runnable queues at the start of the round

\* The first n of the k tasks set aside for executor e.
Own(from, e, k, n) == [i \in 1 .. n |-> from + e * k + i]

RoundInit ==
  /\ \E loads \in [Executors -> 0 .. MaxLoad] :
       runnableQ = [e \in Executors |-> Own(0, e, MaxLoad, loads[e])]
  /\ before = runnableQ
  /\ size = N /\ spc = "process" /\ adding = [t \in Tasks |-> -1]
  /\ \E holds \in [Executors -> 0 .. MaxHeld] :
       held = [e \in Executors |-> Range(Own(N * MaxLoad, e, MaxHeld, holds[e]))]
  /\ epc \in [Executors -> {"idle", "run"}]
  /\ running = [e \in Executors |-> None]
  /\ exStopping = [e \in Executors |-> FALSE]
  /\ status = [t \in Tasks |-> "IDLE"]
  /\ added = Tasks
  /\ stpc = "none" /\ told = 0
  /\ dpc = "countRunnable"
  /\ idx = 0 /\ totalLoads = 0 /\ avgLoad = 0 /\ minLoad = 0 /\ minLoadIdx = 0 /\ load = 0
  /\ takeAll = FALSE /\ low = [e \in Executors |-> -1] /\ stolen = <<>>
  /\ overtaken = FALSE /\ broken = "no"

RoundNext == dpc # "top" /\ DispatcherStep /\ UNCHANGED before

RoundSpec == RoundInit /\ [][RoundNext]_<<vars, before>>

-----------------------------------------------------------------------------
Load(e) == Len(runnableQ[e])
Was(e)  == Len(before[e])

\* Sums over the executors, in the order in which the dispatcher adds loads up.
SumTo(f) == LET sum[i \in 0 .. N] == IF i = 0 THEN 0 ELSE sum[i - 1] + f[i - 1] IN sum
Total(f) == SumTo(f)[N]

Loads == [e \in Executors |-> Load(e)]
Queued == [e \in Executors |-> Was(e)]
Work   == [e \in Executors |-> Was(e) + Cardinality(held[e])]

\* The average the code aims at counts held tasks, which it cannot move.
Aim == Total(Work) \div N

\* Nobody who is above the aim and not blocked is left below it, nobody below it
\* is left above it except the one that gets the rest, and that one is among the
\* least loaded: the round never overshoots.
NoOvershoot ==
  dpc = "top" =>
    \A e \in Executors :
      /\ Was(e) > Aim /\ epc[e] # "run" => Load(e) = Aim
      /\ Load(e) > Aim /\ Was(e) <= Aim => \A f \in Executors : Was(e) <= Was(f)

\* Without held tasks and blocked executors a round evens the loads out: they
\* differ by less than the number of executors, and all of the difference is on
\* one of them, from which the next round takes it again.
RoundBalances ==
  dpc = "top" /\ (\A e \in Executors : held[e] = {} /\ epc[e] # "run") =>
    \E m \in Executors :
      /\ \A e \in Executors \ {m} : Load(e) = Aim
      /\ Load(m) \in Aim .. Aim + N - 1

\* Tasks of one queue keep its order.
Ordered(q) ==
  \A f \in Executors : \A i, j \in 1 .. Len(q) :
    i < j /\ {q[i], q[j]} \subseteq Range(before[f]) => q[i] < q[j]

\* Every task is in one queue, and in the order it was: a giver keeps its oldest
\* tasks, a receiver keeps all of its own in front, and what comes from the same
\* giver is still in its order.
RoundKeepsOrder ==
  dpc = "top" =>
    /\ \A e \in Executors :
         /\ \/ Seqs!IsPrefix(runnableQ[e], before[e])
            \/ Seqs!IsPrefix(before[e], runnableQ[e])
         /\ Ordered(runnableQ[e])
    /\ UNION {Range(runnableQ[e]) : e \in Executors} = UNION {Range(before[e]) : e \in Executors}
    /\ Total(Loads) = Total(Queued)

-----------------------------------------------------------------------------
\* The round from place to place, as an inductive invariant.  The queues it began with
\* share nothing, and nothing but the dispatcher's variables and the queues changes.
BeginInv ==
  /\ ~Cleared
  /\ epc \in [Executors -> {"idle", "run"}]
  /\ dpc \in {"countRunnable", "countWaiting", "average", "scan", "blocking", "give", "supply",
              "rest", "top"}
  /\ before \in [Executors -> Seq(Nat)]
  /\ \A e \in Executors : \A i, j \in 1 .. Was(e) : i < j => before[e][i] < before[e][j]
  /\ \A e, f \in Executors : e # f => Range(before[e]) \cap Range(before[f]) = {}
  /\ \A e \in Executors : Cardinality(held[e]) \in Nat

RoundTypeOK ==
  /\ runnableQ \in [Executors -> Seq(Nat)] /\ stolen \in Seq(Nat)
  /\ idx \in Executors /\ minLoadIdx \in Executors
  /\ totalLoads \in Nat /\ avgLoad \in Nat /\ minLoad \in Nat /\ load \in Nat
  /\ low \in [Executors -> Nat \cup {-1}]

\* The first loop adds up what is queued and what is held, the rest keeps the average.
Counting == dpc \in {"countRunnable", "countWaiting", "average"}

CountInv ==
  /\ Counting => /\ runnableQ = before /\ stolen = <<>> /\ low = [e \in Executors |-> -1]
                 /\ minLoadIdx = 0 /\ avgLoad = 0
  /\ dpc = "countRunnable" => totalLoads = SumTo(Work)[idx]
  /\ dpc = "countWaiting"  => totalLoads = SumTo(Work)[idx] + Was(idx)
  /\ dpc = "average"       => totalLoads = Total(Work) /\ idx = 0
  /\ ~Counting             => avgLoad = Aim

\* What an overloaded executor is left with: its oldest tasks, as many as the average
\* or, if it was taken for blocked, none.
Gave(e) ==
  /\ Seqs!IsPrefix(runnableQ[e], before[e])
  /\ Load(e) <= avgLoad /\ (Load(e) = avgLoad \/ epc[e] = "run")

\* The second loop: the executors before idx have been looked at, the others not.
ScanInv ==
  dpc \in {"scan", "blocking", "give"} =>
    /\ \A e \in Executors :
         IF e < idx /\ Was(e) > avgLoad THEN low[e] = -1 /\ Gave(e)
         ELSE runnableQ[e] = before[e] /\ low[e] = IF e < idx THEN Was(e) ELSE -1
    /\ minLoad = Was(minLoadIdx) /\ \A e \in Executors : e < idx => minLoad <= Was(e)
    /\ dpc # "scan" => load = Was(idx) /\ load > avgLoad /\ minLoad <= load
    /\ dpc = "give" /\ takeAll => epc[idx] = "run"
    /\ stolen = <<>> => \A e \in Executors : e < idx => Was(e) <= avgLoad

\* The third loop: the executors before idx have what they lacked, those from idx on what
\* they had.  At the end there is nothing to do, too little, or a rest for one of them.
SupplyInv ==
  dpc \in {"supply", "rest", "top"} =>
    /\ \A e \in Executors : Was(minLoadIdx) <= Was(e)
    /\ \A e \in Executors :
         IF Was(e) > avgLoad THEN Gave(e) /\ (dpc # "top" => low[e] = -1)
         ELSE Seqs!IsPrefix(before[e], runnableQ[e]) /\ (dpc # "top" => low[e] = Was(e))
    /\ dpc = "supply" =>
         \A e \in Executors : Was(e) <= avgLoad =>
           IF e < idx THEN Load(e) = avgLoad ELSE runnableQ[e] = before[e]
    /\ dpc = "rest" => \A e \in Executors : Was(e) <= avgLoad => Load(e) = avgLoad
    /\ dpc = "top" =>
         /\ stolen = <<>>
         /\ \/ \A e \in Executors : Load(e) <= avgLoad
            \/ /\ Load(minLoadIdx) >= avgLoad
               /\ \A e \in Executors \ {minLoadIdx} : Was(e) <= avgLoad => Load(e) = avgLoad

\* No task is lost on the way, and what has been taken from a queue comes after what
\* has been left there or supplied before.
TasksInv ==
  /\ (UNION {Range(runnableQ[e]) : e \in Executors}) \cup Range(stolen)
       = UNION {Range(before[e]) : e \in Executors}
  /\ Total(Loads) + Len(stolen) = Total(Queued)
  /\ Ordered(stolen) /\ \A e \in Executors : Ordered(runnableQ[e])
  /\ \A e, f \in Executors :
       \A x \in Range(runnableQ[e]) \cap Range(before[f]), y \in Range(stolen) \cap Range(before[f]) :
         x < y

OneRoundInv == BeginInv /\ RoundTypeOK /\ CountInv /\ ScanInv /\ SupplyInv /\ TasksInv

=============================================================================
