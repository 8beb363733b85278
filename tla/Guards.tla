------------------------------- MODULE Guards -------------------------------
(***************************************************************************)
(* RWMutex with RdLockGuard and WrLockGuard (src/src/mutexes.h).  The      *)
(* wrapper drops what the pthread calls return: a guard counts itself as   *)
(* locked though the lock refused it, and its destructor then unlocks what *)
(* another guard of the same thread holds.                                 *)
(*                                                                         *)
(* The pthread lock is that of glibc: it refuses a thread that owns the    *)
(* write lock, and unlocks the write lock if the caller owns it, one read  *)
(* lock otherwise.                                                         *)
(***************************************************************************)
EXTENDS Integers, Sequences, FiniteSets, Functions

CONSTANTS
  Lockers,   \* the threads
  Nobody,    \* no thread
  MaxGuards  \* how many guards a thread has at a time

ASSUME GuardsAssumption == Nobody \notin Lockers /\ MaxGuards \in Nat \ {0}

VARIABLES
  guards,   \* the guards alive in each thread, the outermost first
  readers,  \* how many read locks are held
  writer,   \* who owns the write lock
  nested,   \* a thread has made a guard inside of its own write guard
  corrupt   \* a lock was released that nobody held: no defined outcome

guardVars == <<guards, readers, writer, nested, corrupt>>

GuardsInit ==
  /\ guards = [w \in Lockers |-> <<>>]
  /\ readers = 0 /\ writer = Nobody
  /\ nested = FALSE /\ corrupt = FALSE

\* RWMutex::RdLock, RWMutex::WrLock and RWMutex::Unlock.  Refused is EDEADLK.
Refuses(w) == writer = w /\ UNCHANGED <<readers, writer>>

RdLock(w) ==
  \/ Refuses(w)
  \/ writer = Nobody /\ readers' = readers + 1 /\ UNCHANGED writer

\* Mutant: WrLock takes the read lock.
WrLockReads(w) ==
  \/ Refuses(w)
  \/ writer = Nobody /\ readers' = readers + 1 /\ UNCHANGED writer

WrLock(w) ==
  \/ Refuses(w)
  \/ writer = Nobody /\ readers = 0 /\ writer' = w /\ UNCHANGED readers

Unlock(w) ==
  IF writer = w
  THEN writer' = Nobody /\ UNCHANGED <<readers, corrupt>>
  ELSE /\ readers' = IF readers > 0 THEN readers - 1 ELSE 0
       /\ corrupt' = (readers = 0)
       /\ UNCHANGED writer

Guard(w, kind) ==
  /\ Len(guards[w]) < MaxGuards
  /\ guards' = [guards EXCEPT ![w] = Append(@, kind)]
  /\ nested' = (nested \/ writer = w)
  /\ UNCHANGED corrupt

RdLockGuard(w) == RdLock(w) /\ Guard(w, "read")

WrLockGuard(w) == WrLock(w) /\ Guard(w, "write")

\* The innermost guard goes.
Unguard(w) ==
  /\ guards[w] # <<>>
  /\ Unlock(w)
  /\ guards' = [guards EXCEPT ![w] = SubSeq(@, 1, Len(@) - 1)]
  /\ UNCHANGED nested

GuardsNext == ~corrupt /\ \E w \in Lockers : RdLockGuard(w) \/ WrLockGuard(w) \/ Unguard(w)

GuardsSpec == GuardsInit /\ [][GuardsNext]_guardVars

-----------------------------------------------------------------------------
\* While a thread has a write guard no other thread has any guard, and no lock is
\* released that is not held, unless a thread guards again what it has a write guard
\* of: the inner guard then gives the lock away under the outer one.
GuardsExclude ==
  ~nested =>
    /\ ~corrupt
    /\ \A w, x \in Lockers :
         w # x /\ "write" \in Range(guards[w]) => guards[x] = <<>>

\* The guards that are alive: each by its thread and its depth there.
Alive == {g \in Lockers \X (1 .. MaxGuards) : g[2] <= Len(guards[g[1]])}

\* Until a thread guards again what it has a write guard of, the guards are the locks:
\* one write guard, alone, or as many read locks as there are guards.
GuardsInv ==
  /\ guards \in [Lockers -> Seq({"read", "write"})]
  /\ \A w \in Lockers : Len(guards[w]) <= MaxGuards
  /\ readers \in Nat /\ writer \in Lockers \cup {Nobody}
  /\ nested \in BOOLEAN /\ corrupt \in BOOLEAN
  /\ ~nested =>
       /\ ~corrupt
       /\ writer # Nobody => /\ readers = 0 /\ guards[writer] = <<"write">>
                             /\ \A w \in Lockers \ {writer} : guards[w] = <<>>
       /\ writer = Nobody => /\ IsFiniteSet(Alive) /\ readers = Cardinality(Alive)
                             /\ \A w \in Lockers : "write" \notin Range(guards[w])

=============================================================================
