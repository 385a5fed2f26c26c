--------------------------- MODULE HierarchyGuard ---------------------------
(***************************************************************************)
(* BaseGuard (HierarchyGuard.h): a thread that holds the lock of the       *)
(* guards counts itself into the entry of a low-level id, releases that    *)
(* lock and waits for the entry's own mutex; the destructor takes the lock *)
(* again, counts itself out, and erases the entry when nobody is left.     *)
(***************************************************************************)
EXTENDS Integers, FiniteSets

CONSTANTS
  GuardThreads,
  LowIds,
  MaxVisits,   \* bound on the guards a thread makes
  NoOwner

ASSUME GuardAssumption == MaxVisits \in Nat /\ IsFiniteSet(GuardThreads) /\ NoOwner \notin GuardThreads /\ LowIds # {}

VARIABLES
  guardLock,   \* the thread that holds the mutex of the guards, or NoOwner
  rel,         \* Relation: low id -> counter_ and the owner of mutex_
  low,         \* the entry of each thread's rel_cursor_
  guardPc,     \* where each thread is
  visits,      \* the guards each thread has made
  dangling     \* threads whose rel_cursor_ points to an erased entry

guardVars == <<guardLock, rel, low, guardPc, visits, dangling>>

Without(f, x) == [y \in DOMAIN f \ {x} |-> f[y]]
At(t) == rel[low[t]]

\* The caller locks the guards' mutex and hands the lock to the constructor.
LockGuards(t) ==
  /\ guardPc[t] = "out" /\ guardLock = NoOwner /\ visits[t] < MaxVisits
  /\ guardLock' = t
  /\ guardPc' = [guardPc EXCEPT ![t] = "locked"]
  /\ visits' = [visits EXCEPT ![t] = @ + 1]
  /\ UNCHANGED <<rel, low, dangling>>

\* Variant: a thread that finds the entry does not count itself.
RegisterUncounted(t, id) ==
  /\ guardPc[t] = "locked"
  /\ rel' = [i \in DOMAIN rel \cup {id} |-> IF i \in DOMAIN rel THEN rel[i] ELSE [counter |-> 1, owner |-> NoOwner]]
  /\ low' = [low EXCEPT ![t] = id]
  /\ guardLock' = NoOwner
  /\ guardPc' = [guardPc EXCEPT ![t] = "wait"]
  /\ UNCHANGED <<visits, dangling>>

\* The constructor up to guard_lock_.unlock(): emplace, unless the entry is there, and count.
Register(t, id) ==
  /\ guardPc[t] = "locked"
  /\ rel' = [i \in DOMAIN rel \cup {id} |->
               IF i # id THEN rel[i]
               ELSE IF id \in DOMAIN rel THEN [rel[id] EXCEPT !.counter = @ + 1]
               ELSE [counter |-> 1, owner |-> NoOwner]]
  /\ low' = [low EXCEPT ![t] = id]
  /\ guardLock' = NoOwner
  /\ guardPc' = [guardPc EXCEPT ![t] = "wait"]
  /\ UNCHANGED <<visits, dangling>>

\* The rest of the constructor: the entry's mutex.
LockEntry(t) ==
  /\ guardPc[t] = "wait" /\ low[t] \in DOMAIN rel /\ At(t).owner = NoOwner
  /\ rel' = [rel EXCEPT ![low[t]].owner = t]
  /\ guardPc' = [guardPc EXCEPT ![t] = "in"]
  /\ UNCHANGED <<guardLock, low, visits, dangling>>

\* Variant: the entry goes while one more thread is counted.
CountedOutLate(t) == At(t).counter - 1 <= 1

\* ~BaseGuard: CleanEntries takes the guards' lock and counts down. At zero, OnNoWaiters
\* unlocks the entry and erases it; otherwise the entry's lock is released with the guard's
\* members. The guards' lock is the last to go.
CountedOut(t) == At(t).counter = 1
Leave(t) ==
  /\ guardPc[t] = "in" /\ guardLock = NoOwner /\ low[t] \in DOMAIN rel
  /\ guardLock' = t
  /\ IF CountedOut(t)
     THEN /\ rel' = Without(rel, low[t])
          /\ dangling' = dangling \cup {u \in GuardThreads \ {t} : guardPc[u] \in {"wait", "in"} /\ low[u] = low[t]}
     ELSE /\ rel' = [rel EXCEPT ![low[t]].counter = @ - 1, ![low[t]].owner = NoOwner]
          /\ UNCHANGED dangling
  /\ guardPc' = [guardPc EXCEPT ![t] = "left"]
  /\ UNCHANGED <<low, visits>>

UnlockGuards(t) ==
  /\ guardPc[t] = "left"
  /\ guardLock' = NoOwner
  /\ guardPc' = [guardPc EXCEPT ![t] = "out"]
  /\ UNCHANGED <<rel, low, visits, dangling>>

GuardInit ==
  /\ guardLock = NoOwner /\ rel = [i \in {} |-> 0]
  /\ low \in [GuardThreads -> {CHOOSE i \in LowIds : TRUE}]
  /\ guardPc = [t \in GuardThreads |-> "out"] /\ visits = [t \in GuardThreads |-> 0] /\ dangling = {}

GuardStep(t) ==
  \/ LockGuards(t) \/ LockEntry(t) \/ Leave(t) \/ UnlockGuards(t)
  \/ \E id \in LowIds : Register(t, id)

GuardNext == \E t \in GuardThreads : GuardStep(t)

GuardSpec == GuardInit /\ [][GuardNext]_guardVars

-----------------------------------------------------------------------------
\* The mutexes nest: nobody's cursor ever points to an erased entry, the counter of an entry
\* is the number of threads that wait for it or are in it, and at most one is in.
EntriesCounted ==
  /\ dangling = {}
  /\ \A i \in LowIds :
       LET users == {t \in GuardThreads : guardPc[t] \in {"wait", "in"} /\ low[t] = i}
           inside == {t \in users : guardPc[t] = "in"}
       IN /\ Cardinality(inside) <= 1
          /\ i \in DOMAIN rel <=> users # {}
          /\ i \in DOMAIN rel => /\ rel[i].counter = Cardinality(users)
                                 /\ \A t \in inside : rel[i].owner = t

\* Nobody waits on everybody: a thread that registered gets in and out again.
GuardReturns == \A t \in GuardThreads : (guardPc[t] = "wait") ~> (guardPc[t] = "out")
=============================================================================
