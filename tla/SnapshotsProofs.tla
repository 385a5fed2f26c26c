-------------------------- MODULE SnapshotsProofs --------------------------
(***************************************************************************)
(* Proofs about the SnapshotsHolder: its books with any number of users,   *)
(* and what a reader may rely on when it is the only user.                 *)
(***************************************************************************)
EXTENDS Snapshots, SeqLemmas, FiniteSetTheorems, WellFoundedInduction, TLAPS

Adding == {v \in Users : pc[v] \in {"load", "ref", "publish"}}

\* What a thread works on exists, and there is room for the snapshots under construction.
Works ==
  /\ pc \in [Threads -> {"idle", "load", "ref", "publish", "release", "get", "write", "test",
                         "loop", "wait", "drain", "exit"}]
  /\ pc[GC] \in {"loop", "wait", "drain", "exit", "write", "test"}
  /\ \A u \in Users : pc[u] \in {"load", "ref", "publish"} => id[u] \in Ids
  /\ \A t \in Threads : pc[t] \in {"get", "write", "test", "release"} => handle[t] \in DOMAIN snapshots
  /\ \A t \in Threads : pc[t] = "write" => tmp[t] # 0
  /\ \A u \in Users : held[u] \in DOMAIN snapshots \cup {0}
  /\ Range(to_release_) \cup Range(batch) \subseteq DOMAIN snapshots
  /\ Len(snapshots) + Cardinality(Adding) <= MaxAdds
  /\ \A u \in Users \ crew : pc[u] = "idle" /\ held[u] = 0

\* min_id_ and max_id_ are the ends of active_.
Ends ==
  /\ DOMAIN active_ = {} => max_id_ = 0 /\ min_id_ = {}
  /\ DOMAIN active_ # {} =>
       /\ max_id_ \in DOMAIN active_ /\ \A i \in DOMAIN active_ : i <= max_id_
       /\ \E m \in DOMAIN active_ : min_id_ = {m} /\ \A i \in DOMAIN active_ : m <= i
  /\ Cardinality(DOMAIN active_) <= num_versions_

\* An evicted snapshot is on its way with a user, in to_release_ or in batch, or with the
\* background thread.
Carried(h) == \E u \in Users : pc[u] = "release" /\ handle[u] = h
Waiting(h) == Carried(h) \/ h \in Range(to_release_) \/ h \in Range(batch)
InGC(h) == pc[GC] \in {"write", "test"} /\ handle[GC] = h
Leaving(h) == Waiting(h) \/ InGC(h)
IsActive(h) == h \in Range(active_)

\* A snapshot has one place.
OnePlace ==
  /\ \A i \in DOMAIN active_ : snapshots[active_[i]].id = i
  /\ \A u, v \in Users : pc[u] = "release" /\ pc[v] = "release" /\ handle[u] = handle[v] => u = v
  /\ IsInjective(to_release_) /\ IsInjective(batch)
  /\ \A h \in Handles :
       /\ IsActive(h) => ~Leaving(h)
       /\ Carried(h) => h \notin Range(to_release_) /\ h \notin Range(batch)
       /\ h \in Range(to_release_) => h \notin Range(batch)
       /\ InGC(h) => ~Waiting(h)

\* The snapshot a user reads or gives back.
Uses(w, h) ==
  \/ held[w] # 0 /\ held[w] = h
  \/ pc[w] \in {"get", "write", "test"} /\ handle[w] = h

\* With w the only user: ids are added in ascending order and evicted from below, so that an id
\* has one snapshot in use ...
Ascending(w) ==
  /\ pc[w] \in {"load", "ref", "publish"} => id[w] >= max_id_
  /\ \A h \in DOMAIN snapshots : Leaving(h) =>
       snapshots[h].id < max_id_ /\ \A i \in DOMAIN active_ : snapshots[h].id < i
  /\ \A h \in DOMAIN snapshots : Uses(w, h) =>
       /\ snapshots[h].id <= max_id_
       /\ \A i \in DOMAIN active_ : snapshots[h].id = i => h = active_[i]
       /\ \A g \in DOMAIN snapshots : Leaving(g) /\ snapshots[g].id = snapshots[h].id => g = h

\* ... the counts of active, waiting and held snapshots stay above 0, whichever decrement comes
\* first ...
Counted(w) ==
  /\ \A h \in DOMAIN snapshots : IsActive(h) \/ Waiting(h) =>
       /\ snapshots[h].ref >= 1
       /\ held[w] = h => snapshots[h].ref >= 2
       /\ pc[w] = "write" /\ handle[w] = h => tmp[w] >= 2
  /\ held[w] # 0 =>
       /\ pc[w] \notin {"get", "write", "test"}
       /\ snapshots[held[w]].ref >= 1
       /\ pc[GC] = "write" /\ handle[GC] = held[w] => tmp[GC] >= 2
  /\ pc[w] = "get" => IsActive(handle[w]) /\ tmp[w] >= 1

\* ... and so the Store keeps what is in use.
Kept(w) ==
  /\ DOMAIN active_ \subseteq stored
  /\ held[w] # 0 => snapshots[held[w]].id \in stored
  /\ pc[w] \in {"load", "ref", "publish"} => id[w] \in stored

Lone(w) == Ascending(w) /\ Counted(w) /\ Kept(w)

SnapInv ==
  /\ TypeOK /\ Works /\ Ends /\ OnePlace
  /\ \A w \in crew : crew = {w} => Lone(w)

-----------------------------------------------------------------------------
(* Snapshots and threads *)

\* A set of numbers that is not empty has a smallest one.
LEMMA SmallestIs ==
  ASSUME NEW T \in SUBSET Nat, T # {}
  PROVE  Smallest(T) \in T /\ \A k \in T : Smallest(T) <= k
<1> DEFINE R == {ss \in Nat \X Nat : ss[1] < ss[2]}
<1>1. IsWellFoundedOn(R, Nat)
  BY NatLessThanWellFounded DEF OpToRel
<1>2. PICK x \in T : \A y \in T : ~(<<y, x>> \in R)
  BY <1>1, WFMin
<1>3. \A y \in T : ~(y < x)
  BY <1>2
<1>4. \A y \in T : x <= y
  BY <1>3
<1> QED BY <1>4 DEF Smallest

Snaps == [id : Ids, ref : Nat]

\* Writing a count leaves the ids and the other counts.
Written(h, n) ==
  /\ snapshots' \in Seq(Snaps) /\ Len(snapshots') = Len(snapshots) /\ DOMAIN snapshots' = DOMAIN snapshots
  /\ \A g \in DOMAIN snapshots : /\ snapshots'[g].id = snapshots[g].id
                                 /\ snapshots'[g].ref = IF g = h THEN n ELSE snapshots[g].ref

\* A write of refcnt_ in Ref() or UnRef().
LEMMA WriteRef ==
  ASSUME snapshots \in Seq(Snaps), NEW h \in DOMAIN snapshots, NEW n \in Nat,
         snapshots' = [snapshots EXCEPT ![h].ref = n]
  PROVE  Written(h, n)
<1>1. PICK m : m = [snapshots[h] EXCEPT !.ref = n]
  OBVIOUS
<1>2. snapshots[h] \in Snaps
  OBVIOUS
<1>3. m \in Snaps /\ m.id = snapshots[h].id /\ m.ref = n
  BY <1>1, <1>2 DEF Snaps
<1>4. snapshots' = [snapshots EXCEPT ![h] = m]
  BY <1>1
<1>5. snapshots' \in Seq(Snaps) /\ Len(snapshots') = Len(snapshots) /\ DOMAIN snapshots' = DOMAIN snapshots
  BY <1>3, <1>4
<1> QED BY <1>3, <1>4, <1>5 DEF Written

\* A new snapshot leaves the others.
Made(m) ==
  /\ snapshots' \in Seq(Snaps) /\ Len(snapshots') = Len(snapshots) + 1
  /\ DOMAIN snapshots' = DOMAIN snapshots \cup {Len(snapshots) + 1}
  /\ Len(snapshots) + 1 \notin DOMAIN snapshots
  /\ \A g \in DOMAIN snapshots : snapshots'[g] = snapshots[g]
  /\ snapshots'[Len(snapshots) + 1] = m

\* A snapshot Add() has built.
LEMMA MakeSnapshot ==
  ASSUME snapshots \in Seq(Snaps), NEW m \in Snaps, snapshots' = Append(snapshots, m)
  PROVE  Made(m)
BY DEF Made

\* The threads under construction after one thread goes on.
LEMMA AddingStep ==
  ASSUME Works, NEW t \in Threads, NEW to, pc' = [pc EXCEPT ![t] = to]
  PROVE  Adding' = IF t \in Users /\ to \in {"load", "ref", "publish"} THEN Adding \cup {t} ELSE Adding \ {t}
BY DEF Works, Adding, Threads

\* How many they are.
LEMMA AddingCount ==
  ASSUME Works, NEW t \in Threads
  PROVE  /\ IsFiniteSet(Adding) /\ Cardinality(Adding) \in Nat
         /\ t \in Adding => Cardinality(Adding \ {t}) = Cardinality(Adding) - 1
         /\ t \notin Adding => Adding \ {t} = Adding /\ Cardinality(Adding \cup {t}) = Cardinality(Adding) + 1
<1>1. Adding \in SUBSET Users
  BY DEF Adding
<1>2. IsFiniteSet(Adding)
  BY <1>1, SnapshotsAssumption, FS_Subset
<1>3. Cardinality(Adding) \in Nat
  BY <1>2, FS_CardinalityType
<1> QED BY <1>2, <1>3, FS_AddElement, FS_RemoveElement

\* What is known of a snapshot.
LEMMA SnapFacts ==
  ASSUME TypeOK, NEW h \in DOMAIN snapshots
  PROVE  /\ snapshots \in Seq(Snaps) /\ h \in Handles /\ h # 0 /\ h \in Nat
         /\ snapshots[h] \in Snaps /\ snapshots[h].id \in Ids /\ snapshots[h].ref \in Nat
         /\ snapshots[h].id \in Nat \ {0}
<1>1. snapshots \in Seq(Snaps) /\ Len(snapshots) <= MaxAdds
  BY DEF TypeOK, Snaps
<1>2. h \in 1 .. Len(snapshots) /\ snapshots[h] \in Snaps
  BY <1>1
<1>3. h \in Handles /\ h # 0 /\ h \in Nat
  BY <1>1, <1>2, SnapshotsAssumption DEF Handles
<1> QED BY <1>1, <1>2, <1>3, SnapshotsAssumption DEF Snaps

-----------------------------------------------------------------------------
(* Types *)

\* Every step but Publish keeps the types; so does Publish, which the next section is about.
LEMMA TypesKept ==
  ASSUME TypeOK, Works, HolderStep, UNCHANGED setting, \A u \in Users : ~Publish(u)
  PROVE  TypeOK'
<1> USE DEF TypeOK, Threads, Handles, holder, setting, Step
<1>0. snapshots \in Seq(Snaps)
  BY DEF Snaps
<1>1. ASSUME NEW u \in Users, NEW i \in Ids, AddCheck(u, i) PROVE TypeOK'
  BY <1>1 DEF AddCheck
<1>2. ASSUME NEW u \in Users, NEW i \in Ids, GetSnapshot(u, i) PROVE TypeOK'
  <2>1. mutex_' \subseteq Users /\ Cardinality(mutex_') <= 1
    <3>1. mutex_' = {u} /\ Cardinality({u}) = 1
      BY <1>2, FS_Singleton DEF GetSnapshot
    <3> QED BY <3>1
  <2>2. active_[i] \in DOMAIN snapshots
    BY <1>2 DEF GetSnapshot
  <2>3. active_[i] \in Handles /\ snapshots[active_[i]].ref \in Nat
    BY <2>2, SnapFacts
  <2>4. /\ pc' \in [Threads -> {"idle", "load", "ref", "publish", "release", "get", "write", "test",
                                "loop", "wait", "drain", "exit"}]
        /\ handle' \in [Threads -> Handles \cup {0}] /\ tmp' \in [Threads -> Nat]
    BY <1>2, <2>3 DEF GetSnapshot
  <2> QED BY <1>2, <2>1, <2>4 DEF GetSnapshot
<1>3. ASSUME NEW u \in Users, LoadResources(u) PROVE TypeOK'
  BY <1>3 DEF LoadResources, Works
<1>4. ASSUME NEW u \in Users, RefResources(u) PROVE TypeOK'
  BY <1>4 DEF RefResources, Works
<1>5. ASSUME NEW u \in Users, PublishDropped(u) PROVE TypeOK'
  <2>1. PICK n : n = IF done_ THEN 0 ELSE 1
    OBVIOUS
  <2>2. [id |-> id[u], ref |-> n] \in Snaps /\ snapshots' = Append(snapshots, [id |-> id[u], ref |-> n])
    BY <1>5, <2>1 DEF PublishDropped, Works, Snaps
  <2>3. Made([id |-> id[u], ref |-> n])
    BY <1>0, <2>2, MakeSnapshot
  <2>4. Len(snapshots') <= MaxAdds
    <3>1. u \in Adding
      BY <1>5 DEF PublishDropped, Adding
    <3>2. Cardinality(Adding) \in Nat /\ Cardinality(Adding \ {u}) = Cardinality(Adding) - 1 /\ IsFiniteSet(Adding)
      BY <3>1, AddingCount
    <3>3. Cardinality(Adding) # 0
      BY <3>1, <3>2, FS_EmptySet
    <3>4. Len(snapshots) \in Nat /\ Len(snapshots) + Cardinality(Adding) <= MaxAdds
      BY <1>0 DEF Works
    <3> QED BY <2>3, <3>2, <3>3, <3>4, SnapshotsAssumption DEF Made
  <2>5. \A i \in DOMAIN active_ : active_[i] \in DOMAIN snapshots'
    BY <2>3 DEF Made
  <2> QED BY <1>5, <2>3, <2>4, <2>5 DEF PublishDropped, Made, Snaps
<1>6. ASSUME NEW u \in Users, ReadyForRelease(u) PROVE TypeOK'
  <2>1. handle[u] \in Handles
    BY <1>6, SnapFacts DEF ReadyForRelease, Works
  <2>2. to_release_' \in Seq(Handles)
    BY <1>6, <2>1 DEF ReadyForRelease
  <2> QED BY <1>6, <2>2 DEF ReadyForRelease
<1>7. ASSUME NEW u \in Users, RefWrite(u) PROVE TypeOK'
  <2>1. handle[u] \in DOMAIN snapshots /\ tmp[u] + 1 \in Nat
    BY <1>7 DEF RefWrite, Works
  <2>2. Written(handle[u], tmp[u] + 1)
    BY <1>0, <1>7, <2>1, WriteRef DEF RefWrite
  <2>3. mutex_' \subseteq Users /\ Cardinality(mutex_') <= 1
    <3>1. mutex_' = {} /\ Cardinality({}) = 0
      BY <1>7, FS_EmptySet DEF RefWrite
    <3> QED BY <3>1
  <2>4. handle[u] \in Handles
    BY <2>1, SnapFacts
  <2>5. \A i \in DOMAIN active_ : active_[i] \in DOMAIN snapshots'
    BY <2>2 DEF Written
  <2>6. pc' \in [Threads -> {"idle", "load", "ref", "publish", "release", "get", "write", "test",
                             "loop", "wait", "drain", "exit"}]
    BY <1>7 DEF RefWrite
  <2>7. handle' \in [Threads -> Handles \cup {0}] /\ tmp' \in [Threads -> Nat] /\ held' \in [Users -> Handles \cup {0}]
        /\ touched' \subseteq Handles
    BY <1>7, <2>4 DEF RefWrite
  <2> QED BY <1>7, <2>2, <2>3, <2>5, <2>6, <2>7 DEF RefWrite, Written, Snaps
<1>8. ASSUME NEW t \in Threads, NEW h \in DOMAIN snapshots, NEW from, NEW to \in {"idle", "drain"}, UnRefRead(t, h, from, to),
             held' \in [Users -> Handles \cup {0}], batch' \in Seq(Handles)
      PROVE  TypeOK'
  <2>1. h \in Handles /\ snapshots[h].ref \in Nat
    BY SnapFacts
  <2>2. /\ pc' \in [Threads -> {"idle", "load", "ref", "publish", "release", "get", "write", "test",
                                "loop", "wait", "drain", "exit"}]
        /\ handle' \in [Threads -> Handles \cup {0}] /\ tmp' \in [Threads -> Nat]
    BY <1>8, <2>1 DEF UnRefRead
  <2> QED BY <1>8, <2>2 DEF UnRefRead
<1>9. ASSUME NEW u \in Users, DropScoped(u) PROVE TypeOK'
  <2>1. held[u] \in DOMAIN snapshots /\ held' \in [Users -> Handles \cup {0}] /\ batch' \in Seq(Handles)
    BY <1>9 DEF DropScoped, Works
  <2> QED BY <1>8, <1>9, <2>1 DEF DropScoped
<1>10. ASSUME NEW t \in Threads, UnRefWrite(t) PROVE TypeOK'
  <2>1. handle[t] \in DOMAIN snapshots /\ tmp[t] - 1 \in Nat
    BY <1>10 DEF UnRefWrite, Works
  <2>2. Written(handle[t], tmp[t] - 1)
    BY <1>0, <1>10, <2>1, WriteRef DEF UnRefWrite
  <2>3. \A i \in DOMAIN active_ : active_[i] \in DOMAIN snapshots'
    BY <2>2 DEF Written
  <2>4. /\ pc' \in [Threads -> {"idle", "load", "ref", "publish", "release", "get", "write", "test",
                                "loop", "wait", "drain", "exit"}]
        /\ tmp' \in [Threads -> Nat]
    BY <1>10 DEF UnRefWrite
  <2> QED BY <1>10, <2>2, <2>3, <2>4 DEF UnRefWrite, Written, Snaps
<1>11. ASSUME NEW t \in Threads, UnRefTest(t) PROVE TypeOK'
  <2>1. snapshots[handle[t]].id \in Ids
    BY <1>11, SnapFacts DEF UnRefTest, Works
  <2>2. /\ pc' \in [Threads -> {"idle", "load", "ref", "publish", "release", "get", "write", "test",
                                "loop", "wait", "drain", "exit"}]
        /\ handle' \in [Threads -> Handles \cup {0}]
    BY <1>11 DEF UnRefTest
  <2>3. resource' \in [Ids -> Nat] /\ stored' \subseteq Ids /\ cached' \subseteq Ids
    BY <1>11, <2>1 DEF UnRefTest
  <2> QED BY <1>11, <2>2, <2>3 DEF UnRefTest
<1>12. CASE GCLoop
  BY <1>12 DEF GCLoop
<1>13. CASE GCTake
  BY <1>13 DEF GCTake
<1>14. CASE GCUnRef
  <2>1. Head(batch) \in Range(batch) /\ Tail(batch) \in Seq(Handles)
    BY <1>14, RangeTake DEF GCUnRef
  <2>2. Head(batch) \in DOMAIN snapshots
    BY <2>1 DEF Works
  <2> QED BY <1>8, <1>14, <2>1, <2>2 DEF GCUnRef
<1>15. CASE GCDrained
  BY <1>15 DEF GCDrained
<1>16. CASE NotifyDone
  BY <1>16 DEF NotifyDone, local
<1>17. crew \subseteq Users
  BY SnapshotsAssumption
<1> QED BY <1>1, <1>2, <1>3, <1>4, <1>5, <1>6, <1>7, <1>9, <1>10, <1>11, <1>12, <1>13, <1>14, <1>15, <1>16, <1>17
        DEF HolderStep, UserStep, UnRefStep, GCStep

-----------------------------------------------------------------------------
(* Publish *)

\* A new snapshot becomes active, and the ids of gone stop being so.
Activated(u, gone) ==
  /\ DOMAIN active_' = (DOMAIN active_ \cup {id[u]}) \ gone
  /\ \A j \in DOMAIN active_' : active_'[j] = IF j = id[u] THEN Len(snapshots) + 1 ELSE active_[j]

\* Nothing is evicted.
Stays(u) ==
  /\ Activated(u, {})
  /\ Cardinality(DOMAIN active_ \cup {id[u]}) <= num_versions_
  /\ pc' = [pc EXCEPT ![u] = "idle"] /\ handle' = handle

\* The snapshot of old, the smallest id, is evicted.
Evicts(u, old) ==
  /\ Activated(u, {old})
  /\ old \in DOMAIN active_ \cup {id[u]} /\ DOMAIN active_ # {}
  /\ \A j \in DOMAIN active_ \cup {id[u]} : old <= j
  /\ pc' = [pc EXCEPT ![u] = "release"]
  /\ handle' = [handle EXCEPT ![u] = IF old = id[u] THEN Len(snapshots) + 1 ELSE active_[old]]

\* active_ is a finite set of numbers.
LEMMA ActiveFacts ==
  ASSUME TypeOK
  PROVE  /\ DOMAIN active_ \subseteq Nat \ {0} /\ IsFiniteSet(DOMAIN active_) /\ Cardinality(DOMAIN active_) \in Nat
         /\ num_versions_ \in Nat \ {0} /\ crew \subseteq Users
<1>1. DOMAIN active_ \in SUBSET Ids /\ Ids \subseteq Nat \ {0} /\ IsFiniteSet(Ids)
  BY SnapshotsAssumption DEF TypeOK
<1>2. IsFiniteSet(DOMAIN active_)
  BY <1>1, FS_Subset
<1> QED BY <1>1, <1>2, FS_CardinalityType, SnapshotsAssumption DEF TypeOK, setting

\* Publish keeps every active snapshot or evicts the one with the smallest id, the new one
\* included.
LEMMA PublishIs ==
  ASSUME TypeOK, Works, Ends, NEW u \in Users, Publish(u)
  PROVE  /\ id[u] \in Ids /\ id[u] \in Nat \ {0} /\ id[u] \notin DOMAIN active_
         /\ Made([id |-> id[u], ref |-> 1])
         /\ Stays(u) \/ \E old \in Ids : Evicts(u, old)
         /\ DOMAIN active_' # {} /\ min_id_' = {Smallest(DOMAIN active_')}
<1> DEFINE i == id[u]
           D == DOMAIN active_
           ids == D \cup {i}
           old == Oldest(i)
           rest == IF Cardinality(ids) <= num_versions_ THEN ids ELSE ids \ {old}
<1>1. i \in Ids /\ i \in Nat \ {0} /\ i \notin D /\ ids \subseteq Ids /\ ids \subseteq Nat
  <2>1. i \in Ids /\ i \notin D
    BY DEF Publish, Works
  <2> QED BY <2>1, SnapshotsAssumption, ActiveFacts DEF TypeOK
<1>2. Made([id |-> i, ref |-> 1])
  <2>1. [id |-> i, ref |-> 1] \in Snaps /\ snapshots \in Seq(Snaps)
    BY <1>1 DEF Snaps, TypeOK
  <2>2. snapshots' = Append(snapshots, [id |-> i, ref |-> 1])
    BY DEF Publish
  <2> QED BY <2>1, <2>2, MakeSnapshot
<1>3. old \in ids /\ \A j \in ids : old <= j
  <2>1. CASE D = {}
    <3>1. min_id_ = {}
      BY <2>1 DEF Ends
    <3>2. old = i
      BY <3>1 DEF Oldest
    <3> QED BY <1>1, <2>1, <3>2
  <2>2. CASE D # {}
    <3>1. PICK m \in D : min_id_ = {m} /\ \A j \in D : m <= j
      BY <2>2 DEF Ends
    <3>2. CASE m < i
      <4>1. old = m
        BY <3>1, <3>2 DEF Oldest
      <4> QED BY <1>1, <3>1, <3>2, <4>1
    <3>3. CASE ~(m < i)
      <4>1. old = i
        BY <3>1, <3>3 DEF Oldest
      <4> QED BY <1>1, <3>1, <3>3, <4>1
    <3> QED BY <3>2, <3>3
  <2> QED BY <2>1, <2>2
<1>4. Cardinality(ids) = Cardinality(D) + 1 /\ Cardinality(D) \in Nat /\ num_versions_ \in Nat \ {0}
  BY <1>1, ActiveFacts, FS_AddElement
<1>5. rest # ids => D # {}
  <2> SUFFICES ASSUME D = {} PROVE rest = ids
    OBVIOUS
  <2>1. Cardinality(D) = 0
    BY FS_EmptySet
  <2> QED BY <1>4, <2>1
<1>6. rest # {}
  <2>1. rest # ids => \E j \in D : j # i
    BY <1>1, <1>5
  <2> QED BY <1>1, <1>3, <2>1
<1>7. /\ active_' = [j \in rest |-> IF j = i THEN Len(snapshots) + 1 ELSE active_[j]]
      /\ min_id_' = {MinAfter(old, rest)}
  BY DEF Publish
<1>8. DOMAIN active_' = rest /\ \A j \in rest : active_'[j] = IF j = i THEN Len(snapshots) + 1 ELSE active_[j]
  BY <1>7
<1>9. min_id_' = {Smallest(rest)}
  <2>1. rest \in SUBSET Nat
    BY <1>1
  <2>2. Smallest(rest) \in rest /\ \A j \in rest : Smallest(rest) <= j
    BY <1>6, <2>1, SmallestIs
  <2>3. CASE old \in rest
    <3>1. old <= Smallest(rest) /\ Smallest(rest) <= old
      BY <1>3, <2>2, <2>3
    <3>2. old = Smallest(rest)
      BY <1>1, <1>3, <2>1, <2>2, <3>1
    <3> QED BY <1>7, <2>3, <3>2 DEF MinAfter
  <2>4. CASE old \notin rest
    BY <1>7, <2>4 DEF MinAfter
  <2> QED BY <2>3, <2>4
<1>10. CASE rest = ids
  <2>1. Cardinality(ids) <= num_versions_
    BY <1>3, <1>10
  <2>2. pc' = [pc EXCEPT ![u] = "idle"] /\ handle' = handle
    BY <1>10 DEF Publish
  <2>3. Stays(u)
    BY <1>8, <1>10, <2>1, <2>2 DEF Stays, Activated
  <2> QED BY <1>1, <1>2, <1>6, <1>8, <1>9, <2>3
<1>11. CASE rest # ids
  <2>1. rest = ids \ {old} /\ D # {}
    BY <1>5, <1>11
  <2>2. pc' = [pc EXCEPT ![u] = "release"]
        /\ handle' = [handle EXCEPT ![u] = IF old = i THEN Len(snapshots) + 1 ELSE active_[old]]
    BY <1>11 DEF Publish
  <2>3. Activated(u, {old})
    BY <1>8, <2>1 DEF Activated
  <2>4. Evicts(u, old) /\ old \in Ids
    BY <1>1, <1>3, <2>1, <2>2, <2>3 DEF Evicts
  <2> QED BY <1>1, <1>2, <1>6, <1>8, <1>9, <2>4
<1> QED BY <1>10, <1>11

\* Publish keeps the ends of active_ in the books: the largest id is never the one evicted.
LEMMA PublishEnds ==
  ASSUME TypeOK, Works, Ends, NEW u \in Users, Publish(u), UNCHANGED setting
  PROVE  Ends'
<1> DEFINE i == id[u]
           D == DOMAIN active_
<1>1. /\ i \in Nat \ {0} /\ i \notin D /\ D \subseteq Nat \ {0}
      /\ Stays(u) \/ \E old \in Ids : Evicts(u, old)
      /\ DOMAIN active_' # {} /\ min_id_' = {Smallest(DOMAIN active_')}
  BY PublishIs, ActiveFacts
<1>2. max_id_' = (IF max_id_ < i THEN i ELSE max_id_) /\ num_versions_' = num_versions_
  BY DEF Publish, setting
<1>3. max_id_ \in Nat /\ (D # {} => max_id_ \in D) /\ (D = {} => max_id_ = 0) /\ \A j \in D : j <= max_id_
  <2>1. CASE D = {}
    BY <2>1 DEF Ends
  <2>2. CASE D # {}
    <3>1. max_id_ \in D /\ \A j \in D : j <= max_id_
      BY <2>2 DEF Ends
    <3>2. max_id_ \in Nat
      BY <1>1, <3>1
    <3> QED BY <2>2, <3>1, <3>2
  <2> QED BY <2>1, <2>2
<1>4. max_id_' \in D \cup {i} /\ \A j \in D \cup {i} : j <= max_id_'
  <2> HIDE DEF D, i
  <2>1. CASE max_id_ < i
    BY <1>1, <1>2, <1>3, <2>1
  <2>2. CASE ~(max_id_ < i)
    <3>1. max_id_ # 0 /\ max_id_' = max_id_
      BY <1>1, <1>2, <1>3, <2>2
    <3>2. max_id_ \in D
      BY <1>3, <3>1
    <3> QED BY <1>1, <1>3, <2>2, <3>1, <3>2
  <2> QED BY <2>1, <2>2
<1>5. max_id_' \in DOMAIN active_' /\ Cardinality(DOMAIN active_') <= num_versions_'
  <2>1. CASE Stays(u)
    BY <1>2, <1>4, <2>1 DEF Stays, Activated
  <2>2. ASSUME NEW old \in Ids, Evicts(u, old) PROVE max_id_' \in DOMAIN active_' /\ Cardinality(DOMAIN active_') <= num_versions_'
    <3>1. old \in D \cup {i} /\ D # {} /\ \A j \in D \cup {i} : old <= j
      BY <2>2 DEF Evicts
    <3>2. max_id_' # old
      BY <1>1, <1>3, <1>4, <3>1
    <3>3. DOMAIN active_' = (D \cup {i}) \ {old}
      BY <2>2 DEF Evicts, Activated
    <3>4. IsFiniteSet(D \cup {i}) /\ Cardinality(D \cup {i}) = Cardinality(D) + 1 /\ Cardinality(D) \in Nat
      BY <1>1, ActiveFacts, FS_AddElement
    <3>5. Cardinality((D \cup {i}) \ {old}) = Cardinality(D)
      BY <3>1, <3>4, FS_RemoveElement
    <3>6. Cardinality(DOMAIN active_') = Cardinality(D)
      BY <3>3, <3>5
    <3>7. Cardinality(D) <= num_versions_
      BY DEF Ends
    <3> QED BY <1>2, <1>4, <3>2, <3>3, <3>6, <3>7
  <2> QED BY <1>1, <2>1, <2>2
<1>6. DOMAIN active_' \subseteq D \cup {i}
  BY <1>1 DEF Stays, Evicts, Activated
<1>7. DOMAIN active_' \in SUBSET Nat
  BY <1>1, <1>6
<1>8. Smallest(DOMAIN active_') \in DOMAIN active_' /\ \A j \in DOMAIN active_' : Smallest(DOMAIN active_') <= j
  BY <1>1, <1>7, SmallestIs
<1>9. PICK m : m = Smallest(DOMAIN active_')
  OBVIOUS
<1>10. m \in DOMAIN active_' /\ min_id_' = {m} /\ \A j \in DOMAIN active_' : m <= j
  BY <1>1, <1>8, <1>9
<1>11. \A j \in DOMAIN active_' : j <= max_id_'
  BY <1>4, <1>6
<1> QED BY <1>1, <1>5, <1>10, <1>11 DEF Ends

\* The other steps leave active_ and its ends.
LEMMA EndsKept ==
  ASSUME TypeOK, Works, Ends, HolderStep, UNCHANGED setting
  PROVE  Ends'
<1>1. ASSUME NEW u \in Users, Publish(u) PROVE Ends'
  BY <1>1, PublishEnds
<1>2. CASE UNCHANGED <<active_, min_id_, max_id_>>
  <2>1. num_versions_' = num_versions_
    BY DEF setting
  <2> QED BY <1>2, <2>1 DEF Ends
<1>3. \A u \in Users : Publish(u) \/ UNCHANGED <<active_, min_id_, max_id_>>
                       \/ ~(UserStep(u) \/ DropScoped(u) \/ \E i \in Ids : AddCheck(u, i) \/ GetSnapshot(u, i))
  BY DEF UserStep, LoadResources, RefResources, PublishDropped, ReadyForRelease, RefWrite, DropScoped, UnRefRead,
         AddCheck, GetSnapshot, holder
<1>4. \A t : UnRefStep(t) => UNCHANGED <<active_, min_id_, max_id_>>
  BY DEF UnRefStep, UnRefWrite, UnRefTest, holder
<1>5. GCStep \/ NotifyDone => UNCHANGED <<active_, min_id_, max_id_>>
  BY DEF GCStep, GCLoop, GCTake, GCUnRef, UnRefRead, GCDrained, NotifyDone, holder
<1>6. crew \subseteq Users
  BY ActiveFacts
<1> QED BY <1>1, <1>2, <1>3, <1>4, <1>5, <1>6 DEF HolderStep

\* Publish keeps the types.
LEMMA PublishTypes ==
  ASSUME TypeOK, Works, Ends, NEW u \in Users, Publish(u), UNCHANGED setting
  PROVE  TypeOK'
<1> DEFINE h == Len(snapshots) + 1
<1>1. /\ id[u] \in Ids /\ Made([id |-> id[u], ref |-> 1])
      /\ Stays(u) \/ \E old \in Ids : Evicts(u, old)
      /\ DOMAIN active_' # {} /\ min_id_' = {Smallest(DOMAIN active_')}
  BY PublishIs
<1>2. /\ DOMAIN active_' \subseteq DOMAIN active_ \cup {id[u]}
      /\ \A j \in DOMAIN active_' : active_'[j] = IF j = id[u] THEN h ELSE active_[j]
  BY <1>1 DEF Stays, Evicts, Activated
<1>3. DOMAIN active_' \subseteq Ids /\ \A j \in DOMAIN active_' : active_'[j] \in DOMAIN snapshots'
  BY <1>1, <1>2 DEF Made, TypeOK
<1>4. min_id_' \subseteq Ids /\ Cardinality(min_id_') <= 1
  <2>1. DOMAIN active_' \in SUBSET Nat
    BY <1>3, SnapshotsAssumption
  <2>2. Smallest(DOMAIN active_') \in DOMAIN active_'
    BY <1>1, <2>1, SmallestIs
  <2>3. Cardinality({Smallest(DOMAIN active_')}) = 1
    BY FS_Singleton
  <2> QED BY <1>1, <1>3, <2>2, <2>3
<1>5. h \in Handles /\ h <= MaxAdds
  <2>1. u \in Adding /\ u \in Threads
    BY DEF Publish, Adding, Threads
  <2>2. Cardinality(Adding) \in Nat /\ IsFiniteSet(Adding)
    BY <2>1, AddingCount
  <2>3. Cardinality(Adding) # 0
    BY <2>1, <2>2, FS_EmptySet
  <2>4. Len(snapshots) \in Nat /\ Len(snapshots) + Cardinality(Adding) <= MaxAdds
    BY DEF Works, TypeOK
  <2> QED BY <2>2, <2>3, <2>4, SnapshotsAssumption DEF Handles
<1>6. /\ pc' \in [Threads -> {"idle", "load", "ref", "publish", "release", "get", "write", "test",
                              "loop", "wait", "drain", "exit"}]
      /\ handle' \in [Threads -> Handles \cup {0}]
  <2>1. \A j \in DOMAIN active_ : active_[j] \in Handles
    BY SnapFacts DEF TypeOK
  <2>2. pc \in [Threads -> {"idle", "load", "ref", "publish", "release", "get", "write", "test",
                            "loop", "wait", "drain", "exit"}]
        /\ handle \in [Threads -> Handles \cup {0}]
    BY DEF TypeOK
  <2>3. CASE Stays(u)
    BY <2>2, <2>3 DEF Stays
  <2>4. ASSUME NEW old \in Ids, Evicts(u, old)
        PROVE  /\ pc' \in [Threads -> {"idle", "load", "ref", "publish", "release", "get", "write", "test",
                                       "loop", "wait", "drain", "exit"}]
               /\ handle' \in [Threads -> Handles \cup {0}]
    BY <1>5, <2>1, <2>2, <2>4 DEF Evicts
  <2> QED BY <1>1, <2>3, <2>4
<1>7. max_id_' \in Ids \cup {0} /\ id' \in [Users -> Ids \cup {0}]
  BY <1>1 DEF Publish, TypeOK
<1>8. snapshots' \in Seq([id : Ids, ref : Nat]) /\ Len(snapshots') <= MaxAdds
  BY <1>1, <1>5 DEF Made, Snaps
<1> QED BY <1>3, <1>4, <1>6, <1>7, <1>8 DEF Publish, TypeOK, setting

-----------------------------------------------------------------------------
(* What the threads work on *)

\* Thread t goes on to to, and no other thread's own variables change.
Moves(t, to) ==
  /\ pc' = [pc EXCEPT ![t] = to]
  /\ \A v \in Threads \ {t} : handle'[v] = handle[v] /\ tmp'[v] = tmp[v]
  /\ \A v \in Users \ {t} : id'[v] = id[v] /\ held'[v] = held[v]

\* What t has to work on afterwards.
Equipped(t, to) ==
  /\ t \in Users /\ to \in {"load", "ref", "publish"} => id'[t] \in Ids
  /\ to \in {"get", "write", "test", "release"} => handle'[t] \in DOMAIN snapshots'
  /\ to = "write" => tmp'[t] # 0
  /\ t \in Users => held'[t] \in DOMAIN snapshots' \cup {0}

\* If t is equipped and the room is kept, every thread is equipped.
LEMMA WorksStep ==
  ASSUME TypeOK, Works, NEW t \in crew \cup {GC}, NEW to, Moves(t, to), Equipped(t, to), crew' = crew,
         to \in (IF t = GC THEN {"loop", "wait", "drain", "exit", "write", "test"}
                 ELSE {"idle", "load", "ref", "publish", "release", "get", "write", "test"}),
         DOMAIN snapshots \subseteq DOMAIN snapshots',
         Range(to_release_') \cup Range(batch') \subseteq DOMAIN snapshots',
         Len(snapshots') + Cardinality(Adding') <= MaxAdds
  PROVE  Works'
<1>1. t \in Threads /\ crew \subseteq Users /\ GC \notin Users /\ GC \in Threads /\ Users \subseteq Threads
  BY ActiveFacts, SnapshotsAssumption DEF Threads
<1>2. pc' \in [Threads -> {"idle", "load", "ref", "publish", "release", "get", "write", "test",
                           "loop", "wait", "drain", "exit"}]
  BY <1>1 DEF Works, Moves
<1>3. pc'[GC] \in {"loop", "wait", "drain", "exit", "write", "test"}
  BY <1>1 DEF Works, Moves
<1>4. pc'[t] = to /\ \A v \in Threads : v # t => pc'[v] = pc[v]
  BY <1>1 DEF Works, Moves
<1>5. \A v \in Users : pc'[v] \in {"load", "ref", "publish"} => id'[v] \in Ids
  BY <1>1, <1>4 DEF Works, Moves, Equipped
<1>6. \A v \in Threads : pc'[v] \in {"get", "write", "test", "release"} => handle'[v] \in DOMAIN snapshots'
  BY <1>1, <1>4 DEF Works, Moves, Equipped
<1>7. \A v \in Threads : pc'[v] = "write" => tmp'[v] # 0
  BY <1>1, <1>4 DEF Works, Moves, Equipped
<1>8. \A v \in Users : held'[v] \in DOMAIN snapshots' \cup {0}
  BY <1>1 DEF Works, Moves, Equipped
<1>9. \A v \in Users \ crew' : pc'[v] = "idle" /\ held'[v] = 0
  <2> SUFFICES ASSUME NEW v \in Users \ crew PROVE pc'[v] = "idle" /\ held'[v] = 0
    OBVIOUS
  <2>1. v # t /\ v \in Threads
    BY <1>1
  <2> QED BY <1>4, <2>1 DEF Works, Moves
<1> QED BY <1>2, <1>3, <1>5, <1>6, <1>7, <1>8, <1>9 DEF Works

\* Threads that start, finish or go on adding.
LEMMA Room ==
  ASSUME TypeOK, Works, NEW t \in Threads, NEW to, pc' = [pc EXCEPT ![t] = to]
  PROVE  /\ pc[t] \in {"load", "ref", "publish"} /\ t \in Users /\ to \notin {"load", "ref", "publish"} =>
              Cardinality(Adding') = Cardinality(Adding) - 1
         /\ pc[t] \notin {"load", "ref", "publish"} /\ to \notin {"load", "ref", "publish"} =>
              Cardinality(Adding') = Cardinality(Adding)
         /\ pc[t] \in {"load", "ref", "publish"} /\ t \in Users /\ to \in {"load", "ref", "publish"} =>
              Cardinality(Adding') = Cardinality(Adding)
         /\ pc[t] \notin {"load", "ref", "publish"} /\ t \in Users /\ to \in {"load", "ref", "publish"} =>
              Cardinality(Adding') = Cardinality(Adding) + 1
         /\ Cardinality(Adding) \in Nat /\ Len(snapshots) \in Nat
         /\ Len(snapshots) + Cardinality(Adding) <= MaxAdds
<1>1. Adding' = IF t \in Users /\ to \in {"load", "ref", "publish"} THEN Adding \cup {t} ELSE Adding \ {t}
  BY AddingStep
<1>2. t \in Adding <=> t \in Users /\ pc[t] \in {"load", "ref", "publish"}
  BY DEF Adding
<1>3. /\ IsFiniteSet(Adding) /\ Cardinality(Adding) \in Nat
      /\ t \in Adding => Cardinality(Adding \ {t}) = Cardinality(Adding) - 1
      /\ t \notin Adding => Adding \ {t} = Adding /\ Cardinality(Adding \cup {t}) = Cardinality(Adding) + 1
  BY AddingCount
<1>4. t \in Adding => Adding \cup {t} = Adding
  OBVIOUS
<1>5. Len(snapshots) \in Nat /\ Len(snapshots) + Cardinality(Adding) <= MaxAdds
  BY DEF TypeOK, Works
<1> QED BY <1>1, <1>2, <1>3, <1>4, <1>5

\* The steps of a user.
LEMMA UserMoves ==
  ASSUME TypeOK, NEW u \in Users
  PROVE  /\ \A i : AddCheck(u, i) => Moves(u, "load")
         /\ LoadResources(u) => Moves(u, "ref")
         /\ RefResources(u) => Moves(u, "publish")
         /\ PublishDropped(u) => Moves(u, "idle")
         /\ Publish(u) /\ Stays(u) => Moves(u, "idle")
         /\ \A old : Publish(u) /\ Evicts(u, old) => Moves(u, "release")
         /\ ReadyForRelease(u) => Moves(u, "idle")
         /\ \A i : GetSnapshot(u, i) => Moves(u, "get")
         /\ RefWrite(u) => Moves(u, "idle")
<1> USE DEF Moves, Step, TypeOK, Threads
<1>1. \A i : AddCheck(u, i) => Moves(u, "load")
  BY DEF AddCheck
<1>2. (LoadResources(u) => Moves(u, "ref")) /\ (RefResources(u) => Moves(u, "publish"))
  BY DEF LoadResources, RefResources
<1>3. PublishDropped(u) => Moves(u, "idle")
  BY DEF PublishDropped
<1>4. Publish(u) /\ Stays(u) => Moves(u, "idle")
  BY DEF Publish, Stays
<1>5. \A old : Publish(u) /\ Evicts(u, old) => Moves(u, "release")
  BY DEF Publish, Evicts
<1>6. ReadyForRelease(u) => Moves(u, "idle")
  BY DEF ReadyForRelease
<1>7. \A i : GetSnapshot(u, i) => Moves(u, "get")
  BY DEF GetSnapshot
<1>8. RefWrite(u) => Moves(u, "idle")
  BY DEF RefWrite
<1> QED BY <1>1, <1>2, <1>3, <1>4, <1>5, <1>6, <1>7, <1>8

\* The steps of UnRef and of the background thread.
LEMMA UnRefMoves ==
  ASSUME TypeOK, NEW t \in Threads
  PROVE  /\ t \in Users /\ DropScoped(t) => Moves(t, IF snapshots[held[t]].ref = 0 THEN "idle" ELSE "write")
         /\ GCUnRef => Moves(GC, IF snapshots[Head(batch)].ref = 0 THEN "drain" ELSE "write")
         /\ UnRefWrite(t) => Moves(t, "test")
         /\ UnRefTest(t) => Moves(t, IF t = GC THEN "drain" ELSE "idle")
         /\ GCLoop => Moves(GC, IF done_ THEN "exit" ELSE "wait")
         /\ GCTake => Moves(GC, "drain")
         /\ GCDrained => Moves(GC, "loop")
<1> USE DEF Moves, Step, TypeOK, Threads
<1>1. t \in Users /\ DropScoped(t) => Moves(t, IF snapshots[held[t]].ref = 0 THEN "idle" ELSE "write")
  BY DEF DropScoped, UnRefRead
<1>2. GCUnRef => Moves(GC, IF snapshots[Head(batch)].ref = 0 THEN "drain" ELSE "write")
  BY DEF GCUnRef, UnRefRead
<1>3. UnRefWrite(t) => Moves(t, "test")
  BY DEF UnRefWrite
<1>4. UnRefTest(t) => Moves(t, IF t = GC THEN "drain" ELSE "idle")
  BY DEF UnRefTest
<1>5. /\ GCLoop => Moves(GC, IF done_ THEN "exit" ELSE "wait")
      /\ GCTake => Moves(GC, "drain")
      /\ GCDrained => Moves(GC, "loop")
  BY DEF GCLoop, GCTake, GCDrained
<1> QED BY <1>1, <1>2, <1>3, <1>4, <1>5

\* Every step keeps the threads equipped.
LEMMA WorksKept ==
  ASSUME TypeOK, Works, Ends, HolderStep, UNCHANGED setting
  PROVE  Works'
<1>0. /\ crew' = crew /\ crew \subseteq Users /\ GC \notin Users /\ \A u \in Users : u \in Threads /\ u # GC
      /\ GC \in Threads /\ snapshots \in Seq(Snaps) /\ to_release_ \in Seq(Handles) /\ batch \in Seq(Handles)
  BY ActiveFacts, SnapshotsAssumption DEF setting, Threads, TypeOK, Snaps
<1>1. ASSUME NEW u \in crew, NEW i \in Ids, AddCheck(u, i) PROVE Works'
  <2>1. Moves(u, "load")
    BY <1>0, <1>1, UserMoves
  <2>2. Equipped(u, "load") /\ DOMAIN snapshots \subseteq DOMAIN snapshots'
        /\ Range(to_release_') \cup Range(batch') \subseteq DOMAIN snapshots' /\ snapshots' = snapshots
    BY <1>1 DEF AddCheck, Equipped, Works, Step, holder, TypeOK, Threads
  <2>3. Len(snapshots') + Cardinality(Adding') <= MaxAdds
    <3>1. Len(snapshots) + Cardinality(Adding) < MaxAdds
      BY <1>1 DEF AddCheck, Adding
    <3>2. Cardinality(Adding') = Cardinality(Adding) + 1 /\ Cardinality(Adding) \in Nat /\ Len(snapshots) \in Nat
      BY <1>0, <1>1, <2>1, Room DEF AddCheck, Moves, Step
    <3> QED BY <2>2, <3>1, <3>2, SnapshotsAssumption
  <2> QED BY <1>0, <1>1, <2>1, <2>2, <2>3, WorksStep
<1>3. ASSUME NEW u \in crew, LoadResources(u) PROVE Works'
  <2>1. Moves(u, "ref")
    BY <1>0, <1>3, UserMoves
  <2>2. Equipped(u, "ref") /\ DOMAIN snapshots \subseteq DOMAIN snapshots'
        /\ Range(to_release_') \cup Range(batch') \subseteq DOMAIN snapshots' /\ snapshots' = snapshots
    BY <1>3 DEF LoadResources, Equipped, Works, Step, holder, TypeOK, Threads
  <2>3. Len(snapshots') + Cardinality(Adding') <= MaxAdds
    BY <1>0, <1>3, <2>1, <2>2, Room DEF LoadResources, Moves, Step
  <2> QED BY <1>0, <1>3, <2>1, <2>2, <2>3, WorksStep
<1>4. ASSUME NEW u \in crew, RefResources(u) PROVE Works'
  <2>1. Moves(u, "publish")
    BY <1>0, <1>4, UserMoves
  <2>2. Equipped(u, "publish") /\ DOMAIN snapshots \subseteq DOMAIN snapshots'
        /\ Range(to_release_') \cup Range(batch') \subseteq DOMAIN snapshots' /\ snapshots' = snapshots
    BY <1>4 DEF RefResources, Equipped, Works, Step, holder, TypeOK, Threads
  <2>3. Len(snapshots') + Cardinality(Adding') <= MaxAdds
    BY <1>0, <1>4, <2>1, <2>2, Room DEF RefResources, Moves, Step
  <2> QED BY <1>0, <1>4, <2>1, <2>2, <2>3, WorksStep
<1>5. ASSUME NEW u \in crew, ReadyForRelease(u) PROVE Works'
  <2>1. Moves(u, "idle")
    BY <1>0, <1>5, UserMoves
  <2>2. Equipped(u, "idle") /\ snapshots' = snapshots
    BY <1>0, <1>5 DEF ReadyForRelease, Equipped, Works
  <2>3. Range(to_release_') \cup Range(batch') \subseteq DOMAIN snapshots'
    <3>1. handle[u] \in DOMAIN snapshots
      BY <1>0, <1>5 DEF ReadyForRelease, Step, Works
    <3>2. Range(to_release_') = Range(to_release_) \cup {handle[u]} /\ batch' = batch
      BY <1>0, <1>5, <3>1, SnapFacts, RangeAppend DEF ReadyForRelease
    <3> QED BY <2>2, <3>1, <3>2 DEF Works
  <2>4. Len(snapshots') + Cardinality(Adding') <= MaxAdds
    <3>1. PICK to : to = "idle"
      OBVIOUS
    <3>2. u \in Threads /\ pc[u] = "release" /\ pc' = [pc EXCEPT ![u] = to]
      BY <1>0, <1>5, <3>1 DEF ReadyForRelease, Step
    <3>3. pc[u] \notin {"load", "ref", "publish"} /\ to \notin {"load", "ref", "publish"}
      BY <3>1, <3>2
    <3>4. Cardinality(Adding') = Cardinality(Adding) /\ Len(snapshots) + Cardinality(Adding) <= MaxAdds
      BY <3>2, <3>3, Room
    <3> QED BY <2>2, <3>4
  <2> QED BY <1>0, <2>1, <2>2, <2>3, <2>4, WorksStep
<1>6. ASSUME NEW u \in crew, NEW m, Made(m), pc[u] = "publish", UNCHANGED <<to_release_, batch, held>>,
             NEW to \in {"idle", "release"}, Moves(u, to), to = "release" => handle'[u] \in DOMAIN snapshots'
      PROVE  Works'
  <2>1. DOMAIN snapshots \subseteq DOMAIN snapshots' /\ Len(snapshots') = Len(snapshots) + 1
    BY <1>6 DEF Made
  <2>2. Equipped(u, to) /\ Range(to_release_') \cup Range(batch') \subseteq DOMAIN snapshots'
    BY <1>0, <1>6, <2>1 DEF Equipped, Works
  <2>3. Cardinality(Adding') = Cardinality(Adding) - 1 /\ Cardinality(Adding) \in Nat /\ Len(snapshots) \in Nat
        /\ Len(snapshots) + Cardinality(Adding) <= MaxAdds
    BY <1>0, <1>6, Room DEF Moves
  <2>4. Len(snapshots') + Cardinality(Adding') <= MaxAdds
    BY <2>1, <2>3, SnapshotsAssumption
  <2> QED BY <1>0, <1>6, <2>1, <2>2, <2>4, WorksStep
<1>7. ASSUME NEW u \in crew, PublishDropped(u) PROVE Works'
  <2>1. PICK m : m = [id |-> id[u], ref |-> IF done_ THEN 0 ELSE 1]
    OBVIOUS
  <2>2. m \in Snaps /\ snapshots' = Append(snapshots, m)
    BY <1>0, <1>7, <2>1 DEF PublishDropped, Works, Snaps
  <2>3. Made(m) /\ Moves(u, "idle")
    BY <1>0, <1>7, <2>2, MakeSnapshot, UserMoves
  <2> QED BY <1>6, <1>7, <2>3 DEF PublishDropped, holder
<1>8. ASSUME NEW u \in crew, Publish(u) PROVE Works'
  <2>1. Made([id |-> id[u], ref |-> 1]) /\ (Stays(u) \/ \E old \in Ids : Evicts(u, old))
    BY <1>0, <1>8, PublishIs
  <2>2. pc[u] = "publish" /\ UNCHANGED <<to_release_, batch, held>>
    BY <1>8 DEF Publish
  <2>3. CASE Stays(u)
    BY <1>0, <1>6, <1>8, <2>1, <2>2, <2>3, UserMoves
  <2>4. ASSUME NEW old \in Ids, Evicts(u, old) PROVE Works'
    <3>1. handle'[u] = (IF old = id[u] THEN Len(snapshots) + 1 ELSE active_[old]) /\ old \in DOMAIN active_ \cup {id[u]}
      BY <1>0, <2>4 DEF Evicts, TypeOK
    <3>2. handle'[u] \in DOMAIN snapshots'
      BY <2>1, <3>1 DEF Made, TypeOK
    <3> QED BY <1>0, <1>6, <1>8, <2>1, <2>2, <2>4, <3>2, UserMoves
  <2> QED BY <2>1, <2>3, <2>4
<1>9. ASSUME NEW t \in crew \cup {GC}, NEW to, Moves(t, to), NEW h \in DOMAIN snapshots, NEW n, Written(h, n),
             pc[t] \in {"get", "write"}, to \in {"idle", "test"}, t = GC => to = "test", to = "test" => handle'[t] = h,
             t \in Users => held'[t] \in {held[t], h}, UNCHANGED <<to_release_, batch>>
      PROVE  Works'
  <2>1. DOMAIN snapshots' = DOMAIN snapshots /\ Len(snapshots') = Len(snapshots)
    BY <1>9 DEF Written
  <2>2. Equipped(t, to) /\ Range(to_release_') \cup Range(batch') \subseteq DOMAIN snapshots'
    BY <1>0, <1>9, <2>1 DEF Equipped, Works
  <2>3. Len(snapshots') + Cardinality(Adding') <= MaxAdds
    BY <1>0, <1>9, <2>1, Room DEF Moves
  <2> QED BY <1>0, <1>9, <2>1, <2>2, <2>3, WorksStep
<1>10. ASSUME NEW u \in crew, RefWrite(u) PROVE Works'
  <2>1. handle[u] \in DOMAIN snapshots /\ tmp[u] + 1 \in Nat /\ pc[u] = "get"
    BY <1>0, <1>10 DEF RefWrite, Works, Step, TypeOK
  <2>2. Written(handle[u], tmp[u] + 1) /\ Moves(u, "idle")
    BY <1>0, <1>10, <2>1, WriteRef, UserMoves DEF RefWrite
  <2>3. held'[u] = handle[u] /\ UNCHANGED <<to_release_, batch>>
    BY <1>0, <1>10 DEF RefWrite, TypeOK, holder
  <2> QED BY <1>0, <1>9, <2>1, <2>2, <2>3
<1>11. ASSUME NEW t \in crew \cup {GC}, UnRefWrite(t) PROVE Works'
  <2>1. t \in Threads /\ handle[t] \in DOMAIN snapshots /\ tmp[t] - 1 \in Nat /\ pc[t] = "write"
    BY <1>0, <1>11 DEF UnRefWrite, Works, Step, TypeOK
  <2>2. Written(handle[t], tmp[t] - 1) /\ Moves(t, "test")
    BY <1>0, <1>11, <2>1, WriteRef, UnRefMoves DEF UnRefWrite
  <2>3. held' = held /\ handle' = handle /\ UNCHANGED <<to_release_, batch>>
    BY <1>11 DEF UnRefWrite, holder
  <2> QED BY <1>9, <2>1, <2>2, <2>3
<1>12. ASSUME NEW t \in crew \cup {GC}, NEW to, Moves(t, to), Equipped(t, to), snapshots' = snapshots,
              pc[t] \notin {"load", "ref", "publish"}, to \notin {"load", "ref", "publish"},
              to \in (IF t = GC THEN {"loop", "wait", "drain", "exit", "write", "test"}
                      ELSE {"idle", "load", "ref", "publish", "release", "get", "write", "test"}),
              Range(to_release_') \cup Range(batch') \subseteq Range(to_release_) \cup Range(batch)
       PROVE  Works'
  <2>1. Range(to_release_') \cup Range(batch') \subseteq DOMAIN snapshots'
    BY <1>12 DEF Works
  <2>2. Len(snapshots') + Cardinality(Adding') <= MaxAdds
    BY <1>0, <1>12, Room DEF Moves
  <2> QED BY <1>0, <1>12, <2>1, <2>2, WorksStep
<1>2. ASSUME NEW u \in crew, NEW i \in Ids, GetSnapshot(u, i) PROVE Works'
  <2>1. Moves(u, "get") /\ pc[u] = "idle" /\ snapshots' = snapshots /\ UNCHANGED <<to_release_, batch, held>>
    BY <1>0, <1>2, UserMoves DEF GetSnapshot, Step, holder
  <2>2. handle'[u] \in DOMAIN snapshots
    BY <1>0, <1>2 DEF GetSnapshot, TypeOK
  <2>3. Equipped(u, "get")
    BY <1>0, <2>1, <2>2 DEF Equipped, Works
  <2> QED BY <1>0, <1>12, <2>1, <2>3
<1>13. ASSUME NEW t \in crew \cup {GC}, UnRefTest(t) PROVE Works'
  <2>1. PICK to : to = IF t = GC THEN "drain" ELSE "idle"
    OBVIOUS
  <2>2. Moves(t, to) /\ snapshots' = snapshots /\ held' = held /\ UNCHANGED <<to_release_, batch>> /\ pc[t] = "test"
    BY <1>0, <1>13, <2>1, UnRefMoves DEF UnRefTest, holder, Step
  <2>3. Equipped(t, to)
    BY <1>0, <2>1, <2>2 DEF Equipped, Works
  <2> QED BY <1>12, <2>1, <2>2, <2>3
<1>14. ASSUME NEW u \in crew, DropScoped(u) PROVE Works'
  <2>1. PICK to : to = IF snapshots[held[u]].ref = 0 THEN "idle" ELSE "write"
    OBVIOUS
  <2>2. Moves(u, to) /\ snapshots' = snapshots /\ UNCHANGED <<to_release_, batch>> /\ pc[u] = "idle" /\ held'[u] = 0
    BY <1>0, <1>14, <2>1, UnRefMoves DEF DropScoped, UnRefRead, holder, Step, TypeOK
  <2>3. to = "write" => handle'[u] = held[u] /\ tmp'[u] # 0
    BY <1>0, <1>14, <2>1 DEF DropScoped, UnRefRead, TypeOK
  <2>4. Equipped(u, to)
    BY <1>0, <1>14, <2>1, <2>2, <2>3 DEF Equipped, Works, DropScoped
  <2> QED BY <1>0, <1>12, <2>1, <2>2, <2>4
<1>15. CASE GCUnRef
  <2>1. PICK to : to = IF snapshots[Head(batch)].ref = 0 THEN "drain" ELSE "write"
    OBVIOUS
  <2>2. Moves(GC, to) /\ snapshots' = snapshots /\ to_release_' = to_release_ /\ batch' = Tail(batch) /\ pc[GC] = "drain"
    BY <1>0, <1>15, <2>1, UnRefMoves DEF GCUnRef, UnRefRead, holder, Step
  <2>3. to = "write" => handle'[GC] = Head(batch) /\ tmp'[GC] # 0
    BY <1>0, <1>15, <2>1 DEF GCUnRef, UnRefRead, TypeOK
  <2>4. Range(batch) = Range(Tail(batch)) \cup {Head(batch)}
    BY <1>0, <1>15, RangeTake DEF GCUnRef
  <2>5. Head(batch) \in DOMAIN snapshots
    BY <2>4 DEF Works
  <2>6. Equipped(GC, to)
    BY <1>0, <2>1, <2>2, <2>3, <2>5 DEF Equipped
  <2> QED BY <1>0, <1>12, <2>1, <2>2, <2>4, <2>6
<1>16. CASE GCLoop
  <2>1. PICK to : to = IF done_ THEN "exit" ELSE "wait"
    OBVIOUS
  <2>2. Moves(GC, to) /\ snapshots' = snapshots /\ UNCHANGED <<to_release_, batch>> /\ pc[GC] = "loop"
    BY <1>0, <1>16, <2>1, UnRefMoves DEF GCLoop, holder, Step
  <2>3. Equipped(GC, to)
    BY <1>0, <2>1 DEF Equipped
  <2> QED BY <1>12, <2>1, <2>2, <2>3
<1>17. CASE GCTake
  <2>1. Moves(GC, "drain") /\ snapshots' = snapshots /\ to_release_' = <<>> /\ batch' = to_release_ /\ pc[GC] = "wait"
    BY <1>0, <1>17, UnRefMoves DEF GCTake, holder, Step
  <2>2. Range(to_release_') = {}
    BY <2>1 DEF Range
  <2>3. Equipped(GC, "drain")
    BY <1>0 DEF Equipped
  <2> QED BY <1>12, <2>1, <2>2, <2>3
<1>18. CASE GCDrained
  <2>1. Moves(GC, "loop") /\ snapshots' = snapshots /\ UNCHANGED <<to_release_, batch>> /\ pc[GC] = "drain"
    BY <1>0, <1>18, UnRefMoves DEF GCDrained, holder, Step
  <2>2. Equipped(GC, "loop")
    BY <1>0 DEF Equipped
  <2> QED BY <1>12, <2>1, <2>2
<1>19. CASE NotifyDone
  BY <1>0, <1>19 DEF NotifyDone, local, Works, Adding
<1> QED BY <1>1, <1>2, <1>3, <1>4, <1>5, <1>7, <1>8, <1>10, <1>11, <1>13, <1>14, <1>15, <1>16, <1>17, <1>18, <1>19
        DEF HolderStep, UserStep, UnRefStep, GCStep

-----------------------------------------------------------------------------
(* One place for each snapshot *)

\* What is somewhere exists.
LEMMA Known ==
  ASSUME TypeOK, Works, NEW h, IsActive(h) \/ Leaving(h)
  PROVE  h \in DOMAIN snapshots /\ h \in Handles
<1>1. CASE IsActive(h)
  BY <1>1, SnapFacts DEF IsActive, Range, TypeOK
<1>2. CASE Leaving(h)
  <2>1. h \in DOMAIN snapshots
    BY <1>2 DEF Leaving, Waiting, Carried, InGC, Works, Threads
  <2> QED BY <2>1, SnapFacts
<1> QED BY <1>1, <1>2

\* A step that moves no snapshot.
LEMMA PlacesStay ==
  ASSUME TypeOK, Works, OnePlace, UNCHANGED <<active_, to_release_, batch>>,
         \A g \in DOMAIN snapshots : snapshots'[g].id = snapshots[g].id,
         \A u \in Users : /\ pc'[u] = "release" <=> pc[u] = "release"
                          /\ pc[u] = "release" => handle'[u] = handle[u],
         \A h \in Handles : InGC(h)' => InGC(h)
  PROVE  OnePlace'
<1>1. \A h \in Handles : /\ IsActive(h)' <=> IsActive(h)
                         /\ Carried(h)' <=> Carried(h)
                         /\ Waiting(h)' <=> Waiting(h)
                         /\ Leaving(h)' => Leaving(h)
  BY DEF IsActive, Carried, Waiting, Leaving
<1>2. \A i \in DOMAIN active_' : snapshots'[active_'[i]].id = i
  BY DEF OnePlace, TypeOK
<1>3. IsInjective(to_release_') /\ IsInjective(batch')
  BY DEF OnePlace
<1>4. \A u, v \in Users : pc'[u] = "release" /\ pc'[v] = "release" /\ handle'[u] = handle'[v] => u = v
  BY DEF OnePlace
<1>5. \A h \in Handles : /\ IsActive(h)' => ~Leaving(h)'
                         /\ Carried(h)' => h \notin Range(to_release_') /\ h \notin Range(batch')
                         /\ h \in Range(to_release_') => h \notin Range(batch')
                         /\ InGC(h)' => ~Waiting(h)'
  BY <1>1 DEF OnePlace
<1> QED BY <1>2, <1>3, <1>4, <1>5 DEF OnePlace

\* Publish gives the new snapshot a place, and the evicted one another.
LEMMA PublishPlaces ==
  ASSUME TypeOK, Works, Ends, OnePlace, NEW u \in Users, Publish(u)
  PROVE  OnePlace'
<1> DEFINE n == Len(snapshots) + 1
           i == id[u]
<1>1. /\ i \notin DOMAIN active_ /\ Made([id |-> i, ref |-> 1])
      /\ Stays(u) \/ \E old \in Ids : Evicts(u, old)
  BY PublishIs
<1>2. n \notin DOMAIN snapshots /\ ~IsActive(n) /\ ~Leaving(n)
  <2>1. n \notin DOMAIN snapshots
    BY <1>1 DEF Made
  <2> QED BY <2>1, Known
<1>3. UNCHANGED <<to_release_, batch>> /\ pc[u] = "publish" /\ \A h : InGC(h)' <=> InGC(h)
  <2>1. GC # u /\ GC \in Threads /\ u \in Threads
    BY SnapshotsAssumption DEF Threads
  <2>2. pc'[GC] = pc[GC] /\ handle'[GC] = handle[GC]
    BY <1>1, <2>1 DEF Stays, Evicts, TypeOK
  <2> QED BY <2>2 DEF Publish, InGC
<1>4. \A v \in Users : v # u => pc'[v] = pc[v] /\ handle'[v] = handle[v]
  BY <1>1 DEF Stays, Evicts, TypeOK, Threads
<1>5. ASSUME NEW gone, Activated(u, gone)
      PROVE  /\ \A j \in DOMAIN active_' : snapshots'[active_'[j]].id = j
             /\ \A h : IsActive(h)' => (h = n /\ i \notin gone) \/ (IsActive(h) /\ \A j \in gone : j \in DOMAIN active_ => h # active_[j])
  <2>1. ASSUME NEW j \in DOMAIN active_'
        PROVE  \/ j = i /\ active_'[j] = n /\ i \notin gone
               \/ j # i /\ j \in DOMAIN active_ /\ active_'[j] = active_[j] /\ j \notin gone
    BY <1>5 DEF Activated
  <2>2. ASSUME NEW j \in DOMAIN active_ PROVE active_[j] \in DOMAIN snapshots /\ snapshots[active_[j]].id = j
    BY DEF TypeOK, OnePlace
  <2>3. snapshots'[n].id = i
    BY <1>1 DEF Made
  <2>4. \A j \in DOMAIN active_' : snapshots'[active_'[j]].id = j
    BY <1>1, <2>1, <2>2, <2>3 DEF Made
  <2>5. ASSUME NEW h, IsActive(h)'
        PROVE  (h = n /\ i \notin gone) \/ (IsActive(h) /\ \A j \in gone : j \in DOMAIN active_ => h # active_[j])
    <3>1. PICK j \in DOMAIN active_' : h = active_'[j]
      BY <2>5 DEF IsActive, Range
    <3> QED BY <2>1, <2>2, <3>1 DEF IsActive, Range
  <2> QED BY <2>4, <2>5
<1>6. CASE Stays(u)
  <2>1. pc'[u] = "idle" /\ Activated(u, {})
    BY <1>6 DEF Stays, TypeOK, Threads
  <2>2. \A h : Carried(h)' <=> Carried(h)
    BY <1>3, <1>4, <2>1 DEF Carried
  <2>3. \A h : (Waiting(h)' <=> Waiting(h)) /\ (Leaving(h)' <=> Leaving(h))
    BY <1>3, <2>2 DEF Waiting, Leaving
  <2>4. \A h : IsActive(h)' => h = n \/ IsActive(h)
    BY <1>5, <2>1
  <2>5. \A v, w \in Users : pc'[v] = "release" /\ pc'[w] = "release" /\ handle'[v] = handle'[w] => v = w
    BY <1>4, <2>1 DEF OnePlace
  <2>6. \A h \in Handles : IsActive(h)' => ~Leaving(h)'
    BY <1>2, <2>3, <2>4 DEF OnePlace
  <2>7. \A h \in Handles : /\ Carried(h)' => h \notin Range(to_release_') /\ h \notin Range(batch')
                           /\ h \in Range(to_release_') => h \notin Range(batch')
                           /\ InGC(h)' => ~Waiting(h)'
    BY <1>3, <2>2, <2>3 DEF OnePlace
  <2> QED BY <1>3, <1>5, <2>1, <2>5, <2>6, <2>7 DEF OnePlace
<1>7. ASSUME NEW old \in Ids, Evicts(u, old) PROVE OnePlace'
  <2>0. PICK e : e = handle'[u]
    OBVIOUS
  <2>1. pc'[u] = "release" /\ Activated(u, {old}) /\ old \in DOMAIN active_ \cup {i}
        /\ e = (IF old = i THEN n ELSE active_[old])
    BY <1>7, <2>0 DEF Evicts, TypeOK, Threads
  <2>2. ~Leaving(e) /\ ~IsActive(e)'
    <3>1. CASE old = i
      BY <1>2, <1>5, <2>1, <3>1
    <3>2. CASE old # i
      <4>1. old \in DOMAIN active_ /\ e = active_[old] /\ IsActive(e)
        BY <2>1, <3>2 DEF IsActive, Range
      <4>2. e \in DOMAIN snapshots /\ e \in Handles
        BY <4>1, Known
      <4>3. e # n
        BY <1>2, <4>2
      <4> QED BY <1>5, <2>1, <4>1, <4>2, <4>3 DEF OnePlace
    <3> QED BY <3>1, <3>2
  <2>3. ~Carried(e) /\ e \notin Range(to_release_) /\ e \notin Range(batch) /\ ~InGC(e)
    BY <2>2 DEF Leaving, Waiting
  <2>4. \A h : Carried(h)' <=> Carried(h) \/ h = e
    BY <1>3, <1>4, <2>0, <2>1 DEF Carried
  <2>5. \A h : Leaving(h)' => Leaving(h) \/ h = e
    BY <1>3, <2>4 DEF Waiting, Leaving
  <2>6. \A h : IsActive(h)' => h = n \/ IsActive(h)
    BY <1>5, <2>1
  <2>7. \A v, w \in Users : pc'[v] = "release" /\ pc'[w] = "release" /\ handle'[v] = handle'[w] => v = w
    <3>1. \A v \in Users : v # u /\ pc'[v] = "release" => handle'[v] # e
      BY <1>4, <2>3 DEF Carried
    <3> QED BY <1>4, <2>0, <3>1 DEF OnePlace
  <2>8. \A h \in Handles : IsActive(h)' => ~Leaving(h)'
    BY <1>2, <2>2, <2>5, <2>6 DEF OnePlace
  <2>9. \A h \in Handles : /\ Carried(h)' => h \notin Range(to_release_') /\ h \notin Range(batch')
                           /\ h \in Range(to_release_') => h \notin Range(batch')
    BY <1>3, <2>3, <2>4 DEF OnePlace
  <2>10. \A h \in Handles : InGC(h)' => ~Waiting(h)'
    <3> SUFFICES ASSUME NEW h \in Handles, InGC(h) PROVE ~Waiting(h)'
      BY <1>3
    <3>1. ~Waiting(h) /\ h # e
      BY <2>3 DEF OnePlace
    <3> QED BY <1>3, <2>4, <3>1 DEF Waiting
  <2> QED BY <1>3, <1>5, <2>1, <2>7, <2>8, <2>9, <2>10 DEF OnePlace
<1> QED BY <1>1, <1>6, <1>7

\* The other steps that hand a snapshot on.
LEMMA HandOver ==
  ASSUME TypeOK, Works, OnePlace
  PROVE  /\ \A u \in Users : ReadyForRelease(u) => OnePlace'
         /\ GCTake => OnePlace'
         /\ GCUnRef => OnePlace'
<1>0. /\ GC \notin Users /\ GC \in Threads /\ \A u \in Users : u \in Threads /\ u # GC
      /\ to_release_ \in Seq(Handles) /\ batch \in Seq(Handles)
  BY SnapshotsAssumption DEF Threads, TypeOK
<1>1. ASSUME NEW u \in Users, ReadyForRelease(u) PROVE OnePlace'
  <2>1. PICK e : e = handle[u]
    OBVIOUS
  <2>2. /\ pc[u] = "release" /\ pc'[u] = "idle" /\ Carried(e) /\ e \in Handles
        /\ to_release_' = Append(to_release_, e) /\ UNCHANGED <<active_, batch, snapshots>>
    <3>1. pc[u] = "release" /\ pc'[u] = "idle" /\ Carried(e)
      BY <1>0, <1>1, <2>1 DEF ReadyForRelease, Step, TypeOK, Carried
    <3>2. e \in Handles
      BY <3>1, Known DEF Leaving, Waiting
    <3> QED BY <1>1, <2>1, <3>1, <3>2 DEF ReadyForRelease
  <2>3. \A v \in Threads : v # u => pc'[v] = pc[v] /\ handle'[v] = handle[v]
    BY <1>0, <1>1 DEF ReadyForRelease, Step, TypeOK
  <2>4. e \notin Range(to_release_) /\ e \notin Range(batch) /\ ~IsActive(e) /\ ~InGC(e)
    BY <2>2 DEF OnePlace, Leaving, Waiting
  <2>5. Range(to_release_') = Range(to_release_) \cup {e} /\ IsInjective(to_release_')
    BY <1>0, <2>2, <2>4, RangeAppend, InjectiveAppend DEF OnePlace
  <2>6. \A h : Carried(h)' <=> Carried(h) /\ h # e
    <3>1. \A v \in Users : pc'[v] = "release" <=> v # u /\ pc[v] = "release"
      BY <1>0, <2>2, <2>3
    <3>2. \A v \in Users : v # u /\ pc[v] = "release" => handle'[v] = handle[v] /\ handle[v] # e
      BY <1>0, <2>1, <2>2, <2>3 DEF OnePlace
    <3> QED BY <2>1, <3>1, <3>2 DEF Carried
  <2>7. \A h : (IsActive(h)' <=> IsActive(h)) /\ (InGC(h)' <=> InGC(h))
    BY <1>0, <2>2, <2>3 DEF IsActive, InGC
  <2>8. \A h : (Waiting(h)' <=> Waiting(h)) /\ (Leaving(h)' <=> Leaving(h))
    BY <2>2, <2>5, <2>6, <2>7 DEF Waiting, Leaving
  <2>9. \A v, w \in Users : pc'[v] = "release" /\ pc'[w] = "release" /\ handle'[v] = handle'[w] => v = w
    BY <1>0, <2>2, <2>3 DEF OnePlace
  <2>10. \A h \in Handles : /\ Carried(h)' => h \notin Range(to_release_') /\ h \notin Range(batch')
                            /\ h \in Range(to_release_') => h \notin Range(batch')
    BY <2>2, <2>4, <2>5, <2>6 DEF OnePlace
  <2>11. \A h \in Handles : (IsActive(h)' => ~Leaving(h)') /\ (InGC(h)' => ~Waiting(h)')
    BY <2>7, <2>8 DEF OnePlace
  <2>12. IsInjective(batch') /\ \A i \in DOMAIN active_' : snapshots'[active_'[i]].id = i
    BY <2>2 DEF OnePlace
  <2> QED BY <2>5, <2>9, <2>10, <2>11, <2>12 DEF OnePlace
<1>2. ASSUME NEW to, pc' = [pc EXCEPT ![GC] = to], \A u \in Users : handle'[u] = handle[u]
      PROVE  /\ \A u \in Users : pc'[u] = pc[u]
             /\ \A h : Carried(h)' <=> Carried(h)
  BY <1>0, <1>2 DEF Carried, TypeOK
<1>3. CASE GCTake
  <2>1. /\ to_release_' = <<>> /\ batch' = to_release_ /\ UNCHANGED <<active_, snapshots, handle>>
        /\ pc[GC] = "wait" /\ pc' = [pc EXCEPT ![GC] = "drain"]
    BY <1>3 DEF GCTake, Step
  <2>2. Range(to_release_') = {} /\ IsInjective(to_release_')
    BY <2>1 DEF Range, IsInjective
  <2>3. (\A u \in Users : pc'[u] = pc[u]) /\ \A h : Carried(h)' <=> Carried(h)
    BY <1>2, <2>1
  <2>4. \A h : ~InGC(h)' /\ (IsActive(h)' <=> IsActive(h))
    BY <1>0, <2>1 DEF InGC, IsActive, TypeOK
  <2>5. \A h : Leaving(h)' => Leaving(h)
    BY <2>1, <2>2, <2>3, <2>4 DEF Leaving, Waiting
  <2>6. \A v, w \in Users : pc'[v] = "release" /\ pc'[w] = "release" /\ handle'[v] = handle'[w] => v = w
    BY <2>1, <2>3 DEF OnePlace
  <2>7. \A h \in Handles : /\ IsActive(h)' => ~Leaving(h)'
                           /\ Carried(h)' => h \notin Range(to_release_') /\ h \notin Range(batch')
                           /\ h \in Range(to_release_') => h \notin Range(batch')
                           /\ InGC(h)' => ~Waiting(h)'
    BY <2>1, <2>2, <2>3, <2>4, <2>5 DEF OnePlace
  <2>8. IsInjective(batch') /\ \A i \in DOMAIN active_' : snapshots'[active_'[i]].id = i
    BY <2>1 DEF OnePlace
  <2> QED BY <2>2, <2>6, <2>7, <2>8 DEF OnePlace
<1>4. CASE GCUnRef
  <2>1. PICK to, e : /\ pc' = [pc EXCEPT ![GC] = to] /\ e = Head(batch)
                     /\ handle'[GC] = e \/ to = "drain"
    BY <1>0, <1>4 DEF GCUnRef, UnRefRead, Step, TypeOK
  <2>2. /\ batch # <<>> /\ batch' = Tail(batch) /\ UNCHANGED <<active_, to_release_, snapshots>>
        /\ \A u \in Users : handle'[u] = handle[u]
    BY <1>0, <1>4 DEF GCUnRef, UnRefRead, TypeOK, holder
  <2>3. Range(batch) = Range(batch') \cup {e} /\ e \notin Range(batch') /\ IsInjective(batch') /\ e \in Handles
    BY <1>0, <2>1, <2>2, RangeTake DEF OnePlace
  <2>4. (\A u \in Users : pc'[u] = pc[u]) /\ \A h : Carried(h)' <=> Carried(h)
    BY <1>2, <2>1, <2>2
  <2>5. \A h : (InGC(h)' => h = e) /\ (IsActive(h)' <=> IsActive(h))
    BY <1>0, <2>1, <2>2 DEF InGC, IsActive, TypeOK
  <2>6. ~Carried(e) /\ e \notin Range(to_release_) /\ Leaving(e)
    BY <2>3 DEF OnePlace, Leaving, Waiting
  <2>7. \A h : Leaving(h)' => Leaving(h)
    BY <2>2, <2>3, <2>4, <2>5, <2>6 DEF Leaving, Waiting
  <2>8. \A v, w \in Users : pc'[v] = "release" /\ pc'[w] = "release" /\ handle'[v] = handle'[w] => v = w
    BY <2>2, <2>4 DEF OnePlace
  <2>9. \A h \in Handles : /\ IsActive(h)' => ~Leaving(h)'
                           /\ Carried(h)' => h \notin Range(to_release_') /\ h \notin Range(batch')
                           /\ h \in Range(to_release_') => h \notin Range(batch')
    BY <2>2, <2>3, <2>4, <2>5, <2>7 DEF OnePlace
  <2>10. \A h \in Handles : InGC(h)' => ~Waiting(h)'
    BY <2>2, <2>3, <2>4, <2>5, <2>6 DEF Waiting
  <2>11. \A i \in DOMAIN active_' : snapshots'[active_'[i]].id = i
    BY <2>2 DEF OnePlace
  <2> QED BY <2>2, <2>3, <2>8, <2>9, <2>10, <2>11 DEF OnePlace
<1> QED BY <1>1, <1>3, <1>4

\* Counts may change, ids not.
SameIds == \A g \in DOMAIN snapshots : snapshots'[g].id = snapshots[g].id

\* The steps that leave the books, and with them the ids of the snapshots.
LEMMA QuietSteps ==
  ASSUME TypeOK, Works
  PROVE  /\ \A u \in Users : /\ \A i : AddCheck(u, i) \/ GetSnapshot(u, i) => UNCHANGED <<active_, to_release_, batch>> /\ SameIds
                             /\ LoadResources(u) \/ RefResources(u) \/ PublishDropped(u) \/ RefWrite(u) \/ DropScoped(u)
                                  => UNCHANGED <<active_, to_release_, batch>> /\ SameIds
         /\ \A t \in Threads : UnRefWrite(t) \/ UnRefTest(t) => UNCHANGED <<active_, to_release_, batch>> /\ SameIds
         /\ GCLoop \/ GCDrained \/ NotifyDone => UNCHANGED <<active_, to_release_, batch>> /\ SameIds
<1>0. snapshots \in Seq(Snaps) /\ \A u \in Users : u \in Threads
  BY DEF TypeOK, Snaps, Threads
<1>1. snapshots' = snapshots => SameIds
  BY DEF SameIds
<1>2. ASSUME NEW u \in Users
      PROVE  /\ \A i : AddCheck(u, i) \/ GetSnapshot(u, i) => UNCHANGED <<active_, to_release_, batch>> /\ SameIds
             /\ LoadResources(u) \/ RefResources(u) \/ DropScoped(u) => UNCHANGED <<active_, to_release_, batch>> /\ SameIds
  BY <1>1 DEF AddCheck, GetSnapshot, LoadResources, RefResources, DropScoped, UnRefRead, holder
<1>3. ASSUME NEW u \in Users, PublishDropped(u) PROVE UNCHANGED <<active_, to_release_, batch>> /\ SameIds
  <2>1. PICK m : m = [id |-> id[u], ref |-> IF done_ THEN 0 ELSE 1]
    OBVIOUS
  <2>2. m \in Snaps /\ snapshots' = Append(snapshots, m)
    BY <1>0, <1>3, <2>1 DEF PublishDropped, Works, Snaps
  <2>3. Made(m)
    BY <1>0, <2>2, MakeSnapshot
  <2> QED BY <1>3, <2>3 DEF PublishDropped, holder, Made, SameIds
<1>4. ASSUME NEW u \in Users, RefWrite(u) PROVE UNCHANGED <<active_, to_release_, batch>> /\ SameIds
  <2>1. handle[u] \in DOMAIN snapshots /\ tmp[u] + 1 \in Nat
    BY <1>0, <1>4 DEF RefWrite, Works, Step, TypeOK
  <2>2. Written(handle[u], tmp[u] + 1)
    BY <1>0, <1>4, <2>1, WriteRef DEF RefWrite
  <2> QED BY <1>4, <2>2 DEF RefWrite, holder, Written, SameIds
<1>5. ASSUME NEW t \in Threads, UnRefWrite(t) PROVE UNCHANGED <<active_, to_release_, batch>> /\ SameIds
  <2>1. handle[t] \in DOMAIN snapshots /\ tmp[t] - 1 \in Nat
    BY <1>5 DEF UnRefWrite, Works, Step, TypeOK
  <2>2. Written(handle[t], tmp[t] - 1)
    BY <1>0, <1>5, <2>1, WriteRef DEF UnRefWrite
  <2> QED BY <1>5, <2>2 DEF UnRefWrite, holder, Written, SameIds
<1>6. \A t \in Threads : UnRefTest(t) => UNCHANGED <<active_, to_release_, batch>> /\ SameIds
  BY <1>1 DEF UnRefTest, holder
<1>7. GCLoop \/ GCDrained \/ NotifyDone => UNCHANGED <<active_, to_release_, batch>> /\ SameIds
  BY <1>1 DEF GCLoop, GCDrained, NotifyDone, holder, local
<1> QED BY <1>2, <1>3, <1>4, <1>5, <1>6, <1>7

\* Every step keeps each snapshot in one place.
LEMMA PlacesKept ==
  ASSUME TypeOK, Works, Ends, OnePlace, HolderStep, UNCHANGED setting
  PROVE  OnePlace'
<1>0. /\ crew \subseteq Users /\ GC \notin Users /\ GC \in Threads /\ \A u \in Users : u \in Threads /\ u # GC
  BY ActiveFacts, SnapshotsAssumption DEF Threads
<1>1. ASSUME NEW t \in Threads, NEW to, Moves(t, to), to # "release", pc[t] # "release",
             t = GC /\ to \in {"write", "test"} => pc[GC] \in {"write", "test"} /\ handle'[GC] = handle[GC],
             UNCHANGED <<active_, to_release_, batch>>, SameIds
      PROVE  OnePlace'
  <2>1. pc'[t] = to /\ \A v \in Threads : v # t => pc'[v] = pc[v] /\ handle'[v] = handle[v]
    BY <1>1 DEF Moves, TypeOK
  <2>2. \A u \in Users : (pc'[u] = "release" <=> pc[u] = "release") /\ (pc[u] = "release" => handle'[u] = handle[u])
    BY <1>0, <1>1, <2>1
  <2>3. \A h \in Handles : InGC(h)' => InGC(h)
    BY <1>0, <1>1, <2>1 DEF InGC
  <2> QED BY <1>1, <2>2, <2>3, PlacesStay DEF SameIds
<1>2. ASSUME NEW u \in Users, NEW i \in Ids, AddCheck(u, i) \/ GetSnapshot(u, i) PROVE OnePlace'
  <2>1. pc[u] = "idle"
    BY <1>2 DEF AddCheck, GetSnapshot, Step
  <2> QED BY <1>0, <1>1, <1>2, <2>1, UserMoves, QuietSteps
<1>3. ASSUME NEW u \in Users, LoadResources(u) \/ RefResources(u) \/ PublishDropped(u) \/ RefWrite(u) PROVE OnePlace'
  <2>1. pc[u] # "release"
    BY <1>3 DEF LoadResources, RefResources, PublishDropped, RefWrite, Step
  <2> QED BY <1>0, <1>1, <1>3, <2>1, UserMoves, QuietSteps
<1>4. ASSUME NEW u \in Users, DropScoped(u) PROVE OnePlace'
  <2>1. pc[u] = "idle"
    BY <1>4 DEF DropScoped, UnRefRead, Step
  <2>2. PICK to \in {"idle", "write"} : Moves(u, to)
    BY <1>0, <1>4, UnRefMoves
  <2> QED BY <1>0, <1>1, <1>4, <2>1, <2>2, QuietSteps
<1>5. ASSUME NEW t \in Threads, UnRefWrite(t) PROVE OnePlace'
  <2>1. pc[t] = "write" /\ handle' = handle
    BY <1>5 DEF UnRefWrite, Step
  <2> QED BY <1>0, <1>1, <1>5, <2>1, UnRefMoves, QuietSteps
<1>6. ASSUME NEW t \in Threads, UnRefTest(t) PROVE OnePlace'
  <2>1. pc[t] = "test"
    BY <1>6 DEF UnRefTest, Step
  <2>2. PICK to \in {"drain", "idle"} : Moves(t, to)
    BY <1>6, UnRefMoves
  <2> QED BY <1>0, <1>1, <1>6, <2>1, <2>2, QuietSteps
<1>7. CASE GCLoop \/ GCDrained
  <2>1. pc[GC] # "release"
    BY <1>7 DEF GCLoop, GCDrained, Step
  <2>2. PICK to \in {"exit", "wait", "loop"} : Moves(GC, to)
    BY <1>0, <1>7, UnRefMoves
  <2> QED BY <1>0, <1>1, <1>7, <2>1, <2>2, QuietSteps
<1>8. CASE NotifyDone
  <2>1. UNCHANGED <<pc, handle, active_, to_release_, batch>> /\ SameIds
    BY <1>8 DEF NotifyDone, local, SameIds
  <2> QED BY <2>1, PlacesStay DEF SameIds, InGC
<1> QED BY <1>0, <1>2, <1>3, <1>4, <1>5, <1>6, <1>7, <1>8, PublishPlaces, HandOver
        DEF HolderStep, UserStep, UnRefStep, GCStep

-----------------------------------------------------------------------------
(* A single user *)

\* Nothing but Publish makes a snapshot active or evicts one.
Shrinks == \A h : (IsActive(h)' <=> IsActive(h)) /\ (Waiting(h)' => Waiting(h)) /\ (Leaving(h)' => Leaving(h))

\* A step that hands no snapshot over leaves each where it is, or lets it go.
LEMMA ShrinkQuiet ==
  ASSUME TypeOK, Works, NEW t \in Threads, NEW to, Moves(t, to), to # "release",
         t = GC /\ to \in {"write", "test"} => pc[GC] \in {"write", "test"} /\ handle'[GC] = handle[GC],
         UNCHANGED <<active_, to_release_, batch>>
  PROVE  Shrinks
<1>0. GC \notin Users /\ GC \in Threads /\ \A u \in Users : u \in Threads /\ u # GC
  BY SnapshotsAssumption DEF Threads
<1>1. pc'[t] = to /\ \A v \in Threads : v # t => pc'[v] = pc[v] /\ handle'[v] = handle[v]
  BY DEF Moves, TypeOK
<1>2. \A h : (Carried(h)' => Carried(h)) /\ (InGC(h)' => InGC(h))
  BY <1>0, <1>1 DEF Carried, InGC
<1>3. \A h : IsActive(h)' <=> IsActive(h)
  BY DEF IsActive
<1>4. \A h : Waiting(h)' => Waiting(h)
  BY <1>2 DEF Waiting
<1> QED BY <1>2, <1>3, <1>4 DEF Shrinks, Leaving

\* A snapshot handed over to to_release_, to the batch or to the background thread was leaving already.
LEMMA ShrinkHandOver ==
  ASSUME TypeOK, Works
  PROVE  /\ \A u \in Users : ReadyForRelease(u) => Shrinks
         /\ GCTake => Shrinks
         /\ GCUnRef => Shrinks
<1>0. /\ GC \notin Users /\ GC \in Threads /\ \A u \in Users : u \in Threads /\ u # GC
      /\ to_release_ \in Seq(Handles) /\ batch \in Seq(Handles)
  BY SnapshotsAssumption DEF Threads, TypeOK
<1>1. ASSUME NEW u \in Users, ReadyForRelease(u) PROVE Shrinks
  <2>1. Moves(u, "idle") /\ pc[u] = "release" /\ active_' = active_ /\ batch' = batch
    BY <1>1, UserMoves DEF ReadyForRelease, Step
  <2>2. pc'[u] = "idle" /\ \A v \in Threads : v # u => pc'[v] = pc[v] /\ handle'[v] = handle[v]
    BY <1>0, <2>1 DEF Moves, TypeOK
  <2>3. handle[u] \in Handles
    BY <1>0, <2>1, SnapFacts DEF Works
  <2>4. Range(to_release_') = Range(to_release_) \cup {handle[u]}
    BY <1>0, <1>1, <2>3, RangeAppend DEF ReadyForRelease
  <2>5. Carried(handle[u])
    BY <2>1 DEF Carried
  <2>6. \A h : (Carried(h)' => Carried(h)) /\ (InGC(h)' => InGC(h)) /\ (IsActive(h)' <=> IsActive(h))
    BY <1>0, <2>1, <2>2 DEF Carried, InGC, IsActive
  <2>7. \A h : Waiting(h)' => Waiting(h)
    BY <2>1, <2>4, <2>5, <2>6 DEF Waiting
  <2> QED BY <2>6, <2>7 DEF Shrinks, Leaving
<1>2. ASSUME NEW to, Moves(GC, to) PROVE \A h : Carried(h)' => Carried(h)
  BY <1>0, <1>2 DEF Moves, Carried, TypeOK
<1>3. CASE GCTake
  <2>1. Moves(GC, "drain") /\ active_' = active_ /\ to_release_' = <<>> /\ batch' = to_release_
    BY <1>0, <1>3, UnRefMoves DEF GCTake
  <2>2. Range(to_release_') = {}
    BY <2>1 DEF Range
  <2>3. \A h : ~InGC(h)' /\ (IsActive(h)' <=> IsActive(h))
    BY <1>0, <2>1 DEF Moves, TypeOK, InGC, IsActive
  <2>4. \A h : Waiting(h)' => Waiting(h)
    BY <1>2, <2>1, <2>2 DEF Waiting
  <2> QED BY <2>3, <2>4 DEF Shrinks, Leaving
<1>4. CASE GCUnRef
  <2>1. PICK to \in {"drain", "write"} : Moves(GC, to)
    BY <1>0, <1>4, UnRefMoves
  <2>2. /\ batch # <<>> /\ batch' = Tail(batch) /\ UNCHANGED <<active_, to_release_>>
        /\ handle'[GC] = Head(batch) \/ pc'[GC] = "drain"
    BY <1>0, <1>4 DEF GCUnRef, UnRefRead, Step, TypeOK, holder
  <2>3. Range(batch) = Range(batch') \cup {Head(batch)}
    BY <1>0, <2>2, RangeTake
  <2>4. \A h : (InGC(h)' => h = Head(batch)) /\ (IsActive(h)' <=> IsActive(h))
    BY <2>2 DEF InGC, IsActive
  <2>5. \A h : Waiting(h)' => Waiting(h)
    BY <1>2, <2>1, <2>2, <2>3 DEF Waiting
  <2> QED BY <2>3, <2>4, <2>5 DEF Shrinks, Leaving, Waiting
<1> QED BY <1>1, <1>3, <1>4

\* A step that is not Publish.
Quiet == Shrinks /\ SameIds /\ UNCHANGED <<active_, max_id_>> /\ DOMAIN snapshots \subseteq DOMAIN snapshots'
SameRefs == \A g \in DOMAIN snapshots : snapshots'[g].ref = snapshots[g].ref

\* What the steps that touch the snapshots do to them.
LEMMA SnapshotsOf ==
  ASSUME TypeOK, Works
  PROVE  /\ \A u \in Users : PublishDropped(u) => DOMAIN snapshots \subseteq DOMAIN snapshots' /\ SameRefs
         /\ \A u \in Users : RefWrite(u) => Written(handle[u], tmp[u] + 1) /\ handle[u] \in DOMAIN snapshots
         /\ \A t \in Threads : UnRefWrite(t) => Written(handle[t], tmp[t] - 1) /\ handle[t] \in DOMAIN snapshots
<1>0. snapshots \in Seq(Snaps) /\ \A u \in Users : u \in Threads
  BY DEF TypeOK, Snaps, Threads
<1>1. ASSUME NEW u \in Users, PublishDropped(u) PROVE DOMAIN snapshots \subseteq DOMAIN snapshots' /\ SameRefs
  <2>1. PICK m : m = [id |-> id[u], ref |-> IF done_ THEN 0 ELSE 1]
    OBVIOUS
  <2>2. m \in Snaps /\ snapshots' = Append(snapshots, m)
    BY <1>0, <1>1, <2>1 DEF PublishDropped, Works, Snaps
  <2>3. Made(m)
    BY <1>0, <2>2, MakeSnapshot
  <2> QED BY <2>3 DEF Made, SameRefs
<1>2. ASSUME NEW u \in Users, RefWrite(u) PROVE Written(handle[u], tmp[u] + 1) /\ handle[u] \in DOMAIN snapshots
  <2>1. handle[u] \in DOMAIN snapshots /\ tmp[u] + 1 \in Nat
    BY <1>0, <1>2 DEF RefWrite, Works, Step, TypeOK
  <2> QED BY <1>0, <1>2, <2>1, WriteRef DEF RefWrite
<1>3. ASSUME NEW t \in Threads, UnRefWrite(t) PROVE Written(handle[t], tmp[t] - 1) /\ handle[t] \in DOMAIN snapshots
  <2>1. handle[t] \in DOMAIN snapshots /\ tmp[t] - 1 \in Nat
    BY <1>3 DEF UnRefWrite, Works, Step, TypeOK
  <2> QED BY <1>0, <1>3, <2>1, WriteRef DEF UnRefWrite
<1> QED BY <1>1, <1>2, <1>3

\* All steps but Publish.
LEMMA QuietStep ==
  ASSUME TypeOK, Works
  PROVE  /\ \A u \in Users : /\ \A i : AddCheck(u, i) \/ GetSnapshot(u, i) => Quiet
                             /\ LoadResources(u) \/ RefResources(u) \/ PublishDropped(u) \/ ReadyForRelease(u)
                                \/ RefWrite(u) \/ DropScoped(u) => Quiet
         /\ \A t \in Threads : UnRefWrite(t) \/ UnRefTest(t) => Quiet
         /\ GCStep => Quiet
<1>0. GC \notin Users /\ GC \in Threads /\ \A u \in Users : u \in Threads /\ u # GC
  BY SnapshotsAssumption DEF Threads
<1>1. ASSUME NEW u \in Users, NEW i, AddCheck(u, i) \/ GetSnapshot(u, i) PROVE Quiet
  <2>1. UNCHANGED <<active_, max_id_, snapshots>>
    BY <1>1 DEF AddCheck, GetSnapshot, holder
  <2>2. Shrinks /\ SameIds
    BY <1>0, <1>1, UserMoves, QuietSteps, ShrinkQuiet
  <2> QED BY <2>1, <2>2 DEF Quiet
<1>2. ASSUME NEW u \in Users, LoadResources(u) \/ RefResources(u) \/ PublishDropped(u) \/ RefWrite(u) PROVE Quiet
  <2>1. UNCHANGED <<active_, max_id_>>
    BY <1>2 DEF LoadResources, RefResources, PublishDropped, RefWrite, holder
  <2>2. Shrinks /\ SameIds
    BY <1>0, <1>2, UserMoves, QuietSteps, ShrinkQuiet
  <2>3. DOMAIN snapshots \subseteq DOMAIN snapshots'
    BY <1>2, SnapshotsOf DEF LoadResources, RefResources, Written
  <2> QED BY <2>1, <2>2, <2>3 DEF Quiet
<1>3. ASSUME NEW u \in Users, ReadyForRelease(u) PROVE Quiet
  BY <1>3, ShrinkHandOver DEF ReadyForRelease, Quiet, SameIds
<1>4. ASSUME NEW u \in Users, DropScoped(u) PROVE Quiet
  <2>1. UNCHANGED <<active_, max_id_, snapshots>>
    BY <1>4 DEF DropScoped, UnRefRead, holder
  <2>2. PICK to \in {"idle", "write"} : Moves(u, to)
    BY <1>0, <1>4, UnRefMoves
  <2>3. Shrinks /\ SameIds
    BY <1>0, <1>4, <2>2, QuietSteps, ShrinkQuiet
  <2> QED BY <2>1, <2>3 DEF Quiet
<1>5. ASSUME NEW t \in Threads, UnRefWrite(t) PROVE Quiet
  <2>1. UNCHANGED <<active_, max_id_, handle>> /\ pc[t] = "write"
    BY <1>5 DEF UnRefWrite, holder, Step
  <2>2. Shrinks /\ SameIds
    BY <1>5, <2>1, UnRefMoves, QuietSteps, ShrinkQuiet
  <2>3. DOMAIN snapshots \subseteq DOMAIN snapshots'
    BY <1>5, SnapshotsOf DEF Written
  <2> QED BY <2>1, <2>2, <2>3 DEF Quiet
<1>6. ASSUME NEW t \in Threads, UnRefTest(t) PROVE Quiet
  <2>1. UNCHANGED <<active_, max_id_, snapshots>>
    BY <1>6 DEF UnRefTest, holder
  <2>2. PICK to \in {"drain", "idle"} : Moves(t, to)
    BY <1>6, UnRefMoves
  <2>3. Shrinks /\ SameIds
    BY <1>6, <2>2, QuietSteps, ShrinkQuiet
  <2> QED BY <2>1, <2>3 DEF Quiet
<1>7. CASE GCLoop \/ GCDrained
  <2>1. UNCHANGED <<active_, max_id_, snapshots>>
    BY <1>7 DEF GCLoop, GCDrained, holder
  <2>2. PICK to \in {"exit", "wait", "loop"} : Moves(GC, to)
    BY <1>0, <1>7, UnRefMoves
  <2>3. Shrinks /\ SameIds
    BY <1>0, <1>7, <2>2, QuietSteps, ShrinkQuiet
  <2> QED BY <2>1, <2>3 DEF Quiet
<1>8. CASE GCTake \/ GCUnRef
  BY <1>8, ShrinkHandOver DEF GCTake, GCUnRef, UnRefRead, holder, Quiet, SameIds
<1> QED BY <1>1, <1>2, <1>3, <1>4, <1>5, <1>6, <1>7, <1>8 DEF GCStep

\* A quiet step keeps the order of the ids unless it adds an id or finds a snapshot.
LEMMA AscendQuiet ==
  ASSUME TypeOK, Works, NEW w \in Users, Ascending(w), Quiet,
         pc'[w] \in {"load", "ref", "publish"} => id'[w] >= max_id_,
         \A h : Uses(w, h)' => Uses(w, h)
  PROVE  Ascending(w)'
<1>1. ASSUME NEW h, Leaving(h)'
      PROVE  h \in DOMAIN snapshots /\ Leaving(h) /\ snapshots'[h].id = snapshots[h].id
  BY <1>1, Known DEF Quiet, Shrinks, SameIds
<1>2. ASSUME NEW h \in DOMAIN snapshots', Uses(w, h)'
      PROVE  h \in DOMAIN snapshots /\ Uses(w, h) /\ snapshots'[h].id = snapshots[h].id
  <2>1. Uses(w, h)
    BY <1>2
  <2>2. h \in DOMAIN snapshots
    BY <2>1 DEF Uses, Works, Threads
  <2> QED BY <2>1, <2>2 DEF Quiet, SameIds
<1>3. active_' = active_ /\ max_id_' = max_id_
  BY DEF Quiet
<1>4. \A h \in DOMAIN snapshots' : Leaving(h)' =>
        snapshots'[h].id < max_id_' /\ \A i \in DOMAIN active_' : snapshots'[h].id < i
  BY <1>1, <1>3 DEF Ascending
<1>5. ASSUME NEW h \in DOMAIN snapshots', Uses(w, h)'
      PROVE  /\ snapshots'[h].id <= max_id_'
             /\ \A i \in DOMAIN active_' : snapshots'[h].id = i => h = active_'[i]
             /\ \A g \in DOMAIN snapshots' : Leaving(g)' /\ snapshots'[g].id = snapshots'[h].id => g = h
  BY <1>1, <1>2, <1>3, <1>5 DEF Ascending
<1> QED BY <1>3, <1>4, <1>5 DEF Ascending

\* Publish by the only user: the new id is larger than all others, the evicted one smaller.
LEMMA PublishAscends ==
  ASSUME TypeOK, Works, Ends, OnePlace, NEW w \in Users, Ascending(w), Publish(w)
  PROVE  Ascending(w)'
<1> DEFINE i == id[w]
           n == Len(snapshots) + 1
<1>0. GC # w /\ GC \in Threads /\ w \in Threads /\ max_id_ \in Nat /\ DOMAIN active_ \subseteq Nat
  BY SnapshotsAssumption, ActiveFacts DEF Threads, TypeOK
<1>1. /\ i \in Nat \ {0} /\ i \notin DOMAIN active_ /\ Made([id |-> i, ref |-> 1])
      /\ Stays(w) \/ \E old \in Ids : Evicts(w, old)
  BY PublishIs
<1>2. i > max_id_ /\ max_id_' = i /\ \A j \in DOMAIN active_ : j < i
  <2>1. i >= max_id_
    BY DEF Publish, Ascending
  <2>2. i # max_id_ /\ \A j \in DOMAIN active_ : j <= max_id_
    BY <1>1 DEF Ends
  <2>3. i > max_id_
    BY <1>0, <1>1, <2>1, <2>2
  <2> QED BY <1>0, <1>1, <2>2, <2>3 DEF Publish
<1>3. pc'[w] \in {"idle", "release"} /\ held' = held /\ UNCHANGED <<to_release_, batch>> /\ pc[w] = "publish"
  BY <1>0, <1>1 DEF Stays, Evicts, Publish, TypeOK
<1>4. pc'[GC] = pc[GC] /\ handle'[GC] = handle[GC]
  BY <1>0, <1>1 DEF Stays, Evicts, TypeOK
<1>5. \A v \in Users : v # w => pc'[v] = pc[v] /\ handle'[v] = handle[v]
  BY <1>1 DEF Stays, Evicts, TypeOK, Threads
<1>6. ASSUME NEW h, Uses(w, h)'
      PROVE  h \in DOMAIN snapshots /\ Uses(w, h) /\ snapshots'[h].id = snapshots[h].id
             /\ snapshots[h].id \in Nat /\ snapshots[h].id <= max_id_
  <2>1. Uses(w, h)
    BY <1>3, <1>6 DEF Uses
  <2>2. h \in DOMAIN snapshots
    BY <2>1 DEF Uses, Works, Threads
  <2>3. snapshots[h].id \in Nat
    BY <2>2, SnapFacts
  <2> QED BY <1>1, <2>1, <2>2, <2>3 DEF Made, Ascending
<1>7. /\ DOMAIN active_' \subseteq DOMAIN active_ \cup {i}
      /\ \A j \in DOMAIN active_' : active_'[j] = IF j = i THEN n ELSE active_[j]
  BY <1>1 DEF Stays, Evicts, Activated
<1>8. ASSUME NEW h, Leaving(h)
      PROVE  /\ h \in DOMAIN snapshots /\ snapshots'[h].id = snapshots[h].id
             /\ snapshots[h].id < max_id_' /\ \A j \in DOMAIN active_' : snapshots[h].id < j
  <2>1. h \in DOMAIN snapshots
    BY <1>8, Known
  <2>2. snapshots[h].id \in Nat
    BY <2>1, SnapFacts
  <2>3. snapshots[h].id < max_id_ /\ \A j \in DOMAIN active_ : snapshots[h].id < j
    BY <1>8, <2>1 DEF Ascending
  <2> QED BY <1>0, <1>1, <1>2, <1>7, <2>1, <2>2, <2>3 DEF Made
<1>9. CASE Stays(w)
  <2>1. pc'[w] = "idle"
    BY <1>0, <1>9 DEF Stays, TypeOK
  <2>2. \A h : Leaving(h)' => Leaving(h)
    BY <1>3, <1>4, <1>5, <2>1 DEF Leaving, Waiting, Carried, InGC
  <2>3. \A h \in DOMAIN snapshots' : Leaving(h)' =>
          snapshots'[h].id < max_id_' /\ \A j \in DOMAIN active_' : snapshots'[h].id < j
    BY <1>8, <2>2
  <2>4. ASSUME NEW h \in DOMAIN snapshots', Uses(w, h)'
        PROVE  /\ snapshots'[h].id <= max_id_'
               /\ \A j \in DOMAIN active_' : snapshots'[h].id = j => h = active_'[j]
               /\ \A g \in DOMAIN snapshots' : Leaving(g)' /\ snapshots'[g].id = snapshots'[h].id => g = h
    <3>1. h \in DOMAIN snapshots /\ Uses(w, h) /\ snapshots'[h].id = snapshots[h].id
          /\ snapshots[h].id \in Nat /\ snapshots[h].id <= max_id_
      BY <1>6, <2>4
    <3>2. \A j \in DOMAIN active_' : snapshots[h].id = j => h = active_'[j]
      BY <1>0, <1>1, <1>2, <1>7, <3>1 DEF Ascending
    <3>3. \A g \in DOMAIN snapshots' : Leaving(g)' /\ snapshots'[g].id = snapshots[h].id => g = h
      BY <1>8, <2>2, <3>1 DEF Ascending
    <3> QED BY <1>0, <1>1, <1>2, <3>1, <3>2, <3>3
  <2> QED BY <2>1, <2>3, <2>4 DEF Ascending
<1>10. ASSUME NEW old \in Ids, Evicts(w, old) PROVE Ascending(w)'
  <2>1. old \in DOMAIN active_ /\ old # i /\ \A j \in DOMAIN active_ \cup {i} : old <= j
    <3>1. /\ old \in DOMAIN active_ \cup {i} /\ DOMAIN active_ # {}
          /\ \A j \in DOMAIN active_ \cup {i} : old <= j
      BY <1>10 DEF Evicts
    <3>2. PICK j \in DOMAIN active_ : TRUE
      BY <3>1
    <3>3. old <= j /\ j < i /\ old \in Nat
      BY <1>0, <1>1, <1>2, <3>1, <3>2
    <3> QED BY <1>0, <1>1, <3>1, <3>3
  <2>2. PICK e : e = active_[old]
    OBVIOUS
  <2>3. pc'[w] = "release" /\ handle'[w] = e /\ DOMAIN active_' = (DOMAIN active_ \cup {i}) \ {old}
    BY <1>0, <1>10, <2>1, <2>2 DEF Evicts, Activated, TypeOK
  <2>4. e \in DOMAIN snapshots /\ snapshots[e].id = old /\ snapshots'[e].id = old
    BY <1>1, <2>1, <2>2 DEF TypeOK, OnePlace, Made
  <2>5. \A h : Leaving(h)' => Leaving(h) \/ h = e
    BY <1>3, <1>4, <1>5, <2>3 DEF Leaving, Waiting, Carried, InGC
  <2>6. old < i /\ \A j \in DOMAIN active_' : old < j
    BY <1>0, <1>1, <1>2, <2>1, <2>3
  <2>7. \A h \in DOMAIN snapshots' : Leaving(h)' =>
          snapshots'[h].id < max_id_' /\ \A j \in DOMAIN active_' : snapshots'[h].id < j
    BY <1>2, <1>8, <2>4, <2>5, <2>6
  <2>8. ASSUME NEW h \in DOMAIN snapshots', Uses(w, h)'
        PROVE  /\ snapshots'[h].id <= max_id_'
               /\ \A j \in DOMAIN active_' : snapshots'[h].id = j => h = active_'[j]
               /\ \A g \in DOMAIN snapshots' : Leaving(g)' /\ snapshots'[g].id = snapshots'[h].id => g = h
    <3>1. h \in DOMAIN snapshots /\ Uses(w, h) /\ snapshots'[h].id = snapshots[h].id
          /\ snapshots[h].id \in Nat /\ snapshots[h].id <= max_id_
      BY <1>6, <2>8
    <3>2. \A j \in DOMAIN active_' : snapshots[h].id = j => h = active_'[j]
      BY <1>0, <1>1, <1>2, <1>7, <3>1 DEF Ascending
    <3>3. \A g \in DOMAIN snapshots' : Leaving(g) /\ snapshots'[g].id = snapshots[h].id => g = h
      BY <1>8, <3>1 DEF Ascending
    <3>4. snapshots[h].id = old => h = e
      BY <2>1, <2>2, <3>1 DEF Ascending
    <3>5. \A g \in DOMAIN snapshots' : Leaving(g)' /\ snapshots'[g].id = snapshots[h].id => g = h
      BY <2>4, <2>5, <3>3, <3>4
    <3> QED BY <1>0, <1>1, <1>2, <3>1, <3>2, <3>5
  <2> QED BY <2>3, <2>7, <2>8 DEF Ascending
<1> QED BY <1>1, <1>9, <1>10

\* Every step of the user and of the background thread keeps the order of the ids.
LEMMA AscendKept ==
  ASSUME TypeOK, Works, Ends, OnePlace, NEW w \in Users, crew = {w}, Ascending(w), Counted(w), HolderStep
  PROVE  Ascending(w)'
<1>0. GC # w /\ GC \in Threads /\ w \in Threads /\ GC \notin Users
  BY SnapshotsAssumption DEF Threads
<1>1. ASSUME NEW to, Moves(w, to) PROVE pc'[w] = to
  BY <1>0, <1>1 DEF Moves, TypeOK
<1>2. ASSUME NEW to, Moves(GC, to) PROVE pc'[w] = pc[w] /\ handle'[w] = handle[w] /\ held'[w] = held[w] /\ id'[w] = id[w]
  BY <1>0, <1>2 DEF Moves, TypeOK
<1>3. ASSUME NEW i \in Ids, AddCheck(w, i) PROVE Ascending(w)'
  <2>1. pc'[w] = "load" /\ held' = held /\ id'[w] = i
    BY <1>0, <1>3 DEF AddCheck, Step, TypeOK
  <2>2. i >= max_id_
    BY <1>3, SnapshotsAssumption DEF AddCheck, Ends
  <2>3. \A h : Uses(w, h)' => Uses(w, h)
    BY <2>1 DEF Uses
  <2> QED BY <1>3, <2>1, <2>2, <2>3, QuietStep, AscendQuiet
<1>4. ASSUME NEW i \in Ids, GetSnapshot(w, i) PROVE Ascending(w)'
  <2>1. /\ pc'[w] = "get" /\ held'[w] = 0 /\ handle'[w] = active_[i] /\ i \in DOMAIN active_
        /\ UNCHANGED <<snapshots, active_, max_id_>>
    BY <1>0, <1>4 DEF GetSnapshot, Step, TypeOK, holder
  <2>2. \A h : Leaving(h)' => Leaving(h)
    BY <1>4, QuietStep DEF Quiet, Shrinks
  <2>3. \A h : Uses(w, h)' => h = active_[i]
    BY <2>1 DEF Uses
  <2>4. snapshots[active_[i]].id = i /\ i <= max_id_ /\ active_[i] \in DOMAIN snapshots /\ i \in Nat
    BY <2>1, ActiveFacts DEF OnePlace, Ends, TypeOK
  <2>5. \A g \in DOMAIN snapshots : Leaving(g) => snapshots[g].id # i
    <3>1. \A g \in DOMAIN snapshots : Leaving(g) => snapshots[g].id < i
      BY <2>1 DEF Ascending
    <3>2. \A g \in DOMAIN snapshots : snapshots[g].id \in Nat
      BY SnapFacts
    <3> QED BY <2>4, <3>1, <3>2
  <2>6. \A h \in DOMAIN snapshots' : Leaving(h)' =>
          snapshots'[h].id < max_id_' /\ \A j \in DOMAIN active_' : snapshots'[h].id < j
    BY <2>1, <2>2 DEF Ascending
  <2> QED BY <2>1, <2>2, <2>3, <2>4, <2>5, <2>6 DEF Ascending
<1>5. ASSUME LoadResources(w) \/ RefResources(w) PROVE Ascending(w)'
  <2>1. pc[w] \in {"load", "ref", "publish"} /\ held' = held /\ id' = id /\ pc'[w] \in {"ref", "publish"}
    BY <1>0, <1>5 DEF LoadResources, RefResources, Step, TypeOK
  <2>2. \A h : Uses(w, h)' => Uses(w, h)
    BY <2>1 DEF Uses
  <2>3. id'[w] >= max_id_
    BY <2>1 DEF Ascending
  <2> QED BY <1>5, <2>2, <2>3, QuietStep, AscendQuiet
<1>6. ASSUME PublishDropped(w) \/ ReadyForRelease(w) PROVE Ascending(w)'
  <2>1. held' = held /\ pc'[w] = "idle"
    BY <1>0, <1>6 DEF PublishDropped, ReadyForRelease, Step, TypeOK
  <2>2. \A h : Uses(w, h)' => Uses(w, h)
    BY <2>1 DEF Uses
  <2> QED BY <1>6, <2>1, <2>2, QuietStep, AscendQuiet
<1>7. ASSUME RefWrite(w) PROVE Ascending(w)'
  <2>1. held'[w] = handle[w] /\ pc'[w] = "idle" /\ pc[w] = "get"
    BY <1>0, <1>7 DEF RefWrite, Step, TypeOK
  <2>2. \A h : Uses(w, h)' => Uses(w, h)
    BY <2>1 DEF Uses
  <2> QED BY <1>7, <2>1, <2>2, QuietStep, AscendQuiet
<1>8. ASSUME DropScoped(w) PROVE Ascending(w)'
  <2>1. held'[w] = 0 /\ pc'[w] \in {"idle", "write"} /\ held[w] # 0
        /\ (pc'[w] = "write" => handle'[w] = held[w])
    BY <1>0, <1>8 DEF DropScoped, UnRefRead, Step, TypeOK
  <2>2. \A h : Uses(w, h)' => Uses(w, h)
    BY <2>1 DEF Uses
  <2> QED BY <1>8, <2>1, <2>2, QuietStep, AscendQuiet
<1>9. ASSUME UnRefWrite(w) \/ UnRefTest(w) PROVE Ascending(w)'
  <2>1. held' = held /\ ((pc'[w] = "test" /\ pc[w] = "write" /\ handle' = handle) \/ pc'[w] = "idle")
    BY <1>0, <1>9 DEF UnRefWrite, UnRefTest, Step, TypeOK
  <2>2. \A h : Uses(w, h)' => Uses(w, h)
    BY <2>1 DEF Uses
  <2> QED BY <1>0, <1>9, <2>1, <2>2, QuietStep, AscendQuiet
<1>10. ASSUME GCStep \/ UnRefWrite(GC) \/ UnRefTest(GC) PROVE Ascending(w)'
  <2>1. \E to : Moves(GC, to)
    BY <1>0, <1>10, UnRefMoves DEF GCStep
  <2>2. pc'[w] = pc[w] /\ handle'[w] = handle[w] /\ held'[w] = held[w] /\ id'[w] = id[w]
    BY <1>2, <2>1
  <2>3. \A h : Uses(w, h)' => Uses(w, h)
    BY <2>2 DEF Uses
  <2>4. pc'[w] \in {"load", "ref", "publish"} => id'[w] >= max_id_
    BY <2>2 DEF Ascending
  <2> QED BY <1>0, <1>10, <2>3, <2>4, QuietStep, AscendQuiet
<1>11. CASE NotifyDone
  BY <1>11 DEF NotifyDone, local, Ascending, Uses, Leaving, Waiting, Carried, InGC
<1> QED BY <1>3, <1>4, <1>5, <1>6, <1>7, <1>8, <1>9, <1>10, <1>11, PublishAscends DEF HolderStep, UserStep, UnRefStep

\* The Store keeps what the only user has in use.
LEMMA StoreKept ==
  ASSUME TypeOK, Works, Ends, OnePlace, NEW w \in Users, crew = {w}, Lone(w), HolderStep
  PROVE  Kept(w)'
<1>0. GC # w /\ GC \in Threads /\ w \in Threads /\ GC \notin Users /\ Ascending(w) /\ Counted(w) /\ Kept(w)
  BY SnapshotsAssumption DEF Threads, Lone
<1>1. ASSUME stored' = stored, DOMAIN active_' \subseteq DOMAIN active_,
             held'[w] # 0 => held'[w] = held[w] /\ held[w] \in DOMAIN snapshots, SameIds,
             pc'[w] \in {"load", "ref", "publish"} => id'[w] \in stored
      PROVE  Kept(w)'
  BY <1>0, <1>1 DEF Kept, SameIds
<1>2. held[w] # 0 => held[w] \in DOMAIN snapshots
  BY DEF Works
<1>3. ASSUME NEW i \in Ids, AddCheck(w, i) \/ GetSnapshot(w, i) PROVE Kept(w)'
  <2>1. stored' = stored /\ held' = held /\ ((pc'[w] = "load" /\ id'[w] \in stored) \/ pc'[w] = "get")
    BY <1>0, <1>3 DEF AddCheck, GetSnapshot, Step, TypeOK
  <2> QED BY <1>1, <1>2, <1>3, <2>1, QuietStep DEF Quiet
<1>4. ASSUME LoadResources(w) \/ RefResources(w) \/ PublishDropped(w) \/ ReadyForRelease(w) PROVE Kept(w)'
  <2>1. stored' = stored /\ held' = held
        /\ (pc'[w] = "idle" \/ (id' = id /\ pc[w] \in {"load", "ref", "publish"}))
    <3>1. LoadResources(w) \/ RefResources(w) => stored' = stored /\ held' = held /\ id' = id /\ pc[w] \in {"load", "ref", "publish"}
      BY DEF LoadResources, RefResources, Step
    <3>2. PublishDropped(w) \/ ReadyForRelease(w) => stored' = stored /\ held' = held /\ pc'[w] = "idle"
      BY <1>0 DEF PublishDropped, ReadyForRelease, Step, TypeOK
    <3> QED BY <1>4, <3>1, <3>2
  <2>2. pc'[w] \in {"load", "ref", "publish"} => id'[w] \in stored
    BY <1>0, <2>1 DEF Kept
  <2> QED BY <1>1, <1>2, <1>4, <2>1, <2>2, QuietStep DEF Quiet
<1>5. ASSUME Publish(w) PROVE Kept(w)'
  <2>1. Made([id |-> id[w], ref |-> 1]) /\ DOMAIN active_' \subseteq DOMAIN active_ \cup {id[w]}
        /\ pc'[w] \in {"idle", "release"}
    <3>1. Made([id |-> id[w], ref |-> 1]) /\ (Stays(w) \/ \E old \in Ids : Evicts(w, old))
      BY <1>5, PublishIs
    <3>2. CASE Stays(w)
      BY <1>0, <3>1, <3>2 DEF Stays, Activated, TypeOK
    <3>3. ASSUME NEW old \in Ids, Evicts(w, old)
          PROVE  DOMAIN active_' \subseteq DOMAIN active_ \cup {id[w]} /\ pc'[w] \in {"idle", "release"}
      BY <1>0, <3>3 DEF Evicts, Activated, TypeOK
    <3> QED BY <3>1, <3>2, <3>3
  <2>2. stored' = stored /\ held' = held /\ pc[w] = "publish"
    BY <1>5 DEF Publish
  <2> QED BY <1>0, <1>2, <2>1, <2>2 DEF Kept, Made
<1>6. ASSUME RefWrite(w) PROVE Kept(w)'
  <2>1. stored' = stored /\ held'[w] = handle[w] /\ pc'[w] = "idle" /\ pc[w] = "get" /\ handle[w] \in DOMAIN snapshots
    BY <1>0, <1>6, SnapshotsOf DEF RefWrite, Step, TypeOK
  <2>2. IsActive(handle[w])
    BY <1>0, <2>1 DEF Counted
  <2>3. snapshots[handle[w]].id \in stored
    BY <1>0, <2>2 DEF IsActive, Range, OnePlace, Kept
  <2>4. active_' = active_ /\ SameIds
    BY <1>6, QuietStep DEF Quiet
  <2> QED BY <1>0, <2>1, <2>3, <2>4 DEF Kept, SameIds
<1>7. ASSUME DropScoped(w) \/ UnRefWrite(w) PROVE Kept(w)'
  <2>1. stored' = stored /\ held'[w] \in {0, held[w]} /\ pc'[w] \in {"idle", "write", "test"}
    BY <1>0, <1>7 DEF DropScoped, UnRefRead, UnRefWrite, Step, TypeOK
  <2> QED BY <1>0, <1>1, <1>2, <1>7, <2>1, QuietStep DEF Quiet
<1>8. ASSUME GCStep \/ UnRefWrite(GC) PROVE Kept(w)'
  <2>1. \E to : Moves(GC, to)
    BY <1>0, <1>8, UnRefMoves DEF GCStep
  <2>2. stored' = stored /\ pc'[w] = pc[w] /\ held'[w] = held[w] /\ id'[w] = id[w]
    BY <1>0, <1>8, <2>1 DEF Moves, TypeOK, GCStep, GCLoop, GCTake, GCUnRef, UnRefRead, GCDrained, UnRefWrite
  <2>3. pc'[w] \in {"load", "ref", "publish"} => id'[w] \in stored
    BY <1>0, <2>2 DEF Kept
  <2> QED BY <1>0, <1>1, <1>2, <1>8, <2>2, <2>3, QuietStep DEF Quiet
<1>9. ASSUME NEW t \in {w, GC}, UnRefTest(t) PROVE Kept(w)'
  <2>1. PICK h : h = handle[t]
    OBVIOUS
  <2>2. PICK k : k = snapshots[h].id
    OBVIOUS
  <2>3. h \in DOMAIN snapshots /\ pc[t] = "test" /\ snapshots' = snapshots /\ active_' = active_ /\ held' = held
        /\ (stored' = stored \/ (snapshots[h].ref = 0 /\ stored' = stored \ {k}))
    <3>1. pc[t] = "test" /\ snapshots' = snapshots /\ active_' = active_ /\ held' = held
      BY <1>9 DEF UnRefTest, Step, holder
    <3>2. h \in DOMAIN snapshots
      BY <1>0, <2>1, <3>1 DEF Works
    <3>3. stored' = stored \/ (snapshots[h].ref = 0 /\ stored' = stored \ {k})
      BY <1>9, <2>1, <2>2 DEF UnRefTest
    <3> QED BY <3>1, <3>2, <3>3
  <2>4. k \in Nat /\ max_id_ \in Nat /\ DOMAIN active_ \subseteq Nat
    <3>1. k \in Nat
      BY <2>2, <2>3, SnapFacts
    <3> QED BY <3>1, ActiveFacts, SnapshotsAssumption DEF TypeOK
  <2>5. id' = id /\ (pc'[w] = pc[w] \/ pc'[w] = "idle")
    BY <1>0, <1>9 DEF UnRefTest, Step, TypeOK
  <2>6. CASE stored' = stored
    BY <1>0, <2>3, <2>5, <2>6 DEF Kept
  <2>7. CASE snapshots[h].ref = 0 /\ stored' = stored \ {k} /\ t = GC
    <3>1. InGC(h) /\ Leaving(h)
      BY <2>1, <2>3, <2>7 DEF InGC, Leaving
    <3>2. k < max_id_ /\ \A i \in DOMAIN active_ : k < i
      BY <1>0, <2>2, <2>3, <3>1 DEF Ascending
    <3>3. k \notin DOMAIN active_
      BY <2>4, <3>2
    <3>4. pc[w] \in {"load", "ref", "publish"} => id[w] # k
      <4> SUFFICES ASSUME pc[w] \in {"load", "ref", "publish"} PROVE id[w] # k
        OBVIOUS
      <4>1. id[w] >= max_id_ /\ id[w] \in Ids
        BY <1>0 DEF Ascending, Works
      <4> QED BY <2>4, <3>2, <4>1, SnapshotsAssumption
    <3>5. held[w] # 0 => snapshots[held[w]].id # k
      <4> SUFFICES ASSUME held[w] # 0, snapshots[held[w]].id = k PROVE FALSE
        OBVIOUS
      <4>1. Uses(w, held[w])
        BY DEF Uses
      <4>2. h = held[w]
        BY <1>0, <1>2, <2>2, <2>3, <3>1, <4>1 DEF Ascending
      <4>3. snapshots[held[w]].ref >= 1
        BY <1>0 DEF Counted
      <4> QED BY <2>7, <4>2, <4>3
    <3> QED BY <1>0, <2>3, <2>5, <2>7, <3>3, <3>4, <3>5 DEF Kept
  <2>8. CASE snapshots[h].ref = 0 /\ stored' = stored \ {k} /\ t = w
    <3>1. Uses(w, h) /\ held[w] = 0
      BY <1>0, <2>1, <2>3, <2>8 DEF Uses, Counted
    <3>2. k \notin DOMAIN active_
      <4> SUFFICES ASSUME k \in DOMAIN active_ PROVE FALSE
        OBVIOUS
      <4>1. h = active_[k]
        BY <1>0, <2>2, <2>3, <3>1 DEF Ascending
      <4>2. snapshots[h].ref >= 1
        BY <1>0, <2>3, <4>1 DEF Counted, IsActive, Range
      <4> QED BY <2>8, <4>2
    <3>3. pc'[w] = "idle"
      BY <1>0, <1>9, <2>8 DEF UnRefTest, Step, TypeOK
    <3> QED BY <1>0, <2>3, <2>8, <3>1, <3>2, <3>3 DEF Kept
  <2> QED BY <2>3, <2>6, <2>7, <2>8
<1>10. CASE NotifyDone
  BY <1>0, <1>10 DEF NotifyDone, local, Kept
<1> QED BY <1>3, <1>4, <1>5, <1>6, <1>7, <1>8, <1>9, <1>10 DEF HolderStep, UserStep, UnRefStep
-----------------------------------------------------------------------------
(* The counts *)

\* A step that writes no count, and after which nobody has read one anew, keeps the counts.
LEMMA CountQuiet ==
  ASSUME TypeOK, Works, NEW w \in Users, Counted(w), Quiet, SameRefs, held'[w] = held[w],
         pc'[w] = "test" => pc[w] = "test",
         \A t \in {w, GC} : pc'[t] \in {"get", "write"} =>
           pc'[t] = pc[t] /\ handle'[t] = handle[t] /\ tmp'[t] = tmp[t]
  PROVE  Counted(w)'
<1>1. ASSUME NEW h, IsActive(h)' \/ Waiting(h)'
      PROVE  (IsActive(h) \/ Waiting(h)) /\ h \in DOMAIN snapshots /\ snapshots'[h].ref = snapshots[h].ref
  <2>1. IsActive(h) \/ Waiting(h)
    BY <1>1 DEF Quiet, Shrinks
  <2> QED BY <2>1, Known DEF Leaving, SameRefs
<1>2. \A h : IsActive(h) => IsActive(h)'
  BY DEF Quiet, Shrinks
<1>3. held[w] # 0 => held[w] \in DOMAIN snapshots /\ snapshots'[held[w]].ref = snapshots[held[w]].ref
  BY DEF Works, SameRefs
<1>4. \A h \in DOMAIN snapshots' : IsActive(h)' \/ Waiting(h)' =>
        /\ snapshots'[h].ref >= 1
        /\ held'[w] = h => snapshots'[h].ref >= 2
        /\ pc'[w] = "write" /\ handle'[w] = h => tmp'[w] >= 2
  BY <1>1 DEF Counted
<1>5. held'[w] # 0 =>
        /\ pc'[w] \notin {"get", "write", "test"}
        /\ snapshots'[held'[w]].ref >= 1
        /\ pc'[GC] = "write" /\ handle'[GC] = held'[w] => tmp'[GC] >= 2
  BY <1>3 DEF Counted
<1>6. (pc[w] = "get" => IsActive(handle[w]) /\ tmp[w] >= 1)'
  BY <1>2 DEF Counted
<1> QED BY <1>4, <1>5, <1>6 DEF Counted

\* A new snapshot has the count 1, and nobody holds it yet.
LEMMA PublishCounted ==
  ASSUME TypeOK, Works, Ends, NEW w \in Users, Counted(w), Publish(w)
  PROVE  Counted(w)'
<1>0. GC # w /\ GC \in Threads /\ w \in Threads
  BY SnapshotsAssumption DEF Threads
<1>1. Made([id |-> id[w], ref |-> 1]) /\ (Stays(w) \/ \E old \in Ids : Evicts(w, old))
  BY PublishIs
<1>2. PICK n : n = Len(snapshots) + 1
  OBVIOUS
<1>3. n \notin DOMAIN snapshots /\ n # 0 /\ snapshots'[n].ref = 1 /\ \A g \in DOMAIN snapshots : snapshots'[g] = snapshots[g]
  BY <1>1, <1>2 DEF Made, TypeOK
<1>4. pc'[w] \in {"idle", "release"} /\ held' = held /\ tmp' = tmp /\ UNCHANGED <<to_release_, batch>>
  BY <1>0, <1>1 DEF Stays, Evicts, Publish, TypeOK
<1>5. pc'[GC] = pc[GC] /\ handle'[GC] = handle[GC]
  BY <1>0, <1>1 DEF Stays, Evicts, TypeOK
<1>6. \A v \in Users : v # w => pc'[v] = pc[v] /\ handle'[v] = handle[v]
  BY <1>1 DEF Stays, Evicts, TypeOK, Threads
<1>7. \A h : IsActive(h)' => IsActive(h) \/ h = n
  <2>1. \A j \in DOMAIN active_' : active_'[j] = n \/ (j \in DOMAIN active_ /\ active_'[j] = active_[j])
    BY <1>1, <1>2 DEF Stays, Evicts, Activated
  <2> QED BY <2>1 DEF IsActive, Range
<1>8. \A h : Waiting(h)' => IsActive(h) \/ Waiting(h) \/ h = n
  <2>1. pc'[w] = "release" => handle'[w] = n \/ IsActive(handle'[w])
    BY <1>0, <1>1, <1>2 DEF Stays, Evicts, TypeOK, IsActive, Range
  <2> QED BY <1>4, <1>6, <2>1 DEF Waiting, Carried
<1>9. held[w] \in DOMAIN snapshots \cup {0}
  BY DEF Works
<1>10. ASSUME NEW h, IsActive(h) \/ Waiting(h) PROVE h \in DOMAIN snapshots
  BY <1>10, Known DEF Leaving
<1>11. \A h \in DOMAIN snapshots' : IsActive(h)' \/ Waiting(h)' =>
         snapshots'[h].ref >= 1 /\ (held'[w] = h => snapshots'[h].ref >= 2)
  BY <1>3, <1>4, <1>7, <1>8, <1>9, <1>10 DEF Counted
<1>12. held'[w] # 0 => /\ snapshots'[held'[w]].ref >= 1
                       /\ pc'[GC] = "write" /\ handle'[GC] = held'[w] => tmp'[GC] >= 2
  BY <1>3, <1>4, <1>5, <1>9 DEF Counted
<1> QED BY <1>4, <1>11, <1>12 DEF Counted

\* The only user reads, takes or gives back a count.
LEMMA UserCounted ==
  ASSUME TypeOK, Works, OnePlace, NEW w \in Users, Counted(w)
  PROVE  /\ \A i \in Ids : GetSnapshot(w, i) => Counted(w)'
         /\ RefWrite(w) => Counted(w)'
         /\ DropScoped(w) => Counted(w)'
         /\ UnRefWrite(w) => Counted(w)'
<1>0. GC # w /\ GC \in Threads /\ w \in Threads
  BY SnapshotsAssumption DEF Threads
<1>1. ASSUME NEW h, IsActive(h) \/ Waiting(h) PROVE h \in DOMAIN snapshots /\ h \in Handles
  BY <1>1, Known DEF Leaving
<1>2. ASSUME NEW i \in Ids, GetSnapshot(w, i) PROVE Counted(w)'
  <2>1. /\ pc'[w] = "get" /\ held'[w] = 0 /\ handle'[w] = active_[i] /\ i \in DOMAIN active_
        /\ tmp'[w] = snapshots[active_[i]].ref /\ snapshots' = snapshots /\ active_' = active_
    BY <1>0, <1>2 DEF GetSnapshot, Step, TypeOK, holder
  <2>2. \A h : (IsActive(h)' <=> IsActive(h)) /\ (Waiting(h)' => Waiting(h))
    BY <1>2, QuietStep DEF Quiet, Shrinks
  <2>3. IsActive(active_[i]) /\ active_[i] \in DOMAIN snapshots /\ snapshots[active_[i]].ref >= 1
    BY <2>1 DEF IsActive, Range, Counted, TypeOK
  <2>4. \A h \in DOMAIN snapshots' : IsActive(h)' \/ Waiting(h)' =>
          snapshots'[h].ref >= 1 /\ h # 0
    BY <1>1, <2>1, <2>2, SnapFacts DEF Counted
  <2> QED BY <2>1, <2>3, <2>4 DEF Counted, IsActive
<1>3. CASE RefWrite(w)
  <2>1. PICK a : a = handle[w]
    OBVIOUS
  <2>2. /\ pc[w] = "get" /\ pc'[w] = "idle" /\ held'[w] = a /\ pc'[GC] = pc[GC] /\ handle'[GC] = handle[GC]
        /\ a \in DOMAIN snapshots /\ Written(a, tmp[w] + 1)
    BY <1>0, <1>3, <2>1, SnapshotsOf DEF RefWrite, Step, TypeOK
  <2>3. IsActive(a) /\ tmp[w] >= 1 /\ tmp[w] \in Nat
    BY <1>0, <2>1, <2>2 DEF Counted, TypeOK
  <2>4. ~(pc[GC] = "write" /\ handle[GC] = a)
    BY <1>1, <2>3 DEF OnePlace, Leaving, InGC
  <2>5. \A h : (IsActive(h)' <=> IsActive(h)) /\ (Waiting(h)' => Waiting(h))
    BY <1>3, QuietStep DEF Quiet, Shrinks
  <2>6. /\ snapshots'[a].ref >= 2 /\ snapshots'[a].ref >= 1
        /\ \A g \in DOMAIN snapshots : g # a => snapshots'[g].ref = snapshots[g].ref
    BY <2>2, <2>3 DEF Written
  <2>7. \A h \in DOMAIN snapshots' : IsActive(h)' \/ Waiting(h)' =>
          snapshots'[h].ref >= 1 /\ (held'[w] = h => snapshots'[h].ref >= 2)
    BY <1>1, <2>2, <2>5, <2>6 DEF Counted
  <2> QED BY <2>2, <2>4, <2>6, <2>7 DEF Counted
<1>4. CASE DropScoped(w)
  <2>1. PICK a : a = held[w]
    OBVIOUS
  <2>2. a # 0 /\ a \in DOMAIN snapshots /\ held'[w] = 0 /\ snapshots' = snapshots
    BY <1>4, <2>1 DEF DropScoped, UnRefRead, Works, TypeOK
  <2>3. snapshots[a].ref >= 1 /\ snapshots[a].ref # 0
    BY <2>1, <2>2, SnapFacts DEF Counted
  <2>4. pc'[w] = "write" /\ handle'[w] = a /\ tmp'[w] = snapshots[a].ref
    BY <1>0, <1>4, <2>1, <2>3 DEF DropScoped, UnRefRead, Step, TypeOK
  <2>5. \A h : (IsActive(h)' <=> IsActive(h)) /\ (Waiting(h)' => Waiting(h))
    BY <1>4, QuietStep DEF Quiet, Shrinks
  <2>6. \A h \in DOMAIN snapshots' : IsActive(h)' \/ Waiting(h)' =>
          /\ snapshots'[h].ref >= 1 /\ h # 0
          /\ pc'[w] = "write" /\ handle'[w] = h => tmp'[w] >= 2
    BY <2>1, <2>2, <2>4, <2>5, SnapFacts DEF Counted
  <2> QED BY <2>2, <2>4, <2>6 DEF Counted
<1>5. CASE UnRefWrite(w)
  <2>1. PICK a : a = handle[w]
    OBVIOUS
  <2>2. /\ pc[w] = "write" /\ pc'[w] = "test" /\ held' = held
        /\ a \in DOMAIN snapshots /\ Written(a, tmp[w] - 1)
    BY <1>0, <1>5, <2>1, SnapshotsOf DEF UnRefWrite, Step, TypeOK
  <2>3. held'[w] = 0
    BY <2>2 DEF Counted
  <2>4. \A h : (IsActive(h)' <=> IsActive(h)) /\ (Waiting(h)' => Waiting(h))
    BY <1>0, <1>5, QuietStep DEF Quiet, Shrinks
  <2>5. \A h \in DOMAIN snapshots' : IsActive(h)' \/ Waiting(h)' => snapshots'[h].ref >= 1 /\ h # 0
    <3> SUFFICES ASSUME NEW h \in DOMAIN snapshots', IsActive(h)' \/ Waiting(h)'
                 PROVE  snapshots'[h].ref >= 1 /\ h # 0
      OBVIOUS
    <3>1. (IsActive(h) \/ Waiting(h)) /\ h \in DOMAIN snapshots /\ h # 0
      BY <1>1, <2>4, SnapFacts
    <3>2. h = a => tmp[w] >= 2 /\ tmp[w] \in Nat
      BY <1>0, <2>1, <2>2, <3>1 DEF Counted, TypeOK
    <3>3. h # a => snapshots'[h].ref >= 1
      BY <2>2, <3>1 DEF Counted, Written
    <3>4. h = a => snapshots'[h].ref = tmp[w] - 1
      BY <2>2 DEF Written
    <3> QED BY <3>1, <3>2, <3>3, <3>4
  <2> QED BY <2>2, <2>3, <2>5 DEF Counted
<1> QED BY <1>2, <1>3, <1>4, <1>5

\* The background thread reads or gives back the count of an evicted snapshot, which is not
\* active any more and which the user may still hold.
LEMMA BackgroundCounted ==
  ASSUME TypeOK, Works, OnePlace, NEW w \in Users, Counted(w)
  PROVE  (UnRefWrite(GC) => Counted(w)') /\ (GCUnRef => Counted(w)')
<1>0. GC # w /\ GC \in Threads /\ w \in Threads
  BY SnapshotsAssumption DEF Threads
<1>1. ASSUME NEW h, IsActive(h) \/ Waiting(h) PROVE h \in DOMAIN snapshots /\ h \in Handles
  BY <1>1, Known DEF Leaving
<1>2. ASSUME NEW to, Moves(GC, to)
      PROVE  pc'[w] = pc[w] /\ handle'[w] = handle[w] /\ held'[w] = held[w] /\ tmp'[w] = tmp[w] /\ pc'[GC] = to
  BY <1>0, <1>2 DEF Moves, TypeOK
<1>3. CASE UnRefWrite(GC)
  <2>1. PICK a : a = handle[GC]
    OBVIOUS
  <2>2. pc[GC] = "write" /\ a \in DOMAIN snapshots /\ Written(a, tmp[GC] - 1) /\ tmp[GC] \in Nat
    BY <1>0, <1>3, <2>1, SnapshotsOf DEF UnRefWrite, Step, TypeOK
  <2>3. /\ pc'[w] = pc[w] /\ handle'[w] = handle[w] /\ held'[w] = held[w] /\ tmp'[w] = tmp[w]
        /\ pc'[GC] = "test"
    BY <1>0, <1>2, <1>3, UnRefMoves
  <2>4. \A h : (IsActive(h)' <=> IsActive(h)) /\ (Waiting(h)' => Waiting(h))
    BY <1>0, <1>3, QuietStep DEF Quiet, Shrinks
  <2>5. ~IsActive(a) /\ ~Waiting(a)
    <3>1. InGC(a) /\ a \in Handles
      BY <2>1, <2>2, SnapFacts DEF InGC
    <3> QED BY <3>1 DEF OnePlace, Leaving
  <2>6. \A g \in DOMAIN snapshots : g # a => snapshots'[g].ref = snapshots[g].ref
    BY <2>2 DEF Written
  <2>7. \A h \in DOMAIN snapshots' : IsActive(h)' \/ Waiting(h)' =>
          /\ snapshots'[h].ref >= 1
          /\ held'[w] = h => snapshots'[h].ref >= 2
          /\ pc'[w] = "write" /\ handle'[w] = h => tmp'[w] >= 2
    BY <1>1, <2>3, <2>4, <2>5, <2>6 DEF Counted
  <2>8. held[w] # 0 => snapshots'[held[w]].ref >= 1
    <3> SUFFICES ASSUME held[w] # 0 PROVE snapshots'[held[w]].ref >= 1
      OBVIOUS
    <3>1. held[w] \in DOMAIN snapshots /\ snapshots[held[w]].ref >= 1
      BY DEF Works, Counted
    <3>2. CASE held[w] = a
      <4>1. tmp[GC] >= 2
        BY <2>1, <2>2, <3>2 DEF Counted
      <4>2. snapshots'[a].ref = tmp[GC] - 1
        BY <2>2 DEF Written
      <4> QED BY <2>2, <3>2, <4>1, <4>2
    <3>3. CASE held[w] # a
      BY <2>6, <3>1, <3>3
    <3> QED BY <3>2, <3>3
  <2>9. (pc[w] = "get" => IsActive(handle[w]) /\ tmp[w] >= 1)'
    BY <2>3, <2>4 DEF Counted
  <2> QED BY <2>3, <2>7, <2>8, <2>9 DEF Counted
<1>4. CASE GCUnRef
  <2>1. PICK a : a = Head(batch)
    OBVIOUS
  <2>2. Waiting(a) /\ a \in DOMAIN snapshots
    <3>1. batch \in Seq(Handles) /\ batch # <<>>
      BY <1>4 DEF TypeOK, GCUnRef
    <3>2. a \in Range(batch)
      BY <2>1, <3>1, RangeTake
    <3> QED BY <1>1, <3>2 DEF Waiting
  <2>3. snapshots' = snapshots /\ (pc'[GC] = "write" => handle'[GC] = a /\ tmp'[GC] = snapshots[a].ref)
    BY <1>0, <1>4, <2>1 DEF GCUnRef, UnRefRead, Step, TypeOK
  <2>4. pc'[w] = pc[w] /\ handle'[w] = handle[w] /\ held'[w] = held[w] /\ tmp'[w] = tmp[w]
    BY <1>0, <1>2, <1>4, UnRefMoves
  <2>5. \A h : (IsActive(h)' <=> IsActive(h)) /\ (Waiting(h)' => Waiting(h))
    BY <1>4, QuietStep DEF Quiet, Shrinks, GCStep
  <2>6. \A h \in DOMAIN snapshots' : IsActive(h)' \/ Waiting(h)' =>
          /\ snapshots'[h].ref >= 1
          /\ held'[w] = h => snapshots'[h].ref >= 2
          /\ pc'[w] = "write" /\ handle'[w] = h => tmp'[w] >= 2
    BY <2>3, <2>4, <2>5 DEF Counted
  <2>7. held[w] # 0 => /\ snapshots'[held[w]].ref >= 1
                       /\ pc'[GC] = "write" /\ handle'[GC] = held[w] => tmp'[GC] >= 2
    BY <2>2, <2>3 DEF Counted
  <2>8. (pc[w] = "get" => IsActive(handle[w]) /\ tmp[w] >= 1)'
    BY <2>4, <2>5 DEF Counted
  <2> QED BY <2>4, <2>6, <2>7, <2>8 DEF Counted
<1> QED BY <1>3, <1>4

\* Every step of the user and of the background thread keeps the counts.
LEMMA CountedKept ==
  ASSUME TypeOK, Works, Ends, OnePlace, NEW w \in Users, crew = {w}, Counted(w), HolderStep
  PROVE  Counted(w)'
<1>0. GC # w /\ GC \in Threads /\ w \in Threads /\ GC \notin Users
  BY SnapshotsAssumption DEF Threads
<1>1. ASSUME NEW to, Moves(w, to), held'[w] = held[w], to \notin {"get", "write", "test"}, Quiet, SameRefs
      PROVE  Counted(w)'
  <2>1. pc'[w] = to /\ pc'[GC] = pc[GC] /\ handle'[GC] = handle[GC] /\ tmp'[GC] = tmp[GC]
    BY <1>0, <1>1 DEF Moves, TypeOK
  <2> QED BY <1>1, <2>1, CountQuiet
<1>2. ASSUME NEW to, Moves(GC, to), to \notin {"get", "write", "test"}, Quiet, SameRefs
      PROVE  Counted(w)'
  <2>1. pc'[GC] = to /\ pc'[w] = pc[w] /\ handle'[w] = handle[w] /\ tmp'[w] = tmp[w] /\ held'[w] = held[w]
    BY <1>0, <1>2 DEF Moves, TypeOK
  <2> QED BY <1>2, <2>1, CountQuiet
<1>3. ASSUME NEW i \in Ids, AddCheck(w, i) PROVE Counted(w)'
  <2>1. Moves(w, "load") /\ Quiet
    BY <1>3, UserMoves, QuietStep
  <2>2. held' = held /\ SameRefs
    BY <1>3 DEF AddCheck, SameRefs
  <2> QED BY <1>1, <2>1, <2>2
<1>4. ASSUME LoadResources(w) \/ RefResources(w) PROVE Counted(w)'
  <2>1. PICK to \in {"ref", "publish"} : Moves(w, to) /\ Quiet
    BY <1>4, UserMoves, QuietStep
  <2>2. held' = held /\ SameRefs
    BY <1>4 DEF LoadResources, RefResources, SameRefs
  <2> QED BY <1>1, <2>1, <2>2
<1>5. ASSUME PublishDropped(w) PROVE Counted(w)'
  <2>1. Moves(w, "idle") /\ Quiet /\ SameRefs
    BY <1>5, UserMoves, QuietStep, SnapshotsOf
  <2>2. held' = held
    BY <1>5 DEF PublishDropped
  <2> QED BY <1>1, <2>1, <2>2
<1>6. ASSUME ReadyForRelease(w) PROVE Counted(w)'
  <2>1. Moves(w, "idle") /\ Quiet
    BY <1>6, UserMoves, QuietStep
  <2>2. held' = held /\ SameRefs
    BY <1>6 DEF ReadyForRelease, SameRefs
  <2> QED BY <1>1, <2>1, <2>2
<1>7. ASSUME UnRefTest(w) PROVE Counted(w)'
  <2>1. Moves(w, "idle") /\ Quiet
    BY <1>0, <1>7, UnRefMoves, QuietStep
  <2>2. held' = held /\ SameRefs
    BY <1>7 DEF UnRefTest, SameRefs
  <2> QED BY <1>1, <2>1, <2>2
<1>8. ASSUME UnRefTest(GC) \/ GCLoop \/ GCTake \/ GCDrained PROVE Counted(w)'
  <2>1. \E to \in {"drain", "exit", "wait", "loop"} : Moves(GC, to)
    BY <1>0, <1>8, UnRefMoves
  <2>2. Quiet
    BY <1>0, <1>8, QuietStep DEF GCStep
  <2>3. SameRefs
    BY <1>8 DEF UnRefTest, GCLoop, GCTake, GCDrained, SameRefs
  <2> QED BY <1>2, <2>1, <2>2, <2>3
<1>9. CASE NotifyDone
  BY <1>9 DEF NotifyDone, local, Counted, IsActive, Waiting, Carried
<1>10. HolderStep => (\E i \in Ids : AddCheck(w, i) \/ GetSnapshot(w, i)) \/ UserStep(w) \/ DropScoped(w)
                     \/ UnRefStep(w) \/ UnRefStep(GC) \/ GCStep \/ NotifyDone
  BY DEF HolderStep
<1> QED BY <1>3, <1>4, <1>5, <1>6, <1>7, <1>8, <1>9, <1>10, PublishCounted, UserCounted, BackgroundCounted
        DEF UserStep, UnRefStep, GCStep
-----------------------------------------------------------------------------
(* The invariant *)

\* The holder starts without snapshots, and its threads without work.
LEMMA SnapInit == Init => SnapInv
<1> SUFFICES ASSUME Init PROVE SnapInv
  OBVIOUS
<1>0. Cardinality({}) = 0 /\ GC \notin Users /\ MaxAdds \in Nat
  BY FS_EmptySet, SnapshotsAssumption
<1>1. setting \in Settings /\ crew \subseteq Users /\ num_versions_ \in Nat \ {0}
  BY SnapshotsAssumption DEF Init, setting
<1>2. DOMAIN active_ = {} /\ Range(active_) = {} /\ DOMAIN snapshots = {} /\ Len(snapshots) = 0
      /\ Range(to_release_) = {} /\ Range(batch) = {} /\ snapshots \in Seq(Snaps)
      /\ to_release_ \in Seq(Handles) /\ batch \in Seq(Handles)
  BY DEF Init, Range
<1>3. pc[GC] = "loop" /\ \A u \in Users : pc[u] = "idle" /\ held[u] = 0
  BY <1>0 DEF Init, Threads
<1>4. TypeOK
  <2>1. mutex_ \subseteq Users /\ Cardinality(mutex_) <= 1 /\ min_id_ \subseteq Ids /\ Cardinality(min_id_) <= 1
    BY <1>0 DEF Init
  <2>2. /\ pc \in [Threads -> {"idle", "load", "ref", "publish", "release", "get", "write", "test",
                               "loop", "wait", "drain", "exit"}]
        /\ id \in [Users -> Ids \cup {0}] /\ held \in [Users -> Handles \cup {0}]
        /\ handle \in [Threads -> Handles \cup {0}] /\ tmp \in [Threads -> Nat]
    BY DEF Init
  <2>3. /\ max_id_ \in Ids \cup {0} /\ done_ \in BOOLEAN /\ resource \in [Ids -> Nat]
        /\ stored \subseteq Ids /\ cached \subseteq Ids /\ touched \subseteq Handles
    BY DEF Init
  <2> QED BY <1>0, <1>1, <1>2, <2>1, <2>2, <2>3 DEF TypeOK, Snaps
<1>5. Works
  <2>1. Adding = {}
    BY <1>3 DEF Adding
  <2>2. \A t \in Threads : pc[t] \notin {"get", "write", "test", "release"}
    BY DEF Init
  <2> QED BY <1>0, <1>2, <1>3, <1>4, <2>1, <2>2 DEF Works, TypeOK
<1>6. Ends
  BY <1>0, <1>1, <1>2 DEF Ends, Init
<1>7. \A h : ~IsActive(h) /\ ~Leaving(h) /\ ~Carried(h) /\ ~InGC(h)
  BY <1>2, <1>3 DEF IsActive, Leaving, Waiting, Carried, InGC
<1>8. OnePlace
  <2>1. IsInjective(to_release_) /\ IsInjective(batch)
    BY DEF Init, IsInjective
  <2> QED BY <1>2, <1>3, <1>7, <2>1 DEF OnePlace
<1>9. ASSUME NEW w \in crew PROVE Lone(w)
  <2>1. pc[w] = "idle" /\ held[w] = 0
    BY <1>1, <1>3
  <2> QED BY <1>2, <2>1 DEF Lone, Ascending, Counted, Kept
<1> QED BY <1>4, <1>5, <1>6, <1>8, <1>9 DEF SnapInv

\* Every step keeps the invariant.
LEMMA SnapStep == SnapInv /\ [Next]_vars => SnapInv'
<1> SUFFICES ASSUME SnapInv, [Next]_vars PROVE SnapInv'
  OBVIOUS
<1>0. TypeOK /\ Works /\ Ends /\ OnePlace
  BY DEF SnapInv
<1>1. CASE Next
  <2>1. HolderStep /\ UNCHANGED setting /\ crew' = crew
    BY <1>1 DEF Next, setting
  <2>2. TypeOK'
    BY <1>0, <2>1, TypesKept, PublishTypes
  <2>3. Works' /\ Ends' /\ OnePlace'
    BY <1>0, <2>1, WorksKept, EndsKept, PlacesKept
  <2>4. ASSUME NEW w \in crew, crew = {w} PROVE Lone(w)'
    <3>1. w \in Users /\ Lone(w) /\ Ascending(w) /\ Counted(w)
      BY <1>0, <2>4, ActiveFacts DEF SnapInv, Lone
    <3>2. Ascending(w)'
      BY <1>0, <2>1, <2>4, <3>1, AscendKept
    <3>3. Counted(w)'
      BY <1>0, <2>1, <2>4, <3>1, CountedKept
    <3>4. Kept(w)'
      BY <1>0, <2>1, <2>4, <3>1, StoreKept
    <3> QED BY <3>2, <3>3, <3>4 DEF Lone
  <2> QED BY <2>1, <2>2, <2>3, <2>4 DEF SnapInv
<1>2. CASE UNCHANGED vars
  <2>1. /\ UNCHANGED <<mutex_, active_, min_id_, max_id_, to_release_, done_, snapshots, resource, stored, cached>>
        /\ UNCHANGED <<pc, id, handle, tmp, held, batch, touched, crew, num_versions_>>
    BY <1>2 DEF vars, holder, local, setting
  <2>2. TypeOK'
    BY <1>0, <2>1 DEF TypeOK, setting
  <2>3. Works' /\ Ends'
    BY <1>0, <2>1 DEF Works, Ends, Adding
  <2>4. OnePlace'
    BY <1>0, <2>1 DEF OnePlace, IsActive, Leaving, Waiting, Carried, InGC
  <2>5. ASSUME NEW w \in crew, Lone(w) PROVE Lone(w)'
    BY <2>1, <2>5 DEF Lone, Ascending, Counted, Kept, Uses, IsActive, Leaving, Waiting, Carried, InGC
  <2> QED BY <2>1, <2>2, <2>3, <2>4, <2>5 DEF SnapInv
<1> QED BY <1>1, <1>2

\* A set with no two members counts 0 or 1.
LEMMA AtMostOne ==
  ASSUME NEW S, \A x, y \in S : x = y
  PROVE  Cardinality(S) \in {0, 1} /\ (S = {} => Cardinality(S) = 0)
<1>1. CASE S = {}
  BY <1>1, FS_EmptySet
<1>2. CASE S # {}
  <2>1. PICK x \in S : TRUE
    BY <1>2
  <2>2. S = {x}
    BY <2>1
  <2>3. Cardinality({x}) = 1
    BY FS_Singleton
  <2> QED BY <1>2, <2>2, <2>3
<1> QED BY <1>1, <1>2

\* A snapshot in one place is released once.
LEMMA PlacesRelease == TypeOK /\ Works /\ OnePlace => ReleasedOnce
<1> SUFFICES ASSUME TypeOK, Works, OnePlace, NEW h \in DOMAIN snapshots
             PROVE  Cardinality({i \in DOMAIN active_ : active_[i] = h})
                      + Cardinality({u \in Users : pc[u] = "release" /\ handle[u] = h})
                      + Cardinality({k \in DOMAIN to_release_ : to_release_[k] = h})
                      + Cardinality({k \in DOMAIN batch : batch[k] = h}) <= 1
  BY DEF ReleasedOnce
<1> DEFINE A == {i \in DOMAIN active_ : active_[i] = h}
           U == {u \in Users : pc[u] = "release" /\ handle[u] = h}
           R == {k \in DOMAIN to_release_ : to_release_[k] = h}
           B == {k \in DOMAIN batch : batch[k] = h}
<1>0. h \in Handles
  BY SnapFacts
<1>1. Cardinality(A) \in {0, 1} /\ (A = {} => Cardinality(A) = 0)
  <2>1. \A i, j \in A : i = j
    BY DEF OnePlace
  <2> HIDE DEF A
  <2> QED BY <2>1, AtMostOne
<1>2. Cardinality(U) \in {0, 1} /\ (U = {} => Cardinality(U) = 0)
  <2>1. \A u, v \in U : u = v
    BY DEF OnePlace
  <2> HIDE DEF U
  <2> QED BY <2>1, AtMostOne
<1>3. Cardinality(R) \in {0, 1} /\ (R = {} => Cardinality(R) = 0)
  <2>1. \A j, k \in R : j = k
    BY DEF OnePlace, IsInjective
  <2> HIDE DEF R
  <2> QED BY <2>1, AtMostOne
<1>4. Cardinality(B) \in {0, 1} /\ (B = {} => Cardinality(B) = 0)
  <2>1. \A j, k \in B : j = k
    BY DEF OnePlace, IsInjective
  <2> HIDE DEF B
  <2> QED BY <2>1, AtMostOne
<1>5. /\ A # {} => IsActive(h)
      /\ U # {} => Carried(h)
      /\ R # {} => h \in Range(to_release_)
      /\ B # {} => h \in Range(batch)
  BY DEF IsActive, Carried, Range
<1>6. /\ IsActive(h) => ~Carried(h) /\ h \notin Range(to_release_) /\ h \notin Range(batch)
      /\ Carried(h) => h \notin Range(to_release_) /\ h \notin Range(batch)
      /\ h \in Range(to_release_) => h \notin Range(batch)
  BY <1>0 DEF OnePlace, Leaving, Waiting
<1>7. Cardinality(A) + Cardinality(U) + Cardinality(R) + Cardinality(B) <= 1
  <2> HIDE DEF A, U, R, B
  <2> QED BY <1>1, <1>2, <1>3, <1>4, <1>5, <1>6
<1> QED BY <1>7

\* The ends of active_ are the limits that GetSnapshot and the eviction use.
LEMMA EndsLimit == TypeOK /\ Ends => LimitsAreActive
<1> SUFFICES ASSUME TypeOK, Ends PROVE LimitsAreActive
  OBVIOUS
<1>1. DOMAIN active_ \in SUBSET Nat
  BY ActiveFacts
<1>2. DOMAIN active_ # {} => min_id_ = {Smallest(DOMAIN active_)}
  <2> SUFFICES ASSUME DOMAIN active_ # {} PROVE min_id_ = {Smallest(DOMAIN active_)}
    OBVIOUS
  <2>1. PICK m \in DOMAIN active_ : min_id_ = {m} /\ \A i \in DOMAIN active_ : m <= i
    BY DEF Ends
  <2>2. Smallest(DOMAIN active_) \in DOMAIN active_ /\ \A i \in DOMAIN active_ : Smallest(DOMAIN active_) <= i
    BY <1>1, SmallestIs
  <2>3. m = Smallest(DOMAIN active_)
    BY <1>1, <2>1, <2>2
  <2> QED BY <2>1, <2>3
<1> QED BY <1>2 DEF LimitsAreActive, Ends

\* The invariant gives the property.
LEMMA SnapSound == SnapInv => SnapshotsSound
<1> SUFFICES ASSUME SnapInv PROVE SnapshotsSound
  OBVIOUS
<1>0. TypeOK /\ Works /\ Ends /\ OnePlace
  BY DEF SnapInv
<1>1. ASSUME Cardinality(crew) = 1 PROVE InUseIsStored /\ CommitFound
  <2>1. crew \subseteq Users /\ IsFiniteSet(crew)
    BY <1>0, ActiveFacts, SnapshotsAssumption, FS_Subset
  <2>2. PICK w : crew = {w}
    BY <1>1, <2>1, FS_Singleton
  <2>3. w \in Users /\ Kept(w)
    BY <2>1, <2>2 DEF SnapInv, Lone
  <2>4. \A u \in Users : u # w => pc[u] = "idle" /\ held[u] = 0
    BY <1>0, <2>2 DEF Works
  <2> QED BY <2>3, <2>4 DEF Kept, InUseIsStored, CommitFound
<1> QED BY <1>0, <1>1, EndsLimit, PlacesRelease DEF SnapshotsSound

\* For any number of users, ids, versions and snapshots: min_id_ and max_id_ always index active
\* snapshots, no more than num_versions_ are active, and each snapshot reaches the background thread
\* at most once; and with one user beside that thread, whatever the two decrements of a plain refcnt_
\* do to each other, nothing that is active or held leaves the Store and an Add finds its commit.
THEOREM SnapshotsSafe == Spec => []SnapshotsSound
<1>1. Spec => []SnapInv
  BY SnapInit, SnapStep, PTL DEF Spec
<1> QED BY <1>1, SnapSound, PTL
=============================================================================
