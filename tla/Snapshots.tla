----------------------------- MODULE Snapshots -----------------------------
(***************************************************************************)
(* SnapshotsHolder of new_meta_lab (Snapshots.h) with the reference counts *)
(* of Utils.cpp, the scoped references of Proxy.h, the resource holders of *)
(* Resources.inl and the Store behind them (Store.h).                      *)
(*                                                                         *)
(* Users add snapshots and hold scoped references to them; adding more     *)
(* than num_versions_ evicts the oldest, which a background thread           *)
(* dereferences.  A snapshot whose count drops to 0 dereferences its       *)
(* resources, and a resource whose count drops to 0 is deleted from the    *)
(* Store.  Commit i and collection i are loaded, referenced and released   *)
(* together, so one counter stands for both.                               *)
(*                                                                         *)
(* refcnt_ is a plain int: a decrement reads, writes and then tests it, in *)
(* three steps.  Add() gives up mutex_ while it builds the snapshot.       *)
(***************************************************************************)
EXTENDS Naturals, Sequences, FiniteSets

CONSTANTS
  Users,        \* threads that call Add and GetSnapshot
  GC,           \* the thread that runs BackgroundGC
  Ids,          \* ids of the commits in the Store
  Settings,     \* pairs of the users that share a holder and its num_versions_
  MaxAdds,      \* bound on the snapshots created
  MaxRefs       \* bound on the count a scoped reference is taken at

Threads == Users \cup {GC}
Handles == 1 .. MaxAdds

ASSUME SnapshotsAssumption ==
  /\ GC \notin Users
  /\ IsFiniteSet(Users)
  /\ Ids \subseteq Nat \ {0}
  /\ IsFiniteSet(Ids)
  /\ Settings \subseteq (SUBSET Users) \X (Nat \ {0})
  /\ MaxAdds \in Nat /\ MaxRefs \in Nat

VARIABLES
  mutex_,       \* {} or the thread inside a section that spans steps
  active_,      \* id -> handle of its snapshot, for the active ids
  min_id_,      \* {} stands for the initial limit, {i} for the id i
  max_id_,      \* 0 stands for the initial limit
  to_release_,
  done_,
  snapshots,    \* the snapshots built so far: sequence of [id, ref]
  resource,     \* refcnt_ of commit and collection i
  stored,       \* ids in the Store
  cached,       \* ids in the id_map_ of the resource holders
  pc,           \* what each thread is doing
  id,           \* the id an Add works on
  handle,       \* the snapshot a thread works on, 0 for none
  tmp,          \* the count a thread has read
  held,         \* handles of each user's scoped references, 0 for none
  batch,        \* what the background thread took from to_release_
  touched,      \* history: handles some user has held
  num_versions_,
  crew          \* the users of this run

holder == <<active_, min_id_, max_id_, to_release_, done_>>
setting == <<crew, num_versions_>>
local == <<pc, id, handle, tmp, held, batch, touched>>
vars == <<mutex_, holder, snapshots, resource, stored, cached, local, setting>>

TypeOK ==
  /\ mutex_ \subseteq Users /\ Cardinality(mutex_) <= 1
  /\ DOMAIN active_ \subseteq Ids
  /\ \A i \in DOMAIN active_ : active_[i] \in DOMAIN snapshots
  /\ min_id_ \subseteq Ids /\ Cardinality(min_id_) <= 1
  /\ max_id_ \in Ids \cup {0}
  /\ to_release_ \in Seq(Handles) /\ batch \in Seq(Handles)
  /\ done_ \in BOOLEAN
  /\ snapshots \in Seq([id : Ids, ref : Nat]) /\ Len(snapshots) <= MaxAdds
  /\ resource \in [Ids -> Nat]
  /\ stored \subseteq Ids /\ cached \subseteq Ids
  /\ pc \in [Threads -> {"idle", "load", "ref", "publish", "release", "get",
                         "write", "test", "loop", "wait", "drain", "exit"}]
  /\ id \in [Users -> Ids \cup {0}]
  /\ handle \in [Threads -> Handles \cup {0}]
  /\ tmp \in [Threads -> Nat]
  /\ held \in [Users -> Handles \cup {0}]
  /\ touched \subseteq Handles
  /\ setting \in Settings

Init ==
  /\ mutex_ = {}
  /\ active_ = <<>>
  /\ min_id_ = {}
  /\ max_id_ = 0
  /\ to_release_ = <<>>
  /\ done_ = FALSE
  /\ snapshots = <<>>
  /\ resource = [i \in Ids |-> 0]
  /\ stored = Ids
  /\ cached = {}
  /\ pc = [t \in Threads |-> IF t = GC THEN "loop" ELSE "idle"]
  /\ id = [u \in Users |-> 0]
  /\ handle = [t \in Threads |-> 0]
  /\ tmp = [t \in Threads |-> 0]
  /\ held = [u \in Users |-> 0]
  /\ batch = <<>>
  /\ touched = {}
  /\ \E p \in Settings : crew = p[1] /\ num_versions_ = p[2]

Step(t, from, to) ==
  /\ pc[t] = from
  /\ pc' = [pc EXCEPT ![t] = to]

-----------------------------------------------------------------------------
(* SnapshotsHolder::Add. *)

\* if (active_.size() > 0 && id < max_id_) return false;
\* Users ask for commits that exist when they ask; a refused Add changes nothing.
AddCheck(u, i) ==
  /\ mutex_ = {}
  /\ Step(u, "idle", "load")
  /\ Len(snapshots) + Cardinality({v \in Users : pc[v] \in {"load", "ref", "publish"}}) < MaxAdds
  /\ DOMAIN active_ = {} \/ i >= max_id_
  /\ i \in stored
  /\ id' = [id EXCEPT ![u] = i]
  /\ UNCHANGED <<mutex_, holder, snapshots, resource, stored, cached,
                 handle, tmp, held, batch, touched>>

\* Snapshot::Snapshot: GetResource of the commit and of its collection, each
\* under the lock of its holder, without a reference ...
LoadResources(u) ==
  /\ Step(u, "load", "ref")
  /\ id[u] \in stored \cup cached
  /\ cached' = cached \cup {id[u]}
  /\ UNCHANGED <<mutex_, holder, snapshots, resource, stored,
                 id, handle, tmp, held, batch, touched>>

\* ... and Ref() on both, under no lock.
RefResources(u) ==
  /\ Step(u, "ref", "publish")
  /\ resource' = [resource EXCEPT ![id[u]] = @ + 1]
  /\ UNCHANGED <<mutex_, holder, snapshots, stored, cached,
                 id, handle, tmp, held, batch, touched>>

\* min_id_ once `new` is active: the id to evict.
Oldest(new) ==
  IF \E m \in min_id_ : m < new THEN CHOOSE m \in min_id_ : TRUE ELSE new

Smallest(ids) == CHOOSE m \in ids : \A i \in ids : m <= i

\* Variant: min_id_ keeps its value when its snapshot is evicted.
MinAfterStale(old, rest) == old

\* min_id_ when `rest` stay active: active_.begin() after an eviction.
MinAfter(old, rest) == IF old \in rest THEN old ELSE Smallest(rest)

\* The second section of Add under mutex_.  When done_ is set, or the id is
\* active already, the new snapshot is dropped and its references are kept.
PublishDropped(u) ==
  /\ pc[u] = "publish" /\ mutex_ = {}
  /\ done_ \/ id[u] \in DOMAIN active_
  /\ pc' = [pc EXCEPT ![u] = "idle"]
  /\ id' = [id EXCEPT ![u] = 0]
  /\ snapshots' = Append(snapshots, [id |-> id[u], ref |-> IF done_ THEN 0 ELSE 1])
  /\ UNCHANGED <<mutex_, holder, resource, stored, cached,
                 handle, tmp, held, batch, touched>>

Publish(u) ==
  LET i == id[u]
      h == Len(snapshots) + 1
      ids == DOMAIN active_ \cup {i}
      old == Oldest(i)
      rest == IF Cardinality(ids) <= num_versions_ THEN ids ELSE ids \ {old}
      Handle(j) == IF j = i THEN h ELSE active_[j]
  IN
  /\ pc[u] = "publish" /\ mutex_ = {}
  /\ ~done_ /\ i \notin DOMAIN active_
  /\ snapshots' = Append(snapshots, [id |-> i, ref |-> 1])
  /\ id' = [id EXCEPT ![u] = 0]
  /\ max_id_' = IF max_id_ < i THEN i ELSE max_id_
  /\ active_' = [j \in rest |-> Handle(j)]
  /\ min_id_' = {MinAfter(old, rest)}
  /\ \/ /\ rest = ids
        /\ pc' = [pc EXCEPT ![u] = "idle"]
        /\ UNCHANGED handle
     \/ /\ rest # ids
        /\ pc' = [pc EXCEPT ![u] = "release"]
        /\ handle' = [handle EXCEPT ![u] = Handle(old)]
  /\ UNCHANGED <<mutex_, to_release_, done_, resource, stored, cached,
                 tmp, held, batch, touched>>

ReadyForRelease(u) ==
  /\ Step(u, "release", "idle")
  /\ to_release_' = Append(to_release_, handle[u])
  /\ handle' = [handle EXCEPT ![u] = 0]
  /\ UNCHANGED <<mutex_, active_, min_id_, max_id_, done_, snapshots,
                 resource, stored, cached, id, tmp, held, batch, touched>>

-----------------------------------------------------------------------------
(* GetSnapshot and ScopedResource. *)

\* GetSnapshot(i) with a scoped reference: the snapshot of i is looked up and
\* ScopedResource's constructor calls Ref(), all under mutex_.  Calls that
\* find no snapshot return an empty reference and change nothing.
GetSnapshot(u, i) ==
  /\ mutex_ = {} /\ held[u] = 0
  /\ i \in DOMAIN active_ /\ snapshots[active_[i]].ref < MaxRefs
  /\ Step(u, "idle", "get")
  /\ mutex_' = {u}
  /\ handle' = [handle EXCEPT ![u] = active_[i]]
  /\ tmp' = [tmp EXCEPT ![u] = snapshots[active_[i]].ref]
  /\ UNCHANGED <<holder, snapshots, resource, stored, cached,
                 id, held, batch, touched>>

RefWrite(u) ==
  /\ Step(u, "get", "idle")
  /\ snapshots' = [snapshots EXCEPT ![handle[u]].ref = tmp[u] + 1]
  /\ held' = [held EXCEPT ![u] = handle[u]]
  /\ touched' = touched \cup {handle[u]}
  /\ handle' = [handle EXCEPT ![u] = 0]
  /\ mutex_' = {}
  /\ tmp' = [tmp EXCEPT ![u] = 0]
  /\ UNCHANGED <<holder, resource, stored, cached, id, batch>>

-----------------------------------------------------------------------------
(* ReferenceProxy::UnRef by a thread, under no lock. *)

\* if (refcnt_ == 0) return;  -- and the read of refcnt_ -= 1.
UnRefRead(t, h, from, idle) ==
  /\ Step(t, from, IF snapshots[h].ref = 0 THEN idle ELSE "write")
  /\ handle' = [handle EXCEPT ![t] = IF snapshots[h].ref = 0 THEN 0 ELSE h]
  /\ tmp' = [tmp EXCEPT ![t] = snapshots[h].ref]
  /\ UNCHANGED <<mutex_, holder, snapshots, resource, stored, cached, id, touched>>

UnRefWrite(t) ==
  /\ Step(t, "write", "test")
  /\ snapshots' = [snapshots EXCEPT ![handle[t]].ref = tmp[t] - 1]
  /\ tmp' = [tmp EXCEPT ![t] = 0]
  /\ UNCHANGED <<mutex_, holder, resource, stored, cached,
                 id, handle, held, batch, touched>>

\* if (refcnt_ == 0) run the callback, Snapshot::UnRefAll: UnRef() both
\* resources; at 0 their callback deletes them from the Store and the cache.
UnRefTest(t) ==
  LET i == snapshots[handle[t]].id
      last == snapshots[handle[t]].ref = 0 /\ resource[i] > 0
  IN
  /\ Step(t, "test", IF t = GC THEN "drain" ELSE "idle")
  /\ handle' = [handle EXCEPT ![t] = 0]
  /\ \/ /\ last
        /\ resource' = [resource EXCEPT ![i] = @ - 1]
        /\ stored' = IF resource[i] = 1 THEN stored \ {i} ELSE stored
        /\ cached' = IF resource[i] = 1 THEN cached \ {i} ELSE cached
     \/ /\ ~last
        /\ UNCHANGED <<resource, stored, cached>>
  /\ UNCHANGED <<mutex_, holder, snapshots, id, tmp, held, batch, touched>>

\* ~ScopedResource.
DropScoped(u) ==
  /\ held[u] # 0
  /\ UnRefRead(u, held[u], "idle", "idle")
  /\ held' = [held EXCEPT ![u] = 0]
  /\ UNCHANGED batch

-----------------------------------------------------------------------------
(* BackgroundGC and NotifyDone. *)

GCLoop ==
  /\ Step(GC, "loop", IF done_ THEN "exit" ELSE "wait")
  /\ UNCHANGED <<mutex_, holder, snapshots, resource, stored, cached,
                 id, handle, tmp, held, batch, touched>>

\* wait_for returns on a notification or after 100 ms.
GCTake ==
  /\ Step(GC, "wait", "drain")
  /\ batch' = to_release_
  /\ to_release_' = <<>>
  /\ UNCHANGED <<mutex_, active_, min_id_, max_id_, done_, snapshots,
                 resource, stored, cached, id, handle, tmp, held, touched>>

\* Variant: the batch is left unprocessed when done_ was set meanwhile.
GCUnRefUnlessDone ==
  /\ ~done_
  /\ batch # <<>>
  /\ UnRefRead(GC, Head(batch), "drain", "drain")
  /\ batch' = Tail(batch)
  /\ UNCHANGED held

GCUnRef ==
  /\ batch # <<>>
  /\ UnRefRead(GC, Head(batch), "drain", "drain")
  /\ batch' = Tail(batch)
  /\ UNCHANGED held

GCDrained ==
  /\ batch = <<>>
  /\ Step(GC, "drain", "loop")
  /\ UNCHANGED <<mutex_, holder, snapshots, resource, stored, cached,
                 id, handle, tmp, held, batch, touched>>

NotifyDone ==
  /\ done_' = TRUE
  /\ UNCHANGED <<mutex_, active_, min_id_, max_id_, to_release_, snapshots,
                 resource, stored, cached, local>>

-----------------------------------------------------------------------------
UserStep(u) ==
  \/ LoadResources(u) \/ RefResources(u) \/ Publish(u) \/ PublishDropped(u)
  \/ ReadyForRelease(u) \/ RefWrite(u)

UnRefStep(t) == UnRefWrite(t) \/ UnRefTest(t)

GCStep == GCLoop \/ GCTake \/ GCUnRef \/ GCDrained

HolderStep ==
  \/ \E u \in crew :
       \/ \E i \in Ids : AddCheck(u, i) \/ GetSnapshot(u, i)
       \/ UserStep(u) \/ DropScoped(u)
  \/ \E t \in crew \cup {GC} : UnRefStep(t)
  \/ GCStep
  \/ NotifyDone

Next == HolderStep /\ UNCHANGED setting

Spec == Init /\ [][Next]_vars

\* Every thread runs; nobody has to add, get or drop a snapshot.
Fairness ==
  /\ \A u \in Users : WF_vars((UserStep(u) \/ UnRefStep(u)) /\ UNCHANGED setting)
  /\ WF_vars((GCStep \/ UnRefStep(GC)) /\ UNCHANGED setting)

FairSpec == Spec /\ Fairness

-----------------------------------------------------------------------------
(* Properties. *)

\* A snapshot that is active, or that a user holds a scoped reference to, has
\* its commit and collection in the Store.
InUseIsStored ==
  /\ \A i \in DOMAIN active_ : i \in stored
  /\ \A u \in Users : held[u] # 0 => snapshots[held[u]].id \in stored

\* The assertion of the constructor: the commit an Add asks for is there.
CommitFound == \A u \in Users : pc[u] = "load" => id[u] \in stored \cup cached

\* GetSnapshot(max_id_) and the eviction of min_id_ index active_ without
\* looking: both must be there.
LimitsAreActive ==
  /\ max_id_ # 0 => max_id_ \in DOMAIN active_
  /\ DOMAIN active_ # {} => min_id_ = {Smallest(DOMAIN active_)}
  /\ Cardinality(DOMAIN active_) <= num_versions_

\* A snapshot is dereferenced by the holder once: it is either active, on
\* its way to the background thread in one place, or done with.
ReleasedOnce ==
  \A h \in DOMAIN snapshots :
    Cardinality({i \in DOMAIN active_ : active_[i] = h})
      + Cardinality({u \in Users : pc[u] = "release" /\ handle[u] = h})
      + Cardinality({k \in DOMAIN to_release_ : to_release_[k] = h})
      + Cardinality({k \in DOMAIN batch : batch[k] = h}) <= 1

\* The holder's books stay sound with several users, even when an Add of a
\* smaller id, which passed its check before a larger one was published,
\* completes late: the limits index active snapshots and each snapshot is
\* released once.  With one user beside the background thread nothing is
\* deleted under a reader, even when the background thread's decrement races
\* with the reader's, and an Add finds its commit.
SnapshotsSound ==
  /\ TypeOK
  /\ LimitsAreActive /\ ReleasedOnce
  /\ Cardinality(crew) = 1 => InUseIsStored /\ CommitFound

\* The snapshots handed to the background thread, which no user ever held and
\* whose id no second Add() referenced.
Evicted(q, i) ==
  /\ \E k \in DOMAIN q : snapshots[q[k]].id = i /\ q[k] \notin touched
  /\ Cardinality({h \in DOMAIN snapshots : snapshots[h].id = i}) = 1

\* With one user an evicted snapshot is deleted from the Store in the end,
\* unless NotifyDone() comes before the background thread has taken it: a
\* batch that BackgroundGC() took from to_release_ is finished even then.
EvictedIsDeleted ==
  \A i \in Ids :
    /\ (Cardinality(crew) = 1 /\ Evicted(to_release_, i)) ~> (i \notin stored \/ done_)
    /\ (Cardinality(crew) = 1 /\ Evicted(batch, i)) ~> i \notin stored
=============================================================================
