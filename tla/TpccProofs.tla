----------------------------- MODULE TpccProofs -----------------------------
(***************************************************************************)
(* Proofs about the benchmark, for any number of workers, drivers and      *)
(* tasks and any size of the pool's queue: the drivers the Runner lends and *)
(* the counts the Collector prints; and, for any number of connections,    *)
(* warehouses, districts and customers, the orders and the accounts that    *)
(* the transactions leave behind.                                          *)
(***************************************************************************)
EXTENDS TpccTasks, TpccDriver, SeqLemmas, FiniteSetTheorems, TLAPS

Busy == {"begin", "query", "commit", "catch", "record", "release"}
Working == {"use", "begin", "query", "commit", "catch", "record"}

\* The tasks that were made and handed to the pool.
Pending == main \in {"pick", "enqueue"}
Made == 1 .. Len(type) - (IF Pending THEN 1 ELSE 0)

\* Each task is in the queue, with one worker, left by an exception, or over.
Jobs ==
  /\ Pending => Len(type) > 0
  /\ Range(queue) \subseteq Made /\ IsInjective(queue)
  /\ \A w \in Workers : pc[w] \in Working \cup {"release"} =>
       job[w] \in Made /\ job[w] \notin Range(queue) /\ job[w] \notin thrown
  /\ \A v, w \in Workers :
       pc[v] \in Working \cup {"release"} /\ pc[w] \in Working \cup {"release"} /\ job[v] = job[w] => v = w
  /\ thrown \subseteq Made /\ thrown \cap Range(queue) = {}

\* A worker has one driver from Use to Release, and nobody else has it; its
\* connection is in a transaction from Begin to the commit or rollback.
Lent ==
  /\ \A w \in Workers : IF pc[w] \in Busy THEN \E d \in Drivers : driver[w] = {d} ELSE driver[w] = {}
  /\ IsInjective(in_idle_)
  /\ \A w \in Workers, d \in Drivers : d \in driver[w] => d \notin Range(in_idle_)
  /\ \A v, w \in Workers, d \in Drivers : d \in driver[v] /\ d \in driver[w] => v = w
  /\ \A w \in Workers, d \in Drivers : d \in driver[w] =>
       /\ pc[w] \in {"query", "commit"} => tx[d]
       /\ pc[w] \in {"begin", "record", "release"} => ~tx[d]
  /\ \A d \in Range(in_idle_) : ~tx[d]

Lost == {d \in Drivers : d \notin Range(in_idle_) /\ \A w \in Workers : d \notin driver[w]}

\* The tasks the Collector has an entry of.
Counted == {t \in Made : /\ t \notin Range(queue) /\ t \notin thrown
                         /\ \A w \in Workers : pc[w] \in Working => job[w] # t}

\* A task is committed or rolled back, once, before it is recorded.
Outcomes ==
  /\ committed \subseteq Made /\ rolledback \subseteq Made
  /\ (committed \cup rolledback) \cap Range(queue) = {}
  /\ committed \cap thrown = {}
  /\ \A w \in Workers :
       /\ pc[w] \in Working \ {"record"} => job[w] \notin committed /\ job[w] \notin rolledback
       /\ pc[w] = "record" => (job[w] \in committed <=> job[w] \notin rolledback)

\* The end of main().
Ends ==
  /\ main \in {"join", "done"} => Len(type) = NumTasks
  /\ main = "done" => \A w \in Workers : pc[w] = "exit"
  /\ \A w \in Workers : pc[w] = "exit" => queue = <<>> /\ main \in {"join", "done"}

Entries == Total(LAMBDA m : m.commits + m.rollbacks)
Commits == Total(LAMBDA m : m.commits)

Sums ==
  /\ Cardinality(Lost) = Cardinality(thrown)
  /\ Entries = Cardinality(Counted)
  /\ Commits = Cardinality(Counted \cap committed)

TasksInv == TypeOK /\ Jobs /\ Lent /\ Outcomes /\ Ends /\ Sums

-----------------------------------------------------------------------------
(* Types *)

\* The tasks handed to the pool are tasks.
LEMMA MadeFacts ==
  ASSUME TypeOK, Jobs
  PROVE  /\ Len(type) \in 0 .. NumTasks /\ NumTasks \in Nat
         /\ Made \subseteq 1 .. Len(type) /\ Made \subseteq TaskIds
         /\ IsFiniteSet(Made) /\ IsFiniteSet(thrown)
<1>1. Len(type) \in Nat /\ NumTasks \in Nat /\ Len(type) <= NumTasks
  BY TpccAssumption, LenProperties DEF TypeOK
<1>2. Made \subseteq 1 .. Len(type) /\ Made \subseteq TaskIds
  BY <1>1 DEF Made, TaskIds
<1>3. IsFiniteSet(TaskIds)
  BY <1>1, FS_Interval DEF TaskIds
<1>4. IsFiniteSet(Made) /\ IsFiniteSet(thrown)
  BY <1>2, <1>3, FS_Subset DEF TypeOK
<1> QED BY <1>1, <1>2, <1>4

\* The connection of a worker is that of its driver.
LEMMA ConnIs ==
  ASSUME NEW w \in Workers, Lent, pc[w] \in Busy
  PROVE  Conn(w) \in Drivers /\ driver[w] = {Conn(w)}
<1>1. PICK d \in Drivers : driver[w] = {d}
  BY DEF Lent
<1> QED BY <1>1 DEF Conn

\* The driver at the back of the Runner's list, and the list without it.
LEMMA BackIs ==
  ASSUME TypeOK, Lent, in_idle_ # <<>>
  PROVE  LET front == SubSeq(in_idle_, 1, Len(in_idle_) - 1)
         IN  /\ Back \in Drivers /\ front \in Seq(Drivers)
             /\ Range(in_idle_) = Range(front) \cup {Back}
             /\ Back \notin Range(front) /\ IsInjective(front)
BY RangeBack DEF TypeOK, Lent, Back

\* Every variable keeps its type.
LEMMA TypesKept ==
  ASSUME TypeOK, Jobs, Lent, [Next]_vars
  PROVE  TypeOK'
<1> USE DEF TypeOK, Goto
<1>0. /\ Len(type) \in 0 .. NumTasks /\ NumTasks \in Nat
      /\ Made \subseteq 1 .. Len(type) /\ Made \subseteq TaskIds
  BY MadeFacts
<1>1. CASE NextContext
  <2>1. PICK rand_val \in 1 .. 100, u \in Warehouses, remote \in BOOLEAN :
          /\ type' = Append(type, TypeOf(rand_val))
          /\ w_id' = IF remote THEN u ELSE wh_start_
          /\ main' = IF remote THEN "pick" ELSE "enqueue"
    BY <1>1 DEF NextContext
  <2>2. TypeOf(rand_val) \in Types
    BY DEF TypeOf, Types
  <2>3. type' \in Seq(Types) /\ Len(type') = Len(type) + 1 /\ Len(type) < NumTasks
    BY <1>1, <2>1, <2>2, AppendProperties DEF NextContext
  <2>4. type' \in Seq(Types) /\ Len(type') <= NumTasks
    BY <1>0, <2>3
  <2> QED BY <1>1, <2>1, <2>4, TpccAssumption DEF NextContext
<1>2. CASE PickWarehouse
  BY <1>2, TpccAssumption DEF PickWarehouse
<1>3. CASE Enqueue
  <2>1. Len(type) \in TaskIds
    BY <1>0, <1>3 DEF Enqueue, Jobs, Pending, TaskIds
  <2>2. Append(queue, Len(type)) \in Seq(TaskIds) /\ Len(Append(queue, Len(type))) = Len(queue) + 1
    BY <2>1, AppendProperties
  <2>3. Len(queue) \in Nat
    BY LenProperties
  <2> QED BY <1>3, <2>2, <2>3, TpccAssumption DEF Enqueue
<1>4. CASE DestroyPool \/ Joined
  BY <1>4 DEF DestroyPool, Joined
<1>5. ASSUME NEW w \in Workers, Take(w) PROVE TypeOK'
  <2>1. CASE queue # <<>>
    <3>1. Head(queue) \in TaskIds /\ Tail(queue) \in Seq(TaskIds) /\ Len(Tail(queue)) = Len(queue) - 1
          /\ Len(queue) \in Nat
      BY <2>1, HeadTailProperties, LenProperties
    <3>2. queue' \in Seq(TaskIds) /\ Len(queue') <= QueueSize
      <4>1. queue' = Tail(queue)
        BY <1>5, <2>1 DEF Take
      <4>2. Len(queue) - 1 <= QueueSize
        BY <3>1, TpccAssumption
      <4> QED BY <3>1, <4>1, <4>2
    <3>3. job' \in [Workers -> TaskIds \cup {0}]
      BY <1>5, <2>1, <3>1 DEF Take
    <3> QED BY <1>5, <2>1, <3>2, <3>3 DEF Take
  <2>2. CASE queue = <<>>
    BY <1>5, <2>2 DEF Take
  <2> QED BY <2>1, <2>2
<1>6. ASSUME NEW w \in Workers, Use(w) PROVE TypeOK'
  <2>1. Back \in Drivers /\ in_idle_' \in Seq(Drivers)
    BY <1>6, BackIs DEF Use
  <2>2. driver' \in [Workers -> SUBSET Drivers] /\ \A v \in Workers : driver'[v] = driver[v] \/ driver'[v] = {Back}
    BY <1>6, <2>1 DEF Use
  <2>3. \A v \in Workers : Cardinality(driver'[v]) <= 1
    <3> SUFFICES ASSUME NEW v \in Workers PROVE Cardinality(driver'[v]) <= 1
      OBVIOUS
    <3>1. Cardinality({Back}) = 1
      BY FS_Singleton
    <3>2. CASE driver'[v] = driver[v]
      BY <3>2
    <3>3. CASE driver'[v] = {Back}
      BY <3>1, <3>3
    <3> QED BY <2>2, <3>2, <3>3
  <2> QED BY <1>6, <2>1, <2>2, <2>3 DEF Use
<1>7. ASSUME NEW w \in Workers, Begin(w) PROVE TypeOK'
  BY <1>7 DEF Begin
<1>8. ASSUME NEW w \in Workers, Query(w) PROVE TypeOK'
  <2>1. job[w] \in TaskIds
    BY <1>0, <1>8 DEF Query, Jobs, Working
  <2> QED BY <1>8, <2>1 DEF Query, ForceRollBack
<1>9. ASSUME NEW w \in Workers, Commit(w) PROVE TypeOK'
  <2>1. job[w] \in TaskIds
    BY <1>0, <1>9 DEF Commit, Jobs, Working
  <2> QED BY <1>9, <2>1 DEF Commit
<1>10. ASSUME NEW w \in Workers, Catch(w) PROVE TypeOK'
  <2>1. job[w] \in TaskIds
    BY <1>0, <1>10 DEF Catch, Jobs, Working
  <2>2. driver' \in [Workers -> SUBSET Drivers] /\ \A v \in Workers : driver'[v] = driver[v] \/ driver'[v] = {}
    BY <1>10 DEF Catch
  <2>3. \A v \in Workers : Cardinality(driver'[v]) <= 1
    <3> SUFFICES ASSUME NEW v \in Workers PROVE Cardinality(driver'[v]) <= 1
      OBVIOUS
    <3>1. Cardinality({}) = 0
      BY FS_EmptySet
    <3>2. CASE driver'[v] = driver[v]
      BY <3>2
    <3>3. CASE driver'[v] = {}
      BY <3>1, <3>3
    <3> QED BY <2>2, <3>2, <3>3
  <2> QED BY <1>10, <2>1, <2>2, <2>3 DEF Catch, ForceRollBack
<1>11. ASSUME NEW w \in Workers, Record(w) PROVE TypeOK'
  <2>1. type[job[w]] \in Types
    BY <1>0, <1>11, ElementOfSeq DEF Record, Jobs, Working
  <2>2. MetricOf(type[job[w]]) \in Types
    BY <2>1 DEF MetricOf, Types
  <2>3. metric' \in [Types -> [commits : Nat, rollbacks : Nat]]
    <3>1. PICK m \in Types : m = MetricOf(type[job[w]])
      BY <2>2
    <3>2. metric[m] \in [commits : Nat, rollbacks : Nat]
      OBVIOUS
    <3>3. metric[m].commits \in Nat /\ metric[m].rollbacks \in Nat
      BY <3>2
    <3>4. CASE job[w] \in rolledback
      <4>1. metric' = [metric EXCEPT ![m].rollbacks = @ + 1]
        BY <1>11, <3>1, <3>4 DEF Record
      <4>2. [metric[m] EXCEPT !.rollbacks = @ + 1] \in [commits : Nat, rollbacks : Nat]
        BY <3>2, <3>3
      <4> QED BY <4>1, <4>2
    <3>5. CASE job[w] \notin rolledback
      <4>1. metric' = [metric EXCEPT ![m].commits = @ + 1]
        BY <1>11, <3>1, <3>5 DEF Record
      <4>2. [metric[m] EXCEPT !.commits = @ + 1] \in [commits : Nat, rollbacks : Nat]
        BY <3>2, <3>3
      <4> QED BY <4>1, <4>2
    <3> QED BY <3>4, <3>5
  <2> QED BY <1>11, <2>3 DEF Record
<1>12. ASSUME NEW w \in Workers, Release(w) PROVE TypeOK'
  <2>1. Conn(w) \in Drivers
    BY <1>12, ConnIs DEF Release, Busy
  <2>2. driver' \in [Workers -> SUBSET Drivers] /\ \A v \in Workers : driver'[v] = driver[v] \/ driver'[v] = {}
    BY <1>12 DEF Release
  <2>3. \A v \in Workers : Cardinality(driver'[v]) <= 1
    <3> SUFFICES ASSUME NEW v \in Workers PROVE Cardinality(driver'[v]) <= 1
      OBVIOUS
    <3>1. Cardinality({}) = 0
      BY FS_EmptySet
    <3>2. CASE driver'[v] = driver[v]
      BY <3>2
    <3>3. CASE driver'[v] = {}
      BY <3>1, <3>3
    <3> QED BY <2>2, <3>2, <3>3
  <2> QED BY <1>12, <2>1, <2>2, <2>3, AppendProperties DEF Release
<1>13. CASE UNCHANGED vars
  BY <1>13 DEF vars
<1> QED BY <1>1, <1>2, <1>3, <1>4, <1>5, <1>6, <1>7, <1>8, <1>9, <1>10, <1>11, <1>12, <1>13
        DEF Next, MainStep, WorkerStep

-----------------------------------------------------------------------------
(* Tasks *)

\* Only Enqueue hands a task to the pool, the one that was pending.
LEMMA MadeKept ==
  ASSUME TypeOK, Jobs, [Next]_vars
  PROVE  /\ Enqueue => Made' = Made \cup {Len(type)} /\ Len(type) \notin Made /\ ~Pending'
         /\ ~Enqueue => Made' = Made
<1>0. Len(type) \in Nat
  BY LenProperties DEF TypeOK
<1>1. CASE NextContext
  <2>1. Pending' /\ ~Pending
    BY <1>1 DEF NextContext, Pending
  <2>2. Len(type') = Len(type) + 1
    BY <1>1, AppendProperties DEF NextContext, TypeOK, TypeOf, Types
  <2>3. ~Enqueue
    BY <2>1 DEF Enqueue, Pending
  <2> QED BY <1>0, <2>1, <2>2, <2>3 DEF Made
<1>2. CASE Enqueue
  <2>1. Pending /\ ~Pending' /\ type' = type
    BY <1>2 DEF Enqueue, Pending
  <2> QED BY <1>0, <1>2, <2>1 DEF Made, Jobs
<1>3. CASE /\ \/ PickWarehouse \/ DestroyPool \/ Joined \/ UNCHANGED vars
              \/ \E w \in Workers : WorkerStep(w)
           /\ ~Enqueue
  <2>1. (Pending' <=> Pending) /\ type' = type
    BY <1>3 DEF PickWarehouse, DestroyPool, Joined, vars, WorkerStep, Take, Use, Begin, Query, Commit,
                Catch, Record, Release, Pending
  <2> QED BY <1>3, <2>1 DEF Made
<1> QED BY <1>1, <1>2, <1>3 DEF Next, MainStep

\* A task is with one worker, and is not taken again.
LEMMA JobsKept ==
  ASSUME TypeOK, Jobs, [Next]_vars
  PROVE  Jobs'
<1> USE DEF Goto
<1>0. Len(type) \in Nat
  BY LenProperties DEF TypeOK
<1>1. CASE NextContext
  <2>1. Made' = Made
    BY <1>1, MadeKept DEF NextContext, Enqueue
  <2>2. Len(type') > 0
    BY <1>0, <1>1, AppendProperties DEF NextContext, TypeOK, TypeOf, Types
  <2>3. UNCHANGED <<queue, pc, job, thrown>>
    BY <1>1 DEF NextContext
  <2> QED BY <2>1, <2>2, <2>3 DEF Jobs
<1>2. CASE PickWarehouse \/ DestroyPool \/ Joined
  <2>1. Made' = Made
    BY <1>2, MadeKept DEF PickWarehouse, DestroyPool, Joined, Enqueue
  <2>2. UNCHANGED <<type, queue, pc, job, thrown>> /\ (Pending' => Pending)
    BY <1>2 DEF PickWarehouse, DestroyPool, Joined, Pending
  <2> QED BY <2>1, <2>2 DEF Jobs
<1>3. CASE Enqueue
  <2>1. Made' = Made \cup {Len(type)} /\ Len(type) \notin Made /\ ~Pending'
    BY <1>3, MadeKept
  <2>2. Len(type) \in TaskIds
    BY <1>0, <1>3 DEF Enqueue, Jobs, Pending, TaskIds, TypeOK
  <2>3. Range(queue') = Range(queue) \cup {Len(type)} /\ IsInjective(queue')
    <3>1. queue \in Seq(TaskIds) /\ IsInjective(queue) /\ Len(type) \notin Range(queue)
      BY <2>1 DEF TypeOK, Jobs
    <3> QED BY <1>3, <2>2, <3>1, RangeAppend, InjectiveAppend DEF Enqueue
  <2>4. UNCHANGED <<pc, job, thrown>>
    BY <1>3 DEF Enqueue
  <2> QED BY <2>1, <2>3, <2>4 DEF Jobs
<1>4. ASSUME NEW w \in Workers, Take(w), queue # <<>> PROVE Jobs'
  <2>1. Made' = Made
    BY <1>4, MadeKept DEF Take, Enqueue
  <2>2. /\ Range(queue) = Range(queue') \cup {Head(queue)} /\ Head(queue) \notin Range(queue')
        /\ IsInjective(queue')
    <3>1. queue \in Seq(TaskIds) /\ IsInjective(queue) /\ queue' = Tail(queue)
      BY <1>4 DEF Take, TypeOK, Jobs
    <3> QED BY <1>4, <3>1, RangeTake
  <2>3. /\ job'[w] = Head(queue) /\ pc'[w] = "use"
        /\ \A v \in Workers \ {w} : job'[v] = job[v] /\ pc'[v] = pc[v]
    BY <1>4 DEF Take, TypeOK
  <2>4. UNCHANGED <<main, type, thrown>> /\ (Pending' <=> Pending)
    BY <1>4 DEF Take, Pending
  <2>5. \A v \in Workers : pc'[v] \in Working \cup {"release"} =>
          job'[v] \in Made /\ job'[v] \notin Range(queue') /\ job'[v] \notin thrown
    BY <2>2, <2>3 DEF Jobs
  <2>6. \A u, v \in Workers :
          pc'[u] \in Working \cup {"release"} /\ pc'[v] \in Working \cup {"release"} /\ job'[u] = job'[v] => u = v
    BY <2>2, <2>3 DEF Jobs
  <2> QED BY <2>1, <2>2, <2>4, <2>5, <2>6 DEF Jobs
<1>5. ASSUME NEW w \in Workers,
             \/ Take(w) /\ queue = <<>>
             \/ Use(w) \/ Begin(w) \/ Query(w) \/ Commit(w) \/ Record(w) \/ Release(w)
      PROVE  Jobs'
  <2>1. Made' = Made
    BY <1>5, MadeKept DEF Take, Use, Begin, Query, Commit, Record, Release, Enqueue
  <2>2. UNCHANGED <<main, type, queue, job, thrown>> /\ (Pending' <=> Pending)
    BY <1>5 DEF Take, Use, Begin, Query, Commit, Record, Release, Pending
  <2>3. \A v \in Workers : pc'[v] \in Working \cup {"release"} => pc[v] \in Working \cup {"release"}
    <3>1. \A v \in Workers \ {w} : pc'[v] = pc[v]
      BY <1>5 DEF Take, Use, Begin, Query, ForceRollBack, Commit, Record, Release, TypeOK
    <3>2. pc[w] \in Working \cup {"release"} \/ pc'[w] = "exit"
      BY <1>5 DEF Take, Use, Begin, Query, Commit, Record, Release, TypeOK, Working
    <3> QED BY <3>1, <3>2 DEF Working
  <2> QED BY <2>1, <2>2, <2>3 DEF Jobs
<1>6. ASSUME NEW w \in Workers, Catch(w) PROVE Jobs'
  <2>1. Made' = Made
    BY <1>6, MadeKept DEF Catch, Enqueue
  <2>2. UNCHANGED <<main, type, queue, job>> /\ (Pending' <=> Pending)
    BY <1>6 DEF Catch, Pending
  <2>3. /\ \A v \in Workers \ {w} : pc'[v] = pc[v]
        /\ pc[w] = "catch"
        /\ \/ pc'[w] = "record" /\ thrown' = thrown
           \/ pc'[w] = "pool" /\ thrown' = thrown \cup {job[w]}
    BY <1>6 DEF Catch, ForceRollBack, TypeOK
  <2>4. job[w] \in Made /\ job[w] \notin Range(queue)
    BY <2>3 DEF Jobs, Working
  <2>5. \A v \in Workers : pc'[v] \in Working \cup {"release"} => pc[v] \in Working \cup {"release"}
    BY <2>3 DEF Working
  <2>6. \A v \in Workers : pc'[v] \in Working \cup {"release"} => job[v] \notin thrown'
    BY <2>3, <2>5 DEF Jobs, Working
  <2>7. thrown' \subseteq Made /\ thrown' \cap Range(queue) = {}
    BY <2>3, <2>4 DEF Jobs
  <2> QED BY <2>1, <2>2, <2>5, <2>6, <2>7 DEF Jobs
<1>7. CASE UNCHANGED vars
  BY <1>7 DEF vars, Jobs, Made, Pending
<1> QED BY <1>1, <1>2, <1>3, <1>4, <1>5, <1>6, <1>7 DEF Next, MainStep, WorkerStep

-----------------------------------------------------------------------------
(* Drivers *)

\* A step that changes no owner, only where a worker with a driver is and the
\* transaction on its connection.
LEMMA LentSame ==
  ASSUME TypeOK, Lent, NEW w \in Workers, pc[w] \in Busy, pc'[w] \in Busy,
         \A v \in Workers \ {w} : pc'[v] = pc[v],
         UNCHANGED <<driver, in_idle_>>,
         \A d \in Drivers \ {Conn(w)} : tx'[d] = tx[d],
         pc'[w] \in {"query", "commit"} => tx'[Conn(w)],
         pc'[w] \in {"begin", "record", "release"} => ~tx'[Conn(w)]
  PROVE  Lent'
<1>1. Conn(w) \in Drivers /\ driver[w] = {Conn(w)}
  BY ConnIs
<1>2. Range(in_idle_) \subseteq Drivers
  BY ElementOfSeq, LenProperties DEF TypeOK, Range
<1>3. Conn(w) \notin Range(in_idle_)
  BY <1>1 DEF Lent
<1>4. \A v \in Workers : IF pc'[v] \in Busy THEN \E d \in Drivers : driver[v] = {d} ELSE driver[v] = {}
  BY DEF Lent
<1>5. \A v \in Workers, d \in Drivers : d \in driver[v] =>
        /\ pc'[v] \in {"query", "commit"} => tx'[d]
        /\ pc'[v] \in {"begin", "record", "release"} => ~tx'[d]
  <2> SUFFICES ASSUME NEW v \in Workers, NEW d \in Drivers, d \in driver[v]
               PROVE  /\ pc'[v] \in {"query", "commit"} => tx'[d]
                      /\ pc'[v] \in {"begin", "record", "release"} => ~tx'[d]
    OBVIOUS
  <2>1. CASE v = w
    BY <1>1, <2>1
  <2>2. CASE v # w
    <3>1. d # Conn(w)
      BY <1>1, <2>2 DEF Lent
    <3> QED BY <2>2, <3>1 DEF Lent
  <2> QED BY <2>1, <2>2
<1>6. \A d \in Range(in_idle_) : ~tx'[d]
  BY <1>2, <1>3 DEF Lent
<1> QED BY <1>4, <1>5, <1>6 DEF Lent

\* Taking a driver from a worker that ends outside of a transaction, for the
\* Runner's list or for nobody.
LEMMA LentBack ==
  ASSUME TypeOK, Lent, NEW w \in Workers, pc[w] \in Busy, pc'[w] \notin Busy,
         \A v \in Workers \ {w} : pc'[v] = pc[v] /\ driver'[v] = driver[v],
         driver'[w] = {}, tx' = tx, ~tx[Conn(w)],
         in_idle_' = in_idle_ \/ in_idle_' = Append(in_idle_, Conn(w))
  PROVE  /\ Lent'
         /\ in_idle_' = in_idle_ => Lost' = Lost \cup {Conn(w)} /\ Conn(w) \notin Lost
         /\ in_idle_' = Append(in_idle_, Conn(w)) => Lost' = Lost
<1>1. Conn(w) \in Drivers /\ driver[w] = {Conn(w)}
  BY ConnIs
<1>2. Conn(w) \notin Range(in_idle_) /\ \A v \in Workers \ {w} : Conn(w) \notin driver[v]
  BY <1>1 DEF Lent
<1>3. in_idle_ \in Seq(Drivers) /\ IsInjective(in_idle_)
  BY DEF TypeOK, Lent
<1>4. /\ Range(Append(in_idle_, Conn(w))) = Range(in_idle_) \cup {Conn(w)}
      /\ IsInjective(Append(in_idle_, Conn(w)))
  BY <1>1, <1>2, <1>3, RangeAppend, InjectiveAppend
<1>5. IsInjective(in_idle_') /\ Range(in_idle_') \subseteq Range(in_idle_) \cup {Conn(w)}
  BY <1>3, <1>4
<1>6. \A v \in Workers : IF pc'[v] \in Busy THEN \E d \in Drivers : driver'[v] = {d} ELSE driver'[v] = {}
  BY DEF Lent
<1>7. \A v \in Workers, d \in Drivers : d \in driver'[v] => v # w /\ d \in driver[v]
  OBVIOUS
<1>8. \A v \in Workers, d \in Drivers : d \in driver'[v] => d \notin Range(in_idle_')
  BY <1>2, <1>5, <1>7 DEF Lent
<1>9. \A d \in Range(in_idle_') : ~tx'[d]
  BY <1>5 DEF Lent
<1>10. Lent'
  BY <1>5, <1>6, <1>7, <1>8, <1>9 DEF Lent
<1>11. ASSUME in_idle_' = in_idle_ PROVE Lost' = Lost \cup {Conn(w)} /\ Conn(w) \notin Lost
  BY <1>1, <1>2, <1>11 DEF Lost
<1>12. ASSUME in_idle_' = Append(in_idle_, Conn(w)) PROVE Lost' = Lost
  BY <1>1, <1>2, <1>4, <1>12 DEF Lost
<1> QED BY <1>10, <1>11, <1>12

\* Borrowing the driver at the back.
LEMMA LentOut ==
  ASSUME TypeOK, Lent, NEW w \in Workers, Use(w)
  PROVE  Lent' /\ Lost' = Lost
<1> DEFINE front == SubSeq(in_idle_, 1, Len(in_idle_) - 1)
<1>1. /\ Back \in Drivers /\ front \in Seq(Drivers)
      /\ Range(in_idle_) = Range(front) \cup {Back}
      /\ Back \notin Range(front) /\ IsInjective(front)
  BY BackIs DEF Use
<1>2. in_idle_' = front /\ tx' = tx
  BY DEF Use
<1> HIDE DEF front
<1>3. /\ pc[w] = "use" /\ pc'[w] = "begin" /\ driver'[w] = {Back}
      /\ \A v \in Workers \ {w} : pc'[v] = pc[v] /\ driver'[v] = driver[v]
  BY DEF Use, Goto, TypeOK
<1>4. driver[w] = {}
  BY <1>3 DEF Lent, Busy
<1>5. \A v \in Workers : IF pc'[v] \in Busy THEN \E d \in Drivers : driver'[v] = {d} ELSE driver'[v] = {}
  BY <1>1, <1>3 DEF Lent, Busy
<1>6. \A v \in Workers, d \in Drivers : d \in driver'[v] => d \notin Range(front)
  BY <1>1, <1>3 DEF Lent
<1>7. \A v \in Workers : Back \notin driver[v]
  BY <1>1 DEF Lent
<1>8. \A u, v \in Workers, d \in Drivers : d \in driver'[u] /\ d \in driver'[v] => u = v
  BY <1>3, <1>7 DEF Lent
<1>9. ~tx[Back] /\ \A d \in Range(front) : ~tx[d]
  BY <1>1 DEF Lent
<1>10. \A v \in Workers, d \in Drivers : d \in driver'[v] =>
         /\ pc'[v] \in {"query", "commit"} => tx[d]
         /\ pc'[v] \in {"begin", "record", "release"} => ~tx[d]
  BY <1>3, <1>9 DEF Lent
<1>11. Lent'
  BY <1>1, <1>2, <1>5, <1>6, <1>8, <1>9, <1>10 DEF Lent
<1>12. Lost' = Lost
  BY <1>1, <1>2, <1>3, <1>4, <1>7 DEF Lost
<1> QED BY <1>11, <1>12

\* Who loses a driver: the task whose handler throws, and no other step.
LEMMA LentKept ==
  ASSUME TypeOK, Lent, [Next]_vars
  PROVE  /\ Lent'
         /\ \/ Lost' = Lost /\ thrown' = thrown
            \/ \E w \in Workers : /\ Catch(w) /\ pc[w] = "catch" /\ thrown' = thrown \cup {job[w]}
                                  /\ \E d : Lost' = Lost \cup {d} /\ d \notin Lost
<1> USE DEF Goto
<1>1. CASE MainStep \/ UNCHANGED vars
  <2>1. UNCHANGED <<in_idle_, tx, pc, driver, thrown>>
    BY <1>1 DEF MainStep, NextContext, PickWarehouse, Enqueue, DestroyPool, Joined, vars
  <2> QED BY <2>1 DEF Lent, Lost
<1>2. ASSUME NEW w \in Workers, Take(w) PROVE Lent' /\ Lost' = Lost /\ thrown' = thrown
  <2>1. UNCHANGED <<in_idle_, tx, driver, thrown>>
    BY <1>2 DEF Take
  <2>2. /\ \A v \in Workers \ {w} : pc'[v] = pc[v]
        /\ pc[w] \notin Busy /\ pc'[w] \notin Busy
    BY <1>2 DEF Take, TypeOK, Busy
  <2>3. \A v \in Workers, d \in Drivers : d \in driver[v] => v # w
    BY <2>2 DEF Lent
  <2>4. Lent'
    BY <2>1, <2>2, <2>3 DEF Lent
  <2> QED BY <2>1, <2>4 DEF Lost
<1>3. ASSUME NEW w \in Workers, Use(w) PROVE Lent' /\ Lost' = Lost /\ thrown' = thrown
  BY <1>3, LentOut DEF Use
<1>4. ASSUME NEW w \in Workers, Begin(w) \/ Query(w) \/ Commit(w) \/ Record(w)
      PROVE  Lent' /\ Lost' = Lost /\ thrown' = thrown
  <2>1. UNCHANGED <<in_idle_, driver, thrown>>
    BY <1>4 DEF Begin, Query, Commit, Record
  <2>2. \A v \in Workers \ {w} : pc'[v] = pc[v]
    BY <1>4 DEF Begin, Query, ForceRollBack, Commit, Record, TypeOK
  <2>3. pc[w] \in Busy /\ pc'[w] \in Busy
    BY <1>4 DEF Begin, Query, ForceRollBack, Commit, Record, TypeOK, Busy
  <2>4. Conn(w) \in Drivers /\ driver[w] = {Conn(w)}
    BY <2>3, ConnIs
  <2>5. \A d \in Drivers \ {Conn(w)} : tx'[d] = tx[d]
    BY <1>4, <2>4 DEF Begin, Query, ForceRollBack, Commit, Record, TypeOK
  <2>6. /\ pc[w] = "query" => tx[Conn(w)]
        /\ pc[w] = "record" => ~tx[Conn(w)]
    BY <2>4 DEF Lent
  <2>7. /\ pc'[w] \in {"query", "commit"} => tx'[Conn(w)]
        /\ pc'[w] \in {"begin", "record", "release"} => ~tx'[Conn(w)]
    <3>1. CASE Begin(w)
      BY <2>4, <3>1 DEF Begin, TypeOK
    <3>2. CASE Query(w)
      BY <2>4, <2>6, <3>2 DEF Query, ForceRollBack, TypeOK
    <3>3. CASE Commit(w)
      BY <2>4, <3>3 DEF Commit, TypeOK
    <3>4. CASE Record(w)
      BY <2>4, <2>6, <3>4 DEF Record, TypeOK
    <3> QED BY <1>4, <3>1, <3>2, <3>3, <3>4
  <2>8. Lent'
    BY <2>1, <2>2, <2>3, <2>5, <2>7, LentSame
  <2> QED BY <2>1, <2>8 DEF Lost
<1>5. ASSUME NEW w \in Workers, Catch(w), tx[Conn(w)] PROVE Lent' /\ Lost' = Lost /\ thrown' = thrown
  <2>1. UNCHANGED <<in_idle_, driver, thrown>>
    BY <1>5 DEF Catch
  <2>2. /\ pc[w] = "catch" /\ pc'[w] = "record"
        /\ \A v \in Workers \ {w} : pc'[v] = pc[v]
    BY <1>5 DEF Catch, ForceRollBack, TypeOK
  <2>3. Conn(w) \in Drivers
    BY <2>2, ConnIs DEF Busy
  <2>4. ~tx'[Conn(w)] /\ \A d \in Drivers \ {Conn(w)} : tx'[d] = tx[d]
    BY <1>5, <2>3 DEF Catch, ForceRollBack, TypeOK
  <2>5. Lent'
    BY <2>1, <2>2, <2>4, LentSame DEF Busy
  <2> QED BY <2>1, <2>5 DEF Lost
<1>6. ASSUME NEW w \in Workers, Catch(w), ~tx[Conn(w)]
      PROVE  /\ Lent' /\ pc[w] = "catch" /\ thrown' = thrown \cup {job[w]}
             /\ \E d : Lost' = Lost \cup {d} /\ d \notin Lost
  <2>1. UNCHANGED <<in_idle_, tx>> /\ thrown' = thrown \cup {job[w]}
    BY <1>6 DEF Catch, ForceRollBack
  <2>2. /\ pc[w] = "catch" /\ pc'[w] = "pool" /\ driver'[w] = {}
        /\ \A v \in Workers \ {w} : pc'[v] = pc[v] /\ driver'[v] = driver[v]
    BY <1>6 DEF Catch, ForceRollBack, TypeOK
  <2>3. Lent' /\ Lost' = Lost \cup {Conn(w)} /\ Conn(w) \notin Lost
    BY <1>6, <2>1, <2>2, LentBack DEF Busy
  <2> QED BY <2>1, <2>2, <2>3
<1>7. ASSUME NEW w \in Workers, Release(w) PROVE Lent' /\ Lost' = Lost /\ thrown' = thrown
  <2>1. UNCHANGED <<tx, thrown>> /\ in_idle_' = Append(in_idle_, Conn(w))
    BY <1>7 DEF Release
  <2>2. /\ pc[w] = "release" /\ pc'[w] = "pool" /\ driver'[w] = {}
        /\ \A v \in Workers \ {w} : pc'[v] = pc[v] /\ driver'[v] = driver[v]
    BY <1>7 DEF Release, TypeOK
  <2>3. ~tx[Conn(w)]
    BY <2>2, ConnIs DEF Lent, Busy
  <2> QED BY <2>1, <2>2, <2>3, LentBack DEF Busy
<1> QED BY <1>1, <1>2, <1>3, <1>4, <1>5, <1>6, <1>7 DEF Next, WorkerStep

-----------------------------------------------------------------------------
(* Outcomes and their counts *)

\* What a worker's step does to its task: a task in the queue or with a
\* worker before its record has no outcome yet.
LEMMA OutcomesKept ==
  ASSUME TypeOK, Jobs, Outcomes, [Next]_vars
  PROVE  Outcomes'
<1> USE DEF Goto
<1>0. /\ \A w \in Workers : pc[w] \in Working => job[w] \in Made /\ job[w] \notin Range(queue) /\ job[w] \notin thrown
      /\ \A v, w \in Workers : pc[v] \in Working /\ pc[w] \in Working /\ job[v] = job[w] => v = w
  BY DEF Jobs
<1>1. CASE Enqueue
  <2>1. Made' = Made \cup {Len(type)} /\ Len(type) \notin Made
    BY <1>1, MadeKept
  <2>2. Len(type) \in TaskIds
    <3>1. Len(type) \in Nat
      BY LenProperties DEF TypeOK
    <3> QED BY <1>1, <3>1 DEF Enqueue, Jobs, Pending, TaskIds, TypeOK
  <2>3. Range(queue') = Range(queue) \cup {Len(type)}
    BY <1>1, <2>2, RangeAppend DEF Enqueue, TypeOK
  <2>4. UNCHANGED <<pc, job, thrown, committed, rolledback>>
    BY <1>1 DEF Enqueue
  <2> QED BY <2>1, <2>3, <2>4 DEF Outcomes
<1>2. CASE NextContext \/ PickWarehouse \/ DestroyPool \/ Joined \/ UNCHANGED vars
  <2>1. UNCHANGED <<queue, pc, job, thrown, committed, rolledback>>
    BY <1>2 DEF NextContext, PickWarehouse, DestroyPool, Joined, vars
  <2>2. Made' = Made
    <3>1. CASE Enqueue
      BY <1>2, <3>1 DEF Enqueue, NextContext, PickWarehouse, DestroyPool, Joined, vars
    <3>2. CASE ~Enqueue
      BY <3>2, MadeKept
    <3> QED BY <3>1, <3>2
  <2> QED BY <2>1, <2>2 DEF Outcomes
<1>3. ASSUME NEW w \in Workers, WorkerStep(w) PROVE Outcomes'
  <2>0. Made' = Made
    <3>1. UNCHANGED <<main, type>>
      BY <1>3 DEF WorkerStep, Take, Use, Begin, Query, Commit, Catch, Record, Release
    <3> QED BY <3>1 DEF Made, Pending
  <2>1. \A v \in Workers \ {w} : pc'[v] = pc[v] /\ job'[v] = job[v]
    BY <1>3 DEF WorkerStep, Take, Use, Begin, Query, ForceRollBack, Commit, Catch, Record, Release, TypeOK
  <2>2. CASE Take(w) /\ queue # <<>>
    <3>1. Range(queue) = Range(queue') \cup {Head(queue)}
      BY <2>2, RangeTake DEF Take, TypeOK
    <3>2. /\ job'[w] = Head(queue) /\ pc'[w] = "use"
          /\ UNCHANGED <<thrown, committed, rolledback>>
      BY <2>2 DEF Take, TypeOK
    <3> QED BY <2>0, <2>1, <3>1, <3>2 DEF Outcomes
  <2>3. CASE (Take(w) /\ queue = <<>>) \/ Use(w) \/ Begin(w) \/ Record(w) \/ Release(w)
    <3>1. UNCHANGED <<queue, job, thrown, committed, rolledback>>
      BY <2>3 DEF Take, Use, Begin, Record, Release
    <3>2. \/ pc'[w] \notin Working
          \/ pc[w] \in Working \ {"record"} /\ pc'[w] \in Working \ {"record"}
      BY <2>3 DEF Take, Use, Begin, Record, Release, TypeOK, Working
    <3> QED BY <2>0, <2>1, <3>1, <3>2 DEF Outcomes, Working
  <2>4. CASE Query(w) \/ Commit(w) \/ Catch(w)
    <3>1. UNCHANGED <<queue, job>> /\ pc[w] \in Working \ {"record"}
      BY <2>4 DEF Query, Commit, Catch, Working
    <3>2. /\ job[w] \in Made /\ job[w] \notin Range(queue) /\ job[w] \notin thrown
          /\ job[w] \notin committed /\ job[w] \notin rolledback
          /\ \A v \in Workers \ {w} : pc[v] \in Working => job[v] # job[w]
      BY <1>0, <3>1 DEF Outcomes
    <3>3. \/ pc'[w] \in Working \ {"record"} /\ UNCHANGED <<thrown, committed, rolledback>>
          \/ pc'[w] = "record" /\ UNCHANGED <<thrown, committed>> /\ rolledback' = rolledback \cup {job[w]}
          \/ pc'[w] = "record" /\ UNCHANGED <<thrown, rolledback>> /\ committed' = committed \cup {job[w]}
          \/ pc'[w] = "pool" /\ UNCHANGED <<committed, rolledback>> /\ thrown' = thrown \cup {job[w]}
      <4>1. CASE Query(w)
        BY <4>1 DEF Query, ForceRollBack, TypeOK, Working
      <4>2. CASE Commit(w)
        BY <4>2 DEF Commit, TypeOK, Working
      <4>3. CASE Catch(w)
        BY <4>3 DEF Catch, ForceRollBack, TypeOK, Working
      <4> QED BY <2>4, <4>1, <4>2, <4>3
    <3> QED BY <2>0, <2>1, <3>1, <3>2, <3>3 DEF Outcomes, Working
  <2> QED BY <1>3, <2>2, <2>3, <2>4 DEF WorkerStep
<1> QED BY <1>1, <1>2, <1>3 DEF Next, MainStep

\* main() comes to its end only when every worker has.
LEMMA EndsKept ==
  ASSUME TypeOK, Ends, [Next]_vars
  PROVE  Ends'
<1> USE DEF Goto
<1>1. CASE NextContext \/ PickWarehouse \/ Enqueue
  <2>1. main \notin {"join", "done"} /\ main' \notin {"join", "done"} /\ UNCHANGED pc
    BY <1>1 DEF NextContext, PickWarehouse, Enqueue
  <2> QED BY <2>1 DEF Ends
<1>2. CASE DestroyPool \/ Joined \/ UNCHANGED vars
  BY <1>2 DEF DestroyPool, Joined, vars, Ends
<1>3. ASSUME NEW w \in Workers, WorkerStep(w) PROVE Ends'
  <2>1. UNCHANGED <<main, type>> /\ pc[w] # "exit"
    BY <1>3 DEF WorkerStep, Take, Use, Begin, Query, Commit, Catch, Record, Release
  <2>2. main # "done"
    BY <2>1 DEF Ends
  <2>3. \A v \in Workers : pc'[v] = "exit" => pc[v] = "exit" \/ (queue = <<>> /\ main \in {"join", "done"})
    BY <1>3 DEF WorkerStep, Take, Use, Begin, Query, ForceRollBack, Commit, Catch, Record, Release, TypeOK
  <2>4. queue = <<>> => queue' = queue
    BY <1>3 DEF WorkerStep, Take, Use, Begin, Query, Commit, Catch, Record, Release
  <2> QED BY <2>1, <2>2, <2>3, <2>4 DEF Ends
<1> QED BY <1>1, <1>2, <1>3 DEF Next, MainStep

\* A task is counted when its entry is recorded, and stays counted.
LEMMA CountedKept ==
  ASSUME TypeOK, Jobs, [Next]_vars
  PROVE  \/ \E w \in Workers : Record(w) /\ Counted' = Counted \cup {job[w]} /\ job[w] \notin Counted
         \/ Counted' = Counted /\ UNCHANGED metric
<1> USE DEF Goto
<1>1. CASE Enqueue
  <2>1. Made' = Made \cup {Len(type)} /\ Len(type) \notin Made
    BY <1>1, MadeKept
  <2>2. Len(type) \in TaskIds
    <3>1. Len(type) \in Nat
      BY LenProperties DEF TypeOK
    <3> QED BY <1>1, <3>1 DEF Enqueue, Jobs, Pending, TaskIds, TypeOK
  <2>3. Range(queue') = Range(queue) \cup {Len(type)}
    BY <1>1, <2>2, RangeAppend DEF Enqueue, TypeOK
  <2>4. UNCHANGED <<pc, job, thrown, metric>>
    BY <1>1 DEF Enqueue
  <2> QED BY <2>1, <2>3, <2>4 DEF Counted
<1>2. CASE NextContext \/ PickWarehouse \/ DestroyPool \/ Joined \/ UNCHANGED vars
  <2>1. UNCHANGED <<queue, pc, job, thrown, metric>>
    BY <1>2 DEF NextContext, PickWarehouse, DestroyPool, Joined, vars
  <2>2. Made' = Made
    <3>1. CASE Enqueue
      BY <1>2, <3>1 DEF Enqueue, NextContext, PickWarehouse, DestroyPool, Joined, vars
    <3>2. CASE ~Enqueue
      BY <3>2, MadeKept
    <3> QED BY <3>1, <3>2
  <2> QED BY <2>1, <2>2 DEF Counted
<1>3. ASSUME NEW w \in Workers, WorkerStep(w)
      PROVE  \/ Record(w) /\ Counted' = Counted \cup {job[w]} /\ job[w] \notin Counted
             \/ Counted' = Counted /\ UNCHANGED metric
  <2>0. Made' = Made
    <3>1. UNCHANGED <<main, type>>
      BY <1>3 DEF WorkerStep, Take, Use, Begin, Query, Commit, Catch, Record, Release
    <3> QED BY <3>1 DEF Made, Pending
  <2>1. \A v \in Workers \ {w} : pc'[v] = pc[v] /\ job'[v] = job[v]
    BY <1>3 DEF WorkerStep, Take, Use, Begin, Query, ForceRollBack, Commit, Catch, Record, Release, TypeOK
  <2>2. CASE Take(w) /\ queue # <<>>
    <3>1. Range(queue) = Range(queue') \cup {Head(queue)}
      BY <2>2, RangeTake DEF Take, TypeOK
    <3>2. job'[w] = Head(queue) /\ pc[w] = "pool" /\ pc'[w] = "use" /\ UNCHANGED <<thrown, metric>>
      BY <2>2 DEF Take, TypeOK
    <3> QED BY <2>0, <2>1, <3>1, <3>2 DEF Counted, Working
  <2>3. CASE (Take(w) /\ queue = <<>>) \/ Use(w) \/ Begin(w) \/ Query(w) \/ Commit(w) \/ Release(w)
    <3>1. UNCHANGED <<queue, job, thrown, metric>>
      BY <2>3 DEF Take, Use, Begin, Query, Commit, Release
    <3>2. pc[w] \in Working <=> pc'[w] \in Working
      BY <2>3 DEF Take, Use, Begin, Query, ForceRollBack, Commit, Release, TypeOK, Working
    <3> QED BY <2>0, <2>1, <3>1, <3>2 DEF Counted
  <2>4. CASE Catch(w)
    <3>1. UNCHANGED <<queue, job, metric>> /\ pc[w] \in Working
      BY <2>4 DEF Catch, Working
    <3>2. \/ pc'[w] \in Working /\ thrown' = thrown
          \/ pc'[w] \notin Working /\ thrown' = thrown \cup {job[w]}
      BY <2>4 DEF Catch, ForceRollBack, TypeOK, Working
    <3> QED BY <2>0, <2>1, <3>1, <3>2 DEF Counted
  <2>5. CASE Record(w)
    <3>1. UNCHANGED <<queue, job, thrown>> /\ pc[w] \in Working /\ pc'[w] \notin Working
      BY <2>5 DEF Record, TypeOK, Working
    <3>2. job[w] \in Made /\ job[w] \notin Range(queue) /\ job[w] \notin thrown
      BY <3>1 DEF Jobs
    <3>3. \A v \in Workers \ {w} : pc[v] \in Working => job[v] # job[w]
      BY <3>1 DEF Jobs
    <3> QED BY <2>0, <2>1, <2>5, <3>1, <3>2, <3>3 DEF Counted
  <2> QED BY <1>3, <2>2, <2>3, <2>4, <2>5 DEF WorkerStep
<1> QED BY <1>1, <1>2, <1>3 DEF Next, MainStep

SumOver(f) == f["STOCK_LEVEL"] + f["DELIVERY"] + f["ORDER_STATUS"] + f["PAYMENT"] + f["NEW_ORDER"]

\* A sum over the types grows by what one of its terms grows by.
LEMMA SumGrows ==
  ASSUME NEW f \in [Types -> Nat], NEW g \in [Types -> Nat], NEW m \in Types, NEW k \in Nat,
         g[m] = f[m] + k, \A x \in Types \ {m} : g[x] = f[x]
  PROVE  SumOver(g) = SumOver(f) + k
<1>1. \A x \in Types : f[x] \in Nat /\ g[x] \in Nat
  OBVIOUS
<1>2. /\ f["STOCK_LEVEL"] \in Nat /\ f["DELIVERY"] \in Nat /\ f["ORDER_STATUS"] \in Nat
      /\ f["PAYMENT"] \in Nat /\ f["NEW_ORDER"] \in Nat
  BY <1>1 DEF Types
<1>3. CASE m = "STOCK_LEVEL"
  <2>1. /\ g["DELIVERY"] = f["DELIVERY"] /\ g["ORDER_STATUS"] = f["ORDER_STATUS"]
        /\ g["PAYMENT"] = f["PAYMENT"] /\ g["NEW_ORDER"] = f["NEW_ORDER"]
    BY <1>3 DEF Types
  <2> QED BY <1>2, <1>3, <2>1 DEF SumOver
<1>4. CASE m = "DELIVERY"
  <2>1. /\ g["STOCK_LEVEL"] = f["STOCK_LEVEL"] /\ g["ORDER_STATUS"] = f["ORDER_STATUS"]
        /\ g["PAYMENT"] = f["PAYMENT"] /\ g["NEW_ORDER"] = f["NEW_ORDER"]
    BY <1>4 DEF Types
  <2> QED BY <1>2, <1>4, <2>1 DEF SumOver
<1>5. CASE m = "ORDER_STATUS"
  <2>1. /\ g["STOCK_LEVEL"] = f["STOCK_LEVEL"] /\ g["DELIVERY"] = f["DELIVERY"]
        /\ g["PAYMENT"] = f["PAYMENT"] /\ g["NEW_ORDER"] = f["NEW_ORDER"]
    BY <1>5 DEF Types
  <2> QED BY <1>2, <1>5, <2>1 DEF SumOver
<1>6. CASE m = "PAYMENT"
  <2>1. /\ g["STOCK_LEVEL"] = f["STOCK_LEVEL"] /\ g["DELIVERY"] = f["DELIVERY"]
        /\ g["ORDER_STATUS"] = f["ORDER_STATUS"] /\ g["NEW_ORDER"] = f["NEW_ORDER"]
    BY <1>6 DEF Types
  <2> QED BY <1>2, <1>6, <2>1 DEF SumOver
<1>7. CASE m = "NEW_ORDER"
  <2>1. /\ g["STOCK_LEVEL"] = f["STOCK_LEVEL"] /\ g["DELIVERY"] = f["DELIVERY"]
        /\ g["ORDER_STATUS"] = f["ORDER_STATUS"] /\ g["PAYMENT"] = f["PAYMENT"]
    BY <1>7 DEF Types
  <2> QED BY <1>2, <1>7, <2>1 DEF SumOver
<1> QED BY <1>3, <1>4, <1>5, <1>6, <1>7 DEF Types

\* An entry adds one to one field of one metric.
LEMMA RecordCounts ==
  ASSUME TypeOK, TypeOK', Jobs, NEW w \in Workers, Record(w)
  PROVE  /\ Entries' = Entries + 1
         /\ Commits' = Commits + (IF job[w] \in rolledback THEN 0 ELSE 1)
<1> DEFINE c == [x \in Types |-> metric[x].commits]
           r == [x \in Types |-> metric[x].rollbacks]
           e == [x \in Types |-> metric[x].commits + metric[x].rollbacks]
           k == IF job[w] \in rolledback THEN 0 ELSE 1
<1>0. Made \subseteq 1 .. Len(type)
  BY MadeFacts
<1>1. type[job[w]] \in Types
  BY <1>0, ElementOfSeq DEF Record, Jobs, Working, TypeOK
<1>2. PICK m \in Types : m = MetricOf(type[job[w]])
  BY <1>1 DEF MetricOf, Types
<1>3. /\ c \in [Types -> Nat] /\ e \in [Types -> Nat] /\ r \in [Types -> Nat]
      /\ c' \in [Types -> Nat] /\ e' \in [Types -> Nat]
  BY DEF TypeOK
<1>4. \A x \in Types \ {m} : metric'[x] = metric[x]
  BY <1>2 DEF Record, TypeOK
<1>5. metric'[m].commits = metric[m].commits + k /\ metric'[m].rollbacks = metric[m].rollbacks + (1 - k)
  <2>1. metric[m].commits \in Nat /\ metric[m].rollbacks \in Nat
    BY DEF TypeOK
  <2>2. CASE job[w] \in rolledback
    <3>1. metric' = [metric EXCEPT ![m].rollbacks = @ + 1]
      BY <1>2, <2>2 DEF Record
    <3> QED BY <2>1, <2>2, <3>1 DEF TypeOK
  <2>3. CASE job[w] \notin rolledback
    <3>1. metric' = [metric EXCEPT ![m].commits = @ + 1]
      BY <1>2, <2>3 DEF Record
    <3> QED BY <2>1, <2>3, <3>1 DEF TypeOK
  <2> QED BY <2>2, <2>3
<1>6. c'[m] = c[m] + k /\ e'[m] = e[m] + 1
  <2>1. metric[m].commits \in Nat /\ metric[m].rollbacks \in Nat
    BY DEF TypeOK
  <2> QED BY <1>5, <2>1
<1>7. \A x \in Types \ {m} : c'[x] = c[x] /\ e'[x] = e[x]
  BY <1>4
<1>8. Entries = SumOver(e) /\ Commits = SumOver(c)
  BY DEF Entries, Commits, Total, SumOver, Types
<1>9. Entries' = SumOver(e') /\ Commits' = SumOver(c')
  BY DEF Entries, Commits, Total, SumOver, Types
<1>10. k \in Nat
  OBVIOUS
<1> HIDE DEF c, e, r, k
<1>11. SumOver(c') = SumOver(c) + k
  BY <1>3, <1>6, <1>7, <1>10, SumGrows
<1>12. SumOver(e') = SumOver(e) + 1
  BY <1>3, <1>6, <1>7, SumGrows
<1> QED BY <1>8, <1>9, <1>11, <1>12 DEF k

\* The counts stay those of the sets of tasks and drivers they count.
LEMMA SumsKept ==
  ASSUME TypeOK, TypeOK', Jobs, Lent, Outcomes, Sums, [Next]_vars
  PROVE  Sums'
<1>0. IsFiniteSet(Made) /\ IsFiniteSet(thrown)
  BY MadeFacts
<1>1. IsFiniteSet(Lost)
  BY FS_Subset, TpccAssumption DEF Lost
<1>2. IsFiniteSet(Counted) /\ IsFiniteSet(Counted \cap committed)
  <2>1. Counted \subseteq Made /\ Counted \cap committed \subseteq Made
    BY DEF Counted
  <2> QED BY <1>0, <2>1, FS_Subset
<1>3. (Cardinality(Lost) = Cardinality(thrown))'
  <2>1. CASE Lost' = Lost /\ thrown' = thrown
    BY <2>1 DEF Sums
  <2>2. ASSUME NEW w \in Workers, pc[w] = "catch", thrown' = thrown \cup {job[w]},
               NEW d, Lost' = Lost \cup {d}, d \notin Lost
        PROVE  Cardinality(Lost') = Cardinality(thrown')
    <3>1. job[w] \notin thrown
      BY <2>2 DEF Jobs, Working
    <3>2. Cardinality(thrown \cup {job[w]}) = Cardinality(thrown) + 1
      BY <1>0, <3>1, FS_AddElement
    <3>3. Cardinality(Lost \cup {d}) = Cardinality(Lost) + 1
      BY <1>1, <2>2, FS_AddElement
    <3> QED BY <2>2, <3>2, <3>3 DEF Sums
  <2> QED BY <2>1, <2>2, LentKept
<1>4. (Entries = Cardinality(Counted) /\ Commits = Cardinality(Counted \cap committed))'
  <2>1. ASSUME NEW w \in Workers, Record(w), Counted' = Counted \cup {job[w]}, job[w] \notin Counted
        PROVE  Entries' = Cardinality(Counted') /\ Commits' = Cardinality(Counted' \cap committed')
    <3>1. committed' = committed /\ pc[w] = "record"
      BY <2>1 DEF Record
    <3>2. job[w] \in committed <=> job[w] \notin rolledback
      BY <3>1 DEF Outcomes
    <3>3. Cardinality(Counted \cup {job[w]}) = Cardinality(Counted) + 1
      BY <1>2, <2>1, FS_AddElement
    <3>4. Cardinality((Counted \cap committed) \cup {job[w]}) = Cardinality(Counted \cap committed) + 1
      BY <1>2, <2>1, FS_AddElement
    <3>5. Counted' \cap committed' = IF job[w] \in committed THEN (Counted \cap committed) \cup {job[w]}
                                     ELSE Counted \cap committed
      BY <2>1, <3>1
    <3>6. Entries' = Entries + 1 /\ Commits' = Commits + (IF job[w] \in rolledback THEN 0 ELSE 1)
      BY <2>1, RecordCounts
    <3>7. Cardinality(Counted \cap committed) \in Nat
      BY <1>2, FS_CardinalityType
    <3>8. Entries' = Cardinality(Counted')
      BY <2>1, <3>3, <3>6 DEF Sums
    <3>9. CASE job[w] \in committed
      BY <3>2, <3>4, <3>5, <3>6, <3>7, <3>8, <3>9 DEF Sums
    <3>10. CASE job[w] \notin committed
      <4>1. Commits' = Commits + 0
        BY <3>2, <3>6, <3>10
      <4>2. Counted' \cap committed' = Counted \cap committed
        BY <3>5, <3>10
      <4>3. Commits = Cardinality(Counted \cap committed)
        BY DEF Sums
      <4>4. Commits' = Commits
        BY <3>7, <4>1, <4>3
      <4> QED BY <3>8, <4>2, <4>3, <4>4
    <3> QED BY <3>9, <3>10
  <2>2. CASE Counted' = Counted /\ UNCHANGED metric
    <3>1. Counted \cap committed' = Counted \cap committed
      <4>1. CASE UNCHANGED committed
        BY <4>1
      <4>2. ASSUME NEW w \in Workers, pc[w] = "commit", committed' = committed \cup {job[w]}
            PROVE  Counted \cap committed' = Counted \cap committed
        BY <4>2 DEF Counted, Working
      <4>3. UNCHANGED committed \/ \E w \in Workers : Commit(w)
        BY DEF Next, MainStep, NextContext, PickWarehouse, Enqueue, DestroyPool, Joined, vars,
               WorkerStep, Take, Use, Begin, Query, Catch, Record, Release
      <4>4. UNCHANGED committed \/ \E w \in Workers : pc[w] = "commit" /\ committed' = committed \cup {job[w]}
        BY <4>3 DEF Commit
      <4> QED BY <4>1, <4>2, <4>4
    <3>2. Entries' = Entries /\ Commits' = Commits
      BY <2>2 DEF Entries, Commits, Total
    <3> QED BY <2>2, <3>1, <3>2 DEF Sums
  <2> QED BY <2>1, <2>2, CountedKept
<1> QED BY <1>3, <1>4 DEF Sums

-----------------------------------------------------------------------------
\* The Runner starts with every driver in its list, once.
LEMMA TasksStart ==
  ASSUME Init
  PROVE  TasksInv
<1> USE DEF Init
<1>0. Cardinality(Drivers) \in Nat /\ IsFiniteSet(Drivers) /\ NumTasks \in Nat /\ QueueSize \in Nat
  BY TpccAssumption, FS_CardinalityType
<1>1. /\ in_idle_ \in [1 .. Cardinality(Drivers) -> Drivers] /\ IsInjective(in_idle_)
      /\ in_idle_ \in Seq(Drivers)
  BY <1>0
<1>2. Range(in_idle_) = Drivers
  <2>1. in_idle_ \in Injection(1 .. Cardinality(Drivers), Drivers)
    BY <1>1 DEF Injection
  <2>2. Cardinality(1 .. Cardinality(Drivers)) = Cardinality(Drivers)
    BY <1>0, FS_Interval
  <2>3. in_idle_ \in Surjection(1 .. Cardinality(Drivers), Drivers)
    BY <1>0, <2>1, <2>2, FS_Injection
  <2> QED BY <1>1, <2>3 DEF Surjection, Range
<1>3. Cardinality({}) = 0
  BY FS_EmptySet
<1>4. Range(<<>>) = {} /\ IsInjective(<<>>) /\ Len(<<>>) = 0
  BY DEF Range, IsInjective
<1>5. TypeOK
  BY <1>0, <1>1, <1>3, TpccAssumption DEF TypeOK
<1>6. ~Pending /\ Made = {}
  BY <1>4 DEF Pending, Made
<1>7. Jobs /\ Outcomes
  BY <1>4, <1>6 DEF Jobs, Outcomes, Working
<1>8. Lent
  BY <1>1 DEF Lent, Busy, Range
<1>9. Ends
  BY DEF Ends
<1>10. Lost = {} /\ Counted = {}
  BY <1>2, <1>6 DEF Lost, Counted
<1>11. Entries = 0 /\ Commits = 0
  BY DEF Entries, Commits, Total, Types
<1>12. Sums
  BY <1>3, <1>10, <1>11 DEF Sums
<1> QED BY <1>5, <1>7, <1>8, <1>9, <1>12 DEF TasksInv

\* The invariant is inductive.
LEMMA TasksKept ==
  TasksInv /\ [Next]_vars => TasksInv'
BY TypesKept, JobsKept, LentKept, OutcomesKept, EndsKept, SumsKept DEF TasksInv

\* A driver has as many places as the list and the workers that hold it.
LEMMA PlacesAre ==
  ASSUME TypeOK, Lent, NEW d \in Drivers
  PROVE  Places(d) <= 1 /\ (Places(d) = 0 <=> d \in Lost)
<1> DEFINE I == {i \in DOMAIN in_idle_ : in_idle_[i] = d}
           W == {w \in Workers : d \in driver[w]}
<1>1. IF d \in Range(in_idle_) THEN \E i : I = {i} ELSE I = {}
  BY DEF Range, IsInjective, Lent
<1>2. IF \E w \in Workers : d \in driver[w] THEN \E w : W = {w} ELSE W = {}
  BY DEF Lent
<1>3. d \in Range(in_idle_) => W = {}
  BY DEF Lent
<1> HIDE DEF I, W
<1>4. Cardinality({}) = 0 /\ \A x : Cardinality({x}) = 1
  BY FS_EmptySet, FS_Singleton
<1>5. Places(d) = Cardinality(I) + Cardinality(W)
  BY DEF Places, I, W
<1>6. Cardinality(I) = IF d \in Range(in_idle_) THEN 1 ELSE 0
  BY <1>1, <1>4
<1>7. Cardinality(W) = IF \E w \in Workers : d \in driver[w] THEN 1 ELSE 0
  BY <1>2, <1>4
<1>8. ~(d \in Range(in_idle_) /\ \E w \in Workers : d \in driver[w])
  BY DEF Lent
<1> QED BY <1>5, <1>6, <1>7, <1>8 DEF Lost

\* No two transactions share a connection, no task starts inside the remains
\* of another one's transaction, and a driver is lost only when the handler of
\* Run throws, one for each time it does.
THEOREM DriversSafe == Spec => []DriversSound
<1>1. Init => TasksInv
  BY TasksStart
<1>2. TasksInv => DriversSound
  <2> SUFFICES ASSUME TasksInv PROVE DriversSound
    OBVIOUS
  <2>1. {d \in Drivers : Places(d) = 0} = Lost
    BY PlacesAre DEF TasksInv, Lost
  <2>2. DriverExclusive
    BY <2>1, PlacesAre DEF TasksInv, Sums, DriverExclusive
  <2> QED BY <2>2 DEF TasksInv, Lent, DriversSound
<1> QED BY <1>1, <1>2, TasksKept, PTL DEF Spec

\* The summary main() prints counts every task that came to an end once, and
\* as commits exactly the transactions that were committed.
THEOREM SummarySafe == Spec => []SummaryCorrect
<1>1. Init => TasksInv
  BY TasksStart
<1>2. TasksInv => SummaryCorrect
  <2> SUFFICES ASSUME TasksInv, main = "done" PROVE SummaryCorrect
    BY DEF SummaryCorrect
  <2>1. \A w \in Workers : pc[w] = "exit"
    BY DEF TasksInv, Ends
  <2>2. queue = <<>> /\ Len(type) = NumTasks
    BY <2>1, TpccAssumption DEF TasksInv, Ends
  <2>3. Range(queue) = {}
    BY <2>2 DEF Range
  <2>4. Made = 1 .. NumTasks /\ NumTasks \in Nat
    BY <2>2, TpccAssumption DEF Made, Pending
  <2>5. Counted = (1 .. NumTasks) \ thrown
    BY <2>1, <2>3, <2>4 DEF Counted, Working
  <2>6. thrown \subseteq 1 .. NumTasks /\ committed \subseteq 1 .. NumTasks /\ committed \cap thrown = {}
    BY <2>4 DEF TasksInv, Jobs, Outcomes
  <2>7. Cardinality(Counted) = NumTasks - Cardinality(thrown)
    <3>1. IsFiniteSet(1 .. NumTasks) /\ Cardinality(1 .. NumTasks) = NumTasks
      BY <2>4, FS_Interval
    <3>2. (1 .. NumTasks) \cap thrown = thrown
      BY <2>6
    <3>3. Cardinality((1 .. NumTasks) \ thrown) = Cardinality(1 .. NumTasks) - Cardinality((1 .. NumTasks) \cap thrown)
      BY <3>1, FS_Difference
    <3> QED BY <2>5, <3>1, <3>2, <3>3
  <2>8. Counted \cap committed = committed
    BY <2>5, <2>6
  <2>9. Total(LAMBDA m : m.commits + m.rollbacks) = Cardinality(Counted)
    BY DEF TasksInv, Sums, Entries
  <2>10. Total(LAMBDA m : m.commits) = Cardinality(Counted \cap committed)
    BY DEF TasksInv, Sums, Commits
  <2> QED BY <2>7, <2>8, <2>9, <2>10 DEF SummaryCorrect, Total
<1> QED BY <1>1, <1>2, TasksKept, PTL DEF Spec
-----------------------------------------------------------------------------
(***************************************************************************)
(* The transactions.  What an open one knows of the database holds because *)
(* the cells it has written are its own and the rest of its view is as it  *)
(* was when it started; what it leaves follows from what it knows when it  *)
(* commits.                                                                *)
(***************************************************************************)
AllCells == UNION {{x} \X DOMAIN InitialDb[x] : x \in Columns}
Statements == {"idle", "committed", "rolledback", "commit", "increment", "order", "new_order", "find", "delete", "carrier",
               "customer", "warehouse", "district", "pay", "history", "status", "stock"}
StatementsOf == [NEW_ORDER |-> {"increment", "order", "new_order"}, DELIVERY |-> {"find", "delete", "carrier", "customer"},
                 PAYMENT |-> {"warehouse", "district", "pay", "history"}, ORDER_STATUS |-> {"status"}, STOCK_LEVEL |-> {"stock"}]

RealRows == [w : WarehouseIds, d : Districts, o : Nat \ {0}, c : Customers, carrier : Nat]
RowOK(x) == x = NoRow \/ x \in RealRows

\* A database with all columns and rows.
DbOK(D) ==
  /\ DOMAIN D = Columns /\ \A x \in Columns : DOMAIN D[x] = DOMAIN InitialDb[x]
  /\ \A r \in Rows : RowOK(D.ORDERS[r]) /\ RowOK(D.NEW_ORDER[r])
  /\ \A wd \in DistrictKeys : D.D_NEXT_O_ID[wd] \in Nat

Shape ==
  /\ DbOK(db) /\ DOMAIN view = Txns /\ DOMAIN local = Txns
  /\ \A t \in Txns : IF Open(t) THEN DbOK(view[t]) ELSE view[t] = <<>> /\ written[t] = {} /\ stale[t] = {}
  /\ written \in [Txns -> SUBSET AllCells] /\ stale \in [Txns -> SUBSET AllCells]
  /\ statement \in [Txns -> Statements] /\ ctx \in [Txns -> Contexts] /\ d_id \in [Txns -> Districts]
  /\ \A t \in Txns : Open(t) => statement[t] = "commit" \/ statement[t] \in StatementsOf[ctx[t].type]

\* A cell has one writer, who has not overlooked a commit; what a transaction
\* neither wrote nor overlooked it sees as it is.
Isolated ==
  /\ \A t, u \in Txns : t # u => written[t] \cap written[u] = {}
  /\ \A t \in Txns : written[t] \cap stale[t] = {}
  /\ \A t \in Txns : Open(t) => \A x \in Columns : \A q \in DOMAIN InitialDb[x] :
       <<x, q>> \notin written[t] \cup stale[t] => view[t][x][q] = db[x][q]

Number(t) == <<"D_NEXT_O_ID", Home(t)>>
OrderCell(r) == <<"ORDERS", r>>
NewOrderCell(r) == <<"NEW_ORDER", r>>

NewOrderSound(t) ==
  /\ statement[t] = "increment" => written[t] = {}
  /\ statement[t] = "order" => written[t] = {Number(t)}
  /\ statement[t] = "new_order" => written[t] = {Number(t), OrderCell(t)}
  /\ statement[t] = "commit" => written[t] = {Number(t), OrderCell(t), NewOrderCell(t)}
  /\ statement[t] # "increment" => /\ local[t] = db.D_NEXT_O_ID[Home(t)]
                                   /\ view[t].D_NEXT_O_ID[Home(t)] = local[t] + 1
  /\ statement[t] \in {"new_order", "commit"} => view[t].ORDERS[t] = TheOrder(t)
  /\ statement[t] = "commit" => view[t].NEW_ORDER[t] = TheOrder(t)

Delivered(x) == [x EXCEPT !.carrier = MIN_CARRIER_ID]
\* One row of a table has an order: no two have its key.
UniqueKeys(D) == \A r, s \in Rows : D.ORDERS[r] # NoRow /\ D.ORDERS[s] # NoRow /\ Key(D.ORDERS[r]) = Key(D.ORDERS[s]) => r = s
Paired(D) == \A r \in Rows : D.NEW_ORDER[r] # NoRow => D.ORDERS[r] # NoRow /\ Key(D.NEW_ORDER[r]) = Key(D.ORDERS[r])
Here(t, x) == x # NoRow /\ x.w = ctx[t].w_id /\ x.d = d_id[t]

DeliverySound(t) ==
  /\ \A cell \in written[t] : cell[1] \in {"NEW_ORDER", "ORDERS", "CUSTOMER"}
  /\ \A r \in Rows :
       /\ NewOrderCell(r) \in written[t] => view[t].NEW_ORDER[r] = NoRow
       /\ OrderCell(r) \in written[t] => db.ORDERS[r] # NoRow /\ view[t].ORDERS[r] = Delivered(db.ORDERS[r])
       /\ NewOrderCell(r) \in written[t] <=> OrderCell(r) \in written[t] \/ (statement[t] = "carrier" /\ r = local[t])
  /\ UniqueKeys(view[t]) /\ Paired(view[t])
  /\ statement[t] = "delete" => local[t] \in Rows /\ Here(t, view[t].NEW_ORDER[local[t]])
  /\ statement[t] \in {"carrier", "customer"} => local[t] \in Rows /\ Here(t, view[t].ORDERS[local[t]])
  /\ statement[t] = "carrier" => OrderCell(local[t]) \notin written[t]

OtherSound(t) == \A cell \in written[t] : cell[1] \notin {"NEW_ORDER", "ORDERS", "D_NEXT_O_ID"}

TxnSound(t) ==
  IF ctx[t].type = "NEW_ORDER" THEN NewOrderSound(t)
  ELSE IF ctx[t].type = "DELIVERY" THEN DeliverySound(t)
  ELSE OtherSound(t)

\* The committed orders.
Ledger ==
  /\ UniqueKeys(db) /\ Paired(db)
  /\ \A r \in Rows : db.ORDERS[r] # NoRow /\ db.ORDERS[r].carrier = NULL_CARRIER_ID => db.NEW_ORDER[r] # NoRow
  /\ \A r \in Rows : db.NEW_ORDER[r] # NoRow => db.ORDERS[r].carrier = NULL_CARRIER_ID
  /\ \A wd \in DistrictKeys : IsFiniteSet(OrdersOf(wd)) /\ db.D_NEXT_O_ID[wd] >= 1
  /\ OrderIdsDense
  /\ \A t \in Txns : statement[t] # "committed" => db.ORDERS[t] = NoRow /\ db.NEW_ORDER[t] = NoRow

DriverInv ==
  /\ Shape /\ Isolated /\ Ledger
  /\ \A t \in Txns : Open(t) => TxnSound(t)
-----------------------------------------------------------------------------
(* The database *)

\* The columns and their rows.
LEMMA ColumnsAre ==
  /\ Columns = {"W_YTD", "D_YTD", "D_NEXT_O_ID", "CUSTOMER", "ORDERS", "NEW_ORDER", "HISTORY"}
  /\ DOMAIN InitialDb["W_YTD"] = WarehouseIds /\ DOMAIN InitialDb["D_YTD"] = DistrictKeys
  /\ DOMAIN InitialDb["D_NEXT_O_ID"] = DistrictKeys /\ DOMAIN InitialDb["CUSTOMER"] = CustomerKeys
  /\ DOMAIN InitialDb["ORDERS"] = Rows /\ DOMAIN InitialDb["NEW_ORDER"] = Rows
  /\ DOMAIN InitialDb["HISTORY"] = Txns
BY DEF Columns, InitialDb

\* What a statement that sets a cell does.
CellSet(t, c, r, v) ==
  /\ DOMAIN view' = Txns /\ \A u \in Txns : u # t => view'[u] = view[u]
  /\ DOMAIN view'[t] = Columns /\ \A x \in Columns : DOMAIN view'[t][x] = DOMAIN InitialDb[x]
  /\ \A x \in Columns : \A q \in DOMAIN InitialDb[x] :
       view'[t][x][q] = IF x = c /\ q = r THEN v ELSE view[t][x][q]
  /\ written' \in [Txns -> SUBSET AllCells]
  /\ written'[t] = written[t] \cup {<<c, r>>} /\ \A u \in Txns : u # t => written'[u] = written[u]
  /\ <<c, r>> \notin stale[t] /\ \A u \in Txns : u # t => <<c, r>> \notin written[u]
  /\ db' = db /\ stale' = stale /\ ctx' = ctx

\* Set changes one cell of one view.
LEMMA SetCell ==
  ASSUME Shape, NEW t \in Txns, Open(t), NEW c \in Columns, NEW r \in DOMAIN InitialDb[c], NEW v, Set(t, c, r, v)
  PROVE  CellSet(t, c, r, v)
<1>1. /\ DOMAIN view = Txns /\ DOMAIN view[t] = Columns /\ \A x \in Columns : DOMAIN view[t][x] = DOMAIN InitialDb[x]
      /\ written \in [Txns -> SUBSET AllCells]
  BY DEF Shape, DbOK
<1>2. PICK col : col = [view[t][c] EXCEPT ![r] = v]
  OBVIOUS
<1>3. PICK new : new = [view[t] EXCEPT ![c] = col]
  OBVIOUS
<1>4. view' = [view EXCEPT ![t] = new]
  BY <1>2, <1>3 DEF Set
<1>5. DOMAIN col = DOMAIN InitialDb[c] /\ \A q \in DOMAIN InitialDb[c] : col[q] = IF q = r THEN v ELSE view[t][c][q]
  BY <1>1, <1>2
<1>6. DOMAIN new = Columns /\ \A x \in Columns : new[x] = IF x = c THEN col ELSE view[t][x]
  BY <1>1, <1>3
<1>7. DOMAIN view' = Txns /\ view'[t] = new /\ \A u \in Txns : u # t => view'[u] = view[u]
  BY <1>1, <1>4
<1>8. /\ \A x \in Columns : DOMAIN new[x] = DOMAIN InitialDb[x]
      /\ \A x \in Columns : \A q \in DOMAIN InitialDb[x] : new[x][q] = IF x = c /\ q = r THEN v ELSE view[t][x][q]
  BY <1>1, <1>5, <1>6
<1>9. <<c, r>> \in AllCells
  BY DEF AllCells
<1>10. /\ written' \in [Txns -> SUBSET AllCells]
       /\ written'[t] = written[t] \cup {<<c, r>>} /\ \A u \in Txns : u # t => written'[u] = written[u]
  BY <1>1, <1>9 DEF Set
<1>11. /\ <<c, r>> \notin stale[t] /\ \A u \in Txns : u # t => <<c, r>> \notin written[u]
       /\ db' = db /\ stale' = stale /\ ctx' = ctx
  BY DEF Set, Conflict
<1> QED BY <1>6, <1>7, <1>8, <1>10, <1>11 DEF CellSet

\* A statement belongs to one type of transaction.
LEMMA Stage ==
  ASSUME Shape, NEW t \in Txns
  PROVE  /\ statement[t] \in {"increment", "order", "new_order"} => Open(t) /\ ctx[t].type = "NEW_ORDER"
         /\ statement[t] \in {"find", "delete", "carrier", "customer"} => Open(t) /\ ctx[t].type = "DELIVERY"
         /\ statement[t] \in {"warehouse", "district", "pay", "history"} => Open(t) /\ ctx[t].type = "PAYMENT"
         /\ statement[t] = "status" => Open(t) /\ ctx[t].type = "ORDER_STATUS"
         /\ statement[t] = "stock" => Open(t) /\ ctx[t].type = "STOCK_LEVEL"
         /\ statement[t] = "commit" => Open(t)
<1>1. ctx[t].type \in {"NEW_ORDER", "DELIVERY", "PAYMENT", "ORDER_STATUS", "STOCK_LEVEL"}
  BY DEF Shape, Contexts
<1>2. statement[t] \in {"increment", "order", "new_order", "find", "delete", "carrier", "customer", "warehouse", "district",
                        "pay", "history", "status", "stock", "commit"} => Open(t)
  BY DEF Open, Closed
<1>3. Open(t) => statement[t] = "commit" \/ statement[t] \in StatementsOf[ctx[t].type]
  BY DEF Shape
<1>4. /\ StatementsOf["NEW_ORDER"] = {"increment", "order", "new_order"}
      /\ StatementsOf["DELIVERY"] = {"find", "delete", "carrier", "customer"}
      /\ StatementsOf["PAYMENT"] = {"warehouse", "district", "pay", "history"}
      /\ StatementsOf["ORDER_STATUS"] = {"status"} /\ StatementsOf["STOCK_LEVEL"] = {"stock"}
  BY DEF StatementsOf
<1>5. CASE ctx[t].type = "NEW_ORDER"
  BY <1>2, <1>3, <1>4, <1>5
<1>6. CASE ctx[t].type = "DELIVERY"
  BY <1>2, <1>3, <1>4, <1>6
<1>7. CASE ctx[t].type = "PAYMENT"
  BY <1>2, <1>3, <1>4, <1>7
<1>8. CASE ctx[t].type = "ORDER_STATUS"
  BY <1>2, <1>3, <1>4, <1>8
<1>9. CASE ctx[t].type = "STOCK_LEVEL"
  BY <1>2, <1>3, <1>4, <1>9
<1> QED BY <1>1, <1>5, <1>6, <1>7, <1>8, <1>9

\* A transaction goes on to the statement `to` and no other one does anything.
Goes(t, to) ==
  /\ statement' = [statement EXCEPT ![t] = to]
  /\ d_id' \in [Txns -> Districts] /\ DOMAIN local' = Txns
  /\ \A u \in Txns : u # t => local'[u] = local[u] /\ d_id'[u] = d_id[u]

\* What is known of a transaction when it does nothing and nothing is committed.
LEMMA Untouched ==
  ASSUME NEW u \in Txns, TxnSound(u), db' = db, statement'[u] = statement[u], ctx'[u] = ctx[u], d_id'[u] = d_id[u],
         local'[u] = local[u], view'[u] = view[u], written'[u] = written[u]
  PROVE  TxnSound(u)'
<1>1. NewOrderSound(u) => NewOrderSound(u)'
  <2>1. Number(u)' = Number(u) /\ TheOrder(u)' = TheOrder(u) /\ Home(u)' = Home(u)
    BY DEF Number, TheOrder, Home
  <2> QED BY <2>1 DEF NewOrderSound, OrderCell, NewOrderCell
<1>2. DeliverySound(u) => DeliverySound(u)'
  BY DEF DeliverySound, OrderCell, NewOrderCell, UniqueKeys, Paired, Here
<1>3. OtherSound(u) => OtherSound(u)'
  BY DEF OtherSound
<1> QED BY <1>1, <1>2, <1>3 DEF TxnSound

\* Nothing is committed.
LEMMA LedgerStays ==
  ASSUME Ledger, db' = db, \A t \in Txns : statement[t] = "committed" => statement'[t] = "committed"
  PROVE  Ledger'
<1>1. UniqueKeys(db)' /\ Paired(db)'
  BY DEF Ledger, UniqueKeys, Paired
<1>2. \A wd \in DistrictKeys : OrdersOf(wd)' = OrdersOf(wd)
  BY DEF OrdersOf
<1>3. OrderIdsDense' /\ \A wd \in DistrictKeys : IsFiniteSet(OrdersOf(wd)')
  BY <1>2 DEF Ledger, OrderIdsDense
<1> QED BY <1>1, <1>3 DEF Ledger

\* The shape after a statement that sets a cell to a value of its column.
LEMMA ShapeSet ==
  ASSUME Shape, NEW t \in Txns, Open(t), NEW c \in Columns, NEW r, NEW v, CellSet(t, c, r, v), NEW to, Goes(t, to),
         to = "commit" \/ to \in StatementsOf[ctx[t].type], to \in Statements \ Closed,
         c \in {"ORDERS", "NEW_ORDER"} => RowOK(v), c = "D_NEXT_O_ID" => v \in Nat
  PROVE  Shape'
<1>0. DOMAIN InitialDb["ORDERS"] = Rows /\ DOMAIN InitialDb["NEW_ORDER"] = Rows /\ DOMAIN InitialDb["D_NEXT_O_ID"] = DistrictKeys
      /\ {"ORDERS", "NEW_ORDER", "D_NEXT_O_ID"} \subseteq Columns
  BY ColumnsAre
<1>1. DbOK(view[t]) /\ statement \in [Txns -> Statements]
  BY DEF Shape
<1>2. statement' \in [Txns -> Statements] /\ statement'[t] = to /\ \A u \in Txns : u # t => statement'[u] = statement[u]
  BY <1>1 DEF Goes
<1>4. \A q \in Rows : RowOK(view'[t].ORDERS[q])
  BY <1>0, <1>1 DEF CellSet, DbOK
<1>5. \A q \in Rows : RowOK(view'[t].NEW_ORDER[q])
  BY <1>0, <1>1 DEF CellSet, DbOK
<1>6. \A q \in DistrictKeys : view'[t].D_NEXT_O_ID[q] \in Nat
  BY <1>0, <1>1 DEF CellSet, DbOK
<1>7. DbOK(view'[t])
  BY <1>4, <1>5, <1>6 DEF CellSet, DbOK
<1>8. Open(t)' /\ \A u \in Txns : u # t => (Open(u)' <=> Open(u))
  BY <1>2 DEF Open
<1>9. \A u \in Txns : IF Open(u)' THEN DbOK(view'[u]) ELSE view'[u] = <<>> /\ written'[u] = {} /\ stale'[u] = {}
  <2> SUFFICES ASSUME NEW u \in Txns PROVE IF Open(u)' THEN DbOK(view'[u]) ELSE view'[u] = <<>> /\ written'[u] = {} /\ stale'[u] = {}
    OBVIOUS
  <2>1. CASE u = t
    BY <1>7, <1>8, <2>1
  <2>2. CASE u # t
    BY <1>8, <2>2 DEF CellSet, Shape
  <2> QED BY <2>1, <2>2
<1>10. \A u \in Txns : Open(u)' => statement'[u] = "commit" \/ statement'[u] \in StatementsOf[ctx'[u].type]
  BY <1>2, <1>8 DEF CellSet, Shape
<1> QED BY <1>2, <1>9, <1>10 DEF Shape, CellSet, Goes, DbOK

\* A cell that is set has one writer.
LEMMA IsolatedSet ==
  ASSUME Shape, Isolated, NEW t \in Txns, Open(t), NEW c \in Columns, NEW r, NEW v, CellSet(t, c, r, v),
         \A u \in Txns : Open(u)' => Open(u)
  PROVE  Isolated'
<1>1. \A u, w \in Txns : u # w => written'[u] \cap written'[w] = {}
  BY DEF Isolated, CellSet
<1>2. \A u \in Txns : written'[u] \cap stale'[u] = {}
  BY DEF Isolated, CellSet
<1>3. ASSUME NEW u \in Txns, Open(u)', NEW x \in Columns, NEW q \in DOMAIN InitialDb[x], <<x, q>> \notin written'[u] \cup stale'[u]
      PROVE  view'[u][x][q] = db'[x][q]
  <2>1. CASE u = t
    <3>1. <<x, q>> \notin written[t] \cup stale[t] /\ ~(x = c /\ q = r)
      BY <1>3, <2>1 DEF CellSet
    <3>2. view'[t][x][q] = view[t][x][q] /\ db' = db
      BY <3>1 DEF CellSet
    <3> QED BY <1>3, <2>1, <3>1, <3>2 DEF Isolated
  <2>2. CASE u # t
    BY <1>3, <2>2 DEF Isolated, CellSet
  <2> QED BY <2>1, <2>2
<1> QED BY <1>1, <1>2, <1>3 DEF Isolated
-----------------------------------------------------------------------------
(* Statements *)

\* Where a transaction may go on to.
May(t, to) == (to = "commit" \/ to \in StatementsOf[ctx[t].type]) /\ to \in Statements \ Closed

\* A statement that sets one cell keeps the invariant if it keeps what is known of its own transaction.
LEMMA SetKeeps ==
  ASSUME DriverInv, NEW t \in Txns, Open(t), NEW c \in Columns, NEW r, NEW v, CellSet(t, c, r, v),
         NEW to, Goes(t, to), May(t, to), c \in {"ORDERS", "NEW_ORDER"} => RowOK(v), c = "D_NEXT_O_ID" => v \in Nat,
         TxnSound(t)'
  PROVE  DriverInv'
<1>1. Shape /\ Isolated /\ Ledger /\ statement \in [Txns -> Statements]
  BY DEF DriverInv, Shape
<1>2. Shape'
  BY <1>1, ShapeSet DEF May
<1>3. statement'[t] = to /\ \A u \in Txns : u # t => statement'[u] = statement[u]
  BY <1>1 DEF Goes
<1>4. \A u \in Txns : Open(u)' => Open(u)
  BY <1>3 DEF Open
<1>5. Isolated'
  BY <1>1, <1>4, IsolatedSet
<1>6. Ledger'
  BY <1>1, <1>3, LedgerStays DEF CellSet, Open, Closed
<1>7. ASSUME NEW u \in Txns, u # t, Open(u)' PROVE TxnSound(u)'
  <2>1. TxnSound(u)
    BY <1>4, <1>7 DEF DriverInv
  <2>2. /\ db' = db /\ statement'[u] = statement[u] /\ ctx'[u] = ctx[u] /\ d_id'[u] = d_id[u]
        /\ local'[u] = local[u] /\ view'[u] = view[u] /\ written'[u] = written[u]
    BY <1>3, <1>7 DEF CellSet, Goes
  <2> QED BY <2>1, <2>2, Untouched
<1> QED BY <1>2, <1>5, <1>6, <1>7 DEF DriverInv

\* So does a statement that only reads.
LEMMA ReadKeeps ==
  ASSUME DriverInv, NEW t \in Txns, Open(t), UNCHANGED <<db, view, written, stale, ctx>>, NEW to, Goes(t, to), May(t, to),
         TxnSound(t)'
  PROVE  DriverInv'
<1>1. Shape /\ Isolated /\ Ledger /\ statement \in [Txns -> Statements]
  BY DEF DriverInv, Shape
<1>2. statement'[t] = to /\ (\A u \in Txns : u # t => statement'[u] = statement[u]) /\ statement' \in [Txns -> Statements]
  BY <1>1 DEF Goes, May
<1>3. \A u \in Txns : Open(u)' <=> Open(u)
  BY <1>2 DEF Open, May
<1>4. Shape'
  <2>1. \A u \in Txns : IF Open(u)' THEN DbOK(view'[u]) ELSE view'[u] = <<>> /\ written'[u] = {} /\ stale'[u] = {}
    BY <1>1, <1>3 DEF Shape
  <2>2. \A u \in Txns : Open(u)' => statement'[u] = "commit" \/ statement'[u] \in StatementsOf[ctx'[u].type]
    BY <1>1, <1>2, <1>3 DEF Shape, May
  <2> QED BY <1>1, <1>2, <2>1, <2>2 DEF Shape, Goes, DbOK
<1>5. Isolated'
  BY <1>1, <1>3 DEF Isolated
<1>6. Ledger'
  BY <1>1, <1>2, LedgerStays DEF Open, Closed
<1>7. ASSUME NEW u \in Txns, u # t, Open(u)' PROVE TxnSound(u)'
  <2>1. TxnSound(u)
    BY <1>3, <1>7 DEF DriverInv
  <2>2. statement'[u] = statement[u] /\ d_id'[u] = d_id[u] /\ local'[u] = local[u]
    BY <1>2, <1>7 DEF Goes
  <2> QED BY <2>1, <2>2, Untouched
<1> QED BY <1>4, <1>5, <1>6, <1>7 DEF DriverInv

\* What is known of a context.
LEMMA ContextIs ==
  ASSUME Shape, NEW t \in Txns
  PROVE  /\ ctx[t].w_id \in WarehouseIds /\ ctx[t].d_id \in Districts /\ ctx[t].c_id \in Customers
         /\ Home(t) \in DistrictKeys /\ Payer(t) \in CustomerKeys
<1>1. ctx[t] \in Contexts
  BY DEF Shape
<1>2. ctx[t].w_id \in WarehouseIds /\ ctx[t].d_id \in Districts /\ ctx[t].c_id \in Customers
      /\ ctx[t].c_w_id \in WarehouseIds /\ ctx[t].c_d_id \in Districts
  BY <1>1 DEF Contexts
<1> QED BY <1>2 DEF Home, Payer, DistrictKeys, CustomerKeys

\* DoNewOrder: the transaction that has the number of a district to itself keeps it until the end.
LEMMA NewOrderKeeps ==
  ASSUME DriverInv, NEW t \in Txns, DoNewOrder(t)
  PROVE  DriverInv'
<1>0. Shape /\ Isolated /\ Ledger
  BY DEF DriverInv
<1>1. Open(t) /\ ctx[t].type = "NEW_ORDER" /\ statement[t] \in {"increment", "order", "new_order"}
  BY <1>0, Stage DEF DoNewOrder, NEWORDER_IncrementNextOrderId, NEWORDER_CreateOrder, NEWORDER_CreateNewOrder
<1>2. NewOrderSound(t) /\ Home(t) \in DistrictKeys
  BY <1>0, <1>1, ContextIs DEF DriverInv, TxnSound
<1>3. /\ {"ORDERS", "NEW_ORDER", "D_NEXT_O_ID"} \subseteq Columns
      /\ DOMAIN InitialDb["ORDERS"] = Rows /\ DOMAIN InitialDb["NEW_ORDER"] = Rows
      /\ DOMAIN InitialDb["D_NEXT_O_ID"] = DistrictKeys /\ t \in Rows
  BY ColumnsAre DEF Rows
<1>4. \A to \in {"order", "new_order", "commit"} : May(t, to)
  BY <1>1 DEF May, Statements, StatementsOf, Closed
<1>5. DOMAIN local = Txns /\ d_id \in [Txns -> Districts] /\ statement \in [Txns -> Statements] /\ DbOK(view[t])
  BY <1>0, <1>1 DEF Shape
<1>6. CASE NEWORDER_IncrementNextOrderId(t)
  <2>1. PICK n : n = view[t].D_NEXT_O_ID[Home(t)]
    OBVIOUS
  <2>2. n \in Nat
    BY <1>2, <1>5, <2>1 DEF DbOK
  <2>3. Set(t, "D_NEXT_O_ID", Home(t), n + 1) /\ Goes(t, "order") /\ local'[t] = n /\ statement[t] = "increment"
    BY <1>5, <1>6, <2>1 DEF NEWORDER_IncrementNextOrderId, NEWORDER_GetDistrict, GotoStatement, Goes
  <2>4. CellSet(t, "D_NEXT_O_ID", Home(t), n + 1)
    BY <1>0, <1>1, <1>2, <1>3, <2>3, SetCell
  <2>5. written[t] = {} /\ Number(t) \notin stale[t]
    BY <1>2, <2>3, <2>4 DEF NewOrderSound, Number, CellSet
  <2>6. n = db.D_NEXT_O_ID[Home(t)]
    BY <1>0, <1>1, <1>2, <1>3, <2>1, <2>5 DEF Isolated, Number
  <2>7. Home(t)' = Home(t) /\ Number(t)' = Number(t) /\ statement'[t] = "order" /\ ctx' = ctx /\ db' = db
    BY <1>5, <2>3, <2>4 DEF CellSet, Home, Number, Goes
  <2>8. view'[t].D_NEXT_O_ID[Home(t)] = n + 1 /\ written'[t] = {Number(t)}
    BY <1>2, <1>3, <2>4, <2>5 DEF CellSet, Number
  <2>9. NewOrderSound(t)'
    BY <2>3, <2>6, <2>7, <2>8 DEF NewOrderSound
  <2> QED BY <1>1, <1>3, <1>4, <2>2, <2>3, <2>4, <2>7, <2>9, SetKeeps DEF TxnSound
<1>7. ASSUME statement[t] # "increment" PROVE RowOK(TheOrder(t)) /\ local[t] = db.D_NEXT_O_ID[Home(t)] /\ view[t].D_NEXT_O_ID[Home(t)] = local[t] + 1
  <2>1. local[t] = db.D_NEXT_O_ID[Home(t)] /\ view[t].D_NEXT_O_ID[Home(t)] = local[t] + 1
    BY <1>2, <1>7 DEF NewOrderSound
  <2>2. local[t] \in Nat \ {0}
    <3>1. db.D_NEXT_O_ID[Home(t)] \in Nat /\ db.D_NEXT_O_ID[Home(t)] >= 1
      BY <1>0, <1>2 DEF Shape, DbOK, Ledger
    <3> QED BY <2>1, <3>1
  <2> QED BY <1>0, <2>1, <2>2, ContextIs DEF RowOK, TheOrder, RealRows, NULL_CARRIER_ID
<1>8. CASE NEWORDER_CreateOrder(t)
  <2>1. Set(t, "ORDERS", t, TheOrder(t)) /\ Goes(t, "new_order") /\ local' = local /\ statement[t] = "order"
    BY <1>5, <1>8 DEF NEWORDER_CreateOrder, GotoStatement, Goes
  <2>2. CellSet(t, "ORDERS", t, TheOrder(t))
    BY <1>0, <1>1, <1>3, <2>1, SetCell
  <2>3. Home(t)' = Home(t) /\ Number(t)' = Number(t) /\ statement'[t] = "new_order" /\ ctx' = ctx /\ db' = db
        /\ TheOrder(t)' = TheOrder(t)
    BY <1>5, <2>1, <2>2 DEF CellSet, Home, Number, Goes, TheOrder
  <2>4. /\ view'[t].D_NEXT_O_ID[Home(t)] = view[t].D_NEXT_O_ID[Home(t)]
        /\ view'[t].ORDERS[t] = TheOrder(t) /\ written'[t] = {Number(t), OrderCell(t)}
    BY <1>2, <1>3, <2>1, <2>2 DEF CellSet, OrderCell, NewOrderSound
  <2>5. NewOrderSound(t)'
    BY <1>7, <2>1, <2>3, <2>4 DEF NewOrderSound, OrderCell
  <2> QED BY <1>1, <1>3, <1>4, <1>7, <2>1, <2>2, <2>3, <2>5, SetKeeps DEF TxnSound
<1>9. CASE NEWORDER_CreateNewOrder(t)
  <2>1. Set(t, "NEW_ORDER", t, TheOrder(t)) /\ Goes(t, "commit") /\ local' = local /\ statement[t] = "new_order"
    BY <1>5, <1>9 DEF NEWORDER_CreateNewOrder, GotoStatement, Goes
  <2>2. CellSet(t, "NEW_ORDER", t, TheOrder(t))
    BY <1>0, <1>1, <1>3, <2>1, SetCell
  <2>3. Home(t)' = Home(t) /\ Number(t)' = Number(t) /\ statement'[t] = "commit" /\ ctx' = ctx /\ db' = db
        /\ TheOrder(t)' = TheOrder(t)
    BY <1>5, <2>1, <2>2 DEF CellSet, Home, Number, Goes, TheOrder
  <2>4. /\ view'[t].D_NEXT_O_ID[Home(t)] = view[t].D_NEXT_O_ID[Home(t)]
        /\ view'[t].ORDERS[t] = TheOrder(t) /\ view'[t].NEW_ORDER[t] = TheOrder(t)
        /\ written'[t] = {Number(t), OrderCell(t), NewOrderCell(t)}
    BY <1>2, <1>3, <2>1, <2>2 DEF CellSet, OrderCell, NewOrderCell, NewOrderSound
  <2>5. NewOrderSound(t)'
    BY <1>7, <2>1, <2>3, <2>4 DEF NewOrderSound, OrderCell, NewOrderCell
  <2> QED BY <1>1, <1>3, <1>4, <1>7, <2>1, <2>2, <2>3, <2>5, SetKeeps DEF TxnSound
<1> QED BY <1>6, <1>8, <1>9 DEF DoNewOrder

\* DoPayment leaves orders and order numbers alone.
LEMMA PaymentKeeps ==
  ASSUME DriverInv, NEW t \in Txns, DoPayment(t)
  PROVE  DriverInv'
<1>0. Shape
  BY DEF DriverInv
<1>1. Open(t) /\ ctx[t].type = "PAYMENT"
  BY <1>0, Stage DEF DoPayment, PAYMENT_UpdateWarehouseBalance, PAYMENT_UpdateDistrictBalance, PAYMENT_UpdateCustomer,
                     PAYMENT_InsertHistory
<1>2. OtherSound(t)
  BY <1>1 DEF DriverInv, TxnSound
<1>3. DOMAIN local = Txns /\ d_id \in [Txns -> Districts]
  BY <1>0 DEF Shape
<1>4. \A to \in {"district", "pay", "history", "commit"} : May(t, to)
  BY <1>1 DEF May, Statements, StatementsOf, Closed
<1>5. ASSUME NEW c \in {"W_YTD", "D_YTD", "CUSTOMER", "HISTORY"}, NEW r \in DOMAIN InitialDb[c], NEW v, Set(t, c, r, v),
             NEW to \in {"district", "pay", "history", "commit"}, GotoStatement(t, to), UNCHANGED <<d_id, local>>
      PROVE  DriverInv'
  <2>1. c \in Columns /\ c \notin {"ORDERS", "NEW_ORDER", "D_NEXT_O_ID"}
    BY ColumnsAre
  <2>2. CellSet(t, c, r, v)
    BY <1>0, <1>1, <1>5, <2>1, SetCell
  <2>3. Goes(t, to)
    BY <1>3, <1>5 DEF Goes, GotoStatement
  <2>4. TxnSound(t)'
    BY <1>1, <1>2, <2>1, <2>2 DEF TxnSound, OtherSound, CellSet
  <2> QED BY <1>1, <1>4, <2>1, <2>2, <2>3, <2>4, SetKeeps
<1>6. /\ ctx[t].w_id \in DOMAIN InitialDb["W_YTD"] /\ Home(t) \in DOMAIN InitialDb["D_YTD"]
      /\ Payer(t) \in DOMAIN InitialDb["CUSTOMER"] /\ t \in DOMAIN InitialDb["HISTORY"]
  BY <1>0, ColumnsAre, ContextIs
<1>7. CASE PAYMENT_UpdateWarehouseBalance(t)
  BY <1>5, <1>6, <1>7 DEF PAYMENT_UpdateWarehouseBalance
<1>8. CASE PAYMENT_UpdateDistrictBalance(t)
  BY <1>5, <1>6, <1>8 DEF PAYMENT_UpdateDistrictBalance
<1>9. CASE PAYMENT_UpdateCustomer(t)
  BY <1>5, <1>6, <1>9 DEF PAYMENT_UpdateCustomer
<1>10. CASE PAYMENT_InsertHistory(t)
  BY <1>5, <1>6, <1>10 DEF PAYMENT_InsertHistory
<1> QED BY <1>7, <1>8, <1>9, <1>10 DEF DoPayment

\* DoOrderStatus and DoStockLevel only read.
LEMMA ReadersKeep ==
  ASSUME DriverInv, NEW t \in Txns, DoOrderStatus(t) \/ DoStockLevel(t)
  PROVE  DriverInv'
<1>0. Shape /\ DOMAIN local = Txns /\ d_id \in [Txns -> Districts]
  BY DEF DriverInv, Shape
<1>1. Open(t) /\ ctx[t].type \in {"ORDER_STATUS", "STOCK_LEVEL"}
  BY <1>0, Stage DEF DoOrderStatus, DoStockLevel
<1>2. UNCHANGED <<db, view, written, stale, ctx>> /\ Goes(t, "commit") /\ May(t, "commit")
  <2>1. CASE DoOrderStatus(t)
    BY <1>0, <2>1 DEF DoOrderStatus, Goes, GotoStatement, May, Statements, Closed
  <2>2. CASE DoStockLevel(t)
    BY <1>0, <2>2 DEF DoStockLevel, Goes, GotoStatement, May, Statements, Closed
  <2> QED BY <2>1, <2>2
<1>3. TxnSound(t)'
  BY <1>1, <1>2 DEF DriverInv, TxnSound, OtherSound
<1> QED BY <1>1, <1>2, <1>3, ReadKeeps

\* A delivered order is the order with a carrier.
LEMMA DeliveredIs ==
  ASSUME NEW x, RowOK(x), x # NoRow
  PROVE  /\ Delivered(x) \in RealRows /\ Delivered(x) # NoRow /\ RowOK(Delivered(x)) /\ x \in RealRows
         /\ Key(Delivered(x)) = Key(x) /\ Delivered(x).w = x.w /\ Delivered(x).d = x.d
         /\ Delivered(x).carrier # NULL_CARRIER_ID
<1>1. x \in RealRows
  BY DEF RowOK
<1>2. Delivered(x) \in RealRows
  BY <1>1 DEF RealRows, Delivered, MIN_CARRIER_ID
<1>3. NoRow \notin RealRows
  BY DEF NoRow, RealRows
<1>4. Delivered(x).w = x.w /\ Delivered(x).d = x.d /\ Delivered(x).o = x.o /\ Delivered(x).carrier = 1
  BY <1>1 DEF RealRows, Delivered, MIN_CARRIER_ID
<1> QED BY <1>1, <1>2, <1>3, <1>4 DEF Key, RowOK, NULL_CARRIER_ID

\* DoDelivery takes the row and the order of one key together.
LEMMA DeliveryKeeps ==
  ASSUME DriverInv, NEW t \in Txns, DoDelivery(t)
  PROVE  DriverInv'
<1>0. Shape /\ Isolated
  BY DEF DriverInv
<1>1. Open(t) /\ ctx[t].type = "DELIVERY" /\ statement[t] \in {"find", "delete", "carrier", "customer"}
  BY <1>0, Stage DEF DoDelivery, DELIVERY_GetNewOrder, DELIVERY_DeleteNewOrder, DELIVERY_UpdateOrders, DELIVERY_UpdateCustomer
<1>2. DeliverySound(t)
  BY <1>1 DEF DriverInv, TxnSound
<1>3. /\ {"ORDERS", "NEW_ORDER", "CUSTOMER"} \subseteq Columns
      /\ DOMAIN InitialDb["ORDERS"] = Rows /\ DOMAIN InitialDb["NEW_ORDER"] = Rows
      /\ DOMAIN InitialDb["CUSTOMER"] = CustomerKeys
  BY ColumnsAre
<1>4. \A to \in {"find", "delete", "carrier", "customer", "commit"} : May(t, to)
  BY <1>1 DEF May, Statements, StatementsOf, Closed
<1>5. DOMAIN local = Txns /\ d_id \in [Txns -> Districts] /\ statement \in [Txns -> Statements] /\ DbOK(view[t])
  BY <1>0, <1>1 DEF Shape
<1>6. ASSUME NextDistrict(t)
      PROVE  \E to \in {"find", "commit"} : Goes(t, to) /\ statement'[t] = to
  <2>1. d_id' \in [Txns -> Districts] /\ DOMAIN local' = Txns
        /\ \A u \in Txns : u # t => local'[u] = local[u] /\ d_id'[u] = d_id[u]
    BY <1>5, <1>6, DriverAssumption DEF NextDistrict
  <2>2. CASE d_id[t] + 1 \in Districts
    BY <1>5, <1>6, <2>1, <2>2 DEF NextDistrict, GotoStatement, Goes
  <2>3. CASE d_id[t] + 1 \notin Districts
    BY <1>5, <1>6, <2>1, <2>3 DEF NextDistrict, GotoStatement, Goes
  <2> QED BY <2>2, <2>3
<1>7. CASE DELIVERY_GetNewOrder(t)
  <2>0. UNCHANGED <<db, view, written, stale, ctx>> /\ statement[t] = "find"
    BY <1>7 DEF DELIVERY_GetNewOrder
  <2>1. CASE NextDistrict(t)
    <3>1. PICK to \in {"find", "commit"} : Goes(t, to) /\ statement'[t] = to
      BY <1>6, <2>1
    <3>2. DeliverySound(t)'
      BY <1>2, <2>0, <3>1 DEF DeliverySound, UniqueKeys, Paired, OrderCell, NewOrderCell
    <3> QED BY <1>1, <1>4, <2>0, <3>1, <3>2, ReadKeeps DEF TxnSound
  <2>2. ASSUME NEW r \in InDistrict(view[t], "NEW_ORDER", t, d_id[t]), local' = [local EXCEPT ![t] = r],
               GotoStatement(t, "delete"), UNCHANGED d_id
        PROVE  DriverInv'
    <3>1. Goes(t, "delete") /\ statement'[t] = "delete" /\ local'[t] = r
      BY <1>5, <2>2 DEF Goes, GotoStatement
    <3>2. r \in Rows /\ Here(t, view[t].NEW_ORDER[r])
      BY <2>2 DEF InDistrict, Here
    <3>3. Here(t, view[t].NEW_ORDER[r])'
      BY <2>0, <2>2, <3>2 DEF Here
    <3>4. DeliverySound(t)'
      BY <1>2, <2>0, <3>1, <3>2, <3>3 DEF DeliverySound, UniqueKeys, Paired, OrderCell, NewOrderCell, Here
    <3> QED BY <1>1, <1>4, <2>0, <3>1, <3>4, ReadKeeps DEF TxnSound
  <2> QED BY <1>7, <2>1, <2>2 DEF DELIVERY_GetNewOrder
<1>8. CASE DELIVERY_DeleteNewOrder(t)
  <2>1. PICK l : l = local[t]
    OBVIOUS
  <2>2. statement[t] = "delete" /\ l \in Rows /\ Here(t, view[t].NEW_ORDER[l])
    BY <1>2, <1>8, <2>1 DEF DELIVERY_DeleteNewOrder, DeliverySound
  <2>3. view[t].ORDERS[l] # NoRow /\ Key(view[t].ORDERS[l]) = Key(view[t].NEW_ORDER[l])
    BY <1>2, <2>2 DEF DeliverySound, Paired, Here
  <2>4. Here(t, view[t].ORDERS[l]) /\ view[t].ORDERS[l].o = view[t].NEW_ORDER[l].o
    BY <2>2, <2>3 DEF Here, Key
  <2>5. SameOrder(t) = {l}
    <3>1. l \in SameOrder(t)
      BY <2>1, <2>2, <2>4 DEF SameOrder, InDistrict, Here
    <3>2. ASSUME NEW r \in SameOrder(t) PROVE r = l
      <4>1. r \in Rows /\ view[t].ORDERS[r] # NoRow /\ Key(view[t].ORDERS[r]) = Key(view[t].ORDERS[l])
        BY <2>1, <2>4 DEF SameOrder, InDistrict, Key, Here
      <4> QED BY <1>2, <2>2, <2>3, <4>1 DEF DeliverySound, UniqueKeys
    <3> QED BY <3>1, <3>2
  <2>6. (CHOOSE r \in SameOrder(t) : TRUE) = l
    BY <2>5
  <2>7. Set(t, "NEW_ORDER", l, NoRow) /\ Goes(t, "carrier") /\ local'[t] = l /\ statement'[t] = "carrier" /\ d_id' = d_id
    BY <1>5, <1>8, <2>1, <2>6 DEF DELIVERY_DeleteNewOrder, GotoStatement, Goes
  <2>8. CellSet(t, "NEW_ORDER", l, NoRow)
    BY <1>0, <1>1, <1>3, <2>2, <2>7, SetCell
  <2>9. NewOrderCell(l) \notin written[t] /\ OrderCell(l) \notin written[t]
    BY <1>2, <2>2 DEF DeliverySound, Here
  <2>10. /\ \A q \in Rows : view'[t].ORDERS[q] = view[t].ORDERS[q]
         /\ \A q \in Rows : view'[t].NEW_ORDER[q] = IF q = l THEN NoRow ELSE view[t].NEW_ORDER[q]
         /\ written'[t] = written[t] \cup {NewOrderCell(l)} /\ db' = db /\ ctx' = ctx
    BY <1>3, <2>8 DEF CellSet, NewOrderCell
  <2>11. \A r \in Rows : /\ OrderCell(r) \in written'[t] <=> OrderCell(r) \in written[t]
                         /\ NewOrderCell(r) \in written'[t] <=> NewOrderCell(r) \in written[t] \/ r = l
    BY <2>10 DEF OrderCell, NewOrderCell
  <2>12. DeliverySound(t)'
    <3>1. \A cell \in written'[t] : cell[1] \in {"NEW_ORDER", "ORDERS", "CUSTOMER"}
      BY <1>2, <2>10 DEF DeliverySound, NewOrderCell
    <3>2. ASSUME NEW r \in Rows
          PROVE  /\ NewOrderCell(r) \in written'[t] => view'[t].NEW_ORDER[r] = NoRow
                 /\ OrderCell(r) \in written'[t] => db'.ORDERS[r] # NoRow /\ view'[t].ORDERS[r] = Delivered(db'.ORDERS[r])
                 /\ NewOrderCell(r) \in written'[t] <=> OrderCell(r) \in written'[t] \/ (statement'[t] = "carrier" /\ r = local'[t])
      BY <1>2, <2>2, <2>7, <2>10, <2>11 DEF DeliverySound
    <3>3. UniqueKeys(view[t])' /\ Paired(view[t])'
      BY <1>2, <2>10 DEF DeliverySound, UniqueKeys, Paired
    <3>4. local'[t] \in Rows /\ Here(t, view[t].ORDERS[l])' /\ OrderCell(local'[t]) \notin written'[t]
      BY <2>2, <2>4, <2>7, <2>9, <2>10, <2>11 DEF Here
    <3> QED BY <2>7, <3>1, <3>2, <3>3, <3>4 DEF DeliverySound, Here, OrderCell, NewOrderCell
  <2> QED BY <1>1, <1>3, <1>4, <2>7, <2>8, <2>10, <2>12, SetKeeps DEF TxnSound, RowOK
<1>9. CASE DELIVERY_UpdateOrders(t)
  <2>1. PICK l : l = local[t]
    OBVIOUS
  <2>2. statement[t] = "carrier" /\ l \in Rows /\ Here(t, view[t].ORDERS[l]) /\ OrderCell(l) \notin written[t]
    BY <1>2, <1>9, <2>1 DEF DELIVERY_UpdateOrders, DeliverySound
  <2>3. PICK v : v = Delivered(view[t].ORDERS[l])
    OBVIOUS
  <2>4. Set(t, "ORDERS", l, v) /\ Goes(t, "customer") /\ local'[t] = l /\ statement'[t] = "customer" /\ d_id' = d_id
    BY <1>5, <1>9, <2>1, <2>3 DEF DELIVERY_UpdateOrders, GotoStatement, Goes, Delivered
  <2>5. CellSet(t, "ORDERS", l, v)
    BY <1>0, <1>1, <1>3, <2>2, <2>4, SetCell
  <2>6. view[t].ORDERS[l] = db.ORDERS[l]
    BY <1>0, <1>1, <1>3, <2>2, <2>5 DEF Isolated, CellSet, OrderCell
  <2>7. RowOK(v) /\ v # NoRow /\ Key(v) = Key(view[t].ORDERS[l]) /\ Here(t, v) /\ view[t].ORDERS[l] # NoRow
    BY <1>5, <2>2, <2>3, DeliveredIs DEF DbOK, Here
  <2>8. /\ \A q \in Rows : view'[t].ORDERS[q] = IF q = l THEN v ELSE view[t].ORDERS[q]
        /\ \A q \in Rows : view'[t].NEW_ORDER[q] = view[t].NEW_ORDER[q]
        /\ written'[t] = written[t] \cup {OrderCell(l)} /\ db' = db /\ ctx' = ctx
    BY <1>3, <2>5 DEF CellSet, OrderCell
  <2>9. \A r \in Rows : /\ OrderCell(r) \in written'[t] <=> OrderCell(r) \in written[t] \/ r = l
                        /\ NewOrderCell(r) \in written'[t] <=> NewOrderCell(r) \in written[t]
    BY <2>8 DEF OrderCell, NewOrderCell
  <2>10. DeliverySound(t)'
    <3>1. \A cell \in written'[t] : cell[1] \in {"NEW_ORDER", "ORDERS", "CUSTOMER"}
      BY <1>2, <2>8 DEF DeliverySound, OrderCell
    <3>2. ASSUME NEW r \in Rows
          PROVE  /\ NewOrderCell(r) \in written'[t] => view'[t].NEW_ORDER[r] = NoRow
                 /\ OrderCell(r) \in written'[t] => db'.ORDERS[r] # NoRow /\ view'[t].ORDERS[r] = Delivered(db'.ORDERS[r])
                 /\ NewOrderCell(r) \in written'[t] <=> OrderCell(r) \in written'[t] \/ (statement'[t] = "carrier" /\ r = local'[t])
      BY <1>2, <2>1, <2>2, <2>3, <2>4, <2>6, <2>7, <2>8, <2>9 DEF DeliverySound
    <3>3. \A q \in Rows : (view'[t].ORDERS[q] # NoRow <=> view[t].ORDERS[q] # NoRow) /\ Key(view'[t].ORDERS[q]) = Key(view[t].ORDERS[q])
      BY <2>7, <2>8
    <3>4. UniqueKeys(view[t])'
      BY <1>2, <3>3 DEF DeliverySound, UniqueKeys
    <3>5. Paired(view[t])'
      BY <1>2, <2>8, <3>3 DEF DeliverySound, Paired
    <3>6. local'[t] \in Rows /\ Here(t, view[t].ORDERS[l])'
      BY <2>2, <2>4, <2>7, <2>8 DEF Here
    <3> QED BY <2>4, <3>1, <3>2, <3>4, <3>5, <3>6 DEF DeliverySound, Here, OrderCell, NewOrderCell
  <2> QED BY <1>1, <1>3, <1>4, <2>4, <2>5, <2>7, <2>8, <2>10, SetKeeps DEF TxnSound
<1>10. CASE DELIVERY_UpdateCustomer(t)
  <2>1. PICK k : k = <<ctx[t].w_id, d_id[t], DELIVERY_GetCid(t, local[t])>>
    OBVIOUS
  <2>2. statement[t] = "customer" /\ local[t] \in Rows /\ view[t].ORDERS[local[t]] # NoRow
    BY <1>2, <1>10 DEF DELIVERY_UpdateCustomer, DeliverySound, Here
  <2>3. view[t].ORDERS[local[t]] \in RealRows
    BY <1>5, <2>2, DeliveredIs DEF DbOK
  <2>4. k \in CustomerKeys
    <3>1. DELIVERY_GetCid(t, local[t]) \in Customers
      BY <2>3 DEF DELIVERY_GetCid, RealRows
    <3> QED BY <1>0, <1>5, <2>1, <3>1, ContextIs DEF CustomerKeys
  <2>5. PICK v : Set(t, "CUSTOMER", k, v)
    BY <1>10, <2>1 DEF DELIVERY_UpdateCustomer
  <2>6. Set(t, "CUSTOMER", k, v) /\ NextDistrict(t)
    BY <1>10, <2>5 DEF DELIVERY_UpdateCustomer
  <2>7. PICK to \in {"find", "commit"} : Goes(t, to) /\ statement'[t] = to
    BY <1>6, <2>6
  <2>8. CellSet(t, "CUSTOMER", k, v)
    BY <1>0, <1>1, <1>3, <2>4, <2>6, SetCell
  <2>9. /\ \A q \in Rows : view'[t].ORDERS[q] = view[t].ORDERS[q] /\ view'[t].NEW_ORDER[q] = view[t].NEW_ORDER[q]
        /\ written'[t] = written[t] \cup {<<"CUSTOMER", k>>} /\ db' = db /\ ctx' = ctx
    BY <1>3, <2>8 DEF CellSet
  <2>10. \A r \in Rows : /\ OrderCell(r) \in written'[t] <=> OrderCell(r) \in written[t]
                         /\ NewOrderCell(r) \in written'[t] <=> NewOrderCell(r) \in written[t]
    BY <2>9 DEF OrderCell, NewOrderCell
  <2>11. DeliverySound(t)'
    <3>1. \A cell \in written'[t] : cell[1] \in {"NEW_ORDER", "ORDERS", "CUSTOMER"}
      BY <1>2, <2>9 DEF DeliverySound
    <3>2. ASSUME NEW r \in Rows
          PROVE  /\ NewOrderCell(r) \in written'[t] => view'[t].NEW_ORDER[r] = NoRow
                 /\ OrderCell(r) \in written'[t] => db'.ORDERS[r] # NoRow /\ view'[t].ORDERS[r] = Delivered(db'.ORDERS[r])
                 /\ NewOrderCell(r) \in written'[t] <=> OrderCell(r) \in written'[t] \/ (statement'[t] = "carrier" /\ r = local'[t])
      BY <1>2, <2>2, <2>7, <2>9, <2>10 DEF DeliverySound
    <3>3. UniqueKeys(view[t])' /\ Paired(view[t])'
      BY <1>2, <2>9 DEF DeliverySound, UniqueKeys, Paired
    <3> QED BY <2>7, <3>1, <3>2, <3>3 DEF DeliverySound, OrderCell, NewOrderCell
  <2> QED BY <1>1, <1>3, <1>4, <2>7, <2>8, <2>9, <2>11, SetKeeps DEF TxnSound
<1> QED BY <1>7, <1>8, <1>9, <1>10 DEF DoDelivery
-----------------------------------------------------------------------------
(* The end of a transaction *)

\* A commit that delivers orders, or leaves them alone.
LEMMA LedgerDelivers ==
  ASSUME Ledger, \A r \in Rows : RowOK(db.ORDERS[r]),
         \A r \in Rows : \/ db'.ORDERS[r] = db.ORDERS[r] /\ db'.NEW_ORDER[r] = db.NEW_ORDER[r]
                         \/ /\ db.ORDERS[r] # NoRow /\ db'.ORDERS[r] = Delivered(db.ORDERS[r])
                            /\ db'.NEW_ORDER[r] = NoRow,
         \A wd \in DistrictKeys : db'.D_NEXT_O_ID[wd] = db.D_NEXT_O_ID[wd],
         \A t \in Txns : statement[t] = "committed" => statement'[t] = "committed"
  PROVE  Ledger'
<1>1. \A r \in Rows : db'.ORDERS[r] # NoRow <=> db.ORDERS[r] # NoRow
  BY DeliveredIs
<1>2. \A r \in Rows : /\ Key(db'.ORDERS[r]) = Key(db.ORDERS[r]) /\ db'.ORDERS[r].o = db.ORDERS[r].o
                      /\ db'.ORDERS[r].w = db.ORDERS[r].w /\ db'.ORDERS[r].d = db.ORDERS[r].d
  <2> SUFFICES ASSUME NEW r \in Rows
               PROVE  /\ Key(db'.ORDERS[r]) = Key(db.ORDERS[r]) /\ db'.ORDERS[r].o = db.ORDERS[r].o
                      /\ db'.ORDERS[r].w = db.ORDERS[r].w /\ db'.ORDERS[r].d = db.ORDERS[r].d
    OBVIOUS
  <2>1. Key(db'.ORDERS[r]) = Key(db.ORDERS[r])
    BY DeliveredIs
  <2> QED BY <2>1 DEF Key
<1>3. \A r \in Rows : db'.NEW_ORDER[r] # NoRow => /\ db'.ORDERS[r] = db.ORDERS[r] /\ db'.NEW_ORDER[r] = db.NEW_ORDER[r]
  OBVIOUS
<1>4. UniqueKeys(db)'
  BY <1>1, <1>2 DEF Ledger, UniqueKeys
<1>5. Paired(db)'
  BY <1>3 DEF Ledger, Paired
<1>6. \A r \in Rows : db'.ORDERS[r] # NoRow /\ db'.ORDERS[r].carrier = NULL_CARRIER_ID => db'.NEW_ORDER[r] # NoRow
  <2> SUFFICES ASSUME NEW r \in Rows, db'.ORDERS[r] # NoRow, db'.ORDERS[r].carrier = NULL_CARRIER_ID PROVE db'.NEW_ORDER[r] # NoRow
    OBVIOUS
  <2>1. ~(db.ORDERS[r] # NoRow /\ db'.ORDERS[r] = Delivered(db.ORDERS[r]))
    BY DeliveredIs
  <2> QED BY <2>1 DEF Ledger
<1>7. \A r \in Rows : db'.NEW_ORDER[r] # NoRow => db'.ORDERS[r].carrier = NULL_CARRIER_ID
  BY <1>3 DEF Ledger
<1>8. \A wd \in DistrictKeys : OrdersOf(wd)' = OrdersOf(wd)
  BY <1>1, <1>2 DEF OrdersOf
<1>9. \A wd \in DistrictKeys : IsFiniteSet(OrdersOf(wd)') /\ db'.D_NEXT_O_ID[wd] >= 1
  BY <1>8 DEF Ledger
<1>10. OrderIdsDense'
  <2> SUFFICES ASSUME NEW wd \in DistrictKeys
               PROVE  /\ {db'.ORDERS[r].o : r \in OrdersOf(wd)'} = 1 .. (db'.D_NEXT_O_ID[wd] - 1)
                      /\ Cardinality(OrdersOf(wd)') = db'.D_NEXT_O_ID[wd] - 1
    BY DEF OrderIdsDense
  <2>1. {db'.ORDERS[r].o : r \in OrdersOf(wd)'} = {db.ORDERS[r].o : r \in OrdersOf(wd)}
    BY <1>2, <1>8 DEF OrdersOf
  <2>2. {db.ORDERS[r].o : r \in OrdersOf(wd)} = 1 .. (db.D_NEXT_O_ID[wd] - 1) /\ Cardinality(OrdersOf(wd)) = db.D_NEXT_O_ID[wd] - 1
    BY DEF Ledger, OrderIdsDense
  <2> QED BY <1>8, <2>1, <2>2
<1>11. \A t \in Txns : statement'[t] # "committed" => db'.ORDERS[t] = NoRow /\ db'.NEW_ORDER[t] = NoRow
  <2> SUFFICES ASSUME NEW t \in Txns, statement'[t] # "committed" PROVE db'.ORDERS[t] = NoRow /\ db'.NEW_ORDER[t] = NoRow
    OBVIOUS
  <2>1. db.ORDERS[t] = NoRow /\ db.NEW_ORDER[t] = NoRow /\ t \in Rows
    BY DEF Ledger, Rows
  <2> QED BY <2>1
<1> QED BY <1>4, <1>5, <1>6, <1>7, <1>9, <1>10, <1>11 DEF Ledger

\* A commit of a new order, under the number that its district gives next.
LEMMA LedgerGrows ==
  ASSUME Ledger, DbOK(db), NEW t \in Txns, NEW x, x \in RealRows, x.carrier = NULL_CARRIER_ID,
         statement[t] # "committed", statement'[t] = "committed",
         \A u \in Txns : u # t => statement'[u] = statement[u],
         NEW h \in DistrictKeys, h = <<x.w, x.d>>, x.o = db.D_NEXT_O_ID[h],
         \A r \in Rows : /\ db'.ORDERS[r] = IF r = t THEN x ELSE db.ORDERS[r]
                         /\ db'.NEW_ORDER[r] = IF r = t THEN x ELSE db.NEW_ORDER[r],
         \A wd \in DistrictKeys : db'.D_NEXT_O_ID[wd] = IF wd = h THEN x.o + 1 ELSE db.D_NEXT_O_ID[wd]
  PROVE  Ledger'
<1>1. x # NoRow /\ x.o \in Nat /\ x.o >= 1 /\ t \in Rows
  BY DEF RealRows, NoRow, Rows
<1>2. db.ORDERS[t] = NoRow /\ db.NEW_ORDER[t] = NoRow
  BY DEF Ledger
<1>3. {db.ORDERS[r].o : r \in OrdersOf(h)} = 1 .. (x.o - 1) /\ Cardinality(OrdersOf(h)) = x.o - 1 /\ IsFiniteSet(OrdersOf(h))
  BY DEF Ledger, OrderIdsDense
<1>4. \A r \in Rows : db.ORDERS[r] # NoRow => Key(db.ORDERS[r]) # Key(x)
  <2> SUFFICES ASSUME NEW r \in Rows, db.ORDERS[r] # NoRow, Key(db.ORDERS[r]) = Key(x) PROVE FALSE
    OBVIOUS
  <2>1. r \in OrdersOf(h) /\ db.ORDERS[r].o = x.o
    BY DEF OrdersOf, Key
  <2>2. x.o \in 1 .. (x.o - 1)
    BY <1>3, <2>1
  <2> QED BY <1>1, <2>2
<1>5. UniqueKeys(db)'
  BY <1>1, <1>4 DEF Ledger, UniqueKeys
<1>6. Paired(db)'
  BY <1>1 DEF Ledger, Paired
<1>7. \A r \in Rows : db'.ORDERS[r] # NoRow /\ db'.ORDERS[r].carrier = NULL_CARRIER_ID => db'.NEW_ORDER[r] # NoRow
  BY <1>1 DEF Ledger
<1>8. \A r \in Rows : db'.NEW_ORDER[r] # NoRow => db'.ORDERS[r].carrier = NULL_CARRIER_ID
  BY DEF Ledger
<1>9. OrdersOf(h)' = OrdersOf(h) \cup {t} /\ t \notin OrdersOf(h)
  BY <1>1, <1>2 DEF OrdersOf
<1>10. \A wd \in DistrictKeys : wd # h => OrdersOf(wd)' = OrdersOf(wd) /\ t \notin OrdersOf(wd)
  BY <1>1, <1>2 DEF OrdersOf
<1>11. \A wd \in DistrictKeys : \A r \in OrdersOf(wd) : r \in Rows
  BY DEF OrdersOf
<1>12. IsFiniteSet(OrdersOf(h)') /\ Cardinality(OrdersOf(h)') = x.o
  <2>1. PICK S : S = OrdersOf(h)
    OBVIOUS
  <2>2. IsFiniteSet(S \cup {t}) /\ Cardinality(S \cup {t}) = IF t \in S THEN Cardinality(S) ELSE Cardinality(S) + 1
    BY <1>3, <2>1, FS_AddElement
  <2>3. Cardinality(S) + 1 = x.o
    BY <1>1, <1>3, <2>1
  <2> QED BY <1>9, <2>1, <2>2, <2>3
<1>13. \A wd \in DistrictKeys : IsFiniteSet(OrdersOf(wd)') /\ db'.D_NEXT_O_ID[wd] >= 1
  BY <1>1, <1>10, <1>12 DEF Ledger
<1>14. OrderIdsDense'
  <2> SUFFICES ASSUME NEW wd \in DistrictKeys
               PROVE  /\ {db'.ORDERS[r].o : r \in OrdersOf(wd)'} = 1 .. (db'.D_NEXT_O_ID[wd] - 1)
                      /\ Cardinality(OrdersOf(wd)') = db'.D_NEXT_O_ID[wd] - 1
    BY DEF OrderIdsDense
  <2>1. CASE wd = h
    <3>1. {db'.ORDERS[r].o : r \in OrdersOf(h)'} = {db.ORDERS[r].o : r \in OrdersOf(h)} \cup {x.o}
      BY <1>1, <1>9, <1>11
    <3>2. (1 .. (x.o - 1)) \cup {x.o} = 1 .. x.o
      BY <1>1
    <3>3. db'.D_NEXT_O_ID[wd] - 1 = x.o
      BY <1>1, <2>1
    <3> QED BY <1>3, <1>12, <2>1, <3>1, <3>2, <3>3
  <2>2. CASE wd # h
    <3>1. {db'.ORDERS[r].o : r \in OrdersOf(wd)'} = {db.ORDERS[r].o : r \in OrdersOf(wd)}
      BY <1>10, <1>11, <2>2
    <3>2. {db.ORDERS[r].o : r \in OrdersOf(wd)} = 1 .. (db.D_NEXT_O_ID[wd] - 1) /\ Cardinality(OrdersOf(wd)) = db.D_NEXT_O_ID[wd] - 1
      BY DEF Ledger, OrderIdsDense
    <3> QED BY <1>10, <2>2, <3>1, <3>2
  <2> QED BY <2>1, <2>2
<1>15. \A u \in Txns : statement'[u] # "committed" => db'.ORDERS[u] = NoRow /\ db'.NEW_ORDER[u] = NoRow
  BY DEF Ledger, Rows
<1> QED BY <1>5, <1>6, <1>7, <1>8, <1>13, <1>14, <1>15 DEF Ledger

\* What a commit does.
Publishes(t) ==
  /\ \A x \in Columns : \A q \in DOMAIN InitialDb[x] :
       db'[x][q] = IF <<x, q>> \in written[t] THEN view[t][x][q] ELSE db[x][q]
  /\ DbOK(db') /\ statement'[t] = "committed"
  /\ \A u \in Txns : u # t =>
       /\ statement'[u] = statement[u] /\ view'[u] = view[u] /\ written'[u] = written[u]
       /\ local'[u] = local[u] /\ d_id'[u] = d_id[u]
  /\ ctx' = ctx

\* A commit takes the cells that were written.
LEMMA CommitDoes ==
  ASSUME Shape, NEW t \in Txns, CommitTransaction(t)
  PROVE  Publishes(t)
<1>1. DbOK(db) /\ DbOK(view[t]) /\ db' = Merged(t)
  BY Stage DEF Shape, CommitTransaction
<1>2. DOMAIN db = Columns /\ \A x \in Columns : DOMAIN db[x] = DOMAIN InitialDb[x]
  BY <1>1 DEF DbOK
<1>3. /\ DOMAIN db' = Columns /\ \A x \in Columns : DOMAIN db'[x] = DOMAIN InitialDb[x]
      /\ \A x \in Columns : \A q \in DOMAIN InitialDb[x] :
           db'[x][q] = IF <<x, q>> \in written[t] THEN view[t][x][q] ELSE db[x][q]
  BY <1>1, <1>2 DEF Merged
<1>4. DbOK(db')
  <2>1. DOMAIN InitialDb["ORDERS"] = Rows /\ DOMAIN InitialDb["NEW_ORDER"] = Rows /\ DOMAIN InitialDb["D_NEXT_O_ID"] = DistrictKeys
        /\ {"ORDERS", "NEW_ORDER", "D_NEXT_O_ID"} \subseteq Columns
    BY ColumnsAre
  <2>2. \A r \in Rows : RowOK(db'.ORDERS[r])
    BY <1>1, <1>3, <2>1 DEF DbOK
  <2>3. \A r \in Rows : RowOK(db'.NEW_ORDER[r])
    BY <1>1, <1>3, <2>1 DEF DbOK
  <2>4. \A wd \in DistrictKeys : db'.D_NEXT_O_ID[wd] \in Nat
    BY <1>1, <1>3, <2>1 DEF DbOK
  <2> QED BY <1>3, <2>2, <2>3, <2>4 DEF DbOK
<1>5. /\ statement'[t] = "committed"
      /\ \A u \in Txns : u # t =>
           /\ statement'[u] = statement[u] /\ view'[u] = view[u] /\ written'[u] = written[u]
           /\ local'[u] = local[u] /\ d_id'[u] = d_id[u]
      /\ ctx' = ctx
  BY DEF Shape, CommitTransaction, Forget, GotoStatement
<1> QED BY <1>3, <1>4, <1>5 DEF Publishes

\* What is known of another transaction does not depend on cells it has not written.
LEMMA OthersKeep ==
  ASSUME Shape, Isolated, NEW t \in Txns, Publishes(t), NEW u \in Txns, u # t, Open(u), TxnSound(u)
  PROVE  TxnSound(u)'
<1>1. /\ {"ORDERS", "NEW_ORDER", "D_NEXT_O_ID"} \subseteq Columns
      /\ DOMAIN InitialDb["ORDERS"] = Rows /\ DOMAIN InitialDb["D_NEXT_O_ID"] = DistrictKeys
      /\ Home(u) \in DistrictKeys
  BY ColumnsAre, ContextIs
<1>2. \A cell \in written[u] : cell \notin written[t]
  BY DEF Isolated
<1>3. \A x \in Columns : \A q \in DOMAIN InitialDb[x] : <<x, q>> \in written[u] => db'[x][q] = db[x][q]
  BY <1>2 DEF Publishes
<1>4. /\ statement'[u] = statement[u] /\ view'[u] = view[u] /\ written'[u] = written[u]
      /\ local'[u] = local[u] /\ d_id'[u] = d_id[u] /\ ctx'[u] = ctx[u]
  BY DEF Publishes
<1>5. CASE ctx[u].type = "NEW_ORDER"
  <2>0. NewOrderSound(u)
    BY <1>5 DEF TxnSound
  <2>1. Number(u)' = Number(u) /\ TheOrder(u)' = TheOrder(u) /\ Home(u)' = Home(u)
    BY <1>4 DEF Number, TheOrder, Home
  <2>2. statement[u] \in {"increment", "order", "new_order", "commit"}
    <3>1. StatementsOf["NEW_ORDER"] = {"increment", "order", "new_order"}
      BY DEF StatementsOf
    <3> QED BY <1>5, <3>1 DEF Shape
  <2>3. statement[u] # "increment" => Number(u) \in written[u]
    BY <2>0, <2>2 DEF NewOrderSound
  <2>4. statement[u] # "increment" => db'.D_NEXT_O_ID[Home(u)] = db.D_NEXT_O_ID[Home(u)]
    BY <1>1, <1>3, <2>3 DEF Number
  <2>5. NewOrderSound(u)'
    BY <1>4, <2>0, <2>1, <2>4 DEF NewOrderSound, OrderCell, NewOrderCell
  <2> QED BY <1>4, <1>5, <2>5 DEF TxnSound
<1>6. CASE ctx[u].type = "DELIVERY"
  <2>0. DeliverySound(u)
    BY <1>6 DEF TxnSound
  <2>1. \A r \in Rows : OrderCell(r) \in written[u] => db'.ORDERS[r] = db.ORDERS[r]
    BY <1>1, <1>3 DEF OrderCell
  <2>2. \A r \in Rows : OrderCell(r) \in written'[u] => db'.ORDERS[r] # NoRow /\ view'[u].ORDERS[r] = Delivered(db'.ORDERS[r])
    BY <1>4, <2>0, <2>1 DEF DeliverySound
  <2>3. UniqueKeys(view[u])' /\ Paired(view[u])'
    BY <1>4, <2>0 DEF DeliverySound, UniqueKeys, Paired
  <2>4. DeliverySound(u)'
    BY <1>4, <2>0, <2>2, <2>3 DEF DeliverySound, OrderCell, NewOrderCell, Here
  <2> QED BY <1>4, <1>6, <2>4 DEF TxnSound
<1>7. CASE ctx[u].type \notin {"NEW_ORDER", "DELIVERY"}
  BY <1>4, <1>7 DEF TxnSound, OtherSound
<1> QED BY <1>5, <1>6, <1>7

\* A commit makes the changes of one transaction the truth, and no other one is mistaken about what it builds on.
LEMMA CommitKeeps ==
  ASSUME DriverInv, NEW t \in Txns, CommitTransaction(t)
  PROVE  DriverInv'
<1>0. Shape /\ Isolated /\ Ledger /\ statement[t] = "commit"
  BY DEF DriverInv, CommitTransaction
<1>1. Publishes(t) /\ Open(t)
  BY <1>0, CommitDoes, Stage
<1>2. TxnSound(t)
  BY <1>1 DEF DriverInv
<1>3. /\ \A u \in Txns : Open(u)' <=> u # t /\ Open(u)
      /\ statement' \in [Txns -> Statements]
  <2>1. statement' \in [Txns -> Statements]
    BY <1>0 DEF Shape, CommitTransaction, GotoStatement, Statements
  <2> QED BY <1>1, <2>1 DEF Open, Closed, Publishes
<1>4. /\ DOMAIN view' = Txns /\ DOMAIN local' = Txns /\ d_id' \in [Txns -> Districts] /\ view'[t] = <<>>
      /\ written' \in [Txns -> SUBSET AllCells] /\ written'[t] = {}
      /\ stale' \in [Txns -> SUBSET AllCells] /\ stale'[t] = {}
      /\ \A u \in Txns : u # t => stale'[u] = IF Open(u) THEN stale[u] \cup written[t] ELSE stale[u]
  <2>1. DOMAIN view' = Txns /\ DOMAIN local' = Txns /\ d_id' \in [Txns -> Districts] /\ view'[t] = <<>>
    BY <1>0, DriverAssumption DEF Shape, CommitTransaction, Forget
  <2>2. written' \in [Txns -> SUBSET AllCells] /\ written'[t] = {}
    BY <1>0 DEF Shape, CommitTransaction
  <2>3. /\ stale' \in [Txns -> SUBSET AllCells] /\ stale'[t] = {}
        /\ \A u \in Txns : u # t => stale'[u] = IF Open(u) THEN stale[u] \cup written[t] ELSE stale[u]
    <3>1. stale' = [u \in Txns |-> IF u # t /\ Open(u) THEN stale[u] \cup written[t] ELSE IF u = t THEN {} ELSE stale[u]]
      BY DEF CommitTransaction
    <3>2. \A u \in Txns : written[u] \subseteq AllCells /\ stale[u] \subseteq AllCells
      BY <1>0 DEF Shape
    <3> QED BY <3>1, <3>2
  <2> QED BY <2>1, <2>2, <2>3
<1>5. Shape'
  <2>1. \A u \in Txns : IF Open(u)' THEN DbOK(view'[u]) ELSE view'[u] = <<>> /\ written'[u] = {} /\ stale'[u] = {}
    BY <1>0, <1>1, <1>3, <1>4 DEF Shape, Publishes
  <2>2. \A u \in Txns : Open(u)' => statement'[u] = "commit" \/ statement'[u] \in StatementsOf[ctx'[u].type]
    BY <1>0, <1>1, <1>3 DEF Shape, Publishes
  <2>3. DbOK(db') /\ ctx' \in [Txns -> Contexts]
    BY <1>0, <1>1 DEF Publishes, Shape
  <2> QED BY <1>3, <1>4, <2>1, <2>2, <2>3 DEF Shape, DbOK
<1>6. Isolated'
  <2>1. \A u, w \in Txns : u # w => written'[u] \cap written'[w] = {}
    BY <1>0, <1>1, <1>4 DEF Isolated, Publishes
  <2>2. \A u \in Txns : written'[u] \cap stale'[u] = {}
    BY <1>0, <1>1, <1>4 DEF Isolated, Publishes
  <2>3. ASSUME NEW u \in Txns, Open(u)', NEW x \in Columns, NEW q \in DOMAIN InitialDb[x], <<x, q>> \notin written'[u] \cup stale'[u]
        PROVE  view'[u][x][q] = db'[x][q]
    <3>1. u # t /\ Open(u) /\ view'[u] = view[u] /\ <<x, q>> \notin written[u] \cup stale[u] /\ <<x, q>> \notin written[t]
      BY <1>1, <1>3, <1>4, <2>3 DEF Publishes
    <3>2. view[u][x][q] = db[x][q]
      BY <1>0, <2>3, <3>1 DEF Isolated
    <3>3. db'[x][q] = db[x][q]
      BY <1>1, <2>3, <3>1 DEF Publishes
    <3> QED BY <3>1, <3>2, <3>3
  <2> QED BY <2>1, <2>2, <2>3 DEF Isolated
<1>7. ASSUME NEW u \in Txns, Open(u)' PROVE TxnSound(u)'
  BY <1>0, <1>1, <1>3, <1>7, OthersKeep DEF DriverInv
<1>8. /\ {"ORDERS", "NEW_ORDER", "D_NEXT_O_ID"} \subseteq Columns
      /\ DOMAIN InitialDb["ORDERS"] = Rows /\ DOMAIN InitialDb["NEW_ORDER"] = Rows
      /\ DOMAIN InitialDb["D_NEXT_O_ID"] = DistrictKeys
  BY ColumnsAre
<1>9. /\ \A r \in Rows : db'.ORDERS[r] = IF OrderCell(r) \in written[t] THEN view[t].ORDERS[r] ELSE db.ORDERS[r]
      /\ \A r \in Rows : db'.NEW_ORDER[r] = IF NewOrderCell(r) \in written[t] THEN view[t].NEW_ORDER[r] ELSE db.NEW_ORDER[r]
      /\ \A wd \in DistrictKeys :
           db'.D_NEXT_O_ID[wd] = IF <<"D_NEXT_O_ID", wd>> \in written[t] THEN view[t].D_NEXT_O_ID[wd] ELSE db.D_NEXT_O_ID[wd]
  BY <1>1, <1>8 DEF Publishes, OrderCell, NewOrderCell
<1>10. /\ \A u \in Txns : u # t => statement'[u] = statement[u]
       /\ statement'[t] = "committed" /\ DbOK(db) /\ \A r \in Rows : RowOK(db.ORDERS[r])
  BY <1>0, <1>1 DEF Publishes, Shape, DbOK
<1>11. Ledger'
  <2>1. CASE ctx[t].type = "NEW_ORDER"
    <3>1. NewOrderSound(t) /\ Home(t) \in DistrictKeys
      BY <1>0, <1>2, <2>1, ContextIs DEF TxnSound
    <3>2. PICK x : x = TheOrder(t)
      OBVIOUS
    <3>3. PICK h : h = Home(t)
      OBVIOUS
    <3>4. /\ written[t] = {Number(t), OrderCell(t), NewOrderCell(t)}
          /\ local[t] = db.D_NEXT_O_ID[h] /\ view[t].D_NEXT_O_ID[h] = local[t] + 1
          /\ view[t].ORDERS[t] = x /\ view[t].NEW_ORDER[t] = x
      BY <1>0, <3>1, <3>2, <3>3 DEF NewOrderSound
    <3>5. x.o = local[t] /\ x.w = ctx[t].w_id /\ x.d = ctx[t].d_id /\ x.c = ctx[t].c_id /\ x.carrier = NULL_CARRIER_ID
      BY <3>2 DEF TheOrder
    <3>6. local[t] \in Nat \ {0}
      <4>1. db.D_NEXT_O_ID[h] \in Nat /\ db.D_NEXT_O_ID[h] >= 1
        BY <1>0, <3>1, <3>3 DEF Shape, DbOK, Ledger
      <4> QED BY <3>4, <4>1
    <3>7. x \in RealRows
      BY <1>0, <3>2, <3>6, ContextIs DEF TheOrder, RealRows, NULL_CARRIER_ID
    <3>8. \A r \in Rows : /\ OrderCell(r) \in written[t] <=> r = t
                          /\ NewOrderCell(r) \in written[t] <=> r = t
      BY <3>4 DEF Number, OrderCell, NewOrderCell
    <3>9. \A wd \in DistrictKeys : <<"D_NEXT_O_ID", wd>> \in written[t] <=> wd = h
      BY <3>3, <3>4 DEF Number, OrderCell, NewOrderCell
    <3>10. \A r \in Rows : /\ db'.ORDERS[r] = IF r = t THEN x ELSE db.ORDERS[r]
                           /\ db'.NEW_ORDER[r] = IF r = t THEN x ELSE db.NEW_ORDER[r]
      BY <1>9, <3>4, <3>8
    <3>11. \A wd \in DistrictKeys : db'.D_NEXT_O_ID[wd] = IF wd = h THEN x.o + 1 ELSE db.D_NEXT_O_ID[wd]
      BY <1>9, <3>4, <3>5, <3>9
    <3>12. h \in DistrictKeys /\ h = <<x.w, x.d>> /\ x.o = db.D_NEXT_O_ID[h] /\ statement[t] # "committed"
      BY <1>0, <3>1, <3>3, <3>4, <3>5 DEF Home
    <3> QED BY <1>0, <1>10, <3>5, <3>7, <3>10, <3>11, <3>12, LedgerGrows
  <2>2. CASE ctx[t].type = "DELIVERY"
    <3>1. DeliverySound(t)
      BY <1>2, <2>2 DEF TxnSound
    <3>2. \A r \in Rows : NewOrderCell(r) \in written[t] <=> OrderCell(r) \in written[t]
      BY <1>0, <3>1 DEF DeliverySound
    <3>3. \A r \in Rows : \/ db'.ORDERS[r] = db.ORDERS[r] /\ db'.NEW_ORDER[r] = db.NEW_ORDER[r]
                          \/ db.ORDERS[r] # NoRow /\ db'.ORDERS[r] = Delivered(db.ORDERS[r]) /\ db'.NEW_ORDER[r] = NoRow
      BY <1>9, <3>1, <3>2 DEF DeliverySound
    <3>4. \A wd \in DistrictKeys : <<"D_NEXT_O_ID", wd>> \notin written[t]
      BY <3>1 DEF DeliverySound
    <3>5. \A wd \in DistrictKeys : db'.D_NEXT_O_ID[wd] = db.D_NEXT_O_ID[wd]
      BY <1>9, <3>4
    <3>6. \A u \in Txns : statement[u] = "committed" => statement'[u] = "committed"
      BY <1>10
    <3> QED BY <1>0, <1>10, <3>3, <3>5, <3>6, LedgerDelivers
  <2>3. CASE ctx[t].type \notin {"NEW_ORDER", "DELIVERY"}
    <3>1. OtherSound(t)
      BY <1>2, <2>3 DEF TxnSound
    <3>2. /\ \A r \in Rows : OrderCell(r) \notin written[t] /\ NewOrderCell(r) \notin written[t]
          /\ \A wd \in DistrictKeys : <<"D_NEXT_O_ID", wd>> \notin written[t]
      BY <3>1 DEF OtherSound, OrderCell, NewOrderCell
    <3>3. /\ \A r \in Rows : db'.ORDERS[r] = db.ORDERS[r] /\ db'.NEW_ORDER[r] = db.NEW_ORDER[r]
          /\ \A wd \in DistrictKeys : db'.D_NEXT_O_ID[wd] = db.D_NEXT_O_ID[wd]
      BY <1>9, <3>2
    <3>4. \A u \in Txns : statement[u] = "committed" => statement'[u] = "committed"
      BY <1>10
    <3> QED BY <1>0, <1>10, <3>3, <3>4, LedgerDelivers
  <2> QED BY <2>1, <2>2, <2>3
<1> QED BY <1>5, <1>6, <1>7, <1>11 DEF DriverInv

\* A transaction that is rolled back leaves nothing.
LEMMA RollBackKeeps ==
  ASSUME DriverInv, NEW t \in Txns, RollBackTransaction(t)
  PROVE  DriverInv'
<1>0. Shape /\ Isolated /\ Ledger /\ Open(t)
  BY DEF DriverInv, RollBackTransaction
<1>1. /\ statement'[t] = "rolledback" /\ statement' \in [Txns -> Statements]
      /\ \A u \in Txns : u # t => statement'[u] = statement[u]
  BY <1>0 DEF Shape, RollBackTransaction, GotoStatement, Statements
<1>2. \A u \in Txns : Open(u)' <=> u # t /\ Open(u)
  BY <1>1 DEF Open, Closed
<1>3. /\ DOMAIN view' = Txns /\ DOMAIN local' = Txns /\ d_id' \in [Txns -> Districts] /\ view'[t] = <<>>
      /\ \A u \in Txns : u # t => view'[u] = view[u] /\ local'[u] = local[u] /\ d_id'[u] = d_id[u]
  BY <1>0, DriverAssumption DEF Shape, RollBackTransaction, Forget
<1>4. /\ written' \in [Txns -> SUBSET AllCells] /\ written'[t] = {} /\ \A u \in Txns : u # t => written'[u] = written[u]
      /\ stale' \in [Txns -> SUBSET AllCells] /\ stale'[t] = {} /\ \A u \in Txns : u # t => stale'[u] = stale[u]
      /\ db' = db /\ ctx' = ctx
  BY <1>0 DEF Shape, RollBackTransaction, Forget
<1>5. Shape'
  <2>1. \A u \in Txns : IF Open(u)' THEN DbOK(view'[u]) ELSE view'[u] = <<>> /\ written'[u] = {} /\ stale'[u] = {}
    BY <1>0, <1>2, <1>3, <1>4 DEF Shape
  <2>2. \A u \in Txns : Open(u)' => statement'[u] = "commit" \/ statement'[u] \in StatementsOf[ctx'[u].type]
    BY <1>0, <1>1, <1>2, <1>4 DEF Shape
  <2>3. DbOK(db') /\ ctx' \in [Txns -> Contexts]
    BY <1>0, <1>4 DEF Shape
  <2> QED BY <1>1, <1>3, <1>4, <2>1, <2>2, <2>3 DEF Shape, DbOK
<1>6. Isolated'
  BY <1>0, <1>2, <1>3, <1>4 DEF Isolated
<1>7. Ledger'
  BY <1>0, <1>1, <1>4, LedgerStays DEF Open, Closed
<1>8. ASSUME NEW u \in Txns, Open(u)' PROVE TxnSound(u)'
  <2>1. TxnSound(u)
    BY <1>2, <1>8 DEF DriverInv
  <2> QED BY <1>1, <1>2, <1>3, <1>4, <1>8, <2>1, Untouched
<1> QED BY <1>5, <1>6, <1>7, <1>8 DEF DriverInv

\* A transaction starts from the committed database.
LEMMA StartKeeps ==
  ASSUME DriverInv, NEW t \in Txns, StartTransaction(t)
  PROVE  DriverInv'
<1>0. Shape /\ Isolated /\ Ledger /\ statement[t] = "idle" /\ ~Open(t)
  BY DEF DriverInv, StartTransaction, Open, Closed
<1>1. PICK x \in Contexts : ctx' = [ctx EXCEPT ![t] = x] /\ GotoStatement(t, FirstStatement(x.type))
  BY DEF StartTransaction
<1>2. PICK to : to = FirstStatement(x.type)
  OBVIOUS
<1>3. /\ to \in StatementsOf[x.type] /\ to \in Statements \ Closed
      /\ to \in {"increment", "find", "warehouse", "status", "stock"}
      /\ x.type = "NEW_ORDER" => to = "increment"
      /\ x.type = "DELIVERY" => to = "find"
  <2>1. x.type \in {"NEW_ORDER", "DELIVERY", "PAYMENT", "ORDER_STATUS", "STOCK_LEVEL"}
    BY DEF Contexts
  <2>2. CASE x.type = "NEW_ORDER"
    BY <1>2, <2>2 DEF FirstStatement, StatementsOf, Statements, Closed
  <2>3. CASE x.type = "DELIVERY"
    BY <1>2, <2>3 DEF FirstStatement, StatementsOf, Statements, Closed
  <2>4. CASE x.type = "PAYMENT"
    BY <1>2, <2>4 DEF FirstStatement, StatementsOf, Statements, Closed
  <2>5. CASE x.type = "ORDER_STATUS"
    BY <1>2, <2>5 DEF FirstStatement, StatementsOf, Statements, Closed
  <2>6. CASE x.type = "STOCK_LEVEL"
    BY <1>2, <2>6 DEF FirstStatement, StatementsOf, Statements, Closed
  <2> QED BY <2>1, <2>2, <2>3, <2>4, <2>5, <2>6
<1>4. /\ statement'[t] = to /\ statement' \in [Txns -> Statements]
      /\ \A u \in Txns : u # t => statement'[u] = statement[u]
  BY <1>0, <1>1, <1>2, <1>3 DEF Shape, GotoStatement
<1>5. Open(t)' /\ \A u \in Txns : u # t => (Open(u)' <=> Open(u))
  BY <1>3, <1>4 DEF Open
<1>6. /\ ctx' \in [Txns -> Contexts] /\ ctx'[t] = x /\ \A u \in Txns : u # t => ctx'[u] = ctx[u]
      /\ DOMAIN view' = Txns /\ view'[t] = db /\ \A u \in Txns : u # t => view'[u] = view[u]
      /\ UNCHANGED <<db, written, stale, d_id, local>> /\ written[t] = {} /\ stale[t] = {}
  BY <1>0, <1>1 DEF Shape, StartTransaction
<1>7. Shape'
  <2>1. \A u \in Txns : IF Open(u)' THEN DbOK(view'[u]) ELSE view'[u] = <<>> /\ written'[u] = {} /\ stale'[u] = {}
    BY <1>0, <1>5, <1>6 DEF Shape
  <2>2. \A u \in Txns : Open(u)' => statement'[u] = "commit" \/ statement'[u] \in StatementsOf[ctx'[u].type]
    BY <1>0, <1>3, <1>4, <1>5, <1>6 DEF Shape
  <2> QED BY <1>0, <1>4, <1>6, <2>1, <2>2 DEF Shape, DbOK
<1>8. Isolated'
  BY <1>0, <1>5, <1>6 DEF Isolated
<1>9. Ledger'
  BY <1>0, <1>4, <1>6, LedgerStays
<1>10. ASSUME NEW u \in Txns, Open(u)' PROVE TxnSound(u)'
  <2>1. CASE u # t
    <3>1. TxnSound(u)
      BY <1>5, <1>10, <2>1 DEF DriverInv
    <3> QED BY <1>4, <1>6, <2>1, <3>1, Untouched
  <2>2. CASE u = t /\ x.type = "NEW_ORDER"
    <3>1. NewOrderSound(t)'
      BY <1>3, <1>4, <1>6, <2>2 DEF NewOrderSound
    <3> QED BY <1>6, <2>2, <3>1 DEF TxnSound
  <2>3. CASE u = t /\ x.type = "DELIVERY"
    <3>1. UniqueKeys(view[t])' /\ Paired(view[t])'
      BY <1>0, <1>6 DEF Ledger, UniqueKeys, Paired
    <3>2. DeliverySound(t)'
      BY <1>3, <1>4, <1>6, <2>3, <3>1 DEF DeliverySound
    <3> QED BY <1>6, <2>3, <3>2 DEF TxnSound
  <2>4. CASE u = t /\ x.type \notin {"NEW_ORDER", "DELIVERY"}
    BY <1>6, <2>4 DEF TxnSound, OtherSound
  <2> QED BY <2>1, <2>2, <2>3, <2>4
<1> QED BY <1>7, <1>8, <1>9, <1>10 DEF DriverInv

\* One order of every district is there at the start, under number 1.
LEMMA DriverStarts ==
  ASSUME DriverInit
  PROVE  DriverInv
<1>1. /\ \A r \in Rows : db.ORDERS[r] = Initially(r) /\ db.NEW_ORDER[r] = Initially(r)
      /\ \A wd \in DistrictKeys : db.D_NEXT_O_ID[wd] = 2
      /\ DOMAIN db = Columns /\ \A x \in Columns : DOMAIN db[x] = DOMAIN InitialDb[x]
  BY DEF DriverInit, InitialDb, Columns
<1>2. \A r \in DistrictKeys : /\ Initially(r) = LoadedOrder(r) /\ LoadedOrder(r) \in RealRows /\ LoadedOrder(r) # NoRow
                              /\ LoadedOrder(r).o = 1 /\ LoadedOrder(r).carrier = NULL_CARRIER_ID
                              /\ <<LoadedOrder(r).w, LoadedOrder(r).d>> = r
  <2> SUFFICES ASSUME NEW r \in DistrictKeys
               PROVE  /\ Initially(r) = LoadedOrder(r) /\ LoadedOrder(r) \in RealRows /\ LoadedOrder(r) # NoRow
                      /\ LoadedOrder(r).o = 1 /\ LoadedOrder(r).carrier = NULL_CARRIER_ID
                      /\ <<LoadedOrder(r).w, LoadedOrder(r).d>> = r
    OBVIOUS
  <2>1. r[1] \in WarehouseIds /\ r[2] \in Districts /\ r = <<r[1], r[2]>>
    BY DEF DistrictKeys
  <2>2. AnyCustomer \in Customers
    BY DriverAssumption DEF AnyCustomer
  <2>3. LoadedOrder(r) \in RealRows
    BY <2>1, <2>2 DEF LoadedOrder, RealRows, NULL_CARRIER_ID
  <2>4. LoadedOrder(r).o = 1 /\ LoadedOrder(r).carrier = NULL_CARRIER_ID /\ LoadedOrder(r).w = r[1] /\ LoadedOrder(r).d = r[2]
    BY DEF LoadedOrder
  <2>5. LoadedOrder(r) # NoRow
    BY <2>4 DEF NoRow
  <2> QED BY <2>1, <2>3, <2>4, <2>5 DEF Initially
<1>3. \A r \in Rows : r \notin DistrictKeys => Initially(r) = NoRow
  BY DEF Initially
<1>4. DbOK(db)
  <2>1. \A r \in Rows : RowOK(Initially(r))
    BY <1>2, <1>3 DEF RowOK
  <2> QED BY <1>1, <2>1 DEF DbOK
<1>5. NoContext \in Contexts
  <2>1. PICK c : c \in Customers /\ c = AnyCustomer
    BY DriverAssumption DEF AnyCustomer
  <2>2. PICK x : x = [type |-> "NEW_ORDER", w_id |-> FirstWarehouse, d_id |-> 1, c_id |-> c, c_w_id |-> FirstWarehouse, c_d_id |-> 1]
    OBVIOUS
  <2>3. x \in Contexts
    BY <2>1, <2>2, DriverAssumption DEF Contexts
  <2> QED BY <2>3 DEF NoContext
<1>6. \A t \in Txns : ~Open(t)
  BY DEF DriverInit, Open, Closed
<1>7. Shape
  <2>1. written \in [Txns -> SUBSET AllCells] /\ stale \in [Txns -> SUBSET AllCells]
    BY DEF DriverInit
  <2>2. statement \in [Txns -> Statements] /\ ctx \in [Txns -> Contexts] /\ d_id \in [Txns -> Districts]
    BY <1>5, DriverAssumption DEF DriverInit, Statements
  <2>3. DOMAIN view = Txns /\ DOMAIN local = Txns /\ \A t \in Txns : view[t] = <<>> /\ written[t] = {} /\ stale[t] = {}
    BY DEF DriverInit
  <2> QED BY <1>4, <1>6, <2>1, <2>2, <2>3 DEF Shape
<1>8. Isolated
  BY <1>6 DEF Isolated, DriverInit
<1>9. \A wd \in DistrictKeys : OrdersOf(wd) = {wd}
  <2> SUFFICES ASSUME NEW wd \in DistrictKeys PROVE OrdersOf(wd) = {wd}
    OBVIOUS
  <2>1. wd \in Rows
    BY DEF Rows
  <2>2. wd \in OrdersOf(wd)
    BY <1>1, <1>2, <2>1 DEF OrdersOf
  <2>3. \A r \in OrdersOf(wd) : r = wd
    BY <1>1, <1>2, <1>3 DEF OrdersOf
  <2> QED BY <2>2, <2>3
<1>10. Ledger
  <2>1. UniqueKeys(db)
    <3> SUFFICES ASSUME NEW r \in Rows, NEW s \in Rows, db.ORDERS[r] # NoRow, db.ORDERS[s] # NoRow, Key(db.ORDERS[r]) = Key(db.ORDERS[s])
                 PROVE  r = s
      BY DEF UniqueKeys
    <3>1. r \in DistrictKeys /\ s \in DistrictKeys
      BY <1>1, <1>3
    <3>2. <<db.ORDERS[r].w, db.ORDERS[r].d>> = r /\ <<db.ORDERS[s].w, db.ORDERS[s].d>> = s
      BY <1>1, <1>2, <3>1
    <3>3. db.ORDERS[r].w = db.ORDERS[s].w /\ db.ORDERS[r].d = db.ORDERS[s].d
      BY DEF Key
    <3> QED BY <3>2, <3>3
  <2>2. Paired(db)
    BY <1>1 DEF Paired
  <2>3. \A r \in Rows : db.NEW_ORDER[r] # NoRow => db.ORDERS[r].carrier = NULL_CARRIER_ID
    BY <1>1, <1>2, <1>3
  <2>4. \A wd \in DistrictKeys : IsFiniteSet(OrdersOf(wd)) /\ Cardinality(OrdersOf(wd)) = 1
    BY <1>9, FS_Singleton
  <2>5. OrderIdsDense
    <3> SUFFICES ASSUME NEW wd \in DistrictKeys
                 PROVE  /\ {db.ORDERS[r].o : r \in OrdersOf(wd)} = 1 .. (db.D_NEXT_O_ID[wd] - 1)
                        /\ Cardinality(OrdersOf(wd)) = db.D_NEXT_O_ID[wd] - 1
      BY DEF OrderIdsDense
    <3>1. wd \in Rows /\ db.ORDERS[wd].o = 1
      BY <1>1, <1>2 DEF Rows
    <3>2. {db.ORDERS[r].o : r \in OrdersOf(wd)} = {1}
      BY <1>9, <3>1
    <3>3. db.D_NEXT_O_ID[wd] - 1 = 1 /\ 1 .. 1 = {1}
      BY <1>1
    <3> QED BY <2>4, <3>2, <3>3
  <2>6. \A t \in Txns : db.ORDERS[t] = NoRow /\ db.NEW_ORDER[t] = NoRow
    <3>1. \A t \in Txns : t \in Rows /\ t \notin DistrictKeys
      BY DriverAssumption DEF Rows
    <3> QED BY <1>1, <1>3, <3>1
  <2> QED BY <1>1, <2>1, <2>2, <2>3, <2>4, <2>5, <2>6 DEF Ledger
<1> QED BY <1>6, <1>7, <1>8, <1>10 DEF DriverInv

\* Every step keeps the invariant.
LEMMA DriverKeeps ==
  ASSUME DriverInv, [DriverNext]_driverVars
  PROVE  DriverInv'
<1>1. ASSUME UNCHANGED driverVars PROVE DriverInv'
  <2>1. UNCHANGED <<db, view, written, stale, statement, ctx, d_id, local>>
    BY <1>1 DEF driverVars
  <2>2. Shape' /\ Isolated' /\ Ledger'
    <3>1. \A t \in Txns : Open(t)' <=> Open(t)
      BY <2>1 DEF Open
    <3>2. Shape'
      BY <2>1, <3>1 DEF DriverInv, Shape, DbOK
    <3>3. Isolated'
      BY <2>1, <3>1 DEF DriverInv, Isolated
    <3>4. Ledger'
      BY <2>1, LedgerStays DEF DriverInv
    <3> QED BY <3>2, <3>3, <3>4
  <2>3. ASSUME NEW u \in Txns, Open(u)' PROVE TxnSound(u)'
    <3>1. TxnSound(u)
      BY <2>1, <2>3 DEF DriverInv, Open
    <3> QED BY <2>1, <3>1, Untouched
  <2> QED BY <2>2, <2>3 DEF DriverInv
<1>2. ASSUME NEW t \in Txns, StartTransaction(t) PROVE DriverInv'
  BY <1>2, StartKeeps
<1>3. ASSUME NEW t \in Txns, DoNewOrder(t) PROVE DriverInv'
  BY <1>3, NewOrderKeeps
<1>4. ASSUME NEW t \in Txns, DoDelivery(t) PROVE DriverInv'
  BY <1>4, DeliveryKeeps
<1>5. ASSUME NEW t \in Txns, DoPayment(t) PROVE DriverInv'
  BY <1>5, PaymentKeeps
<1>6. ASSUME NEW t \in Txns, DoOrderStatus(t) \/ DoStockLevel(t) PROVE DriverInv'
  BY <1>6, ReadersKeep
<1>7. ASSUME NEW t \in Txns, CommitTransaction(t) PROVE DriverInv'
  BY <1>7, CommitKeeps
<1>8. ASSUME NEW t \in Txns, RollBackTransaction(t) PROVE DriverInv'
  BY <1>8, RollBackKeeps
<1>9. CASE Finished
  BY <1>1, <1>9 DEF Finished
<1> QED BY <1>1, <1>2, <1>3, <1>4, <1>5, <1>6, <1>7, <1>8, <1>9 DEF DriverNext

\* The conditions of the benchmark follow from the invariant.
LEMMA OrdersFollow ==
  ASSUME DriverInv
  PROVE  OrdersSound
<1>0. Shape /\ Ledger
  BY DEF DriverInv
<1>1. DriverTypeOK
  <2>1. DOMAIN db = Columns /\ \A x \in Columns : DOMAIN db[x] = DOMAIN InitialDb[x]
    BY <1>0 DEF Shape, DbOK
  <2>2. ASSUME NEW t \in Txns PROVE view[t] # <<>> <=> Open(t)
    <3>1. CASE Open(t)
      <4>1. "ORDERS" \in DOMAIN view[t]
        BY <1>0, <3>1, ColumnsAre DEF Shape, DbOK
      <4>2. "ORDERS" \notin DOMAIN <<>>
        OBVIOUS
      <4> QED BY <3>1, <4>1, <4>2
    <3>2. CASE ~Open(t)
      BY <1>0, <3>2 DEF Shape
    <3> QED BY <3>1, <3>2
  <2>3. ASSUME NEW t \in Txns, NEW cell \in written[t] \cup stale[t]
        PROVE  cell[1] \in Columns /\ cell[2] \in DOMAIN InitialDb[cell[1]]
    <3>1. cell \in AllCells
      BY <1>0 DEF Shape
    <3>2. PICK x \in Columns : cell \in {x} \X DOMAIN InitialDb[x]
      BY <3>1 DEF AllCells
    <3> QED BY <3>2
  <2>4. \A t \in Txns : (~Open(t) => written[t] = {} /\ stale[t] = {}) /\ ctx[t] \in Contexts /\ d_id[t] \in Districts
    BY <1>0 DEF Shape
  <2> QED BY <2>1, <2>2, <2>3, <2>4 DEF DriverTypeOK
<1>2. NewOrderIsUndelivered
  <2>1. \A r \in Rows : db.NEW_ORDER[r] # NoRow <=> db.ORDERS[r] # NoRow /\ db.ORDERS[r].carrier = NULL_CARRIER_ID
    BY <1>0 DEF Ledger, Paired
  <2>2. \A r \in Rows : db.NEW_ORDER[r] # NoRow => Key(db.NEW_ORDER[r]) = Key(db.ORDERS[r])
    BY <1>0 DEF Ledger, Paired
  <2> QED BY <2>1, <2>2 DEF NewOrderIsUndelivered
<1>3. OrderIdsDense
  BY <1>0 DEF Ledger
<1> QED BY <1>1, <1>2, <1>3 DEF OrdersSound

\* For any number of connections, warehouses, districts and customers: the
\* order ids of a district are dense and each is given once, and NEW_ORDER has
\* exactly the orders that are not delivered.
THEOREM OrdersSafe == DriverSpec => []OrdersSound
<1>1. DriverInit => DriverInv
  BY DriverStarts
<1>2. DriverInv /\ [DriverNext]_driverVars => DriverInv'
  BY DriverKeeps
<1>3. DriverInv => OrdersSound
  BY OrdersFollow
<1> QED BY <1>1, <1>2, <1>3, PTL DEF DriverSpec
-----------------------------------------------------------------------------
(***************************************************************************)
(* The accounts.  A payment adds its amount to cells that no other open    *)
(* transaction can write, so that what it adds to is still committed when  *)
(* it commits; a delivery credits each order once.                         *)
(***************************************************************************)
Payments == {t \in Txns : db.HISTORY[t] # <<>>}
WarehouseCell(t) == <<"W_YTD", ctx[t].w_id>>
DistrictCell(t) == <<"D_YTD", Home(t)>>
CustomerCell(t) == <<"CUSTOMER", Payer(t)>>
HistoryCell(t) == <<"HISTORY", t>>
Receipt(t) == Payer(t) \o Home(t)

PaymentSound(t) ==
  /\ statement[t] = "warehouse" => written[t] = {}
  /\ statement[t] = "district" => written[t] = {WarehouseCell(t)}
  /\ statement[t] = "pay" => written[t] = {WarehouseCell(t), DistrictCell(t)}
  /\ statement[t] = "history" => written[t] = {WarehouseCell(t), DistrictCell(t), CustomerCell(t)}
  /\ statement[t] = "commit" => written[t] = {WarehouseCell(t), DistrictCell(t), CustomerCell(t), HistoryCell(t)}
  /\ statement[t] # "warehouse" => view[t].W_YTD[ctx[t].w_id] = db.W_YTD[ctx[t].w_id] + HAmount
  /\ statement[t] \in {"pay", "history", "commit"} => view[t].D_YTD[Home(t)] = db.D_YTD[Home(t)] + HAmount
  /\ statement[t] = "commit" => view[t].HISTORY[t] = Receipt(t)

PaidSound(t) ==
  /\ ctx[t].type = "PAYMENT" => PaymentSound(t)
  /\ ctx[t].type \in {"ORDER_STATUS", "STOCK_LEVEL"} => written[t] = {}

\* The committed payments.
Books ==
  /\ IsFiniteSet(Payments) /\ YtdBalanced
  /\ \A t \in Txns : statement[t] # "committed" => db.HISTORY[t] = <<>>

YtdInv ==
  /\ Books
  /\ \A t \in Txns : Open(t) => PaidSound(t)

\* Three values and two.
LEMMA FiveJoined ==
  ASSUME NEW S, NEW a \in S, NEW b \in S, NEW c \in S, NEW d \in S, NEW e \in S
  PROVE  /\ <<a, b, c>> \o <<d, e>> = <<a, b, c, d, e>>
         /\ SubSeq(<<a, b, c, d, e>>, 1, 3) = <<a, b, c>>
<1>1. PICK p : p = <<a, b, c>>
  OBVIOUS
<1>1a. p \in Seq(S) /\ Len(p) = 3 /\ p[1] = a /\ p[2] = b /\ p[3] = c
  BY <1>1
<1>2. PICK q : q = <<d, e>>
  OBVIOUS
<1>2a. q \in Seq(S) /\ Len(q) = 2 /\ q[1] = d /\ q[2] = e
  BY <1>2
<1>3. PICK x : x = <<a, b, c, d, e>>
  OBVIOUS
<1>3a. x \in Seq(S) /\ Len(x) = 5 /\ x[1] = a /\ x[2] = b /\ x[3] = c /\ x[4] = d /\ x[5] = e
  BY <1>3
<1>4. p \o q \in Seq(S) /\ Len(p \o q) = 5 /\ \A i \in 1 .. 5 : (p \o q)[i] = x[i]
  <2>1. p \o q \in Seq(S) /\ Len(p \o q) = 5 /\ \A i \in 1 .. 5 : (p \o q)[i] = IF i <= 3 THEN p[i] ELSE q[i - 3]
    BY <1>1, <1>1a, <1>2, <1>2a, ConcatProperties
  <2> QED BY <1>1, <1>1a, <1>2, <1>2a, <1>3, <1>3a, <2>1
<1>5. p \o q = x
  BY <1>3, <1>3a, <1>4, SeqEqual
<1>6. SubSeq(x, 1, 3) \in Seq(S) /\ Len(SubSeq(x, 1, 3)) = 3 /\ \A i \in 1 .. 3 : SubSeq(x, 1, 3)[i] = p[i]
  <2>1. SubSeq(x, 1, 3) \in Seq(S) /\ Len(SubSeq(x, 1, 3)) = 3 /\ \A i \in 1 .. 3 : SubSeq(x, 1, 3)[i] = x[i]
    BY <1>3, <1>3a
  <2> QED BY <1>1, <1>1a, <1>3, <1>3a, <2>1
<1>7. SubSeq(x, 1, 3) = p
  BY <1>1, <1>1a, <1>6, SeqEqual
<1> QED BY <1>1, <1>1a, <1>2, <1>2a, <1>3, <1>3a, <1>5, <1>7

\* What a receipt says.
LEMMA ReceiptIs ==
  ASSUME Shape, NEW t \in Txns
  PROVE  /\ Receipt(t) # <<>> /\ Receipt(t)[4] = ctx[t].w_id /\ Receipt(t)[5] = ctx[t].d_id
         /\ SubSeq(Receipt(t), 1, 3) = Payer(t)
<1>1. PICK x : x = ctx[t]
  OBVIOUS
<1>2. PICK S : S = {x.c_w_id, x.c_d_id, x.c_id, x.w_id, x.d_id}
  OBVIOUS
<1>3. /\ <<x.c_w_id, x.c_d_id, x.c_id>> \o <<x.w_id, x.d_id>> = <<x.c_w_id, x.c_d_id, x.c_id, x.w_id, x.d_id>>
      /\ SubSeq(<<x.c_w_id, x.c_d_id, x.c_id, x.w_id, x.d_id>>, 1, 3) = <<x.c_w_id, x.c_d_id, x.c_id>>
  BY <1>2, FiveJoined
<1>4. Receipt(t) = <<x.c_w_id, x.c_d_id, x.c_id, x.w_id, x.d_id>>
  BY <1>1, <1>3 DEF Receipt, Payer, Home
<1> QED BY <1>1, <1>3, <1>4 DEF Payer

\* What is known of a payment when it does nothing and nothing it has written is committed.
LEMMA PaidStays ==
  ASSUME NEW u \in Txns, Shape, Open(u), PaidSound(u), statement'[u] = statement[u], ctx'[u] = ctx[u],
         view'[u] = view[u], written'[u] = written[u],
         \A x \in Columns : \A q \in DOMAIN InitialDb[x] : <<x, q>> \in written[u] => db'[x][q] = db[x][q]
  PROVE  PaidSound(u)'
<1>1. /\ Home(u)' = Home(u) /\ WarehouseCell(u)' = WarehouseCell(u) /\ DistrictCell(u)' = DistrictCell(u)
      /\ CustomerCell(u)' = CustomerCell(u) /\ HistoryCell(u)' = HistoryCell(u) /\ Receipt(u)' = Receipt(u)
  BY DEF Home, WarehouseCell, DistrictCell, CustomerCell, HistoryCell, Receipt, Payer
<1>2. /\ {"W_YTD", "D_YTD"} \subseteq Columns /\ ctx[u].w_id \in DOMAIN InitialDb["W_YTD"] /\ Home(u) \in DOMAIN InitialDb["D_YTD"]
  BY ColumnsAre, ContextIs
<1>3. CASE ctx[u].type = "PAYMENT"
  <2>0. PaymentSound(u)
    BY <1>3 DEF PaidSound
  <2>1. statement[u] \in {"warehouse", "district", "pay", "history", "commit"}
    <3>1. StatementsOf["PAYMENT"] = {"warehouse", "district", "pay", "history"}
      BY DEF StatementsOf
    <3> QED BY <1>3, <3>1 DEF Shape
  <2>2. statement[u] # "warehouse" => WarehouseCell(u) \in written[u]
    BY <2>0, <2>1 DEF PaymentSound
  <2>3. statement[u] \in {"pay", "history", "commit"} => DistrictCell(u) \in written[u]
    BY <2>0, <2>1 DEF PaymentSound
  <2>4. statement[u] # "warehouse" => db'.W_YTD[ctx[u].w_id] = db.W_YTD[ctx[u].w_id]
    BY <1>2, <2>2 DEF WarehouseCell
  <2>5. statement[u] \in {"pay", "history", "commit"} => db'.D_YTD[Home(u)] = db.D_YTD[Home(u)]
    BY <1>2, <2>3 DEF DistrictCell
  <2>6. PaymentSound(u)'
    BY <1>1, <2>0, <2>4, <2>5 DEF PaymentSound
  <2> QED BY <1>3, <2>6 DEF PaidSound
<1>4. CASE ctx[u].type # "PAYMENT"
  BY <1>4 DEF PaidSound
<1> QED BY <1>3, <1>4

\* Nothing is committed.
LEMMA BooksStay ==
  ASSUME Books, db' = db, \A t \in Txns : statement[t] = "committed" => statement'[t] = "committed"
  PROVE  Books'
<1>1. Payments' = Payments /\ (\A w \in WarehouseIds : PaymentsThrough(w)' = PaymentsThrough(w))
      /\ \A wd \in DistrictKeys : PaymentsIn(wd)' = PaymentsIn(wd)
  BY DEF Payments, PaymentsThrough, PaymentsIn
<1> QED BY <1>1 DEF Books, YtdBalanced

\* A statement of one transaction changes nothing of another and commits nothing.
Moves(t) ==
  /\ db' = db /\ ctx' = ctx /\ statement'[t] \notin Closed
  /\ \A u \in Txns : u # t => /\ statement'[u] = statement[u] /\ view'[u] = view[u] /\ written'[u] = written[u]
                             /\ local'[u] = local[u]

\* All statements between the start and the end are such.
LEMMA StatementMoves ==
  ASSUME Shape, NEW t \in Txns, DoNewOrder(t) \/ DoDelivery(t) \/ DoPayment(t) \/ DoOrderStatus(t) \/ DoStockLevel(t)
  PROVE  Open(t) /\ Moves(t)
<1>0. DOMAIN view = Txns /\ DOMAIN local = Txns /\ statement \in [Txns -> Statements] /\ written \in [Txns -> SUBSET AllCells]
  BY DEF Shape
<1>1. ASSUME NEW c, NEW r, NEW v, Set(t, c, r, v)
      PROVE  db' = db /\ ctx' = ctx /\ \A u \in Txns : u # t => view'[u] = view[u] /\ written'[u] = written[u]
  BY <1>0, <1>1 DEF Set
<1>2. ASSUME NEW to, GotoStatement(t, to), to \notin Closed
      PROVE  statement'[t] \notin Closed /\ \A u \in Txns : u # t => statement'[u] = statement[u]
  BY <1>0, <1>2 DEF GotoStatement
<1>3. {"order", "new_order", "commit", "find", "delete", "carrier", "customer", "district", "pay", "history"} \cap Closed = {}
  BY DEF Closed
<1>4. ASSUME NextDistrict(t)
      PROVE  /\ statement'[t] \notin Closed
             /\ \A u \in Txns : u # t => statement'[u] = statement[u] /\ local'[u] = local[u]
  BY <1>0, <1>2, <1>3, <1>4 DEF NextDistrict
<1>5. CASE DoNewOrder(t)
  <2>1. CASE NEWORDER_IncrementNextOrderId(t)
    BY <1>0, <1>1, <1>2, <1>3, <2>1, Stage DEF NEWORDER_IncrementNextOrderId, Moves
  <2>2. CASE NEWORDER_CreateOrder(t)
    BY <1>0, <1>1, <1>2, <1>3, <2>2, Stage DEF NEWORDER_CreateOrder, Moves
  <2>3. CASE NEWORDER_CreateNewOrder(t)
    BY <1>0, <1>1, <1>2, <1>3, <2>3, Stage DEF NEWORDER_CreateNewOrder, Moves
  <2> QED BY <1>5, <2>1, <2>2, <2>3 DEF DoNewOrder
<1>6. CASE DoDelivery(t)
  <2>1. CASE DELIVERY_GetNewOrder(t)
    <3>1. statement[t] = "find" /\ UNCHANGED <<db, view, written, stale, ctx>>
      BY <2>1 DEF DELIVERY_GetNewOrder
    <3>2. CASE NextDistrict(t)
      BY <1>4, <3>1, <3>2, Stage DEF Moves
    <3>3. CASE ~NextDistrict(t)
      <4>1. PICK r : local' = [local EXCEPT ![t] = r] /\ GotoStatement(t, "delete")
        BY <2>1, <3>3 DEF DELIVERY_GetNewOrder
      <4> QED BY <1>0, <1>2, <1>3, <3>1, <4>1, Stage DEF Moves
    <3> QED BY <3>2, <3>3
  <2>2. CASE DELIVERY_DeleteNewOrder(t)
    BY <1>0, <1>1, <1>2, <1>3, <2>2, Stage DEF DELIVERY_DeleteNewOrder, Moves
  <2>3. CASE DELIVERY_UpdateOrders(t)
    BY <1>0, <1>1, <1>2, <1>3, <2>3, Stage DEF DELIVERY_UpdateOrders, Moves
  <2>4. CASE DELIVERY_UpdateCustomer(t)
    BY <1>0, <1>1, <1>4, <2>4, Stage DEF DELIVERY_UpdateCustomer, Moves
  <2> QED BY <1>6, <2>1, <2>2, <2>3, <2>4 DEF DoDelivery
<1>7. CASE DoPayment(t)
  <2>1. CASE PAYMENT_UpdateWarehouseBalance(t)
    BY <1>0, <1>1, <1>2, <1>3, <2>1, Stage DEF PAYMENT_UpdateWarehouseBalance, Moves
  <2>2. CASE PAYMENT_UpdateDistrictBalance(t)
    BY <1>0, <1>1, <1>2, <1>3, <2>2, Stage DEF PAYMENT_UpdateDistrictBalance, Moves
  <2>3. CASE PAYMENT_UpdateCustomer(t)
    BY <1>0, <1>1, <1>2, <1>3, <2>3, Stage DEF PAYMENT_UpdateCustomer, Moves
  <2>4. CASE PAYMENT_InsertHistory(t)
    BY <1>0, <1>1, <1>2, <1>3, <2>4, Stage DEF PAYMENT_InsertHistory, Moves
  <2> QED BY <1>7, <2>1, <2>2, <2>3, <2>4 DEF DoPayment
<1>8. CASE DoOrderStatus(t)
  BY <1>0, <1>2, <1>3, <1>8, Stage DEF DoOrderStatus, Moves
<1>9. CASE DoStockLevel(t)
  BY <1>0, <1>2, <1>3, <1>9, Stage DEF DoStockLevel, Moves
<1> QED BY <1>5, <1>6, <1>7, <1>8, <1>9

\* So only what is known of that transaction has to be shown.
LEMMA YtdMoves ==
  ASSUME Shape, YtdInv, NEW t \in Txns, Open(t), Moves(t), PaidSound(t)'
  PROVE  YtdInv'
<1>1. \A u \in Txns : Open(u)' => Open(u)
  BY DEF Moves, Open
<1>2. Books'
  BY BooksStay DEF YtdInv, Moves, Open, Closed
<1>3. ASSUME NEW u \in Txns, u # t, Open(u)' PROVE PaidSound(u)'
  BY <1>1, <1>3, PaidStays DEF YtdInv, Moves
<1> QED BY <1>2, <1>3 DEF YtdInv
\* DoPayment adds to what is committed, because the cell it sets is not stale.
LEMMA PaymentPays ==
  ASSUME DriverInv, YtdInv, NEW t \in Txns, DoPayment(t)
  PROVE  PaymentSound(t)'
<1>0. Shape /\ Isolated /\ DOMAIN local = Txns /\ statement \in [Txns -> Statements]
  BY DEF DriverInv, Shape
<1>1. Open(t) /\ ctx[t].type = "PAYMENT"
  BY <1>0, Stage DEF DoPayment, PAYMENT_UpdateWarehouseBalance, PAYMENT_UpdateDistrictBalance, PAYMENT_UpdateCustomer,
                     PAYMENT_InsertHistory
<1>2. PaymentSound(t)
  BY <1>1 DEF YtdInv, PaidSound
<1>3. PICK w, h, k : w = ctx[t].w_id /\ h = Home(t) /\ k = Payer(t)
  OBVIOUS
<1>4. /\ {"W_YTD", "D_YTD", "CUSTOMER", "HISTORY"} \subseteq Columns
      /\ w \in DOMAIN InitialDb["W_YTD"] /\ h \in DOMAIN InitialDb["D_YTD"]
      /\ k \in DOMAIN InitialDb["CUSTOMER"] /\ t \in DOMAIN InitialDb["HISTORY"]
  BY <1>0, <1>3, ColumnsAre, ContextIs
<1>5. /\ WarehouseCell(t) = <<"W_YTD", w>> /\ DistrictCell(t) = <<"D_YTD", h>> /\ CustomerCell(t) = <<"CUSTOMER", k>>
  BY <1>3 DEF WarehouseCell, DistrictCell, CustomerCell
<1>6. ASSUME ctx' = ctx
      PROVE  /\ ctx'[t].w_id = w /\ Home(t)' = h /\ WarehouseCell(t)' = WarehouseCell(t) /\ DistrictCell(t)' = DistrictCell(t)
             /\ CustomerCell(t)' = CustomerCell(t) /\ HistoryCell(t)' = HistoryCell(t) /\ Receipt(t)' = Receipt(t)
  BY <1>3, <1>6 DEF WarehouseCell, DistrictCell, CustomerCell, HistoryCell, Receipt, Home, Payer
<1>7. CASE PAYMENT_UpdateWarehouseBalance(t)
  <2>1. PICK v : v = view[t].W_YTD[w] + HAmount
    OBVIOUS
  <2>2. Set(t, "W_YTD", w, v) /\ statement[t] = "warehouse" /\ statement'[t] = "district"
    BY <1>0, <1>3, <1>7, <2>1 DEF PAYMENT_UpdateWarehouseBalance, GotoStatement
  <2>3. CellSet(t, "W_YTD", w, v)
    BY <1>0, <1>1, <1>4, <2>2, SetCell
  <2>4. written[t] = {} /\ <<"W_YTD", w>> \notin stale[t]
    BY <1>2, <2>2, <2>3 DEF PaymentSound, CellSet
  <2>5. view[t].W_YTD[w] = db.W_YTD[w]
    BY <1>0, <1>1, <1>4, <2>4 DEF Isolated
  <2>6. view'[t].W_YTD[w] = v /\ written'[t] = {WarehouseCell(t)} /\ db' = db /\ ctx' = ctx
    BY <1>4, <1>5, <2>3, <2>4 DEF CellSet
  <2> QED BY <1>6, <2>1, <2>2, <2>5, <2>6 DEF PaymentSound
<1>8. CASE PAYMENT_UpdateDistrictBalance(t)
  <2>1. PICK v : v = view[t].D_YTD[h] + HAmount
    OBVIOUS
  <2>2. Set(t, "D_YTD", h, v) /\ statement[t] = "district" /\ statement'[t] = "pay"
    BY <1>0, <1>3, <1>8, <2>1 DEF PAYMENT_UpdateDistrictBalance, GotoStatement
  <2>3. CellSet(t, "D_YTD", h, v)
    BY <1>0, <1>1, <1>4, <2>2, SetCell
  <2>4. written[t] = {WarehouseCell(t)} /\ <<"D_YTD", h>> \notin stale[t] /\ <<"D_YTD", h>> \notin written[t]
    BY <1>2, <1>5, <2>2, <2>3 DEF PaymentSound, CellSet
  <2>5. view[t].D_YTD[h] = db.D_YTD[h]
    BY <1>0, <1>1, <1>4, <2>4 DEF Isolated
  <2>6. /\ view'[t].D_YTD[h] = v /\ view'[t].W_YTD[w] = view[t].W_YTD[w] /\ written'[t] = {WarehouseCell(t), DistrictCell(t)}
        /\ db' = db /\ ctx' = ctx
    BY <1>4, <1>5, <2>3, <2>4 DEF CellSet
  <2> QED BY <1>2, <1>3, <1>6, <2>1, <2>2, <2>5, <2>6 DEF PaymentSound
<1>9. CASE PAYMENT_UpdateCustomer(t)
  <2>1. PICK v : Set(t, "CUSTOMER", k, v)
    BY <1>3, <1>9 DEF PAYMENT_UpdateCustomer
  <2>2. statement[t] = "pay" /\ statement'[t] = "history"
    BY <1>0, <1>9 DEF PAYMENT_UpdateCustomer, GotoStatement
  <2>3. CellSet(t, "CUSTOMER", k, v)
    BY <1>0, <1>1, <1>4, <2>1, SetCell
  <2>4. /\ view'[t].D_YTD[h] = view[t].D_YTD[h] /\ view'[t].W_YTD[w] = view[t].W_YTD[w]
        /\ written'[t] = written[t] \cup {CustomerCell(t)} /\ db' = db /\ ctx' = ctx
    BY <1>4, <1>5, <2>3 DEF CellSet
  <2> QED BY <1>2, <1>3, <1>6, <2>2, <2>4 DEF PaymentSound
<1>10. CASE PAYMENT_InsertHistory(t)
  <2>1. Set(t, "HISTORY", t, Receipt(t)) /\ statement[t] = "history" /\ statement'[t] = "commit"
    BY <1>0, <1>10 DEF PAYMENT_InsertHistory, GotoStatement, Receipt
  <2>2. CellSet(t, "HISTORY", t, Receipt(t))
    BY <1>0, <1>1, <1>4, <2>1, SetCell
  <2>3. /\ view'[t].D_YTD[h] = view[t].D_YTD[h] /\ view'[t].W_YTD[w] = view[t].W_YTD[w] /\ view'[t].HISTORY[t] = Receipt(t)
        /\ written'[t] = written[t] \cup {HistoryCell(t)} /\ db' = db /\ ctx' = ctx
    BY <1>4, <2>2 DEF CellSet, HistoryCell
  <2> QED BY <1>2, <1>3, <1>6, <2>1, <2>3 DEF PaymentSound
<1> QED BY <1>7, <1>8, <1>9, <1>10 DEF DoPayment

\* A product with one more.
LEMMA OneMore ==
  ASSUME NEW a \in Int, NEW n \in Int
  PROVE  a * (n + 1) = a * n + a /\ a * n \in Int
OBVIOUS

\* A sum of money grows by one payment.
LEMMA OnePaymentMore ==
  ASSUME NEW a \in Int, NEW S, IsFiniteSet(S), NEW t, t \notin S
  PROVE  IsFiniteSet(S \cup {t}) /\ Cardinality(S \cup {t}) = Cardinality(S) + 1 /\ Cardinality(S) \in Nat
         /\ a * Cardinality(S \cup {t}) = a * Cardinality(S) + a
<1>1. IsFiniteSet(S \cup {t}) /\ Cardinality(S \cup {t}) = Cardinality(S) + 1 /\ Cardinality(S) \in Nat
  BY FS_AddElement, FS_CardinalityType
<1> QED BY <1>1, OneMore

\* A commit that makes no payment.
LEMMA BooksKept ==
  ASSUME Books, NEW t \in Txns, Publishes(t),
         \A cell \in written[t] : cell[1] \notin {"W_YTD", "D_YTD", "HISTORY"}
  PROVE  Books'
<1>1. /\ {"W_YTD", "D_YTD", "HISTORY"} \subseteq Columns /\ DOMAIN InitialDb["W_YTD"] = WarehouseIds
      /\ DOMAIN InitialDb["D_YTD"] = DistrictKeys /\ DOMAIN InitialDb["HISTORY"] = Txns
  BY ColumnsAre
<1>2. \A w \in WarehouseIds : db'.W_YTD[w] = db.W_YTD[w]
  BY <1>1 DEF Publishes
<1>3. \A wd \in DistrictKeys : db'.D_YTD[wd] = db.D_YTD[wd]
  BY <1>1 DEF Publishes
<1>4. \A u \in Txns : db'.HISTORY[u] = db.HISTORY[u]
  BY <1>1 DEF Publishes
<1>5. /\ Payments' = Payments /\ (\A w \in WarehouseIds : PaymentsThrough(w)' = PaymentsThrough(w))
      /\ \A wd \in DistrictKeys : PaymentsIn(wd)' = PaymentsIn(wd)
  BY <1>4 DEF Payments, PaymentsThrough, PaymentsIn
<1>6. YtdBalanced'
  BY <1>2, <1>3, <1>5 DEF Books, YtdBalanced
<1>7. \A u \in Txns : statement'[u] # "committed" => db'.HISTORY[u] = <<>>
  BY <1>4 DEF Books, Publishes
<1> QED BY <1>5, <1>6, <1>7 DEF Books

\* A commit of a payment.
LEMMA BooksGrow ==
  ASSUME Shape, Books, NEW t \in Txns, Publishes(t), statement[t] = "commit", PaymentSound(t)
  PROVE  Books'
<1>1. /\ {"W_YTD", "D_YTD", "HISTORY"} \subseteq Columns /\ DOMAIN InitialDb["W_YTD"] = WarehouseIds
      /\ DOMAIN InitialDb["D_YTD"] = DistrictKeys /\ DOMAIN InitialDb["HISTORY"] = Txns
  BY ColumnsAre
<1>2. PICK W, h, R : W = ctx[t].w_id /\ h = Home(t) /\ R = Receipt(t)
  OBVIOUS
<1>3. W \in WarehouseIds /\ h \in DistrictKeys /\ R # <<>> /\ R[4] = W /\ <<R[4], R[5]>> = h
  BY <1>2, ContextIs, ReceiptIs DEF Home
<1>4. /\ written[t] = {<<"W_YTD", W>>, <<"D_YTD", h>>, <<"CUSTOMER", Payer(t)>>, <<"HISTORY", t>>}
      /\ view[t].W_YTD[W] = db.W_YTD[W] + HAmount /\ view[t].D_YTD[h] = db.D_YTD[h] + HAmount /\ view[t].HISTORY[t] = R
  BY <1>2 DEF PaymentSound, WarehouseCell, DistrictCell, CustomerCell, HistoryCell
<1>5. \A w \in WarehouseIds : db'.W_YTD[w] = IF w = W THEN db.W_YTD[W] + HAmount ELSE db.W_YTD[w]
  BY <1>1, <1>4 DEF Publishes
<1>6. \A wd \in DistrictKeys : db'.D_YTD[wd] = IF wd = h THEN db.D_YTD[h] + HAmount ELSE db.D_YTD[wd]
  BY <1>1, <1>4 DEF Publishes
<1>7. \A u \in Txns : db'.HISTORY[u] = IF u = t THEN R ELSE db.HISTORY[u]
  BY <1>1, <1>4 DEF Publishes
<1>8. db.HISTORY[t] = <<>>
  BY DEF Books
<1>9. /\ Payments' = Payments \cup {t} /\ t \notin Payments
      /\ \A w \in WarehouseIds : PaymentsThrough(w)' = (IF w = W THEN PaymentsThrough(w) \cup {t} ELSE PaymentsThrough(w))
      /\ \A wd \in DistrictKeys : PaymentsIn(wd)' = (IF wd = h THEN PaymentsIn(wd) \cup {t} ELSE PaymentsIn(wd))
  <2>1. Payments' = Payments \cup {t} /\ t \notin Payments
    BY <1>3, <1>7, <1>8 DEF Payments
  <2>2. ASSUME NEW w \in WarehouseIds
        PROVE  PaymentsThrough(w)' = (IF w = W THEN PaymentsThrough(w) \cup {t} ELSE PaymentsThrough(w))
    BY <1>3, <1>7, <1>8 DEF PaymentsThrough
  <2>3. ASSUME NEW wd \in DistrictKeys
        PROVE  PaymentsIn(wd)' = (IF wd = h THEN PaymentsIn(wd) \cup {t} ELSE PaymentsIn(wd))
    BY <1>3, <1>7, <1>8 DEF PaymentsIn
  <2> QED BY <2>1, <2>2, <2>3
<1>10. /\ \A w \in WarehouseIds : IsFiniteSet(PaymentsThrough(w)) /\ t \notin PaymentsThrough(w)
       /\ \A wd \in DistrictKeys : IsFiniteSet(PaymentsIn(wd)) /\ t \notin PaymentsIn(wd)
  <2>1. /\ \A w \in WarehouseIds : PaymentsThrough(w) \subseteq Payments
        /\ \A wd \in DistrictKeys : PaymentsIn(wd) \subseteq Payments
    BY DEF Payments, PaymentsThrough, PaymentsIn
  <2>2. IsFiniteSet(Payments) /\ t \notin Payments
    BY <1>9 DEF Books
  <2> QED BY <2>1, <2>2, FS_Subset
<1>11. HAmount \in Int
  BY DriverAssumption
<1>12. ASSUME NEW w \in WarehouseIds PROVE db'.W_YTD[w] = HAmount * Cardinality(PaymentsThrough(w)')
  <2>1. db.W_YTD[w] = HAmount * Cardinality(PaymentsThrough(w))
    BY DEF Books, YtdBalanced
  <2>2. PICK S : S = PaymentsThrough(w)
    OBVIOUS
  <2>3. HAmount * Cardinality(S \cup {t}) = HAmount * Cardinality(S) + HAmount
    BY <1>10, <1>11, <2>2, OnePaymentMore
  <2> QED BY <1>5, <1>9, <2>1, <2>2, <2>3
<1>13. ASSUME NEW wd \in DistrictKeys PROVE db'.D_YTD[wd] = HAmount * Cardinality(PaymentsIn(wd)')
  <2>1. db.D_YTD[wd] = HAmount * Cardinality(PaymentsIn(wd))
    BY DEF Books, YtdBalanced
  <2>2. PICK S : S = PaymentsIn(wd)
    OBVIOUS
  <2>3. HAmount * Cardinality(S \cup {t}) = HAmount * Cardinality(S) + HAmount
    BY <1>10, <1>11, <2>2, OnePaymentMore
  <2> QED BY <1>6, <1>9, <2>1, <2>2, <2>3
<1>14. IsFiniteSet(Payments')
  <2>1. PICK S : S = Payments
    OBVIOUS
  <2>2. IsFiniteSet(S \cup {t})
    BY <1>9, <1>11, <2>1, OnePaymentMore DEF Books
  <2> QED BY <1>9, <2>1, <2>2
<1>15. \A u \in Txns : statement'[u] # "committed" => db'.HISTORY[u] = <<>>
  BY <1>7 DEF Books, Publishes
<1> QED BY <1>12, <1>13, <1>14, <1>15 DEF Books, YtdBalanced
\* What transactions that are not payments have written when they commit.
LEMMA WrittenTables ==
  ASSUME DriverInv, YtdInv, NEW t \in Txns, statement[t] = "commit", ctx[t].type # "PAYMENT"
  PROVE  /\ \A cell \in written[t] : cell[1] \notin {"W_YTD", "D_YTD", "HISTORY"}
         /\ ctx[t].type # "DELIVERY" => \A cell \in written[t] : cell[1] # "CUSTOMER"
<1>0. Shape /\ Open(t) /\ ctx[t] \in Contexts
  BY Stage DEF DriverInv, Shape
<1>1. ctx[t].type \in {"NEW_ORDER", "DELIVERY", "ORDER_STATUS", "STOCK_LEVEL"}
  BY <1>0 DEF Contexts
<1>2. CASE ctx[t].type = "NEW_ORDER"
  <2>1. NewOrderSound(t)
    BY <1>0, <1>2 DEF DriverInv, TxnSound
  <2> QED BY <1>2, <2>1 DEF NewOrderSound, Number, OrderCell, NewOrderCell
<1>3. CASE ctx[t].type = "DELIVERY"
  <2>1. DeliverySound(t)
    BY <1>0, <1>3 DEF DriverInv, TxnSound
  <2> QED BY <1>3, <2>1 DEF DeliverySound
<1>4. CASE ctx[t].type \in {"ORDER_STATUS", "STOCK_LEVEL"}
  BY <1>0, <1>4 DEF YtdInv, PaidSound
<1> QED BY <1>1, <1>2, <1>3, <1>4

\* What another open transaction has written is not committed.
LEMMA OthersCells ==
  ASSUME Isolated, NEW t \in Txns, Publishes(t), NEW u \in Txns, u # t
  PROVE  \A x \in Columns : \A q \in DOMAIN InitialDb[x] : <<x, q>> \in written[u] => db'[x][q] = db[x][q]
BY DEF Isolated, Publishes

\* A commit keeps what is known of the payments.
LEMMA YtdCommits ==
  ASSUME DriverInv, YtdInv, NEW t \in Txns, CommitTransaction(t)
  PROVE  YtdInv'
<1>0. Shape /\ Isolated /\ Books /\ statement[t] = "commit"
  BY DEF DriverInv, YtdInv, CommitTransaction
<1>1. Publishes(t) /\ Open(t)
  BY <1>0, CommitDoes, Stage
<1>2. \A u \in Txns : Open(u)' => u # t /\ Open(u)
  BY <1>1 DEF Open, Closed, Publishes
<1>3. Books'
  <2>1. CASE ctx[t].type = "PAYMENT"
    BY <1>0, <1>1, <2>1, BooksGrow DEF YtdInv, PaidSound
  <2>2. CASE ctx[t].type # "PAYMENT"
    BY <1>0, <1>1, <2>2, BooksKept, WrittenTables
  <2> QED BY <2>1, <2>2
<1>4. ASSUME NEW u \in Txns, Open(u)' PROVE PaidSound(u)'
  <2>1. u # t /\ Open(u) /\ PaidSound(u)
    BY <1>2, <1>4 DEF YtdInv
  <2>2. statement'[u] = statement[u] /\ ctx'[u] = ctx[u] /\ view'[u] = view[u] /\ written'[u] = written[u]
    BY <1>1, <2>1 DEF Publishes
  <2>3. \A x \in Columns : \A q \in DOMAIN InitialDb[x] : <<x, q>> \in written[u] => db'[x][q] = db[x][q]
    BY <1>0, <1>1, <2>1, OthersCells
  <2> QED BY <1>0, <2>1, <2>2, <2>3, PaidStays
<1> QED BY <1>3, <1>4 DEF YtdInv

\* A transaction that starts or ends without a commit: what is known of the others stays.
Leaves(t) ==
  /\ db' = db /\ (statement[t] = "committed" => statement'[t] = "committed")
  /\ \A u \in Txns : u # t => /\ statement'[u] = statement[u] /\ view'[u] = view[u] /\ written'[u] = written[u]
                             /\ ctx'[u] = ctx[u] /\ local'[u] = local[u]

\* A transaction that starts is in its first statement and has written nothing.
LEMMA StartLeaves ==
  ASSUME Shape, NEW t \in Txns, StartTransaction(t)
  PROVE  /\ Leaves(t) /\ Open(t)' /\ written'[t] = {} /\ view'[t] = db
         /\ ctx'[t].type = "PAYMENT" => statement'[t] = "warehouse"
         /\ ctx'[t].type = "DELIVERY" => statement'[t] = "find"
<1>0. /\ DOMAIN view = Txns /\ statement \in [Txns -> Statements] /\ ctx \in [Txns -> Contexts] /\ statement[t] = "idle"
      /\ ~Open(t)
  BY DEF Shape, StartTransaction, Open, Closed
<1>1. PICK x \in Contexts : ctx' = [ctx EXCEPT ![t] = x] /\ GotoStatement(t, FirstStatement(x.type))
  BY DEF StartTransaction
<1>2. PICK to : to = FirstStatement(x.type)
  OBVIOUS
<1>3. statement'[t] = to /\ ctx'[t] = x /\ \A u \in Txns : u # t => statement'[u] = statement[u] /\ ctx'[u] = ctx[u]
  BY <1>0, <1>1, <1>2 DEF GotoStatement
<1>4. x.type \in {"NEW_ORDER", "DELIVERY", "PAYMENT", "ORDER_STATUS", "STOCK_LEVEL"}
  BY DEF Contexts
<1>5. to \notin Closed
  BY <1>2, <1>4 DEF FirstStatement, Closed
<1>6. (x.type = "PAYMENT" => to = "warehouse") /\ (x.type = "DELIVERY" => to = "find")
  BY <1>2 DEF FirstStatement
<1>7. written' = written /\ local' = local /\ db' = db /\ view' = [view EXCEPT ![t] = db] /\ written[t] = {}
  BY <1>0 DEF StartTransaction, Shape
<1> QED BY <1>0, <1>3, <1>5, <1>6, <1>7 DEF Leaves, Open

\* A rollback is such an end.
LEMMA RollBackLeaves ==
  ASSUME Shape, NEW t \in Txns, RollBackTransaction(t)
  PROVE  Leaves(t) /\ ~Open(t)'
<1>0. /\ DOMAIN view = Txns /\ statement \in [Txns -> Statements] /\ DOMAIN local = Txns
      /\ written \in [Txns -> SUBSET AllCells] /\ statement[t] # "committed"
  BY DEF Shape, RollBackTransaction, Open, Closed
<1> QED BY <1>0 DEF RollBackTransaction, Leaves, GotoStatement, Forget, Open, Closed

\* Neither touches the payments.
LEMMA YtdLeaves ==
  ASSUME Shape, YtdInv, NEW t \in Txns, Leaves(t), Open(t)' => PaidSound(t)'
  PROVE  YtdInv'
<1>1. Books'
  BY BooksStay DEF YtdInv, Leaves
<1>2. ASSUME NEW u \in Txns, u # t, Open(u)' PROVE PaidSound(u)'
  <2>1. Open(u)
    BY <1>2 DEF Open, Leaves
  <2> QED BY <1>2, <2>1, PaidStays DEF YtdInv, Leaves
<1> QED BY <1>1, <1>2 DEF YtdInv

\* Nothing is paid at the start.
LEMMA YtdStarts ==
  ASSUME DriverInit
  PROVE  YtdInv
<1>1. /\ \A w \in WarehouseIds : db.W_YTD[w] = 0
      /\ \A wd \in DistrictKeys : db.D_YTD[wd] = 0
      /\ \A t \in Txns : db.HISTORY[t] = <<>>
  BY DEF DriverInit, InitialDb
<1>2. /\ Payments = {} /\ (\A w \in WarehouseIds : PaymentsThrough(w) = {}) /\ \A wd \in DistrictKeys : PaymentsIn(wd) = {}
  BY <1>1 DEF Payments, PaymentsThrough, PaymentsIn
<1>3. IsFiniteSet({}) /\ Cardinality({}) = 0 /\ HAmount * 0 = 0
  BY FS_EmptySet, DriverAssumption
<1>4. Books
  BY <1>1, <1>2, <1>3 DEF Books, YtdBalanced
<1>5. \A t \in Txns : ~Open(t)
  BY DEF DriverInit, Open, Closed
<1> QED BY <1>4, <1>5 DEF YtdInv

\* Every step keeps what is known of the payments.
LEMMA YtdKeeps ==
  ASSUME DriverInv, YtdInv, [DriverNext]_driverVars
  PROVE  YtdInv'
<1>0. Shape
  BY DEF DriverInv
<1>1. ASSUME UNCHANGED driverVars PROVE YtdInv'
  <2>1. UNCHANGED <<db, view, written, stale, statement, ctx, d_id, local>>
    BY <1>1 DEF driverVars
  <2>2. Books'
    BY <2>1, BooksStay DEF YtdInv
  <2>3. ASSUME NEW u \in Txns, Open(u)' PROVE PaidSound(u)'
    <3>1. Open(u) /\ PaidSound(u)
      BY <2>1, <2>3 DEF YtdInv, Open
    <3> QED BY <1>0, <2>1, <3>1, PaidStays
  <2> QED BY <2>2, <2>3 DEF YtdInv
<1>2. ASSUME NEW t \in Txns, StartTransaction(t) PROVE YtdInv'
  <2>1. /\ Leaves(t) /\ Open(t)' /\ written'[t] = {} /\ (ctx'[t].type = "PAYMENT" => statement'[t] = "warehouse")
    BY <1>0, <1>2, StartLeaves
  <2>2. PaidSound(t)'
    BY <2>1 DEF PaidSound, PaymentSound
  <2> QED BY <1>0, <2>1, <2>2, YtdLeaves
<1>3. ASSUME NEW t \in Txns, DoNewOrder(t) \/ DoDelivery(t) PROVE YtdInv'
  <2>1. Open(t) /\ Moves(t)
    BY <1>0, <1>3, StatementMoves
  <2>2. ctx[t].type \in {"NEW_ORDER", "DELIVERY"}
    BY <1>0, <1>3, Stage DEF DoNewOrder, NEWORDER_IncrementNextOrderId, NEWORDER_CreateOrder, NEWORDER_CreateNewOrder, DoDelivery,
          DELIVERY_GetNewOrder, DELIVERY_DeleteNewOrder, DELIVERY_UpdateOrders, DELIVERY_UpdateCustomer
  <2>3. PaidSound(t)'
    BY <2>1, <2>2 DEF PaidSound, Moves
  <2> QED BY <1>0, <2>1, <2>3, YtdMoves
<1>4. ASSUME NEW t \in Txns, DoPayment(t) PROVE YtdInv'
  <2>1. Open(t) /\ Moves(t) /\ PaymentSound(t)'
    BY <1>0, <1>4, StatementMoves, PaymentPays
  <2>2. ctx[t].type = "PAYMENT"
    BY <1>0, <1>4, Stage DEF DoPayment, PAYMENT_UpdateWarehouseBalance, PAYMENT_UpdateDistrictBalance, PAYMENT_UpdateCustomer,
          PAYMENT_InsertHistory
  <2>3. PaidSound(t)'
    BY <2>1, <2>2 DEF PaidSound, Moves
  <2> QED BY <1>0, <2>1, <2>3, YtdMoves
<1>5. ASSUME NEW t \in Txns, DoOrderStatus(t) \/ DoStockLevel(t) PROVE YtdInv'
  <2>1. Open(t) /\ Moves(t) /\ written' = written
    BY <1>0, <1>5, StatementMoves DEF DoOrderStatus, DoStockLevel
  <2>2. ctx[t].type \in {"ORDER_STATUS", "STOCK_LEVEL"}
    BY <1>0, <1>5, Stage DEF DoOrderStatus, DoStockLevel
  <2>3. PaidSound(t)'
    BY <2>1, <2>2 DEF YtdInv, PaidSound, Moves
  <2> QED BY <1>0, <2>1, <2>3, YtdMoves
<1>6. ASSUME NEW t \in Txns, CommitTransaction(t) PROVE YtdInv'
  BY <1>6, YtdCommits
<1>7. ASSUME NEW t \in Txns, RollBackTransaction(t) PROVE YtdInv'
  BY <1>0, <1>7, RollBackLeaves, YtdLeaves
<1>8. CASE Finished
  BY <1>1, <1>8 DEF Finished
<1> QED BY <1>1, <1>2, <1>3, <1>4, <1>5, <1>6, <1>7, <1>8 DEF DriverNext-----------------------------------------------------------------------------
(* Customers.  With one warehouse a payment is for a customer of the district it is made in. *)

OneWarehouse == WarehouseIds = {FirstWarehouse}

\* A row whose entries are of different payments and deliveries and follow from one another.
IsLog(s) == \E S : s \in Seq(S)
RowSound(x) == IsLog(x.log) /\ EntriesOnce(x) /\ EntriesInTurn(x) /\ x.payment_cnt \in Nat

\* The row y has the entries E more than x.
Grown(x, y, E, payments) == RowSound(y) /\ EntriesOf(y) = EntriesOf(x) \cup E /\ y.payment_cnt = payments

Payment(t) == <<"paid", t>>
Delivery(r) == <<"delivered", r>>
Deliveries(R) == {Delivery(r) : r \in R}
CustomerOf(x) == <<x.w, x.d, x.c>>

\* The orders a delivery has credited to a customer.
Credited(t, k) ==
  {r \in Rows : OrderCell(r) \in written[t] /\ CustomerOf(db.ORDERS[r]) = k /\ ~(statement[t] = "customer" /\ r = local[t])}

PayerSound(t) ==
  statement[t] \in {"history", "commit"} =>
    Grown(db.CUSTOMER[Payer(t)], view[t].CUSTOMER[Payer(t)], {Payment(t)}, db.CUSTOMER[Payer(t)].payment_cnt + 1)

CreditSound(t) ==
  /\ \A r \in Rows : NewOrderCell(r) \in written[t] => db.NEW_ORDER[r] # NoRow
  /\ statement[t] = "customer" => OrderCell(local[t]) \in written[t]
  /\ \A k \in CustomerKeys :
       IF <<"CUSTOMER", k>> \in written[t]
       THEN Grown(db.CUSTOMER[k], view[t].CUSTOMER[k], Deliveries(Credited(t, k)), db.CUSTOMER[k].payment_cnt)
       ELSE Credited(t, k) = {}

AccountSound(t) ==
  /\ ctx[t].type = "PAYMENT" => PayerSound(t)
  /\ ctx[t].type = "DELIVERY" => CreditSound(t)

Accounts == CustomerLedger /\ \A k \in CustomerKeys : RowSound(db.CUSTOMER[k])

LedgerOf(k) ==
  /\ EntriesOf(db.CUSTOMER[k]) = {Payment(t) : t \in PaymentsOf(k)} \cup Deliveries(DeliveredTo(k))
  /\ EntriesOnce(db.CUSTOMER[k]) /\ EntriesInTurn(db.CUSTOMER[k])
  /\ db.CUSTOMER[k].payment_cnt = Cardinality(PaymentsOf(k))

CustomerInv ==
  /\ Accounts
  /\ \A t \in Txns : Open(t) => AccountSound(t)

\* An entry that follows from the row and is new to it.
LEMMA EntryAdded ==
  ASSUME NEW x, RowSound(x), NEW e, e \notin EntriesOf(x), NEW b, NEW y, NEW n \in Nat,
         [balance |-> b, ytd_payment |-> y] = After(Amounts(x), e)
  PROVE  Grown(x, Entered(x, e, b, y, n), {e}, n)
<1>1. PICK S : x.log \in Seq(S)
  BY DEF RowSound, IsLog
<1>2. PICK s, m, new : s = x.log /\ m = Len(x.log) /\ new = [of |-> e, balance |-> b, ytd_payment |-> y]
  OBVIOUS
<1>3. PICK l : l = Append(s, new)
  OBVIOUS
<1>4. /\ m \in Nat /\ DOMAIN s = 1 .. m /\ Len(l) = m + 1 /\ DOMAIN l = 1 .. m + 1
      /\ \A i \in 1 .. m : l[i] = s[i]
      /\ l[m + 1] = new /\ l \in Seq(S \cup {new})
  <2>1. s \in Seq(S \cup {new})
    BY <1>1, <1>2
  <2> QED BY <1>2, <1>3, <2>1, AppendProperties
<1>5. PICK z : z = Entered(x, e, b, y, n)
  OBVIOUS
<1>6. z.log = l /\ z.payment_cnt = n /\ z.balance = b /\ z.ytd_payment = y
  BY <1>2, <1>3, <1>5 DEF Entered
<1>7. /\ new.of = e /\ new.balance = b /\ new.ytd_payment = y
  BY <1>2
<1>8. \A i \in 1 .. m : s[i].of # e
  BY <1>2, <1>4 DEF EntriesOf
<1>9. EntriesOnce(z)
  <2> SUFFICES ASSUME NEW i \in 1 .. m + 1, NEW j \in 1 .. m + 1, l[i].of = l[j].of PROVE i = j
    BY <1>4, <1>6 DEF EntriesOnce
  <2>1. CASE i = m + 1 \/ j = m + 1
    BY <1>4, <1>7, <1>8, <2>1
  <2>2. CASE i # m + 1 /\ j # m + 1
    <3>1. i \in DOMAIN x.log /\ j \in DOMAIN x.log /\ x.log[i].of = x.log[j].of
      BY <1>2, <1>4, <2>2
    <3> QED BY <3>1 DEF RowSound, EntriesOnce
  <2> QED BY <2>1, <2>2
<1>10. EntriesInTurn(z)
  <2>1. Amounts(x) = Left(s, m) /\ \A i \in 1 .. m : Left(s, i) = After(Left(s, i - 1), s[i].of)
    BY <1>2, <1>4 DEF RowSound, EntriesInTurn
  <2>2. \A i \in 0 .. m : Left(l, i) = Left(s, i)
    BY <1>4 DEF Left
  <2>3. Left(l, m + 1) = [balance |-> b, ytd_payment |-> y]
    BY <1>4, <1>7 DEF Left, Amounts
  <2>4. ASSUME NEW i \in 1 .. m + 1 PROVE Left(l, i) = After(Left(l, i - 1), l[i].of)
    <3>1. CASE i = m + 1
      <4>1. i - 1 = m /\ l[i].of = e
        BY <1>4, <1>7, <3>1
      <4>2. Left(l, i - 1) = Amounts(x)
        BY <1>4, <2>1, <2>2, <4>1
      <4> QED BY <2>3, <3>1, <4>1, <4>2
    <3>2. CASE i # m + 1
      <4>1. i \in 1 .. m /\ i - 1 \in 0 .. m /\ i \in 0 .. m
        BY <1>4, <3>2
      <4>2. l[i] = s[i] /\ Left(l, i) = Left(s, i) /\ Left(l, i - 1) = Left(s, i - 1)
        BY <1>4, <2>2, <4>1
      <4> QED BY <2>1, <4>1, <4>2
    <3> QED BY <3>1, <3>2
  <2>5. Amounts(z) = Left(l, m + 1)
    BY <1>6, <2>3 DEF Amounts
  <2> QED BY <1>4, <1>6, <2>4, <2>5 DEF EntriesInTurn
<1>11. EntriesOf(z) = EntriesOf(x) \cup {e}
  <2>1. ASSUME NEW i \in 1 .. m PROVE l[i].of = s[i].of
    BY <1>4
  <2>2. ASSUME NEW f PROVE f \in EntriesOf(z) <=> f \in EntriesOf(x) \cup {e}
    <3>1. f \in EntriesOf(z) <=> \E i \in 1 .. m + 1 : f = l[i].of
      BY <1>4, <1>6 DEF EntriesOf
    <3>2. f \in EntriesOf(x) <=> \E i \in 1 .. m : f = s[i].of
      BY <1>2, <1>4 DEF EntriesOf
    <3>3. (\E i \in 1 .. m + 1 : f = l[i].of) <=> (\E i \in 1 .. m : f = l[i].of) \/ f = l[m + 1].of
      BY <1>4
    <3> QED BY <1>4, <1>7, <2>1, <3>1, <3>2, <3>3
  <2> QED BY <2>2
<1>12. IsLog(z.log)
  BY <1>4, <1>6 DEF IsLog
<1> QED BY <1>5, <1>6, <1>9, <1>10, <1>11, <1>12 DEF Grown, RowSound

\* The ledger of the customers, one by one.
LEMMA LedgerIs ==
  /\ CustomerLedger <=> \A k \in CustomerKeys : LedgerOf(k)
  /\ CustomerLedger' <=> \A k \in CustomerKeys : LedgerOf(k)'
BY DEF CustomerLedger, LedgerOf, Payment, Delivery, Deliveries

\* What is known of another transaction's customers.
LEMMA AccountStays ==
  ASSUME NEW u \in Txns, Shape, Open(u), PaidSound(u), AccountSound(u), statement'[u] = statement[u], ctx'[u] = ctx[u],
         view'[u] = view[u], written'[u] = written[u], local'[u] = local[u],
         \A x \in Columns : \A q \in DOMAIN InitialDb[x] : <<x, q>> \in written[u] => db'[x][q] = db[x][q]
  PROVE  AccountSound(u)'
<1>1. /\ {"CUSTOMER", "ORDERS", "NEW_ORDER"} \subseteq Columns /\ DOMAIN InitialDb["CUSTOMER"] = CustomerKeys
      /\ DOMAIN InitialDb["ORDERS"] = Rows /\ DOMAIN InitialDb["NEW_ORDER"] = Rows
      /\ Payer(u) \in CustomerKeys /\ Payer(u)' = Payer(u)
  BY ColumnsAre, ContextIs DEF Payer
<1>2. CASE ctx[u].type = "PAYMENT"
  <2>1. PaymentSound(u) /\ PayerSound(u)
    BY <1>2 DEF PaidSound, AccountSound
  <2>2. statement[u] \in {"history", "commit"} => <<"CUSTOMER", Payer(u)>> \in written[u]
    BY <2>1 DEF PaymentSound, CustomerCell
  <2>3. statement[u] \in {"history", "commit"} => db'.CUSTOMER[Payer(u)] = db.CUSTOMER[Payer(u)]
    BY <1>1, <2>2
  <2>4. PayerSound(u)'
    BY <1>1, <2>1, <2>3 DEF PayerSound
  <2> QED BY <1>2, <2>4 DEF AccountSound
<1>3. CASE ctx[u].type = "DELIVERY"
  <2>1. CreditSound(u)
    BY <1>3 DEF AccountSound
  <2>2. \A r \in Rows : /\ OrderCell(r) \in written[u] => db'.ORDERS[r] = db.ORDERS[r]
                        /\ NewOrderCell(r) \in written[u] => db'.NEW_ORDER[r] = db.NEW_ORDER[r]
    BY <1>1 DEF OrderCell, NewOrderCell
  <2>3. \A k \in CustomerKeys : <<"CUSTOMER", k>> \in written[u] => db'.CUSTOMER[k] = db.CUSTOMER[k]
    BY <1>1
  <2>4. \A k \in CustomerKeys : Credited(u, k)' = Credited(u, k)
    <3> SUFFICES ASSUME NEW k \in CustomerKeys PROVE Credited(u, k)' = Credited(u, k)
      OBVIOUS
    <3>1. \A r \in Rows : OrderCell(r)' = OrderCell(r)
      BY DEF OrderCell
    <3> QED BY <2>2, <3>1 DEF Credited
  <2>5. CreditSound(u)'
    <3>1. \A r \in Rows : NewOrderCell(r)' \in written'[u] => db'.NEW_ORDER[r] # NoRow
      BY <2>1, <2>2 DEF CreditSound, NewOrderCell
    <3>2. statement'[u] = "customer" => OrderCell(local[u])' \in written'[u]
      BY <2>1 DEF CreditSound, OrderCell
    <3>3. ASSUME NEW k \in CustomerKeys
          PROVE  IF <<"CUSTOMER", k>> \in written'[u]
                 THEN Grown(db'.CUSTOMER[k], view'[u].CUSTOMER[k], Deliveries(Credited(u, k)'), db'.CUSTOMER[k].payment_cnt)
                 ELSE Credited(u, k)' = {}
      BY <2>1, <2>3, <2>4 DEF CreditSound
    <3> QED BY <3>1, <3>2, <3>3 DEF CreditSound
  <2> QED BY <1>3, <2>5 DEF AccountSound
<1>4. CASE ctx[u].type \notin {"PAYMENT", "DELIVERY"}
  BY <1>4 DEF AccountSound
<1> QED BY <1>2, <1>3, <1>4

\* The customers' rows, what was paid and what was delivered stay.
LEMMA AccountsStay ==
  ASSUME Accounts,
         \A k \in CustomerKeys : db'.CUSTOMER[k] = db.CUSTOMER[k] /\ DeliveredTo(k)' = DeliveredTo(k),
         \A t \in Txns : db'.HISTORY[t] = db.HISTORY[t]
  PROVE  Accounts'
<1>1. \A k \in CustomerKeys : PaymentsOf(k)' = PaymentsOf(k)
  BY DEF PaymentsOf
<1>2. CustomerLedger'
  <2> SUFFICES ASSUME NEW k \in CustomerKeys PROVE LedgerOf(k)'
    BY LedgerIs
  <2>1. LedgerOf(k)
    BY LedgerIs DEF Accounts
  <2> QED BY <1>1, <2>1 DEF LedgerOf
<1>3. \A k \in CustomerKeys : RowSound(db'.CUSTOMER[k])
  BY DEF Accounts
<1> QED BY <1>2, <1>3 DEF Accounts

\* Nothing is committed.
LEMMA SameDeliveries ==
  ASSUME db' = db, Accounts
  PROVE  Accounts'
<1>1. \A k \in CustomerKeys : DeliveredTo(k)' = DeliveredTo(k)
  BY DEF DeliveredTo, OrdersOf
<1> QED BY <1>1, AccountsStay

\* So only what is known of one transaction has to be shown.
LEMMA CustomerMoves ==
  ASSUME Shape, YtdInv, CustomerInv, NEW t \in Txns, Open(t), Moves(t), AccountSound(t)'
  PROVE  CustomerInv'
<1>1. \A u \in Txns : Open(u)' => Open(u)
  BY DEF Moves, Open
<1>2. Accounts'
  BY SameDeliveries DEF CustomerInv, Moves
<1>3. ASSUME NEW u \in Txns, u # t, Open(u)' PROVE AccountSound(u)'
  BY <1>1, <1>3, AccountStays DEF YtdInv, CustomerInv, Moves
<1> QED BY <1>2, <1>3 DEF CustomerInv

\* Nor does a start or a rollback touch the customers.
LEMMA CustomerLeaves ==
  ASSUME Shape, YtdInv, CustomerInv, NEW t \in Txns, Leaves(t), Open(t)' => AccountSound(t)'
  PROVE  CustomerInv'
<1>1. Accounts'
  BY SameDeliveries DEF CustomerInv, Leaves
<1>2. ASSUME NEW u \in Txns, u # t, Open(u)' PROVE AccountSound(u)'
  <2>1. Open(u)
    BY <1>2 DEF Open, Leaves
  <2> QED BY <1>2, <2>1, AccountStays DEF YtdInv, CustomerInv, Leaves
<1> QED BY <1>1, <1>2 DEF CustomerInv

\* A payment takes the row it has read from what is committed.
LEMMA PaymentCharges ==
  ASSUME OneWarehouse, DriverInv, YtdInv, CustomerInv, NEW t \in Txns, DoPayment(t)
  PROVE  PayerSound(t)'
<1>0. Shape /\ Isolated /\ statement \in [Txns -> Statements] /\ ctx[t] \in Contexts
  BY DEF DriverInv, Shape
<1>1. Open(t) /\ ctx[t].type = "PAYMENT"
  BY <1>0, Stage DEF DoPayment, PAYMENT_UpdateWarehouseBalance, PAYMENT_UpdateDistrictBalance, PAYMENT_UpdateCustomer,
                     PAYMENT_InsertHistory
<1>2. PaymentSound(t) /\ PayerSound(t)
  BY <1>1 DEF YtdInv, PaidSound, CustomerInv, AccountSound
<1>3. PICK k : k = Payer(t)
  OBVIOUS
<1>4. /\ {"CUSTOMER", "HISTORY"} \subseteq Columns /\ k \in DOMAIN InitialDb["CUSTOMER"] /\ t \in DOMAIN InitialDb["HISTORY"]
  BY <1>0, <1>3, ColumnsAre, ContextIs
<1>5. CASE PAYMENT_UpdateWarehouseBalance(t) \/ PAYMENT_UpdateDistrictBalance(t)
  <2>1. statement'[t] \in {"district", "pay"}
    BY <1>0, <1>5 DEF PAYMENT_UpdateWarehouseBalance, PAYMENT_UpdateDistrictBalance, GotoStatement
  <2> QED BY <2>1 DEF PayerSound
<1>6. CASE PAYMENT_UpdateCustomer(t)
  <2>1. k = <<ctx[t].w_id, ctx[t].d_id, ctx[t].c_id>>
    BY <1>0, <1>3 DEF Contexts, Payer, OneWarehouse
  <2>2. PICK x, b, y, v : /\ x = view[t].CUSTOMER[k] /\ b = SixDigits(FloatOf(FloatOf(x.balance) - HAmount))
                          /\ y = SixDigits(FloatOf(FloatOf(x.ytd_payment) + HAmount))
                          /\ v = Entered(x, Payment(t), b, y, x.payment_cnt + 1)
    OBVIOUS
  <2>3. Set(t, "CUSTOMER", k, v) /\ statement[t] = "pay"
    BY <1>3, <1>6, <2>1, <2>2 DEF PAYMENT_UpdateCustomer, PAYMENT_GetCustomer, Payment
  <2>4. CellSet(t, "CUSTOMER", k, v)
    BY <1>0, <1>1, <1>4, <2>3, SetCell
  <2>5. <<"CUSTOMER", k>> \notin written[t] \cup stale[t]
    BY <1>2, <2>3, <2>4 DEF PaymentSound, CellSet, WarehouseCell, DistrictCell
  <2>6. x = db.CUSTOMER[k] /\ k \in CustomerKeys
    BY <1>0, <1>1, <1>3, <1>4, <2>2, <2>5, ContextIs DEF Isolated
  <2>7. view'[t].CUSTOMER[k] = v /\ db' = db /\ Payer(t)' = k
    BY <1>3, <1>4, <2>4 DEF CellSet, Payer
  <2>8. RowSound(x) /\ LedgerOf(k)
    BY <2>6, LedgerIs DEF CustomerInv, Accounts
  <2>9. Payment(t) \notin EntriesOf(x)
    <3>1. t \notin PaymentsOf(k)
      BY <2>3 DEF YtdInv, Books, PaymentsOf
    <3> QED BY <2>6, <2>8, <3>1 DEF LedgerOf, Payment, Delivery, Deliveries
  <2>10. [balance |-> b, ytd_payment |-> y] = After(Amounts(x), Payment(t))
    BY <2>2 DEF After, Amounts, Payment
  <2>11. Grown(x, v, {Payment(t)}, x.payment_cnt + 1)
    <3>1. x.payment_cnt + 1 \in Nat
      BY <2>8 DEF RowSound
    <3> QED BY <2>2, <2>8, <2>9, <2>10, <3>1, EntryAdded
  <2>12. Payment(t)' = Payment(t)
    BY DEF Payment
  <2> QED BY <2>6, <2>7, <2>11, <2>12 DEF PayerSound
<1>7. CASE PAYMENT_InsertHistory(t)
  <2>1. Set(t, "HISTORY", t, Receipt(t)) /\ statement[t] = "history"
    BY <1>7 DEF PAYMENT_InsertHistory, Receipt
  <2>2. CellSet(t, "HISTORY", t, Receipt(t))
    BY <1>0, <1>1, <1>4, <2>1, SetCell
  <2>3. view'[t].CUSTOMER[k] = view[t].CUSTOMER[k] /\ db' = db /\ Payer(t)' = k
    BY <1>3, <1>4, <2>2 DEF CellSet, Payer
  <2> QED BY <1>2, <1>3, <2>1, <2>3 DEF PayerSound
<1> QED BY <1>5, <1>6, <1>7 DEF DoPayment

\* A delivery credits the order it has set the carrier of, once.
LEMMA DeliveryCredits ==
  ASSUME DriverInv, YtdInv, CustomerInv, NEW t \in Txns, DoDelivery(t)
  PROVE  CreditSound(t)'
<1>0. Shape /\ Isolated /\ Ledger /\ statement \in [Txns -> Statements] /\ DOMAIN local = Txns
  BY DEF DriverInv, Shape
<1>1. Open(t) /\ ctx[t].type = "DELIVERY"
  BY <1>0, Stage DEF DoDelivery, DELIVERY_GetNewOrder, DELIVERY_DeleteNewOrder, DELIVERY_UpdateOrders, DELIVERY_UpdateCustomer
<1>2. DeliverySound(t) /\ CreditSound(t) /\ DbOK(view[t])
  BY <1>0, <1>1 DEF DriverInv, TxnSound, CustomerInv, AccountSound, Shape
<1>3. /\ {"ORDERS", "NEW_ORDER", "CUSTOMER"} \subseteq Columns
      /\ DOMAIN InitialDb["ORDERS"] = Rows /\ DOMAIN InitialDb["NEW_ORDER"] = Rows
      /\ DOMAIN InitialDb["CUSTOMER"] = CustomerKeys
  BY ColumnsAre
<1>4. PICK l : l = local[t]
  OBVIOUS
\* A statement that writes no row of CUSTOMER and credits no order.
<1>5. ASSUME db' = db, \A k \in CustomerKeys : view'[t].CUSTOMER[k] = view[t].CUSTOMER[k],
             \A k \in CustomerKeys : <<"CUSTOMER", k>> \in written'[t] <=> <<"CUSTOMER", k>> \in written[t],
             \A r \in Rows : NewOrderCell(r) \in written'[t] => NewOrderCell(r) \in written[t] \/ db.NEW_ORDER[r] # NoRow,
             statement'[t] = "customer" => OrderCell(local'[t]) \in written'[t],
             \A r \in Rows : (OrderCell(r) \in written'[t] /\ ~(statement'[t] = "customer" /\ r = local'[t]))
                               <=> (OrderCell(r) \in written[t] /\ ~(statement[t] = "customer" /\ r = local[t]))
      PROVE  CreditSound(t)'
  <2>1. ASSUME NEW k \in CustomerKeys PROVE Credited(t, k)' = Credited(t, k)
    BY <1>5 DEF Credited, OrderCell
  <2>2. \A r \in Rows : NewOrderCell(r)' \in written'[t] => db'.NEW_ORDER[r] # NoRow
    BY <1>2, <1>5 DEF CreditSound, NewOrderCell
  <2>3. statement'[t] = "customer" => OrderCell(local[t])' \in written'[t]
    BY <1>5 DEF OrderCell
  <2>4. ASSUME NEW k \in CustomerKeys
        PROVE  IF <<"CUSTOMER", k>> \in written'[t]
               THEN Grown(db'.CUSTOMER[k], view'[t].CUSTOMER[k], Deliveries(Credited(t, k)'), db'.CUSTOMER[k].payment_cnt)
               ELSE Credited(t, k)' = {}
    BY <1>2, <1>5, <2>1 DEF CreditSound
  <2> QED BY <2>2, <2>3, <2>4 DEF CreditSound
<1>6. CASE DELIVERY_GetNewOrder(t)
  <2>1. statement[t] = "find" /\ UNCHANGED <<db, view, written, stale, ctx>>
    BY <1>6 DEF DELIVERY_GetNewOrder
  <2>2. statement'[t] \in {"find", "delete", "commit"}
    BY <1>0, <1>6 DEF DELIVERY_GetNewOrder, NextDistrict, GotoStatement
  <2> QED BY <1>5, <2>1, <2>2
<1>7. CASE DELIVERY_DeleteNewOrder(t)
  <2>1. Set(t, "NEW_ORDER", l, NoRow) /\ statement[t] = "delete" /\ statement'[t] = "carrier"
    BY <1>0, <1>4, <1>7 DEF DELIVERY_DeleteNewOrder, GotoStatement
  <2>2. l \in Rows /\ view[t].NEW_ORDER[l] # NoRow
    BY <1>2, <1>4, <2>1 DEF DeliverySound, Here
  <2>3. CellSet(t, "NEW_ORDER", l, NoRow)
    BY <1>0, <1>1, <1>3, <2>1, <2>2, SetCell
  <2>4. NewOrderCell(l) \notin written[t] \cup stale[t]
    BY <1>2, <2>2, <2>3 DEF DeliverySound, CellSet, NewOrderCell
  <2>5. db.NEW_ORDER[l] # NoRow
    BY <1>0, <1>1, <1>3, <2>2, <2>4 DEF Isolated, NewOrderCell
  <2>6. /\ db' = db /\ written'[t] = written[t] \cup {<<"NEW_ORDER", l>>}
        /\ \A k \in CustomerKeys : view'[t].CUSTOMER[k] = view[t].CUSTOMER[k]
    BY <1>3, <2>3 DEF CellSet
  <2>7. /\ \A k \in CustomerKeys : <<"CUSTOMER", k>> \in written'[t] <=> <<"CUSTOMER", k>> \in written[t]
        /\ \A r \in Rows : OrderCell(r) \in written'[t] <=> OrderCell(r) \in written[t]
        /\ \A r \in Rows : NewOrderCell(r) \in written'[t] => NewOrderCell(r) \in written[t] \/ r = l
    BY <2>6 DEF OrderCell, NewOrderCell
  <2> QED BY <1>5, <2>1, <2>5, <2>6, <2>7
<1>8. CASE DELIVERY_UpdateOrders(t)
  <2>1. PICK v : Set(t, "ORDERS", l, v)
    BY <1>4, <1>8 DEF DELIVERY_UpdateOrders
  <2>2. statement[t] = "carrier" /\ statement'[t] = "customer" /\ local' = local
    BY <1>0, <1>8 DEF DELIVERY_UpdateOrders, GotoStatement
  <2>3. l \in Rows /\ OrderCell(l) \notin written[t]
    BY <1>2, <1>4, <2>2 DEF DeliverySound
  <2>4. CellSet(t, "ORDERS", l, v)
    BY <1>0, <1>1, <1>3, <2>1, <2>3, SetCell
  <2>5. /\ db' = db /\ written'[t] = written[t] \cup {<<"ORDERS", l>>}
        /\ \A k \in CustomerKeys : view'[t].CUSTOMER[k] = view[t].CUSTOMER[k]
    BY <1>3, <2>4 DEF CellSet
  <2>6. /\ \A k \in CustomerKeys : <<"CUSTOMER", k>> \in written'[t] <=> <<"CUSTOMER", k>> \in written[t]
        /\ \A r \in Rows : OrderCell(r) \in written'[t] <=> OrderCell(r) \in written[t] \/ r = l
        /\ \A r \in Rows : NewOrderCell(r) \in written'[t] => NewOrderCell(r) \in written[t]
    BY <2>5 DEF OrderCell, NewOrderCell
  <2> QED BY <1>4, <1>5, <2>2, <2>3, <2>5, <2>6
<1>9. CASE DELIVERY_UpdateCustomer(t)
  <2>1. PICK k : k = <<ctx[t].w_id, d_id[t], DELIVERY_GetCid(t, l)>>
    OBVIOUS
  <2>2. statement[t] = "customer" /\ l \in Rows /\ Here(t, view[t].ORDERS[l]) /\ OrderCell(l) \in written[t]
    BY <1>2, <1>4, <1>9 DEF DELIVERY_UpdateCustomer, DeliverySound, CreditSound
  <2>3. view[t].ORDERS[l] = Delivered(db.ORDERS[l]) /\ db.ORDERS[l] \in RealRows
    BY <1>0, <1>2, <2>2, DeliveredIs DEF DeliverySound, Shape, DbOK
  <2>4. CustomerOf(db.ORDERS[l]) = k
    <3>1. Delivered(db.ORDERS[l]).w = db.ORDERS[l].w /\ Delivered(db.ORDERS[l]).d = db.ORDERS[l].d
          /\ Delivered(db.ORDERS[l]).c = db.ORDERS[l].c
      BY <2>3 DEF Delivered, RealRows
    <3> QED BY <2>1, <2>2, <2>3, <3>1 DEF CustomerOf, Here, DELIVERY_GetCid
  <2>5. k \in CustomerKeys
    BY <2>3, <2>4 DEF CustomerOf, RealRows, CustomerKeys
  <2>6. PICK x, v : /\ x = view[t].CUSTOMER[k]
                    /\ v = Entered(x, Delivery(l), x.balance + DELIVERY_SumOLAmount(l), x.ytd_payment, x.payment_cnt)
    OBVIOUS
  <2>7. Set(t, "CUSTOMER", k, v) /\ statement'[t] \in {"find", "commit"}
    BY <1>0, <1>4, <1>9, <2>1, <2>6 DEF DELIVERY_UpdateCustomer, Delivery, NextDistrict, GotoStatement
  <2>8. CellSet(t, "CUSTOMER", k, v)
    BY <1>0, <1>1, <1>3, <2>5, <2>7, SetCell
  <2>9. /\ db' = db /\ written'[t] = written[t] \cup {<<"CUSTOMER", k>>} /\ <<"CUSTOMER", k>> \notin stale[t]
        /\ \A q \in CustomerKeys : view'[t].CUSTOMER[q] = IF q = k THEN v ELSE view[t].CUSTOMER[q]
    BY <1>3, <2>8 DEF CellSet
  <2>10. \A r \in Rows : /\ OrderCell(r) \in written'[t] <=> OrderCell(r) \in written[t]
                         /\ NewOrderCell(r) \in written'[t] <=> NewOrderCell(r) \in written[t]
    BY <2>9 DEF OrderCell, NewOrderCell
  <2>11. \A q \in CustomerKeys : q # k => Credited(t, q)' = Credited(t, q)
    BY <1>4, <2>2, <2>4, <2>7, <2>9, <2>10 DEF Credited, OrderCell
  <2>12. Credited(t, k)' = Credited(t, k) \cup {l} /\ l \notin Credited(t, k)
    BY <1>4, <2>2, <2>4, <2>7, <2>9, <2>10 DEF Credited, OrderCell
  <2>13. Grown(db.CUSTOMER[k], v, Deliveries(Credited(t, k)'), db.CUSTOMER[k].payment_cnt)
    <3>1. PICK o, n, S : o = db.CUSTOMER[k] /\ n = o.payment_cnt /\ S = Deliveries(Credited(t, k))
      OBVIOUS
    <3>2. RowSound(o) /\ LedgerOf(k)
      BY <2>5, <3>1, LedgerIs DEF CustomerInv, Accounts
    <3>3. Grown(o, x, S, n)
      <4>1. CASE <<"CUSTOMER", k>> \in written[t]
        BY <1>2, <2>5, <2>6, <3>1, <4>1 DEF CreditSound
      <4>2. CASE <<"CUSTOMER", k>> \notin written[t]
        <5>1. S = {}
          BY <1>2, <2>5, <3>1, <4>2 DEF CreditSound, Deliveries
        <5>2. x = o
          BY <1>0, <1>1, <1>3, <2>5, <2>6, <2>9, <3>1, <4>2 DEF Isolated
        <5> QED BY <3>1, <3>2, <5>1, <5>2 DEF Grown
      <4> QED BY <4>1, <4>2
    <3>4. l \notin DeliveredTo(k)
      <4>1. db.NEW_ORDER[l] # NoRow
        BY <1>2, <2>2 DEF DeliverySound, CreditSound
      <4>2. db.ORDERS[l].carrier = NULL_CARRIER_ID
        BY <1>0, <2>2, <4>1 DEF Ledger
      <4> QED BY <4>2 DEF DeliveredTo
    <3>5. Delivery(l) \notin EntriesOf(x)
      <4>1. Delivery(l) \notin Deliveries(DeliveredTo(k)) /\ Delivery(l) \notin S
        BY <2>12, <3>1, <3>4 DEF Delivery, Deliveries
      <4>2. Delivery(l) \notin {Payment(u) : u \in PaymentsOf(k)}
        BY DEF Delivery, Payment
      <4> QED BY <3>1, <3>2, <3>3, <4>1, <4>2 DEF Grown, LedgerOf
    <3>6. [balance |-> x.balance + DELIVERY_SumOLAmount(l), ytd_payment |-> x.ytd_payment] = After(Amounts(x), Delivery(l))
      BY DEF After, Amounts, Delivery
    <3>7. Grown(x, v, {Delivery(l)}, n)
      <4>1. RowSound(x) /\ x.payment_cnt = n /\ n \in Nat
        BY <3>1, <3>2, <3>3 DEF Grown, RowSound
      <4> QED BY <2>6, <3>5, <3>6, <4>1, EntryAdded
    <3>8. Deliveries(Credited(t, k)') = S \cup {Delivery(l)}
      BY <2>12, <3>1 DEF Deliveries
    <3> QED BY <3>1, <3>3, <3>7, <3>8 DEF Grown
  <2>14. ASSUME NEW q \in CustomerKeys
         PROVE  IF <<"CUSTOMER", q>> \in written'[t]
                THEN Grown(db'.CUSTOMER[q], view'[t].CUSTOMER[q], Deliveries(Credited(t, q)'), db'.CUSTOMER[q].payment_cnt)
                ELSE Credited(t, q)' = {}
    <3>1. CASE q = k
      BY <2>9, <2>13, <3>1
    <3>2. CASE q # k
      BY <1>2, <2>9, <2>11, <3>2 DEF CreditSound
    <3> QED BY <3>1, <3>2
  <2>15. \A r \in Rows : NewOrderCell(r)' \in written'[t] => db'.NEW_ORDER[r] # NoRow
    BY <1>2, <2>9, <2>10 DEF CreditSound, NewOrderCell
  <2> QED BY <2>7, <2>14, <2>15 DEF CreditSound
<1> QED BY <1>6, <1>7, <1>8, <1>9 DEF DoDelivery
\* A commit of a payment charges its customer.
LEMMA PaymentSettles ==
  ASSUME DriverInv, YtdInv, Accounts, NEW t \in Txns, Publishes(t), statement[t] = "commit", PaymentSound(t), PayerSound(t)
  PROVE  Accounts'
<1>0. Shape /\ Ledger /\ Books
  BY DEF DriverInv, YtdInv
<1>1. /\ {"CUSTOMER", "ORDERS", "HISTORY"} \subseteq Columns /\ DOMAIN InitialDb["CUSTOMER"] = CustomerKeys
      /\ DOMAIN InitialDb["ORDERS"] = Rows /\ DOMAIN InitialDb["HISTORY"] = Txns
  BY ColumnsAre
<1>2. PICK p, R : p = Payer(t) /\ R = Receipt(t)
  OBVIOUS
<1>3. p \in CustomerKeys /\ R # <<>> /\ SubSeq(R, 1, 3) = p
  BY <1>0, <1>2, ContextIs, ReceiptIs
<1>4. /\ written[t] = {<<"W_YTD", ctx[t].w_id>>, <<"D_YTD", Home(t)>>, <<"CUSTOMER", p>>, <<"HISTORY", t>>}
      /\ Grown(db.CUSTOMER[p], view[t].CUSTOMER[p], {Payment(t)}, db.CUSTOMER[p].payment_cnt + 1) /\ view[t].HISTORY[t] = R
  BY <1>2 DEF PaymentSound, PayerSound, WarehouseCell, DistrictCell, CustomerCell, HistoryCell
<1>5. \A k \in CustomerKeys : db'.CUSTOMER[k] = IF k = p THEN view[t].CUSTOMER[p] ELSE db.CUSTOMER[k]
  BY <1>1, <1>4 DEF Publishes
<1>6. \A r \in Rows : db'.ORDERS[r] = db.ORDERS[r]
  BY <1>1, <1>4 DEF Publishes
<1>7. \A u \in Txns : db'.HISTORY[u] = IF u = t THEN R ELSE db.HISTORY[u]
  BY <1>1, <1>4 DEF Publishes
<1>8. db.HISTORY[t] = <<>>
  BY <1>0 DEF Books
<1>9. \A k \in CustomerKeys : DeliveredTo(k)' = DeliveredTo(k)
  BY <1>6 DEF DeliveredTo, OrdersOf
<1>10. \A k \in CustomerKeys : PaymentsOf(k)' = (IF k = p THEN PaymentsOf(k) \cup {t} ELSE PaymentsOf(k))
  <2> SUFFICES ASSUME NEW k \in CustomerKeys
               PROVE  PaymentsOf(k)' = (IF k = p THEN PaymentsOf(k) \cup {t} ELSE PaymentsOf(k))
    OBVIOUS
  <2> QED BY <1>3, <1>7, <1>8 DEF PaymentsOf
<1>11. \A k \in CustomerKeys : IsFiniteSet(PaymentsOf(k)) /\ t \notin PaymentsOf(k)
  <2>1. \A k \in CustomerKeys : PaymentsOf(k) \subseteq Payments
    BY DEF Payments, PaymentsOf
  <2>2. IsFiniteSet(Payments) /\ t \notin Payments
    BY <1>0, <1>8 DEF Books, Payments
  <2> QED BY <2>1, <2>2, FS_Subset
<1>12. ASSUME NEW k \in CustomerKeys PROVE RowSound(db'.CUSTOMER[k]) /\ LedgerOf(k)'
  <2>1. PICK x, S : x = db.CUSTOMER[k] /\ S = PaymentsOf(k)
    OBVIOUS
  <2>2. RowSound(x) /\ LedgerOf(k)
    BY <2>1, LedgerIs DEF Accounts
  <2>3. CASE k # p
    BY <1>5, <1>9, <1>10, <2>1, <2>2, <2>3 DEF LedgerOf
  <2>4. CASE k = p
    <3>1. PICK z : z = db'.CUSTOMER[k]
      OBVIOUS
    <3>2. Grown(x, z, {Payment(t)}, x.payment_cnt + 1) /\ PaymentsOf(k)' = S \cup {t} /\ DeliveredTo(k)' = DeliveredTo(k)
      BY <1>4, <1>5, <1>9, <1>10, <2>1, <2>4, <3>1
    <3>3. Cardinality(S \cup {t}) = x.payment_cnt + 1
      <4>1. x.payment_cnt = Cardinality(S)
        BY <2>1, <2>2 DEF LedgerOf
      <4> QED BY <1>11, <2>1, <4>1, FS_AddElement
    <3>4. {Payment(u) : u \in S \cup {t}} = {Payment(u) : u \in S} \cup {Payment(t)}
      OBVIOUS
    <3>5. EntriesOf(z) = {Payment(u) : u \in S \cup {t}} \cup Deliveries(DeliveredTo(k))
      BY <2>1, <2>2, <3>2, <3>4 DEF LedgerOf, Grown
    <3>6. RowSound(z) /\ EntriesOnce(z) /\ EntriesInTurn(z) /\ z.payment_cnt = Cardinality(S \cup {t})
      BY <3>2, <3>3 DEF Grown, RowSound
    <3> QED BY <3>1, <3>2, <3>5, <3>6 DEF LedgerOf
  <2> QED BY <2>3, <2>4
<1>13. CustomerLedger'
  BY <1>12, LedgerIs
<1> QED BY <1>12, <1>13 DEF Accounts

\* A commit of a delivery credits the customers of the orders it delivers.
LEMMA DeliverySettles ==
  ASSUME DriverInv, Accounts, NEW t \in Txns, Publishes(t), statement[t] = "commit", DeliverySound(t), CreditSound(t)
  PROVE  Accounts'
<1>0. Ledger /\ DbOK(db)
  BY DEF DriverInv, Shape
<1>1. /\ {"CUSTOMER", "ORDERS", "HISTORY"} \subseteq Columns /\ DOMAIN InitialDb["CUSTOMER"] = CustomerKeys
      /\ DOMAIN InitialDb["ORDERS"] = Rows /\ DOMAIN InitialDb["HISTORY"] = Txns
  BY ColumnsAre
<1>2. \A u \in Txns : db'.HISTORY[u] = db.HISTORY[u]
  <2>1. \A u \in Txns : <<"HISTORY", u>> \notin written[t]
    BY DEF DeliverySound
  <2> QED BY <1>1, <2>1 DEF Publishes
<1>3. \A k \in CustomerKeys : PaymentsOf(k)' = PaymentsOf(k)
  BY <1>2 DEF PaymentsOf
<1>4. \A r \in Rows : db'.ORDERS[r] = IF OrderCell(r) \in written[t] THEN Delivered(db.ORDERS[r]) ELSE db.ORDERS[r]
  BY <1>1 DEF Publishes, DeliverySound, OrderCell
<1>5. \A r \in Rows : OrderCell(r) \in written[t] => db.ORDERS[r] # NoRow /\ db.ORDERS[r].carrier = NULL_CARRIER_ID
  BY <1>0 DEF DeliverySound, CreditSound, Ledger
<1>6. \A r \in Rows : OrderCell(r) \in written[t] =>
        /\ Delivered(db.ORDERS[r]) # NoRow /\ Delivered(db.ORDERS[r]).carrier # NULL_CARRIER_ID
        /\ Delivered(db.ORDERS[r]).w = db.ORDERS[r].w /\ Delivered(db.ORDERS[r]).d = db.ORDERS[r].d
        /\ Delivered(db.ORDERS[r]).c = db.ORDERS[r].c
  <2> SUFFICES ASSUME NEW r \in Rows, OrderCell(r) \in written[t]
               PROVE  /\ Delivered(db.ORDERS[r]) # NoRow /\ Delivered(db.ORDERS[r]).carrier # NULL_CARRIER_ID
                      /\ Delivered(db.ORDERS[r]).w = db.ORDERS[r].w /\ Delivered(db.ORDERS[r]).d = db.ORDERS[r].d
                      /\ Delivered(db.ORDERS[r]).c = db.ORDERS[r].c
    OBVIOUS
  <2>1. RowOK(db.ORDERS[r]) /\ db.ORDERS[r] # NoRow
    BY <1>0, <1>5 DEF DbOK
  <2>2. db.ORDERS[r] \in RealRows /\ Delivered(db.ORDERS[r]) # NoRow /\ Delivered(db.ORDERS[r]).carrier # NULL_CARRIER_ID
        /\ Delivered(db.ORDERS[r]).w = db.ORDERS[r].w /\ Delivered(db.ORDERS[r]).d = db.ORDERS[r].d
    BY <2>1, DeliveredIs
  <2>3. Delivered(db.ORDERS[r]).c = db.ORDERS[r].c
    BY <2>2 DEF Delivered, RealRows
  <2> QED BY <2>2, <2>3
<1>7. ASSUME NEW k \in CustomerKeys
      PROVE  DeliveredTo(k)' = DeliveredTo(k) \cup Credited(t, k) /\ DeliveredTo(k) \cap Credited(t, k) = {}
  <2>1. k = <<k[1], k[2], k[3]>>
    BY DEF CustomerKeys
  <2>2. Credited(t, k) = {r \in Rows : /\ OrderCell(r) \in written[t] /\ db.ORDERS[r].w = k[1] /\ db.ORDERS[r].d = k[2]
                                       /\ db.ORDERS[r].c = k[3]}
    BY <2>1 DEF Credited, CustomerOf
  <2>3. DeliveredTo(k) = {r \in Rows : /\ db.ORDERS[r] # NoRow /\ db.ORDERS[r].w = k[1] /\ db.ORDERS[r].d = k[2]
                                       /\ db.ORDERS[r].c = k[3] /\ db.ORDERS[r].carrier # NULL_CARRIER_ID}
    BY DEF DeliveredTo, OrdersOf
  <2>4. DeliveredTo(k)' = {r \in Rows : /\ db'.ORDERS[r] # NoRow /\ db'.ORDERS[r].w = k[1] /\ db'.ORDERS[r].d = k[2]
                                        /\ db'.ORDERS[r].c = k[3] /\ db'.ORDERS[r].carrier # NULL_CARRIER_ID}
    BY DEF DeliveredTo, OrdersOf
  <2>5. DeliveredTo(k) \cap Credited(t, k) = {}
    BY <1>5, <2>2, <2>3
  <2>6. ASSUME NEW r \in Rows PROVE r \in DeliveredTo(k)' <=> r \in DeliveredTo(k) \/ r \in Credited(t, k)
    <3>1. CASE OrderCell(r) \in written[t]
      BY <1>4, <1>5, <1>6, <2>2, <2>3, <2>4, <3>1
    <3>2. CASE OrderCell(r) \notin written[t]
      BY <1>4, <2>2, <2>3, <2>4, <3>2
    <3> QED BY <3>1, <3>2
  <2> QED BY <2>2, <2>3, <2>4, <2>5, <2>6
<1>8. ASSUME NEW k \in CustomerKeys PROVE RowSound(db'.CUSTOMER[k]) /\ LedgerOf(k)'
  <2>1. PICK x, z, S, T : x = db.CUSTOMER[k] /\ z = db'.CUSTOMER[k] /\ S = DeliveredTo(k) /\ T = Credited(t, k)
    OBVIOUS
  <2>2. RowSound(x) /\ LedgerOf(k)
    BY <2>1, LedgerIs DEF Accounts
  <2>3. DeliveredTo(k)' = S \cup T /\ PaymentsOf(k)' = PaymentsOf(k)
    BY <1>3, <1>7, <2>1
  <2>4. Grown(x, z, Deliveries(T), x.payment_cnt)
    <3>1. CASE <<"CUSTOMER", k>> \in written[t]
      BY <1>1, <2>1, <3>1 DEF Publishes, CreditSound
    <3>2. CASE <<"CUSTOMER", k>> \notin written[t]
      <4>1. z = x /\ T = {}
        BY <1>1, <2>1, <3>2 DEF Publishes, CreditSound
      <4> QED BY <2>2, <4>1 DEF Grown, Deliveries
    <3> QED BY <3>1, <3>2
  <2>5. Deliveries(S \cup T) = Deliveries(S) \cup Deliveries(T)
    BY DEF Deliveries
  <2>6. EntriesOf(z) = {Payment(u) : u \in PaymentsOf(k)} \cup Deliveries(S \cup T)
    BY <2>1, <2>2, <2>4, <2>5 DEF LedgerOf, Grown
  <2>7. RowSound(z) /\ EntriesOnce(z) /\ EntriesInTurn(z) /\ z.payment_cnt = Cardinality(PaymentsOf(k))
    BY <2>1, <2>2, <2>4 DEF LedgerOf, Grown, RowSound
  <2> QED BY <2>1, <2>3, <2>6, <2>7 DEF LedgerOf
<1>9. CustomerLedger'
  BY <1>8, LedgerIs
<1> QED BY <1>8, <1>9 DEF Accounts
\* A commit of any other transaction leaves customers alone: a new order has no carrier yet.
LEMMA OthersSettle ==
  ASSUME DriverInv, YtdInv, Accounts, NEW t \in Txns, Publishes(t), statement[t] = "commit",
         ctx[t].type \notin {"PAYMENT", "DELIVERY"}
  PROVE  Accounts'
<1>0. Shape /\ Ledger /\ Open(t) /\ ctx[t] \in Contexts
  BY Stage DEF DriverInv, Shape
<1>1. /\ {"CUSTOMER", "ORDERS", "HISTORY"} \subseteq Columns /\ DOMAIN InitialDb["CUSTOMER"] = CustomerKeys
      /\ DOMAIN InitialDb["ORDERS"] = Rows /\ DOMAIN InitialDb["HISTORY"] = Txns
  BY ColumnsAre
<1>2. \A cell \in written[t] : cell[1] \notin {"HISTORY", "CUSTOMER"}
  BY WrittenTables
<1>3. \A k \in CustomerKeys : db'.CUSTOMER[k] = db.CUSTOMER[k]
  <2>1. \A k \in CustomerKeys : <<"CUSTOMER", k>> \notin written[t]
    BY <1>2
  <2> QED BY <1>1, <2>1 DEF Publishes
<1>4. \A u \in Txns : db'.HISTORY[u] = db.HISTORY[u]
  <2>1. \A u \in Txns : <<"HISTORY", u>> \notin written[t]
    BY <1>2
  <2> QED BY <1>1, <2>1 DEF Publishes
<1>5. \A k \in CustomerKeys : DeliveredTo(k)' = DeliveredTo(k)
  <2>1. CASE ctx[t].type = "NEW_ORDER"
    <3>1. NewOrderSound(t) /\ t \in Rows
      BY <1>0, <2>1 DEF DriverInv, TxnSound, Rows
    <3>2. /\ \A r \in Rows : OrderCell(r) \in written[t] <=> r = t
          /\ view[t].ORDERS[t].carrier = NULL_CARRIER_ID
      BY <3>1 DEF NewOrderSound, OrderCell, NewOrderCell, Number, TheOrder
    <3>3. db.ORDERS[t] = NoRow
      BY <1>0 DEF Ledger
    <3>4. \A r \in Rows : db'.ORDERS[r] = IF r = t THEN view[t].ORDERS[t] ELSE db.ORDERS[r]
      BY <1>1, <3>2 DEF Publishes, OrderCell
    <3>5. ASSUME NEW k \in CustomerKeys, NEW r \in Rows PROVE r \in DeliveredTo(k)' <=> r \in DeliveredTo(k)
      <4>1. CASE r = t
        BY <3>2, <3>3, <3>4, <4>1 DEF DeliveredTo, OrdersOf
      <4>2. CASE r # t
        BY <3>4, <4>2 DEF DeliveredTo, OrdersOf
      <4> QED BY <4>1, <4>2
    <3>6. \A k \in CustomerKeys : DeliveredTo(k) \subseteq Rows /\ DeliveredTo(k)' \subseteq Rows
      BY DEF DeliveredTo, OrdersOf
    <3> QED BY <3>5, <3>6
  <2>2. CASE ctx[t].type # "NEW_ORDER"
    <3>1. written[t] = {}
      BY <1>0, <2>2 DEF YtdInv, PaidSound, Contexts
    <3>2. \A r \in Rows : db'.ORDERS[r] = db.ORDERS[r]
      BY <1>1, <3>1 DEF Publishes
    <3> QED BY <3>2 DEF DeliveredTo, OrdersOf
  <2> QED BY <2>1, <2>2
<1> QED BY <1>3, <1>4, <1>5, AccountsStay

\* A commit keeps what is known of the customers.
LEMMA CustomerCommits ==
  ASSUME DriverInv, YtdInv, CustomerInv, NEW t \in Txns, CommitTransaction(t)
  PROVE  CustomerInv'
<1>0. Shape /\ Isolated /\ Accounts /\ statement[t] = "commit"
  BY DEF DriverInv, CustomerInv, CommitTransaction
<1>1. Publishes(t) /\ Open(t)
  BY <1>0, CommitDoes, Stage
<1>2. \A u \in Txns : Open(u)' => u # t /\ Open(u)
  BY <1>1 DEF Open, Closed, Publishes
<1>3. Accounts'
  <2>1. CASE ctx[t].type = "PAYMENT"
    <3>1. PaymentSound(t) /\ PayerSound(t)
      BY <1>1, <2>1 DEF YtdInv, PaidSound, CustomerInv, AccountSound
    <3> QED BY <1>0, <1>1, <3>1, PaymentSettles
  <2>2. CASE ctx[t].type = "DELIVERY"
    <3>1. DeliverySound(t) /\ CreditSound(t)
      BY <1>1, <2>2 DEF DriverInv, TxnSound, CustomerInv, AccountSound
    <3> QED BY <1>0, <1>1, <3>1, DeliverySettles
  <2>3. CASE ctx[t].type \notin {"PAYMENT", "DELIVERY"}
    BY <1>0, <1>1, <2>3, OthersSettle
  <2> QED BY <2>1, <2>2, <2>3
<1>4. ASSUME NEW u \in Txns, Open(u)' PROVE AccountSound(u)'
  <2>1. u # t /\ Open(u) /\ PaidSound(u) /\ AccountSound(u)
    BY <1>2, <1>4 DEF YtdInv, CustomerInv
  <2>2. /\ statement'[u] = statement[u] /\ ctx'[u] = ctx[u] /\ view'[u] = view[u] /\ written'[u] = written[u]
        /\ local'[u] = local[u]
    BY <1>1, <2>1 DEF Publishes
  <2>3. \A x \in Columns : \A q \in DOMAIN InitialDb[x] : <<x, q>> \in written[u] => db'[x][q] = db[x][q]
    BY <1>0, <1>1, <2>1, OthersCells
  <2> QED BY <1>0, <2>1, <2>2, <2>3, AccountStays
<1> QED BY <1>3, <1>4 DEF CustomerInv

\* Nothing is paid and nothing delivered at the start.
LEMMA CustomersStart ==
  ASSUME DriverInit
  PROVE  CustomerInv
<1>1. /\ \A k \in CustomerKeys : db.CUSTOMER[k] = [balance |-> 0, ytd_payment |-> 0, payment_cnt |-> 0, log |-> <<>>]
      /\ \A t \in Txns : db.HISTORY[t] = <<>>
      /\ \A r \in Rows : db.ORDERS[r] = Initially(r)
  BY DEF DriverInit, InitialDb
<1>2. \A r \in Rows : Initially(r) # NoRow => Initially(r).carrier = NULL_CARRIER_ID
  BY DEF Initially, LoadedOrder
<1>3. \A k \in CustomerKeys : PaymentsOf(k) = {} /\ DeliveredTo(k) = {}
  BY <1>1, <1>2 DEF PaymentsOf, DeliveredTo, OrdersOf
<1>4. Cardinality({}) = 0
  BY FS_EmptySet
<1>5. Accounts
  <2>1. ASSUME NEW k \in CustomerKeys PROVE RowSound(db.CUSTOMER[k]) /\ LedgerOf(k)
    <3>1. PICK x, e : x = db.CUSTOMER[k] /\ e = <<>>
      OBVIOUS
    <3>2. /\ x.log = e /\ x.balance = 0 /\ x.ytd_payment = 0 /\ x.payment_cnt = 0
      BY <1>1, <3>1
    <3>3. e \in Seq({}) /\ DOMAIN e = {} /\ Len(e) = 0
      BY <3>1, EmptySeq
    <3>4. EntriesOf(x) = {} /\ EntriesOnce(x)
      BY <3>2, <3>3 DEF EntriesOf, EntriesOnce
    <3>5. EntriesInTurn(x)
      BY <3>2, <3>3 DEF EntriesInTurn, Amounts, Left, NoAmounts
    <3>6. RowSound(x)
      BY <3>2, <3>3, <3>4, <3>5 DEF RowSound, IsLog
    <3> QED BY <1>3, <1>4, <3>1, <3>2, <3>4, <3>5, <3>6 DEF LedgerOf, Deliveries
  <2> QED BY <2>1, LedgerIs DEF Accounts
<1>6. \A t \in Txns : ~Open(t)
  BY DEF DriverInit, Open, Closed
<1> QED BY <1>5, <1>6 DEF CustomerInv

\* Every step keeps what is known of the customers.
LEMMA CustomersKeep ==
  ASSUME OneWarehouse, DriverInv, YtdInv, CustomerInv, [DriverNext]_driverVars
  PROVE  CustomerInv'
<1>0. Shape
  BY DEF DriverInv
<1>1. ASSUME UNCHANGED driverVars PROVE CustomerInv'
  <2>1. UNCHANGED <<db, view, written, stale, statement, ctx, d_id, local>>
    BY <1>1 DEF driverVars
  <2>2. Accounts'
    BY <2>1, SameDeliveries DEF CustomerInv
  <2>3. ASSUME NEW u \in Txns, Open(u)' PROVE AccountSound(u)'
    <3>1. Open(u) /\ PaidSound(u) /\ AccountSound(u)
      BY <2>1, <2>3 DEF YtdInv, CustomerInv, Open
    <3> QED BY <1>0, <2>1, <3>1, AccountStays
  <2> QED BY <2>2, <2>3 DEF CustomerInv
<1>2. ASSUME NEW t \in Txns, StartTransaction(t) PROVE CustomerInv'
  <2>1. /\ Leaves(t) /\ Open(t)' /\ written'[t] = {} /\ (ctx'[t].type = "PAYMENT" => statement'[t] = "warehouse")
        /\ (ctx'[t].type = "DELIVERY" => statement'[t] = "find")
    BY <1>0, <1>2, StartLeaves
  <2>2. AccountSound(t)'
    BY <2>1 DEF AccountSound, PayerSound, CreditSound, Credited
  <2> QED BY <1>0, <2>1, <2>2, CustomerLeaves
<1>3. ASSUME NEW t \in Txns, DoDelivery(t) PROVE CustomerInv'
  <2>1. Open(t) /\ Moves(t) /\ CreditSound(t)'
    BY <1>0, <1>3, StatementMoves, DeliveryCredits
  <2>2. ctx[t].type = "DELIVERY"
    BY <1>0, <1>3, Stage DEF DoDelivery, DELIVERY_GetNewOrder, DELIVERY_DeleteNewOrder, DELIVERY_UpdateOrders, DELIVERY_UpdateCustomer
  <2>3. AccountSound(t)'
    BY <2>1, <2>2 DEF AccountSound, Moves
  <2> QED BY <1>0, <2>1, <2>3, CustomerMoves
<1>4. ASSUME NEW t \in Txns, DoPayment(t) PROVE CustomerInv'
  <2>1. Open(t) /\ Moves(t) /\ PayerSound(t)'
    BY <1>0, <1>4, StatementMoves, PaymentCharges
  <2>2. ctx[t].type = "PAYMENT"
    BY <1>0, <1>4, Stage DEF DoPayment, PAYMENT_UpdateWarehouseBalance, PAYMENT_UpdateDistrictBalance, PAYMENT_UpdateCustomer,
          PAYMENT_InsertHistory
  <2>3. AccountSound(t)'
    BY <2>1, <2>2 DEF AccountSound, Moves
  <2> QED BY <1>0, <2>1, <2>3, CustomerMoves
<1>5. ASSUME NEW t \in Txns, DoNewOrder(t) \/ DoOrderStatus(t) \/ DoStockLevel(t) PROVE CustomerInv'
  <2>1. Open(t) /\ Moves(t)
    BY <1>0, <1>5, StatementMoves
  <2>2. ctx[t].type \in {"NEW_ORDER", "ORDER_STATUS", "STOCK_LEVEL"}
    BY <1>0, <1>5, Stage DEF DoOrderStatus, DoStockLevel, DoNewOrder, NEWORDER_IncrementNextOrderId, NEWORDER_CreateOrder,
          NEWORDER_CreateNewOrder
  <2>3. AccountSound(t)'
    BY <2>1, <2>2 DEF AccountSound, Moves
  <2> QED BY <1>0, <2>1, <2>3, CustomerMoves
<1>6. ASSUME NEW t \in Txns, CommitTransaction(t) PROVE CustomerInv'
  BY <1>6, CustomerCommits
<1>7. ASSUME NEW t \in Txns, RollBackTransaction(t) PROVE CustomerInv'
  BY <1>0, <1>7, RollBackLeaves, CustomerLeaves
<1>8. CASE Finished
  BY <1>1, <1>8 DEF Finished
<1> QED BY <1>1, <1>2, <1>3, <1>4, <1>5, <1>6, <1>7, <1>8 DEF DriverNext

\* For any number of warehouses: no payment is lost from the sums of a
\* warehouse and of a district, and a rollback takes back both.
THEOREM YtdSafe == DriverSpec => []YtdBalanced
<1>1. DriverInit => DriverInv /\ YtdInv
  BY DriverStarts, YtdStarts
<1>2. DriverInv /\ YtdInv /\ [DriverNext]_driverVars => DriverInv' /\ YtdInv'
  BY DriverKeeps, YtdKeeps
<1>3. YtdInv => YtdBalanced
  BY DEF YtdInv, Books
<1> QED BY <1>1, <1>2, <1>3, PTL DEF DriverSpec

\* With one warehouse, for any number of connections, districts and customers,
\* any amounts and whatever the conversions to a float, to text and to an int
\* make of them: the amounts and the count of every customer are what the
\* payments in HISTORY and the delivered orders make of them one after the
\* other, although a payment writes back values that it has computed from an
\* earlier read while deliveries credit the row.  With more warehouses a payment
\* for a customer of another one reads a row and writes another.
THEOREM AccountsSafe == OneWarehouse => (DriverSpec => []AccountsBalanced)
<1> SUFFICES ASSUME OneWarehouse PROVE DriverSpec => []AccountsBalanced
  OBVIOUS
<1>1. DriverInit => DriverInv /\ YtdInv /\ CustomerInv
  BY DriverStarts, YtdStarts, CustomersStart
<1>2. DriverInv /\ YtdInv /\ CustomerInv /\ [DriverNext]_driverVars => DriverInv' /\ YtdInv' /\ CustomerInv'
  BY DriverKeeps, YtdKeeps, CustomersKeep
<1>3. YtdInv /\ CustomerInv => AccountsBalanced
  BY DEF YtdInv, Books, CustomerInv, Accounts, AccountsBalanced
<1> QED BY <1>1, <1>2, <1>3, PTL DEF DriverSpec
=============================================================================
