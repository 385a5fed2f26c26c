--------------------------- MODULE PoolTableProofs ---------------------------
(***************************************************************************)
(* Proofs about two parts that stand alone. ThreadPool of duckdb_lab, for  *)
(* any number of clients and workers, any tasks and any queue size: no     *)
(* wake-up is lost, tasks start in the order in which they were accepted,  *)
(* and the destructor returns only when every accepted task has run. The   *)
(* B+-tree table of db_lab, for any keys and any capacities of its pages:  *)
(* after insertions in ascending order scans, look-ups and separators are  *)
(* right, through closing, reopening and failed writes.                    *)
(***************************************************************************)
EXTENDS ThreadPool, BTreeTable, SeqLemmas, FiniteSetTheorems, TLAPS

-----------------------------------------------------------------------------
(* The thread pool *)

\* Where each kind of thread may be, and where it may sleep.
Roles ==
  /\ \A c \in Clients : pc[c] \in ClientPCs
  /\ \A w \in Workers : pc[w] \in WorkerPCs
  /\ pc[Owner] \in OwnerPCs
  /\ \A t \in asleep : \/ t \in Clients /\ pc[t] = "enqueue"
                       \/ t \in Workers /\ pc[t] = "loop"

\* Workers leave only a stopped and drained pool, and are joined after that.
Shutdown ==
  /\ stop <=> pc[Owner] # "alive"
  /\ \A w \in Workers : pc[w] = "exit" => stop /\ tasks_ = <<>>
  /\ pc[Owner] = "done" => \A w \in Workers : pc[w] = "exit"

\* A started task has run or is in the hands of a worker.
Accounted ==
  Range(started) =
    ran \cup {task[w] : w \in {v \in Workers : pc[v] \in {"notify", "run"}}}

IInv == TypeOK /\ Roles /\ Shutdown

-----------------------------------------------------------------------------
\* Every step of the pool preserves the types of its state, the bound of the
\* queue included.
LEMMA TypeInductive == TypeOK /\ [Next]_vars => TypeOK'
<1> SUFFICES ASSUME TypeOK, [Next]_vars PROVE TypeOK'
  OBVIOUS
<1> USE DEF TypeOK, ClientPCs, WorkerPCs, OwnerPCs, Goto
<1>1. ASSUME NEW c \in Clients, Enqueue(c) PROVE TypeOK'
  <2>1. c \in Threads BY DEF Threads
  <2>2. CASE Sleep(c) BY <2>1, <2>2 DEF Sleep
  <2>3. CASE ~Sleep(c) /\ Refused
    BY <1>1, <2>1, <2>3 DEF Enqueue
  <2>4. CASE ~Sleep(c) /\ ~Refused
    <3>1. /\ tasks_' = Append(tasks_, task[c])
          /\ accepted' = Append(accepted, task[c])
          /\ pc' = [pc EXCEPT ![c] = "notify"]
          /\ UNCHANGED <<stop, asleep, task, started, ran>>
          /\ ~(Len(tasks_) >= max_queue_size_)
      BY <1>1, <2>4 DEF Enqueue, Full
    <3>2. task[c] \in Tasks
      OBVIOUS
    <3>3. /\ tasks_' \in Seq(Tasks) /\ accepted' \in Seq(Tasks)
          /\ Len(tasks_') = Len(tasks_) + 1
      BY <3>1, <3>2, AppendProperties
    <3>4. Len(tasks_') <= max_queue_size_
      BY <3>1, <3>3, PoolAssumption, LenProperties
    <3> QED BY <2>1, <3>1, <3>3, <3>4
  <2> QED BY <2>2, <2>3, <2>4
<1>2. ASSUME NEW c \in Clients, NEW x \in Tasks, CallEnqueue(c, x)
      PROVE TypeOK'
  BY <1>2 DEF CallEnqueue, Threads
<1>3. ASSUME NEW w \in Workers, Take(w) PROVE TypeOK'
  <2>1. w \in Threads BY DEF Threads
  <2>2. CASE Sleep(w) BY <2>1, <2>2 DEF Sleep
  <2>3. CASE ~Sleep(w) /\ Quits
    BY <1>3, <2>1, <2>3 DEF Take
  <2>4. CASE ~Sleep(w) /\ ~Quits
    <3>1. /\ tasks_ # <<>>
          /\ task' = [task EXCEPT ![w] = Head(tasks_)]
          /\ tasks_' = Tail(tasks_)
          /\ started' = Append(started, Head(tasks_))
          /\ pc' = [pc EXCEPT ![w] = "notify"]
          /\ UNCHANGED <<stop, asleep, accepted, ran>>
      BY <1>3, <2>4 DEF Take, Pop, Empty
    <3>2. /\ Head(tasks_) \in Tasks /\ Tail(tasks_) \in Seq(Tasks)
          /\ Len(Tail(tasks_)) = Len(tasks_) - 1
      BY <3>1, HeadTailProperties
    <3>3. Len(tasks_') <= max_queue_size_
      BY <3>1, <3>2, PoolAssumption, LenProperties
    <3>4. started' \in Seq(Tasks)
      BY <3>1, <3>2, AppendProperties
    <3> QED BY <2>1, <3>1, <3>2, <3>3, <3>4
  <2> QED BY <2>2, <2>3, <2>4
<1>4. ASSUME NEW w \in Workers, Run(w) PROVE TypeOK'
  <2>1. w \in Threads /\ task[w] \in Tasks BY DEF Threads
  <2> QED BY <1>4, <2>1 DEF Run
<1>5. CASE Stop BY <1>5 DEF Stop, Threads
<1>6. CASE Join BY <1>6 DEF Join, Threads
<1>7. ASSUME NEW t \in Threads, NotifyAll(t) PROVE TypeOK'
  BY <1>7 DEF NotifyAll
<1>8. ASSUME NEW t \in Threads, SpuriousWakeup(t) PROVE TypeOK'
  BY <1>8 DEF SpuriousWakeup
<1>9. CASE UNCHANGED vars BY <1>9 DEF vars
<1> QED
  BY <1>1, <1>2, <1>3, <1>4, <1>5, <1>6, <1>7, <1>8, <1>9 DEF Next

\* Threads stay where their kind may be, and no worker leaves, nor is the
\* destructor's join over, before the pool is stopped and drained.
LEMMA ShutdownInductive == IInv /\ [Next]_vars => Roles' /\ Shutdown'
<1> SUFFICES ASSUME IInv, [Next]_vars PROVE Roles' /\ Shutdown'
  OBVIOUS
<1> DEFINE Goal == Roles' /\ Shutdown'
<1> USE DEF IInv, Roles, Shutdown, ClientPCs, WorkerPCs, OwnerPCs, Goto
<1>0. /\ pc \in [Threads -> ClientPCs \cup WorkerPCs \cup OwnerPCs]
      /\ asleep \subseteq Threads /\ stop \in BOOLEAN
      /\ \A c \in Clients : c \in Threads /\ c \notin Workers /\ c # Owner
      /\ \A w \in Workers : w \in Threads /\ w # Owner
      /\ Owner \in Threads
  BY PoolAssumption DEF TypeOK, Threads
<1>1. ASSUME NEW c \in Clients, Enqueue(c) PROVE Goal
  <2>1. CASE Sleep(c) BY <1>0, <1>1, <2>1 DEF Sleep, Enqueue
  <2>2. CASE ~Sleep(c) /\ Refused
    BY <1>0, <1>1, <2>2 DEF Enqueue
  <2>3. CASE ~Sleep(c) /\ ~Refused
    <3>1. /\ ~stop /\ c \notin asleep
          /\ pc' = [pc EXCEPT ![c] = "notify"]
          /\ UNCHANGED <<stop, asleep>>
      BY <1>1, <2>3 DEF Enqueue, Refused
    <3>2. \A w \in Workers : pc'[w] # "exit"
      BY <1>0, <3>1
    <3> QED BY <1>0, <3>1, <3>2
  <2> QED BY <2>1, <2>2, <2>3
<1>2. ASSUME NEW c \in Clients, NEW x \in Tasks, CallEnqueue(c, x) PROVE Goal
  BY <1>0, <1>2 DEF CallEnqueue
<1>3. ASSUME NEW w \in Workers, Take(w) PROVE Goal
  <2>1. CASE Sleep(w) BY <1>0, <1>3, <2>1 DEF Sleep, Take
  <2>2. CASE ~Sleep(w) /\ Quits
    BY <1>0, <1>3, <2>2 DEF Take, Quits, Empty
  <2>3. CASE ~Sleep(w) /\ ~Quits
    <3>1. /\ tasks_ # <<>> /\ w \notin asleep /\ pc[w] = "loop"
          /\ pc' = [pc EXCEPT ![w] = "notify"]
          /\ UNCHANGED <<stop, asleep>>
      BY <1>3, <2>3 DEF Take, Empty
    <3>2. \A v \in Workers : pc'[v] # "exit"
      BY <1>0, <3>1
    <3> QED BY <1>0, <3>1, <3>2
  <2> QED BY <2>1, <2>2, <2>3
<1>4. ASSUME NEW w \in Workers, Run(w) PROVE Goal
  BY <1>0, <1>4 DEF Run
<1>5. CASE Stop BY <1>0, <1>5 DEF Stop
<1>6. CASE Join BY <1>0, <1>6 DEF Join
<1>7. ASSUME NEW t \in Threads, NotifyAll(t) PROVE Goal
  BY <1>0, <1>7 DEF NotifyAll, Threads
<1>8. ASSUME NEW t \in Threads, SpuriousWakeup(t) PROVE Goal
  BY <1>8 DEF SpuriousWakeup
<1>9. CASE UNCHANGED vars BY <1>9 DEF vars
<1> QED
  BY <1>1, <1>2, <1>3, <1>4, <1>5, <1>6, <1>7, <1>8, <1>9 DEF Next

\* The inductive invariant holds in every state the pool reaches.
LEMMA Invariant == Spec => []IInv
<1>1. Init => IInv
  <2> SUFFICES ASSUME Init PROVE IInv
    OBVIOUS
  <2>1. /\ \A c \in Clients : c \in Threads /\ pc[c] = "idle"
        /\ \A w \in Workers : w \in Threads /\ pc[w] = "loop"
        /\ Owner \in Threads /\ pc[Owner] = "alive"
    BY PoolAssumption DEF Init, Threads
  <2>2. TypeOK
    <3>1. pc \in [Threads -> ClientPCs \cup WorkerPCs \cup OwnerPCs]
      BY DEF Init, ClientPCs, WorkerPCs, OwnerPCs
    <3>2. Len(tasks_) = 0 /\ 0 <= max_queue_size_
      BY PoolAssumption DEF Init
    <3>3. task \in [Clients \cup Workers -> Tasks]
      BY DEF Init
    <3>4. /\ tasks_ \in Seq(Tasks) /\ accepted \in Seq(Tasks)
          /\ started \in Seq(Tasks)
          /\ asleep \subseteq Threads /\ ran \subseteq Tasks
          /\ stop \in BOOLEAN
      BY EmptySeq DEF Init
    <3> QED BY <3>1, <3>2, <3>3, <3>4 DEF TypeOK
  <2> QED
    BY <2>1, <2>2
       DEF Init, IInv, Roles, Shutdown, ClientPCs, WorkerPCs, OwnerPCs
<1>2. IInv /\ [Next]_vars => IInv'
  BY TypeInductive, ShutdownInductive DEF IInv
<1> QED BY <1>1, <1>2, PTL DEF Spec

\* The state of the pool is well typed; the queue never exceeds its size.
THEOREM PoolTypeCorrect == Spec => []TypeOK
<1>1. IInv => TypeOK
  BY DEF IInv
<1> QED BY <1>1, Invariant, PTL

-----------------------------------------------------------------------------
\* A step leaves no thread asleep whose wait is over, unless a notify_all is
\* still to come: whoever makes a predicate true goes on to notify, and
\* notify_all wakes everybody.
LEMMA WakeupsInductive ==
  IInv /\ NoLostWakeup /\ [Next]_vars => NoLostWakeup'
<1> SUFFICES ASSUME IInv, NoLostWakeup, [Next]_vars PROVE NoLostWakeup'
  OBVIOUS
<1> USE DEF NoLostWakeup
<1>0. /\ pc \in [Threads -> ClientPCs \cup WorkerPCs \cup OwnerPCs]
      /\ \A c \in Clients : c \in Threads
      /\ \A w \in Workers : w \in Threads
      /\ Owner \in Threads
  BY DEF IInv, TypeOK, Threads
<1>1. ASSUME NEW t \in Threads, pc[t] # "notify", pc'[t] = "notify"
      PROVE NoLostWakeup'
  BY <1>1
<1>2. ASSUME NEW t \in Threads, pc[t] # "notify",
             pc' = [pc EXCEPT ![t] = pc'[t]],
             asleep' \subseteq asleep, UNCHANGED <<tasks_, stop>>
      PROVE NoLostWakeup'
  BY <1>0, <1>2 DEF Full, Empty
<1>3. ASSUME NEW c \in Clients, Enqueue(c) PROVE NoLostWakeup'
  <2>1. CASE Full /\ Sleep(c)
    BY <1>0, <2>1 DEF Sleep, Full, Empty
  <2>2. CASE ~Full /\ Refused
    BY <1>0, <1>2, <1>3, <2>2 DEF Enqueue, Goto
  <2>3. CASE ~Full /\ ~Refused
    <3>1. pc[c] # "notify" /\ pc'[c] = "notify"
      BY <1>0, <1>3, <2>3 DEF Enqueue, Goto
    <3> QED BY <1>0, <1>1, <3>1
  <2> QED BY <1>3, <2>1, <2>2, <2>3 DEF Enqueue
<1>4. ASSUME NEW c \in Clients, NEW x \in Tasks, CallEnqueue(c, x)
      PROVE NoLostWakeup'
  BY <1>0, <1>2, <1>4 DEF CallEnqueue, Goto
<1>5. ASSUME NEW w \in Workers, Take(w) PROVE NoLostWakeup'
  <2>1. CASE ~stop /\ Empty /\ Sleep(w)
    BY <1>0, <2>1 DEF Sleep, Full, Empty
  <2>2. CASE Quits
    BY <1>0, <1>2, <1>5, <2>2 DEF Take, Goto, Quits
  <2>3. CASE ~Quits /\ ~Empty
    <3>1. pc[w] # "notify" /\ pc'[w] = "notify"
      BY <1>0, <1>5, <2>3 DEF Take, Goto
    <3> QED BY <1>0, <1>1, <3>1
  <2> QED BY <1>5, <2>1, <2>2, <2>3 DEF Take
<1>6. ASSUME NEW w \in Workers, Run(w) PROVE NoLostWakeup'
  BY <1>0, <1>2, <1>6 DEF Run, Goto
<1>7. CASE Stop
  <2>1. pc[Owner] # "notify" /\ pc'[Owner] = "notify"
    BY <1>0, <1>7 DEF Stop, Goto
  <2> QED BY <1>0, <1>1, <2>1
<1>8. CASE Join BY <1>0, <1>2, <1>8 DEF Join, Goto
<1>9. ASSUME NEW t \in Threads, NotifyAll(t) PROVE NoLostWakeup'
  BY <1>9 DEF NotifyAll
<1>10. ASSUME NEW t \in Threads, SpuriousWakeup(t) PROVE NoLostWakeup'
  BY <1>10 DEF SpuriousWakeup, Full, Empty
<1>11. CASE UNCHANGED vars BY <1>11 DEF vars, Full, Empty
<1> QED
  BY <1>3, <1>4, <1>5, <1>6, <1>7, <1>8, <1>9, <1>10, <1>11 DEF Next

\* No wake-up of the pool is lost, although notify_all is called after the
\* lock was given up.
THEOREM PoolNoLostWakeup == Spec => []NoLostWakeup
<1>1. Init => NoLostWakeup
  BY DEF Init, NoLostWakeup
<1>2. IInv /\ NoLostWakeup /\ [Next]_vars => NoLostWakeup'
  BY WakeupsInductive
<1> QED BY <1>1, <1>2, Invariant, PTL DEF Spec

-----------------------------------------------------------------------------
\* Each step keeps the order of the tasks, and every started task in sight.
LEMMA OrderInductive ==
  IInv /\ StartedInOrder /\ Accounted /\ [Next]_vars
    => StartedInOrder' /\ Accounted'
<1> SUFFICES ASSUME IInv, StartedInOrder, Accounted, [Next]_vars
             PROVE StartedInOrder' /\ Accounted'
  OBVIOUS
<1> DEFINE Busy(p) == {w \in Workers : p[w] \in {"notify", "run"}}
           Goal == StartedInOrder' /\ Accounted'
<1>0. /\ pc \in [Threads -> ClientPCs \cup WorkerPCs \cup OwnerPCs]
      /\ tasks_ \in Seq(Tasks) /\ started \in Seq(Tasks)
      /\ task \in [Clients \cup Workers -> Tasks]
      /\ \A c \in Clients : c \in Threads /\ c \notin Workers
      /\ \A w \in Workers : w \in Threads /\ w # Owner
      /\ \A w \in Workers : pc[w] \in WorkerPCs
      /\ Owner \in Threads
  BY PoolAssumption DEF IInv, TypeOK, Roles, Threads
<1>1. ASSUME UNCHANGED <<started, tasks_, accepted>> PROVE StartedInOrder'
  BY <1>1 DEF StartedInOrder
<1>2. ASSUME UNCHANGED <<started, ran>>,
             \A w \in Workers : task'[w] = task[w]
                             /\ (w \in Busy(pc') <=> w \in Busy(pc))
      PROVE Accounted'
  <2>1. Busy(pc') = Busy(pc)
    BY <1>2
  <2> QED BY <1>2, <2>1 DEF Accounted
<1>3. ASSUME NEW c \in Clients, Enqueue(c) PROVE Goal
  <2>1. CASE Sleep(c)
    BY <1>1, <1>2, <2>1 DEF Sleep
  <2>2. CASE ~Sleep(c) /\ Refused
    BY <1>0, <1>1, <1>2, <1>3, <2>2 DEF Enqueue, Goto
  <2>3. CASE ~Sleep(c) /\ ~Refused
    <3>1. /\ tasks_' = Append(tasks_, task[c])
          /\ accepted' = Append(accepted, task[c])
          /\ UNCHANGED <<task, started, ran>>
          /\ pc' = [pc EXCEPT ![c] = "notify"]
      BY <1>3, <2>3 DEF Enqueue, Goto
    <3>2. task[c] \in Tasks
      BY <1>0
    <3>3. started \o Append(tasks_, task[c])
            = Append(started \o tasks_, task[c])
      BY <1>0, <3>2, ConcatAppend
    <3>4. StartedInOrder'
      BY <3>1, <3>3 DEF StartedInOrder
    <3>5. Accounted'
      BY <1>0, <1>2, <3>1
    <3> QED BY <3>4, <3>5
  <2> QED BY <2>1, <2>2, <2>3
<1>4. ASSUME NEW c \in Clients, NEW x \in Tasks, CallEnqueue(c, x) PROVE Goal
  BY <1>0, <1>1, <1>2, <1>4 DEF CallEnqueue, Goto
<1>5. ASSUME NEW w \in Workers, Take(w) PROVE Goal
  <2>1. CASE Sleep(w)
    BY <1>1, <1>2, <2>1 DEF Sleep
  <2>2. CASE ~Sleep(w) /\ Quits
    BY <1>0, <1>1, <1>2, <1>5, <2>2 DEF Take, Goto
  <2>3. CASE ~Sleep(w) /\ ~Quits
    <3>1. /\ tasks_ # <<>> /\ pc[w] = "loop"
          /\ task' = [task EXCEPT ![w] = Head(tasks_)]
          /\ tasks_' = Tail(tasks_)
          /\ started' = Append(started, Head(tasks_))
          /\ pc' = [pc EXCEPT ![w] = "notify"]
          /\ UNCHANGED <<accepted, ran>>
      BY <1>5, <2>3 DEF Take, Pop, Empty, Goto
    <3>2. Append(started, Head(tasks_)) \o Tail(tasks_) = started \o tasks_
      BY <1>0, <3>1, ConcatTake
    <3>3. StartedInOrder'
      BY <3>1, <3>2 DEF StartedInOrder
    <3>4. Head(tasks_) \in Tasks
      BY <1>0, <3>1, HeadTailProperties
    <3>5. Range(started') = Range(started) \cup {Head(tasks_)}
      BY <1>0, <3>1, <3>4, RangeAppend
    <3>6. Busy(pc') = Busy(pc) \cup {w} /\ w \notin Busy(pc)
      BY <1>0, <3>1
    <3>7. {task'[v] : v \in Busy(pc')}
            = {task[v] : v \in Busy(pc)} \cup {Head(tasks_)}
      BY <1>0, <3>1, <3>6
    <3>8. Accounted'
      BY <3>1, <3>5, <3>7 DEF Accounted
    <3> QED BY <3>3, <3>8
  <2> QED BY <2>1, <2>2, <2>3
<1>6. ASSUME NEW w \in Workers, Run(w) PROVE Goal
  <2>1. /\ pc[w] = "run" /\ pc' = [pc EXCEPT ![w] = "loop"]
        /\ ran' = ran \cup {task[w]}
        /\ UNCHANGED <<tasks_, task, accepted, started>>
    BY <1>6 DEF Run, Goto
  <2>2. Busy(pc) = Busy(pc') \cup {w}
    BY <1>0, <2>1
  <2>3. {task[v] : v \in Busy(pc)} = {task[v] : v \in Busy(pc')} \cup {task[w]}
    BY <2>2
  <2>4. Accounted'
    BY <2>1, <2>3 DEF Accounted
  <2> QED BY <1>1, <2>1, <2>4
<1>7. CASE Stop BY <1>0, <1>1, <1>2, <1>7 DEF Stop, Goto
<1>8. CASE Join BY <1>0, <1>1, <1>2, <1>8 DEF Join, Goto
<1>9. ASSUME NEW t \in Threads, NotifyAll(t) PROVE Goal
  <2>1. /\ UNCHANGED <<tasks_, task, accepted, started, ran>>
        /\ pc[t] = "notify"
        /\ pc' = [pc EXCEPT ![t] = IF t \in Clients THEN "idle"
                                   ELSE IF t \in Workers THEN "run" ELSE "join"]
    BY <1>9 DEF NotifyAll, Goto
  <2>2. \A w \in Workers : w \in Busy(pc') <=> w \in Busy(pc)
    BY <1>0, <2>1
  <2> QED BY <1>1, <1>2, <2>1, <2>2
<1>10. ASSUME NEW t \in Threads, SpuriousWakeup(t) PROVE Goal
  BY <1>1, <1>2, <1>10 DEF SpuriousWakeup
<1>11. CASE UNCHANGED vars BY <1>1, <1>2, <1>11 DEF vars
<1> QED
  BY <1>3, <1>4, <1>5, <1>6, <1>7, <1>8, <1>9, <1>10, <1>11 DEF Next

\* Started tasks followed by queued ones are the accepted ones, always.
LEMMA OrderInvariant == Spec => [](StartedInOrder /\ Accounted)
<1>1. Init => StartedInOrder /\ Accounted
  <2> SUFFICES ASSUME Init PROVE StartedInOrder /\ Accounted
    OBVIOUS
  <2>1. \A w \in Workers : pc[w] = "loop"
    BY PoolAssumption DEF Init, Threads
  <2>2. StartedInOrder
    BY EmptySeq, ConcatNothing DEF Init, StartedInOrder
  <2>3. Range(started) = {}
    BY DEF Init, Range
  <2> QED BY <2>1, <2>2, <2>3 DEF Init, Accounted
<1>2. IInv /\ StartedInOrder /\ Accounted /\ [Next]_vars
        => StartedInOrder' /\ Accounted'
  BY OrderInductive
<1> QED BY <1>1, <1>2, Invariant, PTL DEF Spec

\* The workers start the tasks in the order in which enqueue() accepted them,
\* none is lost between them and none is started twice.
THEOREM PoolStartsInOrder == Spec => []StartedInOrder
BY OrderInvariant, PTL

\* When ~ThreadPool() returns every task that enqueue() accepted has run.
THEOREM PoolDrained == Spec => []DestroyedAfterRun
<1>1. IInv /\ StartedInOrder /\ Accounted => DestroyedAfterRun
  <2> SUFFICES ASSUME IInv, StartedInOrder, Accounted, pc[Owner] = "done"
               PROVE ran = Range(accepted)
    BY DEF DestroyedAfterRun
  <2>1. \A w \in Workers : pc[w] = "exit"
    BY DEF IInv, Shutdown
  <2>2. tasks_ = <<>>
    BY <2>1, PoolAssumption DEF IInv, Shutdown
  <2>3. started \in Seq(Tasks)
    BY DEF IInv, TypeOK
  <2>4. accepted = started
    BY <2>2, <2>3, ConcatNothing DEF StartedInOrder
  <2>5. Range(started) = ran
    BY <2>1 DEF Accounted
  <2> QED BY <2>4, <2>5
<1> QED BY <1>1, Invariant, OrderInvariant, PTL

\* The pool keeps its tasks: in order while they wait, and until all have run
\* when it is destroyed.
THEOREM PoolKeepsTasks == Spec => []TasksKept
<1>1. TypeOK /\ StartedInOrder /\ DestroyedAfterRun => TasksKept
  BY DEF TasksKept
<1> QED BY <1>1, PoolTypeCorrect, PoolStartsInOrder, PoolDrained, PTL

-----------------------------------------------------------------------------
(* The table of db_lab *)

\* The keys of a page are in order.
Ascends(p) == \A i, j \in 0 .. p.n - 1 : i < j => p.key[i] < p.key[j]

\* A window of a binary search among n keys; the place of k is in it.
Windows(n) == [min : 0 .. n, max : 0 .. n]
Around(n, key, k, a, b) == a <= b /\ \A i \in 0 .. n - 1 : (i < a => key[i] < k) /\ (i >= b => ~(key[i] < k))

\* A round keeps the place in the window and makes the window smaller.
Halves(n, key, k, w, r) ==
  w \in Windows(n) /\ Around(n, key, k, w.min, w.max) =>
    /\ r \in Windows(n) /\ Around(n, key, k, r.min, r.max)
    /\ r.min = r.max \/ r.max - r.min < w.max - w.min

\* n rounds find the place.
LEMMA HalvingEnds ==
  ASSUME NEW n \in Nat, NEW key, NEW k, NEW window, window[0] = [min |-> 0, max |-> n],
         \A m \in 1 .. n : Halves(n, key, k, window[m - 1], window[m])
  PROVE  /\ window[n].min \in 0 .. n
         /\ \A i \in 0 .. n - 1 : i < window[n].min <=> key[i] < k
<1> DEFINE Good(m) == \E a, b \in 0 .. n : /\ window[m] = [min |-> a, max |-> b] /\ Around(n, key, k, a, b)
                                          /\ (a = b \/ b - a <= n - m)
           P == {m \in Nat : m <= n => Good(m)}
<1>1. 0 \in P
  <2>1. Around(n, key, k, 0, n)
    BY DEF Around
  <2>2. Good(0)
    BY <2>1
  <2> QED BY <2>2
<1>2. ASSUME NEW m \in Nat, m \in P
      PROVE  m + 1 \in P
  <2>1. m <= n => Good(m)
    BY <1>2
  <2> HIDE DEF Good
  <2> SUFFICES ASSUME m + 1 <= n
               PROVE  Good(m + 1)
    OBVIOUS
  <2> USE DEF Good
  <2>2. PICK a \in 0 .. n, b \in 0 .. n : /\ window[m] = [min |-> a, max |-> b] /\ Around(n, key, k, a, b)
                                          /\ (a = b \/ b - a <= n - m)
    BY <2>1
  <2>3. PICK w, r : w = window[m] /\ r = window[m + 1]
    OBVIOUS
  <2>4. w \in Windows(n) /\ w.min = a /\ w.max = b
    BY <2>2, <2>3 DEF Windows
  <2>5. Halves(n, key, k, w, r)
    <3>1. m + 1 \in 1 .. n /\ (m + 1) - 1 = m
      OBVIOUS
    <3> QED BY <2>3, <3>1
  <2>6. r \in Windows(n) /\ Around(n, key, k, r.min, r.max) /\ (r.min = r.max \/ r.max - r.min < b - a)
    BY <2>2, <2>4, <2>5 DEF Halves
  <2>7. PICK c \in 0 .. n, d \in 0 .. n : r = [min |-> c, max |-> d] /\ r.min = c /\ r.max = d
    BY <2>6 DEF Windows
  <2>8. Around(n, key, k, c, d) /\ c <= d /\ (c = d \/ d - c < b - a)
    BY <2>6, <2>7 DEF Around
  <2>9. c = d \/ d - c <= n - (m + 1)
    BY <2>2, <2>8
  <2> QED BY <2>3, <2>7, <2>8, <2>9
<1>3. Good(n)
  <2>1. Nat \subseteq P
    <3> HIDE DEF P
    <3> QED BY ONLY <1>1, <1>2, SetInduction
  <2>2. n \in P
    BY <2>1
  <2> HIDE DEF Good
  <2> QED BY <2>2
<1>4. PICK a \in 0 .. n, b \in 0 .. n : /\ window[n] = [min |-> a, max |-> b] /\ Around(n, key, k, a, b)
                                        /\ (a = b \/ b - a <= n - n)
  BY <1>3
<1>5. a = b /\ window[n].min = a
  BY <1>4 DEF Around
<1>6. \A i \in 0 .. n - 1 : i < a <=> key[i] < k
  BY <1>4, <1>5 DEF Around
<1> QED BY <1>5, <1>6

\* What the binary search of an internal page finds among ascending keys.
LEMMA InternalFound ==
  ASSUME NEW p, p.n \in Nat, \A i \in 0 .. p.n - 1 : p.key[i] \in Nat, Ascends(p), NEW k \in Nat
  PROVE  /\ InternalFindCell(p, k) \in 0 .. p.n
         /\ \A i \in 0 .. p.n - 1 : i < InternalFindCell(p, k) <=> p.key[i] < k
<1>1. PICK n \in Nat : n = p.n
  OBVIOUS
<1>2. PICK key : key = p.key
  OBVIOUS
<1>3. /\ \A i \in 0 .. n - 1 : key[i] \in Nat
      /\ \A i, j \in 0 .. n - 1 : i < j => key[i] < key[j]
  BY <1>1, <1>2 DEF Ascends
<1>4. ASSUME NEW w \in Windows(n)
      PROVE  InternalRound(p, k, w) \in Windows(n) /\ Halves(n, key, k, w, InternalRound(p, k, w))
  <2>1. PICK a \in 0 .. n, b \in 0 .. n : w = [min |-> a, max |-> b] /\ a = w.min /\ b = w.max
    BY DEF Windows
  <2>2. PICK r : r = InternalRound(p, k, w)
    OBVIOUS
  <2>3. CASE a = b
    <3>1. r = w
      BY <2>1, <2>2, <2>3 DEF InternalRound
    <3> QED BY <2>1, <2>2, <2>3, <3>1 DEF Halves
  <2>4. CASE a # b
    <3>1. PICK c \in Int : c = (a + b) \div 2
      OBVIOUS
    <3>2. c \in 0 .. n - 1 /\ (a < b => a <= c /\ c < b)
      BY <2>4, <3>1
    <3>3. key[c] \in Nat /\ p.key[c] = key[c]
      BY <1>2, <1>3, <3>2
    <3>4. \E x, y \in 0 .. n : /\ r = [min |-> x, max |-> y]
                               /\ Around(n, key, k, a, b) => Around(n, key, k, x, y) /\ (x = y \/ y - x < b - a)
      <4>1. CASE key[c] >= k
        <5>1. r = [min |-> a, max |-> c]
          BY <2>1, <2>2, <2>4, <3>1, <3>3, <4>1 DEF InternalRound
        <5>2. a \in 0 .. n /\ c \in 0 .. n
          BY <3>2
        <5>3. ASSUME Around(n, key, k, a, b)
              PROVE  Around(n, key, k, a, c) /\ (a = c \/ c - (a) < b - a)
          <6>1. a < b /\ a <= c /\ c < b
            BY <2>4, <3>2, <5>3 DEF Around
          <6>2. ASSUME NEW i \in 0 .. n - 1
                PROVE  i >= c => ~(key[i] < k)
            <7>1. (i < c => key[i] < key[c]) /\ (c < i => key[c] < key[i]) /\ key[i] \in Nat
              BY <1>3, <3>2
            <7> QED BY <3>2, <3>3, <4>1, <7>1
          <6>3. \A i \in 0 .. n - 1 : (i < a => key[i] < k) /\ (i >= c => ~(key[i] < k))
            BY <5>3, <6>2 DEF Around
          <6>4. a <= c /\ (a = c \/ c - (a) < b - a)
            BY <6>1
          <6> QED BY <6>3, <6>4 DEF Around
        <5> QED BY <5>1, <5>2, <5>3
      <4>2. CASE ~(key[c] >= k)
        <5>1. r = [min |-> c + 1, max |-> b]
          BY <2>1, <2>2, <2>4, <3>1, <3>3, <4>2 DEF InternalRound
        <5>2. c + 1 \in 0 .. n /\ b \in 0 .. n
          BY <3>2
        <5>3. ASSUME Around(n, key, k, a, b)
              PROVE  Around(n, key, k, c + 1, b) /\ (c + 1 = b \/ b - (c + 1) < b - a)
          <6>1. a < b /\ a <= c /\ c < b
            BY <2>4, <3>2, <5>3 DEF Around
          <6>2. ASSUME NEW i \in 0 .. n - 1
                PROVE  i < c + 1 => key[i] < k
            <7>1. (i < c => key[i] < key[c]) /\ (c < i => key[c] < key[i]) /\ key[i] \in Nat
              BY <1>3, <3>2
            <7> QED BY <3>2, <3>3, <4>2, <7>1
          <6>3. \A i \in 0 .. n - 1 : (i < c + 1 => key[i] < k) /\ (i >= b => ~(key[i] < k))
            BY <5>3, <6>2 DEF Around
          <6>4. c + 1 <= b /\ (c + 1 = b \/ b - (c + 1) < b - a)
            BY <6>1
          <6> QED BY <6>3, <6>4 DEF Around
        <5> QED BY <5>1, <5>2, <5>3
      <4> QED BY <4>1, <4>2
    <3>5. PICK x \in 0 .. n, y \in 0 .. n : /\ r = [min |-> x, max |-> y]
                                            /\ Around(n, key, k, a, b) => Around(n, key, k, x, y) /\ (x = y \/ y - x < b - a)
      BY <3>4
    <3>6. r \in Windows(n) /\ r.min = x /\ r.max = y
      BY <3>5 DEF Windows
    <3>7. Halves(n, key, k, w, r)
      BY <2>1, <3>5, <3>6 DEF Halves
    <3> QED BY <2>2, <3>6, <3>7
  <2> QED BY <2>3, <2>4
<1> DEFINE first == [min |-> 0, max |-> n]
           step == [x \in (1 .. n) \X Windows(n) |-> InternalRound(p, k, x[2])]
           Body(g) == [m \in 0 .. n |-> IF m = 0 THEN first ELSE InternalRound(p, k, g[m - 1])]
<1>5. first \in Windows(n)
  BY DEF Windows
<1>6. step \in [(1 .. n) \X Windows(n) -> Windows(n)]
  <2>1. \A x \in (1 .. n) \X Windows(n) : InternalRound(p, k, x[2]) \in Windows(n)
    BY <1>4
  <2> QED BY <2>1
<1>7. PICK f \in [0 .. n -> Windows(n)] : f = Body(f)
  <2> HIDE DEF first
  <2>1. PICK f \in [0 .. n -> Windows(n)] : Follows(f, n, first, step)
    <3> HIDE DEF step
    <3> QED BY ONLY <1>5, <1>6, n \in Nat, RecursionOnInterval
  <2>2. ASSUME NEW m \in 1 .. n
        PROVE  f[m] = InternalRound(p, k, f[m - 1])
    <3>1. f[m - 1] \in Windows(n) /\ <<m, f[m - 1]>> \in (1 .. n) \X Windows(n)
      BY <2>1
    <3> QED BY <2>1, <3>1 DEF Follows
  <2>3. \A m \in 0 .. n : f[m] = IF m = 0 THEN first ELSE InternalRound(p, k, f[m - 1])
    BY <2>1, <2>2 DEF Follows
  <2>4. f = Body(f)
    BY <2>1, <2>3
  <2> QED BY <2>4
<1>8. PICK window : window = CHOOSE g : g = Body(g)
  OBVIOUS
<1>9. window = Body(window)
  BY <1>7, <1>8
<1>10. InternalFindCell(p, k) = window[n].min
  BY <1>1, <1>8 DEF InternalFindCell
<1> HIDE DEF step
<1>11. window[0] = [min |-> 0, max |-> n]
  BY <1>9
<1> HIDE DEF first
<1>12. ASSUME NEW m \in 1 .. n
       PROVE  Halves(n, key, k, window[m - 1], window[m])
  <2>1. PICK w, r : w = window[m - 1] /\ r = window[m]
    OBVIOUS
  <2>2. r = InternalRound(p, k, w)
    BY <1>9, <2>1
  <2>3. w \in Windows(n) => Halves(n, key, k, w, r)
    BY <1>4, <2>2
  <2>4. Halves(n, key, k, w, r)
    BY <2>3 DEF Halves
  <2> QED BY <2>1, <2>4
<1>13. window[n].min \in 0 .. n /\ \A i \in 0 .. n - 1 : i < window[n].min <=> key[i] < k
  BY <1>11, <1>12, HalvingEnds
<1> QED BY <1>1, <1>2, <1>10, <1>13

\* What the binary search of a leaf page finds among ascending keys.
LEMMA LeafFound ==
  ASSUME NEW p, p.n \in Nat, \A i \in 0 .. p.n - 1 : p.key[i] \in Nat, Ascends(p), NEW k \in Nat
  PROVE  /\ LeafFindCell(p, k) \in 0 .. p.n
         /\ \A i \in 0 .. p.n - 1 : i < LeafFindCell(p, k) <=> p.key[i] < k
<1>1. PICK n \in Nat : n = p.n
  OBVIOUS
<1>2. PICK key : key = p.key
  OBVIOUS
<1>3. /\ \A i \in 0 .. n - 1 : key[i] \in Nat
      /\ \A i, j \in 0 .. n - 1 : i < j => key[i] < key[j]
  BY <1>1, <1>2 DEF Ascends
<1>4. ASSUME NEW w \in Windows(n)
      PROVE  LeafRound(p, k, w) \in Windows(n) /\ Halves(n, key, k, w, LeafRound(p, k, w))
  <2>1. PICK a \in 0 .. n, b \in 0 .. n : w = [min |-> a, max |-> b] /\ a = w.min /\ b = w.max
    BY DEF Windows
  <2>2. PICK r : r = LeafRound(p, k, w)
    OBVIOUS
  <2>3. CASE a = b
    <3>1. r = w
      BY <2>1, <2>2, <2>3 DEF LeafRound
    <3> QED BY <2>1, <2>2, <2>3, <3>1 DEF Halves
  <2>4. CASE a # b
    <3>1. PICK c \in Int : c = (a + b) \div 2
      OBVIOUS
    <3>2. c \in 0 .. n - 1 /\ (a < b => a <= c /\ c < b)
      BY <2>4, <3>1
    <3>3. key[c] \in Nat /\ p.key[c] = key[c]
      BY <1>2, <1>3, <3>2
    <3>4. \E x, y \in 0 .. n : /\ r = [min |-> x, max |-> y]
                               /\ Around(n, key, k, a, b) => Around(n, key, k, x, y) /\ (x = y \/ y - x < b - a)
      <4>1. CASE key[c] = k
        <5>1. r = [min |-> c, max |-> c]
          BY <2>1, <2>2, <2>4, <3>1, <3>3, <4>1 DEF LeafRound
        <5>2. c \in 0 .. n /\ c \in 0 .. n
          BY <3>2
        <5>3. ASSUME Around(n, key, k, a, b)
              PROVE  Around(n, key, k, c, c) /\ (c = c \/ c - (c) < b - a)
          <6>1. a < b /\ a <= c /\ c < b
            BY <2>4, <3>2, <5>3 DEF Around
          <6>2. ASSUME NEW i \in 0 .. n - 1
                PROVE  (i < c => key[i] < k) /\ (i >= c => ~(key[i] < k))
            <7>1. (i < c => key[i] < key[c]) /\ (c < i => key[c] < key[i]) /\ key[i] \in Nat
              BY <1>3, <3>2
            <7> QED BY <3>2, <3>3, <4>1, <7>1
          <6>3. \A i \in 0 .. n - 1 : (i < c => key[i] < k) /\ (i >= c => ~(key[i] < k))
            BY <5>3, <6>2 DEF Around
          <6>4. c <= c /\ (c = c \/ c - (c) < b - a)
            BY <6>1
          <6> QED BY <6>3, <6>4 DEF Around
        <5> QED BY <5>1, <5>2, <5>3
      <4>2. CASE k < key[c]
        <5>1. r = [min |-> a, max |-> c]
          BY <2>1, <2>2, <2>4, <3>1, <3>3, <4>2 DEF LeafRound
        <5>2. a \in 0 .. n /\ c \in 0 .. n
          BY <3>2
        <5>3. ASSUME Around(n, key, k, a, b)
              PROVE  Around(n, key, k, a, c) /\ (a = c \/ c - (a) < b - a)
          <6>1. a < b /\ a <= c /\ c < b
            BY <2>4, <3>2, <5>3 DEF Around
          <6>2. ASSUME NEW i \in 0 .. n - 1
                PROVE  i >= c => ~(key[i] < k)
            <7>1. (i < c => key[i] < key[c]) /\ (c < i => key[c] < key[i]) /\ key[i] \in Nat
              BY <1>3, <3>2
            <7> QED BY <3>2, <3>3, <4>2, <7>1
          <6>3. \A i \in 0 .. n - 1 : (i < a => key[i] < k) /\ (i >= c => ~(key[i] < k))
            BY <5>3, <6>2 DEF Around
          <6>4. a <= c /\ (a = c \/ c - (a) < b - a)
            BY <6>1
          <6> QED BY <6>3, <6>4 DEF Around
        <5> QED BY <5>1, <5>2, <5>3
      <4>3. CASE key[c] < k
        <5>1. r = [min |-> c + 1, max |-> b]
          BY <2>1, <2>2, <2>4, <3>1, <3>3, <4>3 DEF LeafRound
        <5>2. c + 1 \in 0 .. n /\ b \in 0 .. n
          BY <3>2
        <5>3. ASSUME Around(n, key, k, a, b)
              PROVE  Around(n, key, k, c + 1, b) /\ (c + 1 = b \/ b - (c + 1) < b - a)
          <6>1. a < b /\ a <= c /\ c < b
            BY <2>4, <3>2, <5>3 DEF Around
          <6>2. ASSUME NEW i \in 0 .. n - 1
                PROVE  i < c + 1 => key[i] < k
            <7>1. (i < c => key[i] < key[c]) /\ (c < i => key[c] < key[i]) /\ key[i] \in Nat
              BY <1>3, <3>2
            <7> QED BY <3>2, <3>3, <4>3, <7>1
          <6>3. \A i \in 0 .. n - 1 : (i < c + 1 => key[i] < k) /\ (i >= b => ~(key[i] < k))
            BY <5>3, <6>2 DEF Around
          <6>4. c + 1 <= b /\ (c + 1 = b \/ b - (c + 1) < b - a)
            BY <6>1
          <6> QED BY <6>3, <6>4 DEF Around
        <5> QED BY <5>1, <5>2, <5>3
      <4> QED BY <3>3, <4>1, <4>2, <4>3
    <3>5. PICK x \in 0 .. n, y \in 0 .. n : /\ r = [min |-> x, max |-> y]
                                            /\ Around(n, key, k, a, b) => Around(n, key, k, x, y) /\ (x = y \/ y - x < b - a)
      BY <3>4
    <3>6. r \in Windows(n) /\ r.min = x /\ r.max = y
      BY <3>5 DEF Windows
    <3>7. Halves(n, key, k, w, r)
      BY <2>1, <3>5, <3>6 DEF Halves
    <3> QED BY <2>2, <3>6, <3>7
  <2> QED BY <2>3, <2>4
<1> DEFINE first == [min |-> 0, max |-> n]
           step == [x \in (1 .. n) \X Windows(n) |-> LeafRound(p, k, x[2])]
           Body(g) == [m \in 0 .. n |-> IF m = 0 THEN first ELSE LeafRound(p, k, g[m - 1])]
<1>5. first \in Windows(n)
  BY DEF Windows
<1>6. step \in [(1 .. n) \X Windows(n) -> Windows(n)]
  <2>1. \A x \in (1 .. n) \X Windows(n) : LeafRound(p, k, x[2]) \in Windows(n)
    BY <1>4
  <2> QED BY <2>1
<1>7. PICK f \in [0 .. n -> Windows(n)] : f = Body(f)
  <2> HIDE DEF first
  <2>1. PICK f \in [0 .. n -> Windows(n)] : Follows(f, n, first, step)
    <3> HIDE DEF step
    <3> QED BY ONLY <1>5, <1>6, n \in Nat, RecursionOnInterval
  <2>2. ASSUME NEW m \in 1 .. n
        PROVE  f[m] = LeafRound(p, k, f[m - 1])
    <3>1. f[m - 1] \in Windows(n) /\ <<m, f[m - 1]>> \in (1 .. n) \X Windows(n)
      BY <2>1
    <3> QED BY <2>1, <3>1 DEF Follows
  <2>3. \A m \in 0 .. n : f[m] = IF m = 0 THEN first ELSE LeafRound(p, k, f[m - 1])
    BY <2>1, <2>2 DEF Follows
  <2>4. f = Body(f)
    BY <2>1, <2>3
  <2> QED BY <2>4
<1>8. PICK window : window = CHOOSE g : g = Body(g)
  OBVIOUS
<1>9. window = Body(window)
  BY <1>7, <1>8
<1>10. LeafFindCell(p, k) = window[n].min
  BY <1>1, <1>8 DEF LeafFindCell
<1> HIDE DEF step
<1>11. window[0] = [min |-> 0, max |-> n]
  BY <1>9
<1> HIDE DEF first
<1>12. ASSUME NEW m \in 1 .. n
       PROVE  Halves(n, key, k, window[m - 1], window[m])
  <2>1. PICK w, r : w = window[m - 1] /\ r = window[m]
    OBVIOUS
  <2>2. r = LeafRound(p, k, w)
    BY <1>9, <2>1
  <2>3. w \in Windows(n) => Halves(n, key, k, w, r)
    BY <1>4, <2>2
  <2>4. Halves(n, key, k, w, r)
    BY <2>3 DEF Halves
  <2> QED BY <2>1, <2>4
<1>13. window[n].min \in 0 .. n /\ \A i \in 0 .. n - 1 : i < window[n].min <=> key[i] < k
  BY <1>11, <1>12, HalvingEnds
<1> QED BY <1>1, <1>2, <1>10, <1>13

\* The halves of a full leaf: how many cells each gets, and the slot of a cell.
LEMMA SplitNumbers ==
  /\ LeftSplitCount \in Nat /\ RightSplitCount \in Nat
  /\ LeftSplitCount >= 1 /\ RightSplitCount >= 1 /\ RightSplitCount <= LeftSplitCount
  /\ LeftSplitCount + RightSplitCount = CellsCapacity + 1
  /\ \A i \in 0 .. CellsCapacity :
       i % LeftSplitCount = IF i < LeftSplitCount THEN i ELSE i - LeftSplitCount
<1>1. PICK cap \in Nat : cap = CellsCapacity /\ cap >= 2
  BY TableAssumption
<1>2. PICK r \in Int : r = (cap + 1) \div 2
  OBVIOUS
<1>3. r = RightSplitCount
  BY <1>1, <1>2 DEF RightSplitCount
<1>4. PICK l \in Int : l = cap + 1 - r
  OBVIOUS
<1>5. l = LeftSplitCount
  BY <1>1, <1>3, <1>4 DEF LeftSplitCount
<1>6. r >= 1 /\ r <= l /\ l >= 1
  BY <1>1, <1>2, <1>4
<1>7. ASSUME NEW i \in 0 .. cap
      PROVE  i % l = IF i < l THEN i ELSE i - l
  <2>1. i < l + l
    BY <1>4, <1>6
  <2>2. l > 0 
    BY <1>6
  <2>3. CASE i < l
    BY <2>2, <2>3
  <2>4. CASE i >= l
    <3>1. PICK x \in Int : x = i % l
      BY <2>2
    <3>2. PICK d \in Int : d = i \div l
      BY <2>2
    <3>3. i = d * l + x /\ 0 <= x /\ x < l
      BY <2>2, <3>1, <3>2
    <3>4. d = 1
      BY <3>3, <2>1, <2>4, <2>2
    <3> QED BY <3>1, <3>3, <3>4, <2>4
  <2> QED BY <2>3, <2>4
<1>8. \A i \in 0 .. CellsCapacity :
        i % LeftSplitCount = IF i < LeftSplitCount THEN i ELSE i - LeftSplitCount
  BY ONLY <1>1, <1>5, <1>7
<1>9. l + r = cap + 1 /\ l \in Nat /\ r \in Nat
  BY <1>4, <1>6
<1> QED BY ONLY <1>1, <1>3, <1>5, <1>6, <1>8, <1>9

PageRecords ==
  [type : {"none", "internal", "leaf"}, root : BOOLEAN, parent : PageNums, n : Nat,
   link : PageNums, key : [Slots -> Nat], child : [Slots -> PageNums]]

\* The cells that a full leaf and the new key make together.
Merged(p, c, k, i) == IF i > c THEN p.key[i - 1] ELSE IF i < c THEN p.key[i] ELSE k

\* The keys of the two halves after m rounds of the redistribution.
LeftKeys(p, c, k, m) ==
  [s \in Slots |-> IF CellsCapacity + 1 - m <= s /\ s < LeftSplitCount THEN Merged(p, c, k, s)
                   ELSE p.key[s]]
RightKeys(p, c, k, m) ==
  [s \in Slots |-> IF CellsCapacity + 1 - m <= s + LeftSplitCount /\ s + LeftSplitCount <= CellsCapacity
                   THEN Merged(p, c, k, s + LeftSplitCount) ELSE 0]

HalvesWith(a, b, F, G) == [curr |-> [a EXCEPT !.key = F], next |-> [b EXCEPT !.key = G]]

\* A page of zeros is a page, and every cell of a leaf or an internal page has a slot.
LEMMA ZeroPageRecord ==
  ZeroPage \in PageRecords /\ 0 \in PageNums /\ 0 .. CellsCapacity \subseteq Slots /\ 0 .. MaxCells \subseteq Slots
<1>1. 0 \in PageNums
  BY TableAssumption DEF PageNums
<1>2. ZeroPage \in PageRecords
  BY <1>1 DEF ZeroPage, PageRecords
<1>3. 0 .. CellsCapacity \subseteq Slots /\ 0 .. MaxCells \subseteq Slots
  BY TableAssumption DEF Slots
<1> QED BY <1>1, <1>2, <1>3

\* The key that a round takes for cell i.
MovedKey(F, c, k, i) == IF i > c THEN F[i - 1] ELSE IF i < c THEN F[i] ELSE k

\* A round that moves a cell to the new leaf changes one key of it.
LEMMA MoveRight ==
  ASSUME NEW a \in PageRecords, NEW b \in PageRecords, NEW F \in [Slots -> Nat], NEW G \in [Slots -> Nat],
         NEW i \in LeftSplitCount .. CellsCapacity, NEW c, NEW k, NEW v, v = MovedKey(F, c, k, i),
         NEW H \in [Slots -> Nat], \A s \in Slots : H[s] = IF s = i - LeftSplitCount THEN v ELSE G[s]
  PROVE  MoveCell(i, c, k, HalvesWith(a, b, F, G)) = HalvesWith(a, b, F, H)
<1>1. i % LeftSplitCount = i - LeftSplitCount /\ i \in Int
  BY SplitNumbers
<1>2. PICK h : h = HalvesWith(a, b, F, G)
  OBVIOUS
<1>3. PICK x, y : x = [a EXCEPT !.key = F] /\ y = [b EXCEPT !.key = G]
  OBVIOUS
<1>4. x.key = F /\ y.key = G /\ h = [curr |-> x, next |-> y]
  BY <1>2, <1>3 DEF HalvesWith, PageRecords
<1>5. MoveCell(i, c, k, h) = [h EXCEPT !.next.key[i - LeftSplitCount] = v]
  BY <1>1, <1>4, SplitNumbers DEF MoveCell, MovedKey
<1>6. [h EXCEPT !.next.key[i - LeftSplitCount] = v]
        = [curr |-> x, next |-> [y EXCEPT !.key[i - LeftSplitCount] = v]]
  BY <1>4
<1>7. [y EXCEPT !.key[i - LeftSplitCount] = v] = [b EXCEPT !.key = H]
  <2>1. H = [G EXCEPT ![i - LeftSplitCount] = v]
    OBVIOUS
  <2> QED BY <1>3, <2>1 DEF PageRecords
<1> QED BY <1>2, <1>3, <1>5, <1>6, <1>7 DEF HalvesWith

\* A round that moves a cell within the old leaf changes one key of it.
LEMMA MoveLeft ==
  ASSUME NEW a \in PageRecords, NEW b \in PageRecords, NEW F \in [Slots -> Nat], NEW G \in [Slots -> Nat],
         NEW i \in 0 .. LeftSplitCount - 1, NEW c, NEW k, NEW v, v = MovedKey(F, c, k, i),
         NEW H \in [Slots -> Nat], \A s \in Slots : H[s] = IF s = i THEN v ELSE F[s]
  PROVE  MoveCell(i, c, k, HalvesWith(a, b, F, G)) = HalvesWith(a, b, H, G)
<1>1. i % LeftSplitCount = i /\ i \in Int /\ ~(i >= LeftSplitCount)
  <2>1. i \in 0 .. CellsCapacity
    BY SplitNumbers, TableAssumption
  <2> QED BY <2>1, SplitNumbers
<1>2. PICK h : h = HalvesWith(a, b, F, G)
  OBVIOUS
<1>3. PICK x, y : x = [a EXCEPT !.key = F] /\ y = [b EXCEPT !.key = G]
  OBVIOUS
<1>4. x.key = F /\ y.key = G /\ h = [curr |-> x, next |-> y]
  BY <1>2, <1>3 DEF HalvesWith, PageRecords
<1>5. MoveCell(i, c, k, h) = [h EXCEPT !.curr.key[i] = v]
  BY <1>1, <1>4 DEF MoveCell, MovedKey
<1>6. [h EXCEPT !.curr.key[i] = v] = [curr |-> [x EXCEPT !.key[i] = v], next |-> y]
  BY <1>4
<1>7. [x EXCEPT !.key[i] = v] = [a EXCEPT !.key = H]
  <2>1. H = [F EXCEPT ![i] = v]
    OBVIOUS
  <2> QED BY <1>3, <2>1 DEF PageRecords
<1> QED BY <1>2, <1>3, <1>5, <1>6, <1>7 DEF HalvesWith
\* The keys of the two halves stay numbers throughout the redistribution.
LEMMA KeysRange ==
  ASSUME NEW p \in PageRecords, NEW c \in Nat, NEW k \in Nat, NEW m \in 0 .. CellsCapacity + 1
  PROVE  LeftKeys(p, c, k, m) \in [Slots -> Nat] /\ RightKeys(p, c, k, m) \in [Slots -> Nat]
<1>1. PICK key \in [Slots -> Nat] : key = p.key
  BY DEF PageRecords
<1>2. ASSUME NEW i \in 0 .. CellsCapacity
      PROVE  Merged(p, c, k, i) \in Nat
  <2>1. i \in Slots /\ (i > c => i - 1 \in Slots)
    BY ZeroPageRecord, TableAssumption
  <2> QED BY <1>1, <2>1 DEF Merged
<1>3. ASSUME NEW s \in Slots
      PROVE  s \in Nat /\ (s < LeftSplitCount => s \in 0 .. CellsCapacity)
             /\ (s + LeftSplitCount <= CellsCapacity => s + LeftSplitCount \in 0 .. CellsCapacity)
  BY SplitNumbers, TableAssumption DEF Slots
<1> QED BY <1>1, <1>2, <1>3 DEF LeftKeys, RightKeys

\* One round of the redistribution.
LEMMA MoveRound ==
  ASSUME NEW p \in PageRecords, NEW c \in Nat, NEW k \in Nat, NEW m \in 1 .. CellsCapacity + 1,
         NEW a \in PageRecords, NEW b \in PageRecords
  PROVE  MoveCell(CellsCapacity + 1 - m, c, k, HalvesWith(a, b, LeftKeys(p, c, k, m - 1), RightKeys(p, c, k, m - 1)))
           = HalvesWith(a, b, LeftKeys(p, c, k, m), RightKeys(p, c, k, m))
<1>1. PICK cap \in Nat : cap = CellsCapacity
  BY TableAssumption
<1>2. PICK i \in 0 .. cap : i = CellsCapacity + 1 - m
  BY <1>1
<1>3. PICK F \in [Slots -> Nat], G \in [Slots -> Nat] : F = LeftKeys(p, c, k, m - 1) /\ G = RightKeys(p, c, k, m - 1)
  BY KeysRange, <1>1
<1>4. PICK l \in Nat : l = LeftSplitCount /\ l >= 1 /\ l <= cap
  BY SplitNumbers, <1>1
<1>5. PICK v : v = MovedKey(F, c, k, i)
  OBVIOUS
<1>6. i \in Slots /\ (i > c => i - 1 \in Slots) /\ Slots \subseteq Nat
  <2>1. i \in Slots /\ (i > c => i - 1 \in Slots)
    BY ZeroPageRecord, <1>1
  <2>2. Slots \subseteq Nat
    BY TableAssumption DEF Slots
  <2> QED BY <2>1, <2>2
<1>7. v = Merged(p, c, k, i)
  <2>1. i > c => F[i - 1] = p.key[i - 1]
    BY <1>1, <1>2, <1>3, <1>6 DEF LeftKeys
  <2>2. F[i] = p.key[i]
    BY <1>1, <1>2, <1>3, <1>6 DEF LeftKeys
  <2> QED BY <1>5, <2>1, <2>2 DEF Merged, MovedKey
<1>8. PICK H \in [Slots -> Nat], J \in [Slots -> Nat] : H = LeftKeys(p, c, k, m) /\ J = RightKeys(p, c, k, m)
  <2>1. m \in 0 .. CellsCapacity + 1
    BY <1>1
  <2> QED BY <2>1, KeysRange
<1>9. CASE i >= l
  <2>1. H = F
    BY <1>1, <1>2, <1>3, <1>4, <1>6, <1>8, <1>9 DEF LeftKeys
  <2>2. ASSUME NEW s \in Slots
        PROVE  J[s] = IF s = i - LeftSplitCount THEN v ELSE G[s]
    <3>1. s = i - l => s + l = i
      BY <1>6
    <3> QED BY <1>1, <1>2, <1>3, <1>4, <1>6, <1>7, <1>8, <1>9, <3>1 DEF RightKeys
  <2>3. i \in LeftSplitCount .. CellsCapacity
    BY <1>1, <1>4, <1>9
  <2>4. MoveCell(i, c, k, HalvesWith(a, b, F, G)) = HalvesWith(a, b, F, J)
    BY <1>5, <2>2, <2>3, MoveRight
  <2> QED BY <1>2, <1>3, <1>8, <2>1, <2>4
<1>10. CASE i < l
  <2>1. J = G
    BY <1>1, <1>2, <1>3, <1>4, <1>6, <1>8, <1>10 DEF RightKeys
  <2>2. ASSUME NEW s \in Slots
        PROVE  H[s] = IF s = i THEN v ELSE F[s]
    BY <1>1, <1>2, <1>3, <1>4, <1>6, <1>7, <1>8, <1>10 DEF LeftKeys
  <2>3. i \in 0 .. LeftSplitCount - 1
    BY <1>1, <1>4, <1>10
  <2>4. MoveCell(i, c, k, HalvesWith(a, b, F, G)) = HalvesWith(a, b, H, G)
    BY <1>5, <2>2, <2>3, MoveLeft
  <2> QED BY <1>2, <1>3, <1>8, <2>1, <2>4
<1> QED BY <1>4, <1>9, <1>10

\* What SplitLeaf makes of a full leaf p: the cells in order, over two pages.
SplitsInto(p, c, k, q, h) ==
  /\ h.curr \in PageRecords /\ h.next \in PageRecords
  /\ h.curr.type = p.type /\ h.curr.root = p.root /\ h.curr.parent = p.parent
  /\ h.curr.link = q /\ h.curr.n = LeftSplitCount
  /\ h.next.type = "leaf" /\ h.next.root = FALSE /\ h.next.parent = p.parent
  /\ h.next.link = p.link /\ h.next.n = RightSplitCount
  /\ \A i \in 0 .. LeftSplitCount - 1 : h.curr.key[i] = Merged(p, c, k, i)
  /\ \A i \in 0 .. RightSplitCount - 1 : h.next.key[i] = Merged(p, c, k, i + LeftSplitCount)

\* The redistribution loop shares out the cells as SplitsInto says.
LEMMA SplitLeafSplits ==
  ASSUME NEW p \in PageRecords, NEW c \in Nat, NEW k \in Nat, NEW q \in PageNums, NEW h, h = SplitLeaf(p, c, k, q)
  PROVE  SplitsInto(p, c, k, q, h)
<1>1. PICK N \in Nat : N = CellsCapacity + 1
  BY TableAssumption
<1>2. PICK a : a = [p EXCEPT !.link = q]
  OBVIOUS
<1>3. PICK b : b = [ResetLeaf(ZeroPage) EXCEPT !.parent = p.parent, !.link = p.link]
  OBVIOUS
<1>4. a \in PageRecords /\ a.key = p.key /\ a.type = p.type /\ a.root = p.root /\ a.parent = p.parent /\ a.link = q
  BY <1>2 DEF PageRecords
<1>5. /\ b \in PageRecords /\ b.key = [s \in Slots |-> 0] /\ b.type = "leaf" /\ b.root = FALSE
      /\ b.parent = p.parent /\ b.link = p.link
  BY <1>3, ZeroPageRecord DEF PageRecords, ResetLeaf, ZeroPage
<1> DEFINE start == [curr |-> [p EXCEPT !.link = q],
                     next |-> [ResetLeaf(ZeroPage) EXCEPT !.parent = p.parent, !.link = p.link]]
           Body(g) == [m \in 0 .. CellsCapacity + 1 |->
                         IF m = 0 THEN start ELSE MoveCell(CellsCapacity + 1 - m, c, k, g[m - 1])]
           At(m) == HalvesWith(a, b, LeftKeys(p, c, k, m), RightKeys(p, c, k, m))
           f == [m \in 0 .. CellsCapacity + 1 |-> At(m)]
<1>6. start = At(0)
  <2>1. LeftKeys(p, c, k, 0) = a.key
    <3>1. PICK key \in [Slots -> Nat] : key = p.key
      BY DEF PageRecords
    <3>2. LeftKeys(p, c, k, 0) = [s \in Slots |-> key[s]]
      BY <3>1, SplitNumbers, TableAssumption DEF LeftKeys, Slots
    <3> QED BY <1>4, <3>1, <3>2
  <2>2. RightKeys(p, c, k, 0) = b.key
    BY <1>5, SplitNumbers, TableAssumption DEF RightKeys, Slots
  <2>3. [a EXCEPT !.key = a.key] = a /\ [b EXCEPT !.key = b.key] = b
    BY <1>4, <1>5 DEF PageRecords
  <2> QED BY <1>2, <1>3, <2>1, <2>2, <2>3 DEF HalvesWith
<1>7. \A m \in 1 .. CellsCapacity + 1 : MoveCell(CellsCapacity + 1 - m, c, k, At(m - 1)) = At(m)
  BY <1>4, <1>5, MoveRound
<1> HIDE DEF start, At
<1>8. f = Body(f)
  BY <1>1, <1>6, <1>7
<1>9. PICK g : g = CHOOSE x : x = Body(x)
  OBVIOUS
<1>10. g = Body(g)
  BY <1>8, <1>9
<1>11. g[N] = At(N)
  <2> DEFINE P == {m \in Nat : m <= N => g[m] = At(m)}
  <2>1. 0 \in P
    BY <1>1, <1>6, <1>10
  <2>2. ASSUME NEW m \in Nat, m \in P
        PROVE  m + 1 \in P
    <3> SUFFICES ASSUME m + 1 <= N
                 PROVE  g[m + 1] = At(m + 1)
      OBVIOUS
    <3>1. g[m] = At(m)
      BY <1>1, <2>2
    <3>2. m + 1 \in 1 .. CellsCapacity + 1 /\ (m + 1) - 1 = m
      BY <1>1
    <3>3. g[m + 1] = MoveCell(CellsCapacity + 1 - (m + 1), c, k, g[m])
      <4>1. \A j \in 1 .. CellsCapacity + 1 : g[j] = MoveCell(CellsCapacity + 1 - j, c, k, g[j - 1])
        BY <1>1, <1>10
      <4> QED BY <3>2, <4>1
    <3> QED BY <1>7, <3>1, <3>2, <3>3
  <2>3. Nat \subseteq P
    <3> HIDE DEF P
    <3> QED BY ONLY <2>1, <2>2, SetInduction
  <2> QED BY <2>3
<1>12. PICK F \in [Slots -> Nat], G \in [Slots -> Nat] : F = LeftKeys(p, c, k, N) /\ G = RightKeys(p, c, k, N)
  BY <1>1, KeysRange
<1>13. PICK x, y : x = [a EXCEPT !.key = F] /\ y = [b EXCEPT !.key = G]
  OBVIOUS
<1>14. g[N] = [curr |-> x, next |-> y]
  BY <1>11, <1>12, <1>13 DEF At, HalvesWith
<1>15. h = [curr |-> [g[N].curr EXCEPT !.n = LeftSplitCount], next |-> [g[N].next EXCEPT !.n = RightSplitCount]]
  BY <1>1, <1>9 DEF SplitLeaf, start
<1>16. h.curr = [x EXCEPT !.n = LeftSplitCount] /\ h.next = [y EXCEPT !.n = RightSplitCount]
  BY <1>14, <1>15
<1>17. PICK u, w : u = h.curr /\ w = h.next
  OBVIOUS
<1>18. /\ u \in PageRecords /\ u.type = p.type /\ u.root = p.root /\ u.parent = p.parent
       /\ u.link = q /\ u.n = LeftSplitCount /\ u.key = F
  BY <1>4, <1>13, <1>16, <1>17, SplitNumbers DEF PageRecords
<1>19. /\ w \in PageRecords /\ w.type = "leaf" /\ w.root = FALSE /\ w.parent = p.parent
       /\ w.link = p.link /\ w.n = RightSplitCount /\ w.key = G
  BY <1>5, <1>13, <1>16, <1>17, SplitNumbers DEF PageRecords
<1>20. \A i \in 0 .. LeftSplitCount - 1 : F[i] = Merged(p, c, k, i)
  <2>1. ASSUME NEW i \in 0 .. LeftSplitCount - 1
        PROVE  i \in Slots /\ CellsCapacity + 1 - N <= i /\ i < LeftSplitCount
    BY <1>1, SplitNumbers, ZeroPageRecord, TableAssumption
  <2> QED BY <1>12, <2>1 DEF LeftKeys
<1>21. \A i \in 0 .. RightSplitCount - 1 : G[i] = Merged(p, c, k, i + LeftSplitCount)
  <2>1. ASSUME NEW i \in 0 .. RightSplitCount - 1
        PROVE  i \in Slots /\ CellsCapacity + 1 - N <= i + LeftSplitCount /\ i + LeftSplitCount <= CellsCapacity
    BY <1>1, SplitNumbers, ZeroPageRecord, TableAssumption
  <2> QED BY <1>12, <2>1 DEF RightKeys
<1> QED BY <1>17, <1>18, <1>19, <1>20, <1>21 DEF SplitsInto
KeysOf(p) == {p.key[i] : i \in 0 .. p.n - 1}

\* The n + 1 cells are in order, and are the keys of the page and the new one.
InOrder(p, c, k, n) ==
  /\ c \in 0 .. n
  /\ \A i \in 0 .. n : Merged(p, c, k, i) \in Nat /\ Merged(p, c, k, i) \in KeysOf(p) \cup {k}
  /\ \A i, j \in 0 .. n : i < j => Merged(p, c, k, i) < Merged(p, c, k, j)
  /\ \A x \in KeysOf(p) \cup {k} : \E i \in 0 .. n : x = Merged(p, c, k, i)

\* The new key goes where the search found its place: the cells stay in order.
LEMMA MergedAscends ==
  ASSUME NEW p \in PageRecords, \A i \in 0 .. p.n - 1 : i \in Slots, Ascends(p), NEW k \in Nat, k \notin KeysOf(p),
         NEW c, c = LeafFindCell(p, k), NEW n \in Nat, n = p.n
  PROVE  InOrder(p, c, k, n)
<1>1. PICK key \in [Slots -> Nat] : key = p.key
  BY DEF PageRecords
<1>2. /\ \A i \in 0 .. n - 1 : i \in Slots /\ key[i] \in Nat /\ key[i] # k /\ key[i] \in KeysOf(p)
      /\ \A i, j \in 0 .. n - 1 : i < j => key[i] < key[j]
  BY <1>1 DEF Ascends, KeysOf
<1>3. c \in 0 .. n /\ \A i \in 0 .. n - 1 : i < c <=> key[i] < k
  BY <1>1, <1>2, LeafFound
<1> DEFINE M(i) == IF i > c THEN key[i - 1] ELSE IF i < c THEN key[i] ELSE k
<1>4. \A i : M(i) = Merged(p, c, k, i)
  BY <1>1 DEF Merged
<1>5. \A i \in 0 .. n : M(i) \in Nat /\ M(i) \in KeysOf(p) \cup {k}
  BY <1>2, <1>3
<1>6. ASSUME NEW i \in 0 .. n, NEW j \in 0 .. n, i < j
      PROVE  M(i) < M(j)
  <2>1. CASE j < c
    BY <1>2, <1>3, <1>6, <2>1
  <2>2. CASE j = c
    BY <1>2, <1>3, <1>6, <2>2
  <2>3. CASE j > c
    <3>1. j - 1 \in 0 .. n - 1 /\ ~(j - 1 < c)
      BY <1>3, <2>3
    <3>2. key[j - 1] > k /\ key[j - 1] \in Nat
      BY <1>2, <1>3, <3>1
    <3>3. CASE i > c
      BY <1>2, <1>3, <1>6, <2>3, <3>3
    <3>4. CASE i < c
      BY <1>2, <1>3, <1>6, <2>3, <3>2, <3>4
    <3>5. CASE i = c
      BY <2>3, <3>2, <3>5
    <3> QED BY <1>3, <3>3, <3>4, <3>5
  <2> QED BY <1>3, <2>1, <2>2, <2>3
<1>7. ASSUME NEW x \in KeysOf(p) \cup {k}
      PROVE  \E i \in 0 .. n : x = M(i)
  <2>1. CASE x = k
    BY <1>3, <2>1
  <2>2. CASE x \in KeysOf(p)
    <3>1. PICK i \in 0 .. n - 1 : x = key[i]
      BY <1>1, <2>2 DEF KeysOf
    <3>2. CASE i < c
      BY <1>3, <3>1, <3>2
    <3>3. CASE i >= c
      <4>1. i + 1 \in 0 .. n /\ i + 1 > c /\ (i + 1) - 1 = i
        BY <1>3, <3>3
      <4> QED BY <3>1, <4>1
    <3> QED BY <1>3, <3>2, <3>3
  <2> QED BY <2>1, <2>2
<1> HIDE DEF M
<1> QED BY <1>3, <1>4, <1>5, <1>6, <1>7 DEF InOrder

\* A leaf with room keeps its order and gets the key.
LEMMA PutInLeafSound ==
  ASSUME NEW p \in PageRecords, p.n < CellsCapacity, Ascends(p), NEW k \in Nat, k \notin KeysOf(p),
         NEW q, q = PutInLeaf(p, LeafFindCell(p, k), k)
  PROVE  /\ q \in PageRecords /\ q.n = p.n + 1 /\ Ascends(q) /\ KeysOf(q) = KeysOf(p) \cup {k}
         /\ q.type = p.type /\ q.root = p.root /\ q.parent = p.parent /\ q.link = p.link
<1>1. PICK n \in Nat : n = p.n
  BY DEF PageRecords
<1>2. PICK c : c = LeafFindCell(p, k)
  OBVIOUS
<1>3. PICK key \in [Slots -> Nat] : key = p.key
  BY DEF PageRecords
<1>4. 0 .. n \subseteq Slots /\ Slots \subseteq Nat
  <2>1. n <= CellsCapacity
    BY <1>1, TableAssumption
  <2> QED BY <2>1, ZeroPageRecord, TableAssumption DEF Slots
<1>5. InOrder(p, c, k, n)
  <2>1. \A i \in 0 .. p.n - 1 : i \in Slots
    BY <1>1, <1>4
  <2> QED BY ONLY p \in PageRecords, Ascends(p), k \in Nat, k \notin KeysOf(p), <1>1, <1>2, <2>1, n \in Nat, MergedAscends
<1> USE DEF InOrder
<1>6. PICK new : new = [i \in Slots |-> IF i < c \/ i > n THEN key[i] ELSE IF i = c THEN k ELSE key[i - 1]]
  OBVIOUS
<1>7. q = [p EXCEPT !.n = n + 1, !.key = new]
  BY <1>1, <1>2, <1>3, <1>6 DEF PutInLeaf
<1>8. \A i \in 0 .. n : new[i] = Merged(p, c, k, i)
  BY <1>3, <1>4, <1>5, <1>6 DEF Merged
<1>9. new \in [Slots -> Nat]
  <2>1. ASSUME NEW i \in Slots
        PROVE  new[i] \in Nat
    BY <1>3, <1>4, <1>5, <1>6, <1>8
  <2> QED BY <1>6, <2>1
<1>10. /\ q \in PageRecords /\ q.n = n + 1 /\ q.key = new
       /\ q.type = p.type /\ q.root = p.root /\ q.parent = p.parent /\ q.link = p.link
  <2>1. PICK q0 : q0 = [p EXCEPT !.n = n + 1]
    OBVIOUS
  <2>2. /\ q0 \in PageRecords /\ q0.n = n + 1
        /\ q0.type = p.type /\ q0.root = p.root /\ q0.parent = p.parent /\ q0.link = p.link
    BY <2>1 DEF PageRecords
  <2>3. q = [q0 EXCEPT !.key = new]
    BY <1>7, <2>1
  <2> QED BY <1>9, <2>2, <2>3 DEF PageRecords
<1>11. Ascends(q)
  BY <1>5, <1>8, <1>10 DEF Ascends
<1>12. KeysOf(q) = {new[i] : i \in 0 .. n}
  BY <1>10 DEF KeysOf
<1>13. KeysOf(q) = KeysOf(p) \cup {k}
  BY <1>5, <1>8, <1>12
<1> QED BY <1>1, <1>10, <1>11, <1>13

\* A full leaf and the key are shared out over two leaves, in order.
HalvesSound(p, k, q, h) ==
  /\ h.curr \in PageRecords /\ h.next \in PageRecords
  /\ h.curr.type = p.type /\ h.curr.root = p.root /\ h.curr.parent = p.parent
  /\ h.curr.link = q /\ h.curr.n \in 1 .. CellsCapacity
  /\ h.next.type = "leaf" /\ h.next.root = FALSE /\ h.next.parent = p.parent
  /\ h.next.link = p.link /\ h.next.n \in 1 .. CellsCapacity
  /\ Ascends(h.curr) /\ Ascends(h.next)
  /\ KeysOf(h.curr) \cup KeysOf(h.next) = KeysOf(p) \cup {k}
  /\ \A x \in KeysOf(h.curr), y \in KeysOf(h.next) : x < y

\* Splitting where the search found the place keeps the order.
LEMMA SplitLeafSound ==
  ASSUME NEW p \in PageRecords, p.n = CellsCapacity, Ascends(p), NEW k \in Nat, k \notin KeysOf(p),
         NEW q \in PageNums, NEW h, h = SplitLeaf(p, LeafFindCell(p, k), k, q)
  PROVE  HalvesSound(p, k, q, h)
<1>1. PICK n \in Nat : n = p.n /\ n = CellsCapacity /\ n >= 2
  BY TableAssumption
<1>2. PICK c : c = LeafFindCell(p, k)
  OBVIOUS
<1>3. InOrder(p, c, k, n)
  <2>1. \A i \in 0 .. p.n - 1 : i \in Slots
    BY <1>1, ZeroPageRecord
  <2> QED BY ONLY p \in PageRecords, Ascends(p), k \in Nat, k \notin KeysOf(p), <1>1, <1>2, <2>1, n \in Nat, MergedAscends
<1> USE DEF InOrder
<1>4. SplitsInto(p, c, k, q, h)
  BY <1>2, <1>3, SplitLeafSplits
<1>5. PICK x, y : x = h.curr /\ y = h.next
  OBVIOUS
<1>6. PICK l \in Nat, r \in Nat : l = LeftSplitCount /\ r = RightSplitCount /\ l >= 1 /\ r >= 1 /\ l + r = n + 1
  BY <1>1, SplitNumbers
<1>7. /\ x \in PageRecords /\ y \in PageRecords
      /\ x.type = p.type /\ x.root = p.root /\ x.parent = p.parent /\ x.link = q /\ x.n = l
      /\ y.type = "leaf" /\ y.root = FALSE /\ y.parent = p.parent /\ y.link = p.link /\ y.n = r
      /\ \A i \in 0 .. l - 1 : x.key[i] = Merged(p, c, k, i)
      /\ \A i \in 0 .. r - 1 : y.key[i] = Merged(p, c, k, i + l)
  BY <1>4, <1>5, <1>6 DEF SplitsInto
<1>8. Ascends(x)
  <2>1. \A i \in 0 .. l - 1 : i \in 0 .. n
    BY <1>6
  <2> QED BY <1>3, <1>7, <2>1 DEF Ascends
<1>9. Ascends(y)
  <2>1. \A i \in 0 .. r - 1 : i + l \in 0 .. n
    BY <1>6
  <2>2. \A i, j \in 0 .. r - 1 : i < j => i + l < j + l
    BY <1>6
  <2> QED BY <1>3, <1>7, <2>1, <2>2 DEF Ascends
<1>10. KeysOf(x) = {Merged(p, c, k, i) : i \in 0 .. l - 1}
  BY <1>7 DEF KeysOf
<1>11. KeysOf(y) = {Merged(p, c, k, i) : i \in l .. n}
  <2>1. KeysOf(y) = {Merged(p, c, k, i + l) : i \in 0 .. r - 1}
    BY <1>7 DEF KeysOf
  <2>2. \A j \in l .. n : j - l \in 0 .. r - 1 /\ (j - l) + l = j
    BY <1>6
  <2>3. \A i \in 0 .. r - 1 : i + l \in l .. n
    BY <1>6
  <2>4. \A z \in KeysOf(y) : z \in {Merged(p, c, k, i) : i \in l .. n}
    BY <2>1, <2>3
  <2>5. ASSUME NEW j \in l .. n
        PROVE  Merged(p, c, k, j) \in KeysOf(y)
    <3>1. PICK i \in 0 .. r - 1 : i + l = j
      BY <2>2
    <3> QED BY <2>1, <3>1
  <2> QED BY <2>4, <2>5
<1>12. KeysOf(x) \cup KeysOf(y) = KeysOf(p) \cup {k}
  <2>1. \A i : i \in 0 .. n <=> i \in 0 .. l - 1 \/ i \in l .. n
    BY <1>6
  <2> QED BY <1>3, <1>10, <1>11, <2>1
<1>13. ASSUME NEW u \in KeysOf(x), NEW w \in KeysOf(y)
       PROVE  u < w
  <2>1. PICK i \in 0 .. l - 1 : u = Merged(p, c, k, i)
    BY <1>10
  <2>2. PICK j \in l .. n : w = Merged(p, c, k, j)
    BY <1>11
  <2>3. i \in 0 .. n /\ j \in 0 .. n /\ i < j
    BY <1>6
  <2> QED BY <1>3, <2>1, <2>2, <2>3
<1>14. x.n \in 1 .. CellsCapacity /\ y.n \in 1 .. CellsCapacity
  BY <1>1, <1>6, <1>7
<1> QED BY <1>5, <1>7, <1>8, <1>9, <1>12, <1>13, <1>14 DEF HalvesSound
-----------------------------------------------------------------------------
(* The shape of the tree: V is the pages, ord the leaves from left to right. *)

SoundLeaf(p) ==
  /\ p \in PageRecords /\ p.type = "leaf" /\ p.parent = 0 /\ p.n <= CellsCapacity
  /\ Ascends(p)

Before(p, q) == \A x \in KeysOf(p), y \in KeysOf(q) : x < y

\* The leaves ord[0] .. ord[m] are chained in order and hold the keys R.
Chain(V, m, ord, R) ==
  /\ V \in [PageNums -> PageRecords]
  /\ m \in Nat /\ ord \in [0 .. m -> PageNums]
  /\ \A i, j \in 0 .. m : i < j => ord[i] # ord[j] /\ Before(V[ord[i]], V[ord[j]])
  /\ \A i \in 0 .. m : SoundLeaf(V[ord[i]])
  /\ \A i \in 0 .. m - 1 : V[ord[i]].link = ord[i + 1] /\ ord[i + 1] # 0
  /\ V[ord[m]].link = 0
  /\ \A x : x \in R <=> \E i \in 0 .. m : x \in KeysOf(V[ord[i]])

\* The root is the only leaf, or the internal page above the leaves.
LeafRoot(V, np, m, ord) ==
  /\ V[0].type = "leaf" /\ V[0].root
  /\ m = 0 /\ ord[0] = 0 /\ np = 1
InnerRoot(V, np, m, ord) ==
  /\ V[0].type = "internal" /\ V[0].n = m
  /\ m \in 1 .. MaxCells /\ np = m + 2
  /\ \A i \in 0 .. m : /\ ord[i] = ChildPage(V[0], i) /\ ord[i] \in 1 .. m + 1
                       /\ V[ord[i]].n >= 1 /\ ~V[ord[i]].root
  /\ \A p \in 1 .. m + 1 : \E i \in 0 .. m : p = ord[i]
  /\ \A i \in 0 .. m - 1 : V[0].key[i] = GetMaxKey(V[ord[i]])
Tree(V, np, m, ord, R) ==
  Chain(V, m, ord, R) /\ (LeafRoot(V, np, m, ord) \/ InnerRoot(V, np, m, ord))

\* GetMaxKey of a leaf is its largest key.
LEMMA MaxKeyIsMax ==
  ASSUME NEW p, SoundLeaf(p), p.n >= 1
  PROVE  /\ GetMaxKey(p) \in KeysOf(p) /\ GetMaxKey(p) \in Nat
         /\ \A x \in KeysOf(p) : x \in Nat /\ x <= GetMaxKey(p)
<1>1. PICK n \in Nat : n = p.n /\ n >= 1 /\ n <= CellsCapacity
  BY DEF SoundLeaf, PageRecords
<1>2. PICK key \in [Slots -> Nat] : key = p.key
  BY DEF SoundLeaf, PageRecords
<1>3. 0 .. n - 1 \subseteq Slots
  BY <1>1, ZeroPageRecord, TableAssumption
<1>4. \A i, j \in 0 .. n - 1 : i < j => key[i] < key[j]
  BY <1>1, <1>2 DEF SoundLeaf, Ascends
<1>5. n - 1 \in 0 .. n - 1 /\ GetMaxKey(p) = key[n - 1]
  BY <1>1, <1>2 DEF GetMaxKey
<1>6. KeysOf(p) = {key[i] : i \in 0 .. n - 1}
  BY <1>1, <1>2 DEF KeysOf
<1>7. ASSUME NEW i \in 0 .. n - 1
      PROVE  key[i] \in Nat /\ key[i] <= key[n - 1]
  <2>1. key[i] \in Nat /\ key[n - 1] \in Nat
    BY <1>3, <1>5
  <2>2. i < n - 1 => key[i] < key[n - 1]
    BY <1>4, <1>5
  <2> QED BY <2>1, <2>2
<1> QED BY <1>5, <1>6, <1>7

\* The separators of the root are in order, and search finds a place among them.
LEMMA RootSearch ==
  ASSUME NEW V, NEW np, NEW m, NEW ord, NEW R, Chain(V, m, ord, R), InnerRoot(V, np, m, ord), NEW k \in Nat,
         NEW c, c = InternalFindCell(V[0], k)
  PROVE  c \in 0 .. m /\ \A i \in 0 .. m - 1 : V[0].key[i] \in Nat /\ (i < c <=> V[0].key[i] < k)
<1>1. PICK r : r = V[0]
  OBVIOUS
<1>2. r.n = m /\ m \in Nat
  BY <1>1 DEF InnerRoot, Chain
<1>3. ASSUME NEW i \in 0 .. m - 1
      PROVE  r.key[i] = GetMaxKey(V[ord[i]]) /\ r.key[i] \in KeysOf(V[ord[i]]) /\ r.key[i] \in Nat
  <2>1. i \in 0 .. m
    BY <1>2
  <2>2. SoundLeaf(V[ord[i]]) /\ V[ord[i]].n >= 1 /\ r.key[i] = GetMaxKey(V[ord[i]])
    BY <1>1, <2>1 DEF Chain, InnerRoot
  <2> QED BY <2>2, MaxKeyIsMax
<1>4. Ascends(r)
  <2>1. ASSUME NEW i \in 0 .. m - 1, NEW j \in 0 .. m - 1, i < j
        PROVE  r.key[i] < r.key[j]
    <3>1. Before(V[ord[i]], V[ord[j]])
      BY <1>2, <2>1 DEF Chain
    <3> QED BY <1>3, <3>1 DEF Before
  <2> QED BY <1>2, <2>1 DEF Ascends
<1>5. c \in 0 .. r.n /\ \A i \in 0 .. r.n - 1 : i < c <=> r.key[i] < k
  <2>1. r.n \in Nat /\ \A i \in 0 .. r.n - 1 : r.key[i] \in Nat
    BY <1>2, <1>3
  <2> QED BY <1>1, <1>4, <2>1, InternalFound
<1> QED BY <1>1, <1>2, <1>3, <1>5
\* k is above the keys of the leaves before the last.
AboveOthers(V, m, ord, k) == \A i \in 0 .. m - 1 : \A x \in KeysOf(V[ord[i]]) : x < k

\* W is V with k put in the last leaf.
PutLast(V, m, ord, k, W) ==
  /\ W \in [PageNums -> PageRecords]
  /\ W[ord[m]] = PutInLeaf(V[ord[m]], LeafFindCell(V[ord[m]], k), k)
  /\ \A i \in PageNums : i # ord[m] => W[i] = V[i]

\* A key above the other leaves is put in the last one.
LEMMA ChainPut ==
  ASSUME NEW V, NEW m, NEW ord, NEW R, Chain(V, m, ord, R), NEW k \in Nat, k \notin R,
         AboveOthers(V, m, ord, k), V[ord[m]].n < CellsCapacity, NEW W, PutLast(V, m, ord, k, W)
  PROVE  /\ Chain(W, m, ord, R \cup {k}) /\ W[ord[m]].n >= 1
         /\ W[ord[m]].type = V[ord[m]].type /\ W[ord[m]].root = V[ord[m]].root
<1> USE DEF AboveOthers
<1>1. m \in Nat /\ ord \in [0 .. m -> PageNums] /\ m \in 0 .. m
  BY DEF Chain
<1>2. PICK p, q : p = V[ord[m]] /\ q = W[ord[m]]
  OBVIOUS
<1>20. /\ W \in [PageNums -> PageRecords] /\ q = PutInLeaf(p, LeafFindCell(p, k), k)
      /\ \A i \in PageNums : i # ord[m] => W[i] = V[i]
  BY <1>2 DEF PutLast
<1>3. SoundLeaf(p) /\ k \notin KeysOf(p) /\ p.link = 0
  BY <1>1, <1>2 DEF Chain
<1>4. /\ q \in PageRecords /\ q.n = p.n + 1 /\ Ascends(q) /\ KeysOf(q) = KeysOf(p) \cup {k}
      /\ q.type = p.type /\ q.root = p.root /\ q.parent = p.parent /\ q.link = p.link
  <2>1. p \in PageRecords /\ Ascends(p) /\ p.n < CellsCapacity /\ q = PutInLeaf(p, LeafFindCell(p, k), k)
    BY <1>20, <1>2, <1>3 DEF SoundLeaf
  <2> QED BY ONLY <1>3, <2>1, k \in Nat, PutInLeafSound
<1>5. SoundLeaf(q) /\ q.n >= 1
  <2>1. p.n \in Nat /\ p.n < CellsCapacity
    BY <1>2, <1>3 DEF SoundLeaf, PageRecords
  <2> QED BY <1>3, <1>4, <2>1, TableAssumption DEF SoundLeaf
<1>6. \A i \in 0 .. m - 1 : ord[i] # ord[m] /\ W[ord[i]] = V[ord[i]] /\ i \in 0 .. m
  BY <1>20, <1>1 DEF Chain
<1>7. \A i \in 0 .. m : i = m \/ i \in 0 .. m - 1
  BY <1>1
<1>8. \A i \in 0 .. m : SoundLeaf(W[ord[i]])
  BY <1>2, <1>5, <1>6, <1>7 DEF Chain
<1>9. \A i \in 0 .. m - 1 : W[ord[i]].link = ord[i + 1] /\ ord[i + 1] # 0
  BY <1>6 DEF Chain
<1>10. ASSUME NEW i \in 0 .. m, NEW j \in 0 .. m, i < j
       PROVE  ord[i] # ord[j] /\ Before(W[ord[i]], W[ord[j]])
  <2>1. i \in 0 .. m - 1 /\ ord[i] # ord[j] /\ Before(V[ord[i]], V[ord[j]])
    BY <1>1, <1>10 DEF Chain
  <2>2. CASE j = m
    <3>1. Before(V[ord[i]], p) /\ \A x \in KeysOf(V[ord[i]]) : x < k
      BY <1>2, <2>1, <2>2
    <3>2. Before(V[ord[i]], q)
      BY <1>4, <3>1 DEF Before
    <3> QED BY <1>2, <1>6, <2>1, <2>2, <3>2
  <2>3. CASE j # m
    BY <1>6, <1>7, <2>1, <2>3
  <2> QED BY <2>2, <2>3
<1>11. ASSUME NEW x
       PROVE  x \in R \cup {k} <=> \E i \in 0 .. m : x \in KeysOf(W[ord[i]])
  <2>1. x \in R <=> \E i \in 0 .. m : x \in KeysOf(V[ord[i]])
    BY DEF Chain
  <2>2. x \in KeysOf(W[ord[m]]) <=> x = k \/ x \in KeysOf(V[ord[m]])
    BY <1>2, <1>4
  <2>3. \A i \in 0 .. m - 1 : KeysOf(W[ord[i]]) = KeysOf(V[ord[i]])
    BY <1>6
  <2> QED BY <1>1, <1>7, <2>1, <2>2, <2>3
<1>12. Chain(W, m, ord, R \cup {k})
  BY <1>20, <1>1, <1>2, <1>3, <1>4, <1>8, <1>9, <1>10, <1>11 DEF Chain
<1> QED BY <1>2, <1>4, <1>5, <1>12

\* A leaf x before a leaf y: what the last leaf and the key are split into.
Halved(p, k, x, y) ==
  /\ SoundLeaf(x) /\ SoundLeaf(y) /\ x.n >= 1 /\ y.n >= 1 /\ Before(x, y)
  /\ KeysOf(x) \cup KeysOf(y) = KeysOf(p) \cup {k}

HalvesOf(p, k, q, h) ==
  /\ Halved(p, k, h.curr, h.next)
  /\ h.curr \in PageRecords /\ h.next \in PageRecords
  /\ h.curr.link = q /\ h.next.link = p.link /\ h.curr.root = p.root /\ h.next.root = FALSE

\* The same for a leaf of the chain.
LEMMA HalvesHalved ==
  ASSUME NEW p, SoundLeaf(p), p.n >= CellsCapacity, NEW k \in Nat, k \notin KeysOf(p), NEW q \in PageNums,
         NEW h, h = SplitLeaf(p, LeafFindCell(p, k), k, q)
  PROVE  HalvesOf(p, k, q, h)
<1>1. p \in PageRecords /\ p.n = CellsCapacity /\ Ascends(p) /\ p.type = "leaf" /\ p.parent = 0
  BY TableAssumption DEF SoundLeaf, PageRecords
<1>2. HalvesSound(p, k, q, h)
  BY <1>1, SplitLeafSound
<1>3. PICK x, y : x = h.curr /\ y = h.next
  OBVIOUS
<1>4. SoundLeaf(x) /\ SoundLeaf(y) /\ x.n >= 1 /\ y.n >= 1
  BY <1>1, <1>2, <1>3, TableAssumption DEF HalvesSound, SoundLeaf
<1>5. Before(x, y) /\ KeysOf(x) \cup KeysOf(y) = KeysOf(p) \cup {k}
  BY <1>2, <1>3 DEF HalvesSound, Before
<1>6. x \in PageRecords /\ y \in PageRecords /\ x.link = q /\ y.link = p.link /\ x.root = p.root /\ y.root = FALSE
  BY <1>2, <1>3 DEF HalvesSound
<1> QED BY <1>3, <1>4, <1>5, <1>6 DEF Halved, HalvesOf

\* W is V with the last leaf and k on the pages a and b.
SplitLast(V, m, ord, k, a, b, W) ==
  /\ W \in [PageNums -> PageRecords] /\ a \in PageNums /\ b \in PageNums
  /\ a # b /\ b # 0 /\ (m > 0 => a = ord[m])
  /\ \A i \in 0 .. m - 1 : ord[i] # a /\ ord[i] # b /\ W[ord[i]] = V[ord[i]]
  /\ Halved(V[ord[m]], k, W[a], W[b]) /\ W[a].link = b /\ W[b].link = 0
Longer(m, ord, a, b) == [i \in 0 .. m + 1 |-> IF i = m THEN a ELSE IF i = m + 1 THEN b ELSE ord[i]]

\* The last leaf is split into two.
LEMMA ChainSplit ==
  ASSUME NEW V, NEW m, NEW ord, NEW R, Chain(V, m, ord, R), NEW k \in Nat,
         AboveOthers(V, m, ord, k), NEW a, NEW b, NEW W, SplitLast(V, m, ord, k, a, b, W),
         NEW to, to = Longer(m, ord, a, b)
  PROVE  Chain(W, m + 1, to, R \cup {k})
<1> USE DEF AboveOthers, SplitLast, Longer
<1>1. m \in Nat /\ ord \in [0 .. m -> PageNums] /\ m \in 0 .. m
  BY DEF Chain
<1>2. PICK p : p = V[ord[m]]
  OBVIOUS
<1>3. PICK x, y : x = W[a] /\ y = W[b]
  OBVIOUS
<1>4. /\ SoundLeaf(x) /\ SoundLeaf(y) /\ Before(x, y)
      /\ KeysOf(x) \cup KeysOf(y) = KeysOf(p) \cup {k}
  BY <1>2, <1>3 DEF Halved
<1>5. /\ to \in [0 .. m + 1 -> PageNums] /\ to[m] = a /\ to[m + 1] = b
      /\ \A i \in 0 .. m - 1 : to[i] = ord[i]
  BY <1>1
<1>6. \A i \in 0 .. m + 1 : i = m + 1 \/ i = m \/ i \in 0 .. m - 1
  BY <1>1
<1>7. \A i \in 0 .. m - 1 : i \in 0 .. m /\ W[to[i]] = V[ord[i]]
  BY <1>1, <1>5
<1>8. \A i \in 0 .. m + 1 : SoundLeaf(W[to[i]])
  <2>1. SoundLeaf(W[to[m]]) /\ SoundLeaf(W[to[m + 1]])
    BY <1>3, <1>4, <1>5
  <2>2. \A i \in 0 .. m - 1 : SoundLeaf(W[to[i]])
    BY <1>7 DEF Chain
  <2> QED BY <1>6, <2>1, <2>2
<1>9. ASSUME NEW i \in 0 .. (m + 1) - 1
      PROVE  W[to[i]].link = to[i + 1] /\ to[i + 1] # 0
  <2>1. CASE i = m
    BY <1>5, <2>1
  <2>2. CASE i # m
    <3>1. i \in 0 .. m - 1 /\ i + 1 \in 0 .. m /\ m > 0
      BY <1>1, <2>2
    <3>2. W[to[i]].link = ord[i + 1] /\ ord[i + 1] # 0
      BY <1>7, <3>1 DEF Chain
    <3>3. to[i + 1] = ord[i + 1]
      <4>1. CASE i + 1 = m
        BY <1>5, <3>1, <4>1
      <4>2. CASE i + 1 # m
        BY <1>1, <1>5, <3>1, <4>2
      <4> QED BY <4>1, <4>2
    <3> QED BY <3>2, <3>3
  <2> QED BY <2>1, <2>2
<1>10. ASSUME NEW i \in 0 .. m - 1
       PROVE  Before(V[ord[i]], x) /\ Before(V[ord[i]], y)
  <2>1. Before(V[ord[i]], p) /\ \A z \in KeysOf(V[ord[i]]) : z < k
    BY <1>1, <1>2, <1>7 DEF Chain
  <2> QED BY <1>4, <2>1 DEF Before
<1>11. ASSUME NEW i \in 0 .. m + 1, NEW j \in 0 .. m + 1, i < j
       PROVE  to[i] # to[j] /\ Before(W[to[i]], W[to[j]])
  <2>1. CASE j = m + 1 /\ i = m
    BY <1>3, <1>4, <1>5, <2>1
  <2>2. CASE j = m + 1 /\ i # m
    <3>1. i \in 0 .. m - 1
      BY <1>1, <1>11, <2>2
    <3> QED BY <1>3, <1>5, <1>7, <1>10, <2>2, <3>1
  <2>3. CASE j = m
    <3>1. i \in 0 .. m - 1
      BY <1>1, <1>11, <2>3
    <3> QED BY <1>3, <1>5, <1>7, <1>10, <2>3, <3>1
  <2>4. CASE j # m /\ j # m + 1
    <3>1. i \in 0 .. m - 1 /\ j \in 0 .. m - 1
      BY <1>1, <1>11, <2>4
    <3>2. ord[i] # ord[j] /\ Before(V[ord[i]], V[ord[j]])
      BY <1>7, <1>11, <3>1 DEF Chain
    <3> QED BY <1>5, <1>7, <3>1, <3>2
  <2> QED BY <2>1, <2>2, <2>3, <2>4
<1>12. ASSUME NEW z
       PROVE  z \in R \cup {k} <=> \E i \in 0 .. m + 1 : z \in KeysOf(W[to[i]])
  <2>1. z \in R <=> \E i \in 0 .. m : z \in KeysOf(V[ord[i]])
    BY DEF Chain
  <2>2. z \in KeysOf(W[to[m]]) \/ z \in KeysOf(W[to[m + 1]]) <=> z = k \/ z \in KeysOf(V[ord[m]])
    BY <1>2, <1>3, <1>4, <1>5
  <2>3. \A i \in 0 .. m - 1 : KeysOf(W[to[i]]) = KeysOf(V[ord[i]])
    BY <1>7
  <2>4. m \in 0 .. m + 1 /\ m + 1 \in 0 .. m + 1 /\ \A i \in 0 .. m - 1 : i \in 0 .. m + 1
    BY <1>1
  <2>5. \A i \in 0 .. m : i = m \/ i \in 0 .. m - 1
    BY <1>1
  <2>6. (\E i \in 0 .. m : z \in KeysOf(V[ord[i]]))
          <=> z \in KeysOf(V[ord[m]]) \/ \E i \in 0 .. m - 1 : z \in KeysOf(V[ord[i]])
    BY <1>1, <1>7, <2>5
  <2>7. (\E i \in 0 .. m + 1 : z \in KeysOf(W[to[i]]))
          <=> \/ z \in KeysOf(W[to[m]]) \/ z \in KeysOf(W[to[m + 1]])
              \/ \E i \in 0 .. m - 1 : z \in KeysOf(W[to[i]])
    BY <1>6, <2>4
  <2> QED BY <2>1, <2>2, <2>3, <2>6, <2>7
<1>13. W[to[m + 1]].link = 0 /\ m + 1 \in Nat
  BY <1>1, <1>5
<1> QED BY <1>5, <1>8, <1>9, <1>11, <1>12, <1>13 DEF Chain
\* Table::Find on the pages V.
PageFor(V, k) == IF V[0].type = "internal" THEN ChildPage(V[0], InternalFindCell(V[0], k)) ELSE 0

\* A key above every separator is above the keys of every leaf but the last,
\* and is looked for in the last.
Above(V, k) == V[0].type = "internal" => \A i \in 0 .. V[0].n - 1 : V[0].key[i] < k

\* Find leads an ascending key to the last leaf.
LEMMA LastLeaf ==
  ASSUME NEW V, NEW np, NEW m, NEW ord, NEW R, Tree(V, np, m, ord, R), NEW k \in Nat, Above(V, k)
  PROVE  PageFor(V, k) = ord[m] /\ AboveOthers(V, m, ord, k)
<1> USE DEF AboveOthers
<1>1. m \in Nat /\ m \in 0 .. m
  BY DEF Tree, Chain
<1>2. CASE LeafRoot(V, np, m, ord)
  <2>1. PageFor(V, k) = 0
    BY <1>2 DEF LeafRoot, PageFor
  <2> QED BY <1>2, <2>1 DEF LeafRoot
<1>3. CASE InnerRoot(V, np, m, ord)
  <2>1. PICK c : c = InternalFindCell(V[0], k)
    OBVIOUS
  <2>2. c \in 0 .. m /\ \A i \in 0 .. m - 1 : V[0].key[i] \in Nat /\ (i < c <=> V[0].key[i] < k)
    BY <1>3, <2>1, RootSearch DEF Tree
  <2>3. \A i \in 0 .. m - 1 : V[0].key[i] < k
    BY <1>3 DEF InnerRoot, Above
  <2>4. c = m
    <3>1. c < m => c \in 0 .. m - 1
      BY <1>1, <2>2
    <3> QED BY <1>1, <2>2, <2>3, <3>1
  <2>5. PageFor(V, k) = ord[m]
    BY <1>1, <1>3, <2>1, <2>4 DEF InnerRoot, PageFor
  <2>6. ASSUME NEW i \in 0 .. m - 1, NEW x \in KeysOf(V[ord[i]])
        PROVE  x < k
    <3>1. i \in 0 .. m
      BY <1>1
    <3>2. SoundLeaf(V[ord[i]]) /\ V[ord[i]].n >= 1 /\ V[0].key[i] = GetMaxKey(V[ord[i]])
      BY <1>3, <3>1 DEF InnerRoot, Tree, Chain
    <3>3. x \in Nat /\ x <= GetMaxKey(V[ord[i]])
      BY <3>2, MaxKeyIsMax
    <3> QED BY <2>2, <2>3, <3>2, <3>3
  <2> QED BY <2>5, <2>6
<1> QED BY <1>2, <1>3 DEF Tree

\* An insertion without a split.
LEMMA TreePut ==
  ASSUME NEW V, NEW np, NEW m, NEW ord, NEW R, Tree(V, np, m, ord, R), NEW k \in Nat, k \notin R, Above(V, k),
         V[ord[m]].n < CellsCapacity, NEW W, PutLast(V, m, ord, k, W)
  PROVE  Tree(W, np, m, ord, R \cup {k})
<1>1. m \in Nat /\ m \in 0 .. m /\ Chain(V, m, ord, R)
  BY DEF Tree, Chain
<1>2. AboveOthers(V, m, ord, k)
  BY LastLeaf
<1>3. /\ Chain(W, m, ord, R \cup {k}) /\ W[ord[m]].n >= 1
      /\ W[ord[m]].type = V[ord[m]].type /\ W[ord[m]].root = V[ord[m]].root
  BY <1>1, <1>2, ChainPut
<1>4. CASE LeafRoot(V, np, m, ord)
  <2>1. LeafRoot(W, np, m, ord)
    BY <1>3, <1>4 DEF LeafRoot
  <2> QED BY <1>3, <2>1 DEF Tree
<1>5. CASE InnerRoot(V, np, m, ord)
  <2>1. W[0] = V[0]
    BY <1>1, <1>5, ZeroPageRecord DEF InnerRoot, PutLast
  <2>2. \A i \in 0 .. m - 1 : ord[i] \in PageNums /\ ord[i] # ord[m] /\ i \in 0 .. m
    BY <1>1 DEF Chain
  <2>3. \A i \in 0 .. m - 1 : W[ord[i]] = V[ord[i]]
    BY <2>2 DEF PutLast
  <2>4. ASSUME NEW i \in 0 .. m
        PROVE  W[ord[i]].n >= 1 /\ ~W[ord[i]].root
    <3>1. CASE i = m
      BY <1>1, <1>3, <1>5, <3>1 DEF InnerRoot
    <3>2. CASE i # m
      <4>1. i \in 0 .. m - 1
        BY <1>1, <3>2
      <4> QED BY <1>5, <2>3, <4>1 DEF InnerRoot
    <3> QED BY <3>1, <3>2
  <2>5. InnerRoot(W, np, m, ord)
    BY <1>5, <2>1, <2>3, <2>4 DEF InnerRoot
  <2> QED BY <1>3, <2>5 DEF Tree
<1> QED BY <1>4, <1>5 DEF Tree

\* The root leaf is split: SplitRoot.
LEMMA TreeRootSplit ==
  ASSUME NEW V, NEW np, NEW m, NEW ord, NEW R, Tree(V, np, m, ord, R), LeafRoot(V, np, m, ord), NEW k \in Nat,
         NEW W \in [PageNums -> PageRecords], 2 \in PageNums,
         Halved(V[0], k, W[2], W[1]), W[2].link = 1, W[1].link = 0, ~W[1].root, ~W[2].root,
         W[0].type = "internal", W[0].n = 1, W[0].child[0] = 2, W[0].link = 1, W[0].key[0] = GetMaxKey(W[2])
  PROVE  \E to : Tree(W, 3, 1, to, R \cup {k})
<1>1. m = 0 /\ ord[0] = 0 /\ Chain(V, m, ord, R)
  BY DEF LeafRoot, Tree
<1>2. 1 \in PageNums
  BY TableAssumption DEF PageNums
<1>3. PICK to : to = Longer(0, ord, 2, 1)
  OBVIOUS
<1>4. Chain(W, 0 + 1, to, R \cup {k})
  <2>1. Chain(V, 0, ord, R) /\ Halved(V[ord[0]], k, W[2], W[1])
    BY <1>1
  <2>2. AboveOthers(V, 0, ord, k) /\ SplitLast(V, 0, ord, k, 2, 1, W)
    BY <1>2, <2>1 DEF AboveOthers, SplitLast
  <2> QED BY <1>3, <2>1, <2>2, ChainSplit
<1>5. to[0] = 2 /\ to[1] = 1
  BY <1>3 DEF Longer
<1>6. InnerRoot(W, 3, 1, to)
  <2>1. ChildPage(W[0], 0) = 2 /\ ChildPage(W[0], 1) = 1
    BY DEF ChildPage
  <2>2. W[1].n >= 1 /\ W[2].n >= 1
    BY DEF Halved
  <2>3. 1 \in 1 .. MaxCells /\ 3 = 1 + 2
    BY TableAssumption
  <2>4. ASSUME NEW i \in 0 .. 1
        PROVE  to[i] = ChildPage(W[0], i) /\ to[i] \in 1 .. 2 /\ W[to[i]].n >= 1 /\ ~W[to[i]].root
    <3>1. i = 0 \/ i = 1
      OBVIOUS
    <3> QED BY <1>5, <2>1, <2>2, <3>1
  <2>5. \A p \in 1 .. 2 : p = to[0] \/ p = to[1]
    BY <1>5
  <2>6. \A i \in 0 .. 1 - 1 : W[0].key[i] = GetMaxKey(W[to[i]])
    BY <1>5
  <2> QED BY <2>3, <2>4, <2>5, <2>6 DEF InnerRoot
<1> QED BY <1>4, <1>6 DEF Tree

\* The last leaf below the root is split: SplitChild appends on the right.
LEMMA TreeChildSplit ==
  ASSUME NEW V, NEW np, NEW m, NEW ord, NEW R, Tree(V, np, m, ord, R), InnerRoot(V, np, m, ord), NEW k \in Nat,
         Above(V, k), m < MaxCells, m + 2 \in PageNums,
         NEW W \in [PageNums -> PageRecords], \A i \in 1 .. m + 1 : i # ord[m] => W[i] = V[i],
         Halved(V[ord[m]], k, W[ord[m]], W[m + 2]), W[ord[m]].link = m + 2, W[m + 2].link = 0,
         ~W[ord[m]].root, ~W[m + 2].root,
         W[0].type = "internal", W[0].n = m + 1, W[0].link = m + 2,
         W[0].child[m] = ord[m], \A i \in 0 .. m - 1 : W[0].child[i] = V[0].child[i] /\ W[0].key[i] = V[0].key[i],
         W[0].key[m] = GetMaxKey(W[ord[m]])
  PROVE  \E to : Tree(W, m + 3, m + 1, to, R \cup {k})
<1>1. m \in Nat /\ m \in 0 .. m /\ Chain(V, m, ord, R) /\ m \in 1 .. MaxCells /\ V[0].n = m
  <2>1. Chain(V, m, ord, R)
    BY ONLY Tree(V, np, m, ord, R) DEF Tree
  <2>2. m \in Nat
    BY ONLY <2>1 DEF Chain
  <2>3. m \in 1 .. MaxCells /\ V[0].n = m
    BY ONLY InnerRoot(V, np, m, ord) DEF InnerRoot
  <2> QED BY ONLY <2>1, <2>2, <2>3
<1>2. PICK a : a = ord[m]
  OBVIOUS
<1>3. a \in PageNums /\ a \in 1 .. m + 1 /\ a = ChildPage(V[0], m)
  BY <1>1, <1>2 DEF InnerRoot, Chain
<1>4. ASSUME NEW i \in 0 .. m - 1
      PROVE  /\ i \in 0 .. m /\ ord[i] # a /\ ord[i] # m + 2 /\ ord[i] \in 1 .. m + 1 /\ W[ord[i]] = V[ord[i]]
             /\ ord[i] = V[0].child[i] /\ V[ord[i]].n >= 1 /\ ~V[ord[i]].root
             /\ V[0].key[i] = GetMaxKey(V[ord[i]])
  <2>1. i \in 0 .. m /\ i < m
    BY <1>1
  <2>2. ord[i] # a
    BY <1>1, <1>2, <2>1 DEF Chain
  <2>3. ord[i] = ChildPage(V[0], i) /\ ord[i] \in 1 .. m + 1 /\ V[ord[i]].n >= 1 /\ ~V[ord[i]].root
    BY <2>1 DEF InnerRoot
  <2>4. V[0].key[i] = GetMaxKey(V[ord[i]])
    BY DEF InnerRoot
  <2>5. ord[i] = V[0].child[i] /\ ord[i] # m + 2
    BY <1>1, <2>1, <2>3 DEF ChildPage
  <2> QED BY <1>2, <2>1, <2>2, <2>3, <2>4, <2>5
<1>5. PICK to : to = Longer(m, ord, a, m + 2)
  OBVIOUS
<1>6. Chain(W, m + 1, to, R \cup {k})
  <2>1. AboveOthers(V, m, ord, k)
    BY LastLeaf
  <2>2. a # m + 2 /\ m + 2 # 0 /\ Halved(V[ord[m]], k, W[a], W[m + 2]) /\ W[a].link = m + 2
    BY <1>1, <1>2, <1>3
  <2>3. SplitLast(V, m, ord, k, a, m + 2, W)
    BY <1>2, <1>3, <1>4, <2>2 DEF SplitLast
  <2> QED BY <1>1, <1>5, <2>1, <2>3, ChainSplit
<1>7. /\ to[m] = a /\ to[m + 1] = m + 2
      /\ \A i \in 0 .. m - 1 : to[i] = ord[i]
  BY <1>1, <1>5 DEF Longer
<1>8. \A i \in 0 .. m + 1 : i = m + 1 \/ i = m \/ i \in 0 .. m - 1
  BY <1>1
<1>9. InnerRoot(W, m + 3, m + 1, to)
  <2>1. W[a].n >= 1 /\ W[m + 2].n >= 1
    BY <1>2 DEF Halved
  <2>2. m + 1 \in 1 .. MaxCells /\ m + 3 = (m + 1) + 2
    BY <1>1, TableAssumption
  <2>3. ASSUME NEW i \in 0 .. m + 1
        PROVE  to[i] = ChildPage(W[0], i) /\ to[i] \in 1 .. (m + 1) + 1 /\ W[to[i]].n >= 1 /\ ~W[to[i]].root
    <3>1. CASE i = m + 1
      BY <1>1, <1>7, <2>1, <3>1 DEF ChildPage
    <3>2. CASE i = m
      BY <1>1, <1>2, <1>3, <1>7, <2>1, <3>2 DEF ChildPage
    <3>3. CASE i \in 0 .. m - 1
      <4>1. ChildPage(W[0], i) = W[0].child[i]
        BY <1>1, <3>3 DEF ChildPage
      <4> QED BY <1>1, <1>4, <1>7, <3>3, <4>1
    <3> QED BY <1>8, <3>1, <3>2, <3>3
  <2>4. ASSUME NEW p \in 1 .. (m + 1) + 1
        PROVE  \E i \in 0 .. m + 1 : p = to[i]
    <3>1. CASE p = m + 2
      BY <1>1, <1>7, <3>1
    <3>2. CASE p # m + 2
      <4>1. p \in 1 .. m + 1
        BY <1>1, <3>2
      <4>2. PICK i \in 0 .. m : p = ord[i]
        BY <4>1 DEF InnerRoot
      <4>3. i \in 0 .. m + 1 /\ p = to[i]
        BY <1>1, <1>2, <1>7, <4>2
      <4> QED BY <4>3
    <3> QED BY <3>1, <3>2
  <2>5. ASSUME NEW i \in 0 .. (m + 1) - 1
        PROVE  W[0].key[i] = GetMaxKey(W[to[i]])
    <3>1. CASE i = m
      BY <1>2, <1>7, <3>1
    <3>2. CASE i # m
      <4>1. i \in 0 .. m - 1
        BY <1>1, <3>2
      <4> QED BY <1>4, <1>7, <4>1
    <3> QED BY <3>1, <3>2
  <2> QED BY <2>2, <2>3, <2>4, <2>5 DEF InnerRoot
<1> QED BY <1>6, <1>9 DEF Tree
\* A search leads to the cell of a key that is there.
LEMMA TreeLocates ==
  ASSUME NEW V, NEW np, NEW m, NEW ord, NEW R, Tree(V, np, m, ord, R),
         NEW i \in 0 .. m, NEW a \in 0 .. V[ord[i]].n - 1, NEW k, k = V[ord[i]].key[a]
  PROVE  k \in Nat /\ PageFor(V, k) = ord[i] /\ LeafFindCell(V[ord[i]], k) = a
<1>1. m \in Nat /\ Chain(V, m, ord, R) /\ SoundLeaf(V[ord[i]])
  BY DEF Tree, Chain
<1>2. PICK p : p = V[ord[i]]
  OBVIOUS
<1>3. PICK n \in Nat : n = p.n /\ a \in 0 .. n - 1 /\ n >= 1 /\ n <= CellsCapacity
  BY <1>1, <1>2 DEF SoundLeaf, PageRecords
<1>4. k \in KeysOf(p)
  BY <1>2, <1>3 DEF KeysOf
<1>5. \A x \in KeysOf(p) : x \in Nat /\ x <= GetMaxKey(p)
  BY <1>1, <1>2, <1>3, MaxKeyIsMax
<1>6. GetMaxKey(p) \in Nat
  BY <1>1, <1>2, <1>3, MaxKeyIsMax
<1>7. LeafFindCell(p, k) = a
  <2>1. \A j \in 0 .. n - 1 : p.key[j] \in Nat /\ p.key[j] \in KeysOf(p)
    BY <1>3, <1>5 DEF KeysOf
  <2>2. PICK c : c = LeafFindCell(p, k)
    OBVIOUS
  <2>3. c \in 0 .. n /\ \A j \in 0 .. n - 1 : j < c <=> p.key[j] < k
    <3>1. p.n \in Nat /\ Ascends(p) /\ \A j \in 0 .. p.n - 1 : p.key[j] \in Nat
      BY <1>1, <1>2, <1>3, <2>1 DEF SoundLeaf
    <3> QED BY <1>3, <1>4, <1>5, <2>2, <3>1, LeafFound
  <2>4. ~(a < c)
    BY <1>2, <1>3, <1>4, <1>5, <2>3
  <2>5. ~(c < a)
    <3>1. ASSUME c < a
          PROVE  FALSE
      <4>1. c \in 0 .. n - 1 /\ p.key[c] < p.key[a]
        BY <1>1, <1>2, <1>3, <2>3, <3>1 DEF SoundLeaf, Ascends
      <4> QED BY <1>2, <2>3, <4>1
    <3> QED BY <3>1
  <2> QED BY <1>3, <2>2, <2>3, <2>4, <2>5
<1>8. PageFor(V, k) = ord[i]
  <2>1. CASE LeafRoot(V, np, m, ord)
    BY <2>1 DEF LeafRoot, PageFor
  <2>2. CASE InnerRoot(V, np, m, ord)
    <3>1. PICK c : c = InternalFindCell(V[0], k)
      OBVIOUS
    <3>2. c \in 0 .. m /\ \A j \in 0 .. m - 1 : V[0].key[j] \in Nat /\ (j < c <=> V[0].key[j] < k)
      BY <1>1, <1>4, <1>5, <2>2, <3>1, RootSearch
    <3>3. ~(i < c)
      <4>1. ASSUME i < c
            PROVE  FALSE
        <5>1. i \in 0 .. m - 1 /\ V[0].key[i] = GetMaxKey(p)
          BY <1>1, <1>2, <2>2, <3>2, <4>1 DEF InnerRoot
        <5> QED BY <1>4, <1>5, <1>6, <3>2, <4>1, <5>1
      <4> QED BY <4>1
    <3>4. ~(c < i)
      <4>1. ASSUME c < i
            PROVE  FALSE
        <5>1. c \in 0 .. m - 1 /\ c \in 0 .. m
          BY <1>1, <3>2, <4>1
        <5>2. SoundLeaf(V[ord[c]]) /\ V[ord[c]].n >= 1 /\ V[0].key[c] = GetMaxKey(V[ord[c]])
          BY <1>1, <2>2, <5>1 DEF InnerRoot, Chain
        <5>3. Before(V[ord[c]], p)
          BY <1>1, <1>2, <4>1, <5>1 DEF Chain
        <5>4. V[0].key[c] < k
          BY <1>4, <5>2, <5>3, MaxKeyIsMax DEF Before
        <5> QED BY <3>2, <5>1, <5>4
      <4> QED BY <4>1
    <3>5. c = i
      BY <1>1, <3>2, <3>3, <3>4
    <3> QED BY <2>2, <3>1, <3>5 DEF InnerRoot, PageFor
  <2> QED BY <2>1, <2>2 DEF Tree
<1> QED BY <1>2, <1>4, <1>5, <1>7, <1>8

\* A scan starts at the first cell of the first leaf.
LEMMA TreeStart ==
  ASSUME NEW V, NEW np, NEW m, NEW ord, NEW R, Tree(V, np, m, ord, R)
  PROVE  PageFor(V, 0) = ord[0] /\ LeafFindCell(V[ord[0]], 0) = 0
<1>1. m \in Nat /\ Chain(V, m, ord, R) /\ SoundLeaf(V[ord[0]]) /\ 0 \in 0 .. m
  BY DEF Tree, Chain
<1>2. PICK p : p = V[ord[0]]
  OBVIOUS
<1>3. PICK n \in Nat : n = p.n /\ n <= CellsCapacity
  BY <1>1, <1>2 DEF SoundLeaf, PageRecords
<1>4. PICK key \in [Slots -> Nat] : key = p.key
  BY <1>1, <1>2 DEF SoundLeaf, PageRecords
<1>5. \A j \in 0 .. n - 1 : key[j] \in Nat
  BY <1>3, ZeroPageRecord, TableAssumption
<1>6. LeafFindCell(p, 0) = 0
  <2>1. PICK c : c = LeafFindCell(p, 0)
    OBVIOUS
  <2>2. c \in 0 .. n /\ \A j \in 0 .. n - 1 : j < c <=> key[j] < 0
    <3>1. p.n \in Nat /\ Ascends(p) /\ \A j \in 0 .. p.n - 1 : p.key[j] \in Nat
      BY <1>1, <1>2, <1>3, <1>4, <1>5 DEF SoundLeaf
    <3> QED BY <1>3, <1>4, <2>1, <3>1, LeafFound
  <2>3. c > 0 => 0 \in 0 .. n - 1
    BY <2>2
  <2> QED BY <1>5, <2>1, <2>2, <2>3
<1>7. PageFor(V, 0) = ord[0]
  <2>1. CASE LeafRoot(V, np, m, ord)
    BY <2>1 DEF LeafRoot, PageFor
  <2>2. CASE InnerRoot(V, np, m, ord)
    <3>1. PICK c : c = InternalFindCell(V[0], 0)
      OBVIOUS
    <3>2. c \in 0 .. m /\ \A j \in 0 .. m - 1 : V[0].key[j] \in Nat /\ (j < c <=> V[0].key[j] < 0)
      BY <1>1, <2>2, <3>1, RootSearch
    <3>3. c = 0
      <4>1. c > 0 => 0 \in 0 .. m - 1
        BY <1>1, <3>2
      <4> QED BY <3>2, <4>1
    <3> QED BY <1>1, <2>2, <3>1, <3>3 DEF InnerRoot, PageFor
  <2> QED BY <2>1, <2>2 DEF Tree
<1> QED BY <1>2, <1>6, <1>7
-----------------------------------------------------------------------------
(* The table: what the pages say, in memory or in the file. *)

View == [i \in PageNums |-> GetPage(i)]

\* The leaves before and at j, as a scan has passed them.
Passed(V, ord, j) == [i \in 1 .. j + 1 |-> KeysOf(V[ord[i - 1]])]

\* A scan passes the leaves of the chain, each with all its keys.
LEMMA ScanPasses ==
  ASSUME NEW V, V = View, NEW m, NEW ord, NEW R, Tree(V, num_pages, m, ord, R)
  PROVE  Scan = Passed(V, ord, m)
<1>1. m \in Nat /\ Chain(V, m, ord, R) /\ num_pages \in Nat /\ num_pages >= m
  BY DEF Tree, Chain, LeafRoot, InnerRoot
<1>2. PICK N \in Nat : N = num_pages
  BY <1>1
<1>3. \A i \in PageNums : GetPage(i) = V[i]
  BY DEF View
<1>4. PICK c : c = Find(0)
  OBVIOUS
<1>5. c.page = ord[0] /\ c.cell = 0 /\ 0 \in 0 .. m
  <2>1. FindPage(0) = PageFor(V, 0)
    BY <1>3, ZeroPageRecord DEF FindPage, PageFor
  <2>2. ord[0] \in PageNums /\ 0 \in 0 .. m
    BY <1>1 DEF Chain
  <2> QED BY <1>3, <1>4, <2>1, <2>2, TreeStart DEF Find
<1> DEFINE From(x) == {GetPage(x.page).key[i] : i \in x.cell .. GetPage(x.page).n - 1}
           first == [page |-> Find(0).page, seen |-> <<From(Find(0))>>]
           Step(w) == LET next == GetPage(w.page).link
                      IN  IF next = 0 THEN w
                          ELSE [page |-> next,
                                seen |-> Append(w.seen, From([page |-> next, cell |-> 0]))]
           Body(g) == [j \in 0 .. num_pages |-> IF j = 0 THEN first ELSE Step(g[j - 1])]
           At(j) == [page |-> ord[j], seen |-> Passed(V, ord, j)]
           Low(j) == IF j < m THEN j ELSE m
           f == [j \in 0 .. num_pages |-> At(Low(j))]
<1>6. first = At(0)
  <2>1. From(c) = KeysOf(V[ord[0]])
    <3>1. GetPage(c.page) = V[ord[0]]
      BY <1>1, <1>3, <1>5 DEF Chain
    <3> QED BY <1>5, <3>1 DEF KeysOf
  <2>2. Passed(V, ord, 0) = <<KeysOf(V[ord[0]])>>
    <3>1. PICK K : K = KeysOf(V[ord[0]])
      OBVIOUS
    <3>2. Passed(V, ord, 0) = [i \in 1 .. 1 |-> K]
      BY <3>1 DEF Passed
    <3> QED BY <3>1, <3>2
  <2> QED BY <1>4, <1>5, <2>1, <2>2
<1>7. ASSUME NEW j \in 0 .. m - 1
      PROVE  Step(At(j)) = At(j + 1)
  <2>1. j \in 0 .. m /\ j + 1 \in 0 .. m
    BY <1>1
  <2>2. ord[j] \in PageNums /\ ord[j + 1] \in PageNums /\ ord[j + 1] # 0 /\ V[ord[j]].link = ord[j + 1]
    BY <1>1, <2>1 DEF Chain
  <2>3. PICK w : w = At(j)
    OBVIOUS
  <2>4. w.page = ord[j] /\ w.seen = Passed(V, ord, j)
    BY <2>3
  <2>5. GetPage(w.page).link = ord[j + 1] /\ GetPage(ord[j + 1]) = V[ord[j + 1]]
    BY <1>3, <2>2, <2>4
  <2>6. From([page |-> ord[j + 1], cell |-> 0]) = KeysOf(V[ord[j + 1]])
    BY <2>5 DEF KeysOf
  <2>7. Step(w) = [page |-> ord[j + 1], seen |-> Append(Passed(V, ord, j), KeysOf(V[ord[j + 1]]))]
    <3> HIDE DEF From
    <3> QED BY <2>2, <2>4, <2>5, <2>6
  <2>8. Append(Passed(V, ord, j), KeysOf(V[ord[j + 1]])) = Passed(V, ord, j + 1)
    <3>1. PICK K : K = [i \in 1 .. m + 1 |-> KeysOf(V[ord[i - 1]])]
      OBVIOUS
    <3>2. /\ Passed(V, ord, j) = [i \in 1 .. j + 1 |-> K[i]]
          /\ Passed(V, ord, j + 1) = [i \in 1 .. j + 2 |-> K[i]]
          /\ KeysOf(V[ord[j + 1]]) = K[j + 2]
      BY <1>1, <3>1 DEF Passed
    <3>3. Append([i \in 1 .. j + 1 |-> K[i]], K[j + 2]) = [i \in 1 .. j + 2 |-> K[i]]
      BY <1>1
    <3> QED BY <3>2, <3>3
  <2> QED BY <2>3, <2>7, <2>8
<1>8. Step(At(m)) = At(m)
  <2>1. ord[m] \in PageNums /\ V[ord[m]].link = 0
    BY <1>1 DEF Chain
  <2> QED BY <1>3, <2>1
<1> HIDE DEF first, Step, At
<1>9. ASSUME NEW j \in 1 .. num_pages
      PROVE  Step(At(Low(j - 1))) = At(Low(j))
  <2>1. CASE j - 1 < m
    <3>1. Low(j - 1) = j - 1 /\ Low(j) = (j - 1) + 1 /\ j - 1 \in 0 .. m - 1
      BY <1>1, <2>1
    <3> QED BY <1>7, <3>1
  <2>2. CASE ~(j - 1 < m)
    <3>1. Low(j - 1) = m /\ Low(j) = m
      BY <1>1, <2>2
    <3> QED BY <1>8, <3>1
  <2> QED BY <2>1, <2>2
<1>10. Low(0) = 0 /\ Low(N) = m
  BY <1>1, <1>2
<1> HIDE DEF Low
<1>11. f = Body(f)
  BY <1>1, <1>6, <1>9, <1>10
<1>12. PICK g : g = CHOOSE x : x = Body(x)
  OBVIOUS
<1>13. g = Body(g)
  BY <1>11, <1>12
<1>14. g[N] = At(Low(N))
  <2> DEFINE P == {j \in Nat : j <= N => g[j] = At(Low(j))}
  <2>1. 0 \in P
    BY <1>2, <1>6, <1>10, <1>13
  <2>2. ASSUME NEW j \in Nat, j \in P
        PROVE  j + 1 \in P
    <3> SUFFICES ASSUME j + 1 <= N
                 PROVE  g[j + 1] = At(Low(j + 1))
      OBVIOUS
    <3>1. g[j] = At(Low(j))
      BY <1>2, <2>2
    <3>2. j + 1 \in 1 .. num_pages /\ (j + 1) - 1 = j
      BY <1>2
    <3>3. \A i \in 1 .. num_pages : g[i] = Step(g[i - 1])
      BY <1>2, <1>13
    <3> QED BY <1>9, <3>1, <3>2, <3>3
  <2>3. Nat \subseteq P
    <3> HIDE DEF P
    <3> QED BY ONLY <2>1, <2>2, SetInduction
  <2> QED BY <2>3
<1>15. Scan = g[num_pages].seen
  BY <1>12 DEF Scan, first, Step
<1>16. g[N].seen = Passed(V, ord, m)
  BY <1>10, <1>14 DEF At
<1> QED BY <1>2, <1>15, <1>16
\* The pages form a tree that holds the rows.
TreeHolds(V, np, R) == \E m, ord : Tree(V, np, m, ord, R)

\* While the pages form the tree, scans, look-ups and separators are right.
LEMMA TreeAnswers ==
  ASSUME NEW V, V = View, num_pages <= MaxPages, TreeHolds(V, num_pages, rows)
  PROVE  ScanReturnsRows /\ FindLocates /\ NoOrphans /\ SeparatorIsMaxKey
<1>1. PICK m, ord : Tree(V, num_pages, m, ord, rows)
  BY DEF TreeHolds
<1>2. m \in Nat /\ Chain(V, m, ord, rows) /\ num_pages \in Nat
  BY <1>1 DEF Tree, Chain, LeafRoot, InnerRoot
<1>3. \A i \in PageNums : GetPage(i) = V[i]
  BY DEF View
<1>4. Root = V[0] /\ 0 \in PageNums
  BY <1>3, ZeroPageRecord DEF Root
<1>5. \A i \in 0 .. num_pages - 1 : i \in PageNums /\ GetPage(i) = V[i]
  BY <1>2, <1>3, TableAssumption DEF PageNums
<1>6. \A i \in 0 .. m : ord[i] \in PageNums /\ SoundLeaf(V[ord[i]])
  BY <1>2 DEF Chain
<1>7. ASSUME NEW p \in Leaves
      PROVE  \E i \in 0 .. m : p = ord[i]
  <2>1. p \in 0 .. num_pages - 1 /\ V[p].type = "leaf"
    BY <1>5 DEF Leaves
  <2>2. CASE LeafRoot(V, num_pages, m, ord)
    BY <1>2, <2>1, <2>2 DEF LeafRoot
  <2>3. CASE InnerRoot(V, num_pages, m, ord)
    <3>1. p # 0
      BY <2>1, <2>3 DEF InnerRoot
    <3>2. p \in 1 .. m + 1
      BY <1>2, <2>1, <2>3, <3>1 DEF InnerRoot
    <3> QED BY <2>3, <3>2 DEF InnerRoot
  <2> QED BY <1>1, <2>2, <2>3 DEF Tree
<1>8. ScanReturnsRows
  <2>1. PICK s : s = Scan
    OBVIOUS
  <2>2. s = Passed(V, ord, m)
    BY <1>1, <2>1, ScanPasses
  <2>3. DOMAIN s = 1 .. m + 1 /\ \A i \in 1 .. m + 1 : s[i] = KeysOf(V[ord[i - 1]])
    BY <2>2 DEF Passed
  <2>4. UNION {s[i] : i \in DOMAIN s} = rows
    <3>1. ASSUME NEW x
          PROVE  x \in UNION {s[i] : i \in DOMAIN s} <=> \E i \in 0 .. m : x \in KeysOf(V[ord[i]])
      <4>1. \A i \in 1 .. m + 1 : i - 1 \in 0 .. m
        BY <1>2
      <4>2. \A i \in 0 .. m : i + 1 \in 1 .. m + 1 /\ (i + 1) - 1 = i
        BY <1>2
      <4>3. ASSUME NEW i \in 0 .. m, x \in KeysOf(V[ord[i]])
            PROVE  \E j \in DOMAIN s : x \in s[j]
        BY <2>3, <4>2, <4>3
      <4>4. ASSUME NEW j \in DOMAIN s, x \in s[j]
            PROVE  \E i \in 0 .. m : x \in KeysOf(V[ord[i]])
        BY <2>3, <4>1, <4>4
      <4> QED BY <4>3, <4>4
    <3> QED BY <1>2, <3>1 DEF Chain
  <2>5. ASSUME NEW i \in DOMAIN s, NEW j \in DOMAIN s, i < j
        PROVE  \A x \in s[i], y \in s[j] : x < y
    <3>1. i - 1 \in 0 .. m /\ j - 1 \in 0 .. m /\ i - 1 < j - 1
      BY <1>2, <2>3, <2>5
    <3>2. Before(V[ord[i - 1]], V[ord[j - 1]])
      BY <1>2, <3>1 DEF Chain
    <3> QED BY <2>3, <3>2 DEF Before
  <2>6. ASSUME NEW p \in Leaves, NEW i \in 1 .. GetPage(p).n - 1
        PROVE  GetPage(p).key[i - 1] < GetPage(p).key[i]
    <3>1. PICK j \in 0 .. m : p = ord[j]
      BY <1>7
    <3>2. GetPage(p) = V[p] /\ SoundLeaf(V[p])
      BY <1>3, <1>6, <3>1
    <3>3. PICK q : q = V[p]
      OBVIOUS
    <3>4. PICK n \in Nat : n = q.n
      BY <3>2, <3>3 DEF SoundLeaf, PageRecords
    <3>5. i \in 1 .. n - 1 /\ Ascends(q)
      BY <3>2, <3>3, <3>4 DEF SoundLeaf
    <3>6. q.key[i - 1] < q.key[i]
      BY <3>4, <3>5 DEF Ascends
    <3> QED BY <3>2, <3>3, <3>6
  <2> QED BY <2>1, <2>4, <2>5, <2>6 DEF ScanReturnsRows
<1>9. FindLocates
  <2>1. ASSUME NEW k \in rows
        PROVE  Find(k).cell < GetPage(Find(k).page).n /\ GetPage(Find(k).page).key[Find(k).cell] = k
    <3>1. PICK i \in 0 .. m : k \in KeysOf(V[ord[i]])
      BY <1>2 DEF Chain
    <3>2. PICK a \in 0 .. V[ord[i]].n - 1 : k = V[ord[i]].key[a]
      BY <3>1 DEF KeysOf
    <3>3. PageFor(V, k) = ord[i] /\ LeafFindCell(V[ord[i]], k) = a
      BY <1>1, <3>2, TreeLocates
    <3>4. FindPage(k) = ord[i]
      BY <1>3, <1>4, <3>3 DEF FindPage, PageFor
    <3>5. Find(k).page = ord[i] /\ Find(k).cell = a /\ GetPage(ord[i]) = V[ord[i]]
      BY <1>3, <1>6, <3>3, <3>4 DEF Find
    <3>6. PICK n \in Nat : n = V[ord[i]].n
      BY <1>6 DEF SoundLeaf, PageRecords
    <3>7. a < n
      BY <3>6
    <3> QED BY <3>2, <3>5, <3>6, <3>7
  <2> QED BY <2>1 DEF FindLocates
<1>10. CASE LeafRoot(V, num_pages, m, ord)
  <2>1. Root.type # "internal"
    BY <1>4, <1>10 DEF LeafRoot
  <2> QED BY <1>8, <1>9, <2>1 DEF NoOrphans, SeparatorIsMaxKey
<1>11. CASE InnerRoot(V, num_pages, m, ord)
  <2>1. /\ Root.n = m /\ num_pages = m + 2 /\ Root.type = "internal"
        /\ \A i \in 0 .. m : ord[i] = ChildPage(Root, i) /\ ord[i] \in 1 .. m + 1 /\ ~V[ord[i]].root
        /\ \A p \in 1 .. m + 1 : \E i \in 0 .. m : p = ord[i]
        /\ \A i \in 0 .. m - 1 : Root.key[i] = GetMaxKey(V[ord[i]])
    BY <1>4, <1>11 DEF InnerRoot
  <2>2. {ChildPage(Root, i) : i \in 0 .. Root.n} = 1 .. m + 1
    BY <2>1
  <2>3. Leaves = 1 .. m + 1
    <3>1. \A p \in Leaves : p \in 1 .. m + 1
      BY <1>7, <2>1
    <3>2. ASSUME NEW p \in 1 .. m + 1
          PROVE  p \in Leaves
      <4>1. PICK i \in 0 .. m : p = ord[i]
        BY <2>1
      <4>2. p \in 0 .. num_pages - 1
        BY <1>2, <2>1
      <4>3. GetPage(p).type = "leaf"
        BY <1>3, <1>6, <4>1 DEF SoundLeaf
      <4> QED BY <4>2, <4>3 DEF Leaves
    <3> QED BY <3>1, <3>2
  <2>4. Cardinality(1 .. m + 1) = m + 1
    BY <1>2, FS_Interval
  <2>5. ASSUME NEW p \in Leaves
        PROVE  GetPage(p).parent = 0 /\ ~GetPage(p).root
    <3>1. PICK i \in 0 .. m : p = ord[i]
      BY <1>7
    <3> QED BY <1>3, <1>6, <2>1, <3>1 DEF SoundLeaf
  <2>6. NoOrphans
    BY <2>1, <2>2, <2>3, <2>4, <2>5 DEF NoOrphans
  <2>7. ASSUME NEW i \in 0 .. Root.n - 1
        PROVE  Root.key[i] = GetMaxKey(GetPage(Root.child[i]))
    <3>1. i \in 0 .. m - 1 /\ i \in 0 .. m /\ i # m
      BY <1>2, <2>1
    <3>2. ord[i] = Root.child[i]
      BY <2>1, <3>1 DEF ChildPage
    <3> QED BY <1>3, <1>6, <2>1, <3>1, <3>2
  <2> QED BY <1>8, <1>9, <2>6, <2>7 DEF SeparatorIsMaxKey
<1> QED BY <1>1, <1>10, <1>11 DEF Tree
\* What is in memory, and what a page that is not comes from.
Stored ==
  /\ pages \in [PageNums -> PageRecords \cup {NoPage}]
  /\ file \in [PageNums -> PageRecords]
  /\ num_pages \in 1 .. MaxPages /\ file_pages \in 0 .. num_pages
  /\ \A i \in PageNums : pages[i] # NoPage => i < num_pages
  /\ \A i \in 0 .. num_pages - 1 : pages[i] = NoPage => i < file_pages
  /\ phase = "exited" => \A i \in PageNums : pages[i] = NoPage

\* The inductive invariant of the table, for keys inserted in ascending order.
TableInv == appendOnly /\ Readable => Stored /\ TreeHolds(View, num_pages, rows)

\* A missing page is told from a page by its type.
LEMMA NoPageIsNone == NoPage \notin PageRecords
<1>1. NoPage.type = "null"
  BY DEF NoPage
<1>2. \A p \in PageRecords : p.type # "null"
  BY DEF PageRecords
<1> QED BY <1>1, <1>2

\* A step that writes the pages of Written, all the new ones among them, and
\* only reads the others of S.
Writes(S, Written) ==
  /\ S \subseteq 0 .. num_pages - 1 /\ Written \subseteq PageNums
  /\ pages' = [i \in PageNums |-> pages'[i]]
  /\ \A i \in PageNums : i \notin Written => pages'[i] = Touch(S)[i]
  /\ \A i \in Written : pages'[i] \in PageRecords /\ i < num_pages'
  /\ num_pages' \in num_pages .. MaxPages
  /\ \A i \in num_pages .. num_pages' - 1 : i \in Written
  /\ UNCHANGED <<file, file_pages, phase>>

\* Such a step changes what is read of the pages it writes, and of no other.
LEMMA WriteKeeps ==
  ASSUME Stored, phase = "open", NEW S, NEW Written, Writes(S, Written)
  PROVE  /\ Stored' /\ View' \in [PageNums -> PageRecords]
         /\ \A i \in PageNums : View'[i] = IF i \in Written THEN pages'[i] ELSE View[i]
<1> USE DEF Writes
<1>1. PICK mem, np, V : mem = pages' /\ np = num_pages' /\ V = View
  OBVIOUS
<1>2. /\ num_pages \in Nat /\ num_pages >= 1 /\ np \in Nat /\ num_pages <= np /\ np <= MaxPages
      /\ PageNums = 0 .. MaxPages - 1 /\ MaxPages \in Nat
  BY <1>1, TableAssumption DEF Stored, PageNums
<1>3. \A i \in PageNums : V[i] \in PageRecords /\ V[i] = GetPage(i) /\ V[i] # NoPage
  BY <1>1, NoPageIsNone, ZeroPageRecord DEF View, GetPage, Stored
<1>4. ASSUME NEW i \in PageNums
      PROVE  /\ mem[i] \in PageRecords \cup {NoPage}
             /\ (mem[i] # NoPage => i < np)
             /\ (i < np /\ mem[i] = NoPage => i < file_pages)
             /\ (IF mem[i] # NoPage THEN mem[i] ELSE IF i < np THEN file[i] ELSE ZeroPage)
                  = IF i \in Written THEN mem[i] ELSE V[i]
  <2>1. i \in Nat
    BY <1>2
  <2>2. CASE i \in Written
    BY <1>1, <2>2, NoPageIsNone
  <2>3. CASE i \notin Written /\ i \in S
    <3>1. mem[i] = V[i] /\ i < num_pages
      <4>1. mem[i] = Touch(S)[i] /\ Touch(S)[i] = V[i]
        BY <1>1, <1>3, <2>3 DEF Touch
      <4>2. i \in 0 .. num_pages - 1
        BY <2>3
      <4> QED BY <1>2, <4>1, <4>2
    <3> QED BY <1>2, <1>3, <2>1, <2>3, <3>1
  <2>4. CASE i \notin Written /\ i \notin S
    <3>1. mem[i] = pages[i] /\ (i < np => i < num_pages)
      BY <1>1, <1>2, <2>1, <2>4 DEF Touch
    <3>2. pages[i] # NoPage => i < num_pages
      BY DEF Stored
    <3>3. i < num_pages /\ pages[i] = NoPage => i < file_pages
      BY <1>2, <2>1 DEF Stored
    <3>4. V[i] = IF pages[i] # NoPage THEN pages[i] ELSE IF i < num_pages THEN file[i] ELSE ZeroPage
      BY <1>3 DEF GetPage
    <3>5. pages[i] \in PageRecords \cup {NoPage}
      BY DEF Stored
    <3> QED BY <1>2, <2>1, <2>4, <3>1, <3>2, <3>3, <3>4, <3>5
  <2> QED BY <2>2, <2>3, <2>4
<1>5. Stored'
  <2>1. /\ mem \in [PageNums -> PageRecords \cup {NoPage}]
        /\ \A i \in PageNums : mem[i] # NoPage => i < np
    BY <1>1, <1>4
  <2>2. \A i \in 0 .. np - 1 : mem[i] = NoPage => i < file_pages
    BY <1>2, <1>4
  <2>3. np \in 1 .. MaxPages /\ file_pages \in 0 .. np /\ file \in [PageNums -> PageRecords] /\ phase # "exited"
    BY <1>2 DEF Stored
  <2> QED BY <1>1, <2>1, <2>2, <2>3 DEF Stored
<1>6. \A i \in PageNums : View'[i] = IF i \in Written THEN pages'[i] ELSE View[i]
  BY <1>1, <1>4 DEF View, GetPage
<1>7. \A i \in PageNums : View'[i] \in PageRecords
  BY <1>1, <1>3, <1>6
<1>8. View' \in [PageNums -> PageRecords]
  BY <1>7 DEF View
<1> QED BY <1>5, <1>6, <1>8

\* Extend gives the length of the file after the pages of S were written.
LEMMA ExtendCovers ==
  ASSUME NEW len \in Nat, NEW n \in Nat, len <= n, n <= MaxPages, NEW S, S \subseteq 0 .. n - 1,
         NEW e, e = Extend(len, S)
  PROVE  e \in len .. n /\ \A i \in S : i < e
<1>1. CASE \E i \in S : i >= len
  <2>1. PICK j \in S : j >= len
    BY <1>1
  <2> DEFINE T == {x \in Nat : \A i \in S : i < x}
  <2>2. n \in T
    OBVIOUS
  <2>3. PICK x \in T : \A y \in T : x <= y
    BY <2>2, LeastNat
  <2>4. x \in Nat /\ j < x /\ \A i \in S : i < x
    BY <2>3
  <2>5. x - 1 \in Nat /\ x - 1 \notin T
    BY <2>1, <2>3, <2>4
  <2>6. x - 1 \in S
    BY <2>4, <2>5
  <2>7. x \in 1 .. MaxPages
    BY <2>2, <2>3, <2>4, <2>6, TableAssumption
  <2>8. e = CHOOSE z \in 1 .. MaxPages : z - 1 \in S /\ \A i \in S : i < z
    BY <1>1 DEF Extend
  <2>9. e \in 1 .. MaxPages /\ e - 1 \in S /\ \A i \in S : i < e
    BY <2>4, <2>6, <2>7, <2>8
  <2> QED BY <2>1, <2>9
<1>2. CASE ~\E i \in S : i >= len
  <2>1. e = len
    BY <1>2 DEF Extend
  <2> QED BY <1>2, <2>1
<1> QED BY <1>1, <1>2

\* Close() moves pages from memory to the file and changes nothing that is read.
LEMMA FlushKeeps ==
  ASSUME Stored, phase = "open", NEW Failed, Flush(Failed), num_pages' = num_pages,
         phase' = "open" \/ (phase' = "exited" /\ Failed = {})
  PROVE  Stored' /\ View' = View
<1>1. PICK S : S = InMemory \ Failed
  OBVIOUS
<1>2. /\ file' = [i \in PageNums |-> IF i \in S THEN pages[i] ELSE file[i]]
      /\ file_pages' = Extend(file_pages, S)
      /\ pages' = [i \in PageNums |-> IF i \in S THEN NoPage ELSE pages[i]]
  BY <1>1 DEF Flush
<1>3. /\ num_pages \in Nat /\ num_pages >= 1 /\ num_pages <= MaxPages /\ file_pages \in Nat /\ file_pages <= num_pages
      /\ PageNums = 0 .. MaxPages - 1 /\ MaxPages \in Nat
  BY TableAssumption DEF Stored, PageNums
<1>4. \A i \in S : i \in PageNums /\ pages[i] # NoPage /\ i < num_pages /\ pages[i] \in PageRecords
  BY <1>1 DEF InMemory, Stored
<1>5. S \subseteq 0 .. num_pages - 1
  BY <1>3, <1>4
<1>6. PICK e : e = file_pages'
  OBVIOUS
<1>7. e \in file_pages .. num_pages /\ \A i \in S : i < e
  BY <1>2, <1>3, <1>5, <1>6, ExtendCovers
<1>8. Stored'
  <2>1. pages' \in [PageNums -> PageRecords \cup {NoPage}] /\ file' \in [PageNums -> PageRecords]
    BY <1>2, <1>4 DEF Stored
  <2>2. \A i \in PageNums : pages'[i] # NoPage => i < num_pages'
    BY <1>2 DEF Stored
  <2>3. ASSUME NEW i \in 0 .. num_pages' - 1, pages'[i] = NoPage
        PROVE  i < file_pages'
    <3>1. i \in PageNums /\ i \in 0 .. num_pages - 1
      BY <1>3
    <3>2. CASE i \in S
      BY <1>6, <1>7, <3>2
    <3>3. CASE i \notin S
      <4>1. i < file_pages
        BY <1>2, <2>3, <3>1, <3>3 DEF Stored
      <4> QED BY <1>3, <1>6, <1>7, <3>1, <4>1
    <3> QED BY <3>2, <3>3
  <2>4. num_pages' \in 1 .. MaxPages /\ file_pages' \in 0 .. num_pages'
    BY <1>3, <1>6, <1>7
  <2>5. phase' = "exited" => \A i \in PageNums : pages'[i] = NoPage
    BY <1>1, <1>2 DEF InMemory
  <2> QED BY <2>1, <2>2, <2>3, <2>4, <2>5 DEF Stored
<1>9. ASSUME NEW i \in PageNums
      PROVE  GetPage(i)' = GetPage(i)
  <2>1. CASE i \in S
    BY <1>2, <1>4, <2>1 DEF GetPage
  <2>2. CASE i \notin S
    BY <1>2, <2>2 DEF GetPage
  <2> QED BY <2>1, <2>2
<1> QED BY <1>8, <1>9 DEF View
\* What Find finds for an admissible key: its place in the last leaf.
LEMMA FindsLast ==
  ASSUME NEW V, V = View, NEW np, NEW m, NEW ord, Tree(V, np, m, ord, rows), appendOnly,
         NEW k \in Keys, Admissible(k)
  PROVE  /\ k \in Nat /\ k \notin rows /\ Above(V, k) /\ ord[m] \in PageNums
         /\ Find(k).page = ord[m] /\ Find(k).cell = LeafFindCell(V[ord[m]], k) /\ GetPage(ord[m]) = V[ord[m]]
<1>1. k \in Nat
  BY TableAssumption
<1>2. \A i \in PageNums : GetPage(i) = V[i]
  BY DEF View
<1>3. k \notin rows /\ Above(V, k)
  BY <1>2, ZeroPageRecord DEF Admissible, Above
<1>4. PageFor(V, k) = ord[m]
  BY <1>1, <1>3, LastLeaf
<1>5. ord[m] \in PageNums
  BY DEF Tree, Chain
<1>6. FindPage(k) = ord[m]
  BY <1>2, <1>4, ZeroPageRecord DEF FindPage, PageFor
<1> QED BY <1>1, <1>2, <1>3, <1>5, <1>6 DEF Find

\* An insertion into a leaf with room keeps the tree.
LEMMA NoSplitKeeps ==
  ASSUME TableInv, appendOnly, NEW k \in Keys, InsertNoSplit(k)
  PROVE  Stored' /\ TreeHolds(View', num_pages', rows')
<1>1. phase = "open" /\ Stored /\ TreeHolds(View, num_pages, rows) /\ Admissible(k)
  BY DEF TableInv, InsertNoSplit, Readable
<1>2. PICK V : V = View
  OBVIOUS
<1>3. PICK m, ord : Tree(V, num_pages, m, ord, rows)
  BY <1>1, <1>2 DEF TreeHolds
<1>4. PICK a : a = ord[m]
  OBVIOUS
<1>5. /\ k \in Nat /\ k \notin rows /\ Above(V, k) /\ a \in PageNums
      /\ Find(k).page = a /\ Find(k).cell = LeafFindCell(V[a], k) /\ GetPage(a) = V[a]
  BY <1>1, <1>2, <1>3, <1>4, FindsLast
<1>6. PICK p, q : p = V[a] /\ q = PutInLeaf(p, LeafFindCell(p, k), k)
  OBVIOUS
<1>7. /\ ~(p.n >= CellsCapacity) /\ pages' = [Touch({0}) EXCEPT ![a] = q] /\ rows' = rows \cup {k}
      /\ num_pages' = num_pages /\ file' = file /\ file_pages' = file_pages /\ phase' = phase
  BY <1>5, <1>6 DEF InsertNoSplit, LeafFull
<1>8. SoundLeaf(p) /\ k \notin KeysOf(p) /\ a < num_pages
  <2>1. m \in Nat /\ m \in 0 .. m /\ Chain(V, m, ord, rows)
    BY <1>3 DEF Tree, Chain
  <2>2. SoundLeaf(p) /\ k \notin KeysOf(p)
    BY <1>4, <1>5, <1>6, <2>1 DEF Chain
  <2>3. a < num_pages
    BY <1>3, <1>4, <2>1 DEF Tree, LeafRoot, InnerRoot
  <2> QED BY <2>2, <2>3
<1>9. p \in PageRecords /\ Ascends(p) /\ p.n < CellsCapacity
  BY <1>7, <1>8, TableAssumption DEF SoundLeaf, PageRecords
<1>10. q \in PageRecords
  BY <1>5, <1>6, <1>8, <1>9, PutInLeafSound
<1>11. PICK W : W = View'
  OBVIOUS
<1>12. /\ Stored' /\ W \in [PageNums -> PageRecords]
       /\ \A i \in PageNums : W[i] = IF i \in {a} THEN q ELSE V[i]
  <2>1. /\ pages' = [i \in PageNums |-> pages'[i]] /\ pages'[a] = q
        /\ \A i \in PageNums : i \notin {a} => pages'[i] = Touch({0})[i]
    BY <1>5, <1>7 DEF Touch
  <2>2. num_pages' \in num_pages .. MaxPages /\ {0} \subseteq 0 .. num_pages - 1 /\ num_pages \in Nat
    BY <1>1, <1>7 DEF Stored
  <2>3. \A i \in num_pages .. num_pages' - 1 : i \in {a}
    BY <1>7, <2>2
  <2>4. {a} \subseteq PageNums /\ \A i \in {a} : pages'[i] \in PageRecords /\ i < num_pages'
    BY <1>5, <1>7, <1>8, <1>10, <2>1
  <2>5. /\ Stored' /\ View' \in [PageNums -> PageRecords]
        /\ \A i \in PageNums : View'[i] = IF i \in {a} THEN pages'[i] ELSE View[i]
    <3>1. UNCHANGED <<file, file_pages, phase>>
      BY <1>7
    <3>2. Writes({0}, {a})
      BY <2>1, <2>2, <2>3, <2>4, <3>1 DEF Writes
    <3> QED BY ONLY <1>1, <3>2, WriteKeeps
  <2> QED BY <1>2, <1>11, <2>1, <2>5
<1>13. PutLast(V, m, ord, k, W)
  BY <1>4, <1>5, <1>6, <1>12 DEF PutLast
<1>14. Tree(W, num_pages, m, ord, rows \cup {k})
  BY <1>3, <1>4, <1>5, <1>6, <1>9, <1>13, TreePut
<1> QED BY <1>7, <1>11, <1>12, <1>14 DEF TreeHolds
\* A leaf that only moves to another page is as sound as it was.
Moved(p) == [p EXCEPT !.root = FALSE, !.parent = 0]

\* Its keys, its number of cells and its link stay.
LEMMA MovedLeaf ==
  ASSUME NEW p, SoundLeaf(p), NEW q, q = Moved(p)
  PROVE  /\ SoundLeaf(q) /\ q.n = p.n /\ q.link = p.link /\ q.root = FALSE /\ q \in PageRecords
         /\ KeysOf(q) = KeysOf(p) /\ q.key = p.key /\ q.type = "leaf"
<1>1. p \in PageRecords /\ p.type = "leaf" /\ p.parent = 0 /\ p.n <= CellsCapacity /\ Ascends(p)
  BY DEF SoundLeaf
<1>2. PICK u : u = [p EXCEPT !.root = FALSE]
  OBVIOUS
<1>3. u \in PageRecords /\ u.n = p.n /\ u.link = p.link /\ u.key = p.key /\ u.type = p.type /\ u.root = FALSE
  BY <1>1, <1>2 DEF PageRecords
<1>4. q = [u EXCEPT !.parent = 0]
  BY <1>2 DEF Moved
<1>5. /\ q \in PageRecords /\ q.n = p.n /\ q.link = p.link /\ q.key = p.key /\ q.type = p.type
      /\ q.root = FALSE /\ q.parent = 0
  BY <1>3, <1>4, ZeroPageRecord DEF PageRecords
<1>6. Ascends(q) /\ KeysOf(q) = KeysOf(p)
  BY <1>1, <1>5 DEF Ascends, KeysOf
<1> QED BY <1>1, <1>5, <1>6 DEF SoundLeaf

\* The internal page that SplitRoot leaves on page 0.
RootAbove(p, c, x, b) == [ResetInternal(p) EXCEPT !.n = 1, !.child[0] = c, !.key[0] = x, !.link = b]
SmallRoot(r, c, x, b) ==
  r \in PageRecords /\ r.type = "internal" /\ r.n = 1 /\ r.child[0] = c /\ r.key[0] = x /\ r.link = b

\* Page 0 then has one separator and two children.
LEMMA NewRoot ==
  ASSUME NEW p \in PageRecords, NEW b \in PageNums, NEW c \in PageNums, NEW x, x \in Nat, NEW r,
         r = RootAbove(p, c, x, b)
  PROVE  SmallRoot(r, c, x, b)
<1>1. PICK z : z = ResetInternal(p)
  OBVIOUS
<1>2. z \in PageRecords /\ z.type = "internal"
  BY <1>1, ZeroPageRecord DEF ResetInternal, ZeroPage, PageRecords
<1>3. 0 \in Slots
  BY ZeroPageRecord, TableAssumption
<1>4. PICK u : u = [z EXCEPT !.n = 1]
  OBVIOUS
<1>5. u \in PageRecords /\ u.type = "internal" /\ u.n = 1
  BY <1>2, <1>4 DEF PageRecords
<1>6. PICK v : v = [u EXCEPT !.child[0] = c]
  OBVIOUS
<1>7. v \in PageRecords /\ v.type = "internal" /\ v.n = 1 /\ v.child[0] = c
  BY <1>3, <1>5, <1>6 DEF PageRecords
<1>8. PICK w : w = [v EXCEPT !.key[0] = x]
  OBVIOUS
<1>9. w \in PageRecords /\ w.type = "internal" /\ w.n = 1 /\ w.child[0] = c /\ w.key[0] = x
  BY <1>3, <1>7, <1>8 DEF PageRecords
<1>10. r = [w EXCEPT !.link = b]
  BY <1>1, <1>4, <1>6, <1>8 DEF RootAbove
<1> QED BY <1>9, <1>10 DEF PageRecords, SmallRoot

\* An insertion that splits the root leaf keeps the tree.
LEMMA RootSplitKeeps ==
  ASSUME TableInv, appendOnly, NEW k \in Keys, InsertSplit(k), GetPage(Find(k).page).root
  PROVE  Stored' /\ TreeHolds(View', num_pages', rows')
<1>1. phase = "open" /\ Stored /\ TreeHolds(View, num_pages, rows) /\ Admissible(k)
  BY DEF TableInv, InsertSplit, Readable
<1>2. PICK V : V = View
  OBVIOUS
<1>3. PICK m, ord : Tree(V, num_pages, m, ord, rows)
  BY <1>1, <1>2 DEF TreeHolds
<1>4. PICK a : a = ord[m]
  OBVIOUS
<1>5. /\ k \in Nat /\ k \notin rows /\ Above(V, k) /\ a \in PageNums
      /\ Find(k).page = a /\ Find(k).cell = LeafFindCell(V[a], k) /\ GetPage(a) = V[a]
  BY <1>1, <1>2, <1>3, <1>4, FindsLast
<1>6. m \in Nat /\ m \in 0 .. m /\ Chain(V, m, ord, rows)
  BY <1>3 DEF Tree, Chain
<1>7. LeafRoot(V, num_pages, m, ord) /\ a = 0 /\ num_pages = 1 /\ m = 0
  <2>1. ~InnerRoot(V, num_pages, m, ord)
    BY <1>4, <1>5, <1>6 DEF InnerRoot
  <2> QED BY <1>3, <1>4, <2>1 DEF Tree, LeafRoot
<1>30. PICK one, two : one = 1 /\ two = 2
  OBVIOUS
<1>8. PICK p, h : p = V[0] /\ h = SplitLeaf(p, LeafFindCell(p, k), k, one)
  OBVIOUS
<1>9. /\ p.n >= CellsCapacity /\ 3 <= MaxPages /\ SplitRoot(h, one) /\ rows' = rows \cup {k}
      /\ file' = file /\ file_pages' = file_pages /\ phase' = phase
  <2>1. GetPage(Find(k).page) = p /\ SplitLeaf(p, Find(k).cell, k, num_pages) = h
    BY <1>5, <1>7, <1>8, <1>30
  <2> QED BY <1>5, <1>7, <1>30, <2>1 DEF InsertSplit, LeafFull
<1>10. SoundLeaf(p) /\ k \notin KeysOf(p) /\ p.link = 0
  <2>1. p = V[ord[m]]
    BY <1>4, <1>7, <1>8
  <2> QED BY <1>5, <1>6, <2>1 DEF Chain
<1>11. 0 \in PageNums /\ 1 \in PageNums /\ 2 \in PageNums /\ one \in PageNums /\ two \in PageNums
  BY <1>9, <1>30, TableAssumption DEF PageNums
<1>12. /\ Halved(p, k, h.curr, h.next) /\ h.curr \in PageRecords /\ h.next \in PageRecords
       /\ h.curr.link = 1 /\ h.next.link = 0 /\ h.next.root = FALSE
  <2>1. p.n >= CellsCapacity /\ one \in PageNums
    BY <1>9, <1>11
  <2>2. HalvesOf(p, k, one, h)
    BY ONLY <1>5, <1>8, <1>10, <2>1, HalvesHalved
  <2> QED BY <1>10, <1>30, <2>2 DEF HalvesOf
<1>13. PICK x, y, l, n : x = h.curr /\ y = h.next /\ l = Moved(x) /\ n = [y EXCEPT !.parent = 0]
  OBVIOUS
<1>14. /\ SoundLeaf(l) /\ l.n = x.n /\ l.link = 1 /\ l.root = FALSE /\ l \in PageRecords
       /\ KeysOf(l) = KeysOf(x) /\ l.key = x.key
  <2>1. SoundLeaf(x) /\ x.link = 1 /\ l = Moved(x)
    BY <1>12, <1>13 DEF Halved
  <2>2. /\ SoundLeaf(l) /\ l.n = x.n /\ l.link = x.link /\ l.root = FALSE /\ l \in PageRecords
        /\ KeysOf(l) = KeysOf(x) /\ l.key = x.key
    BY ONLY <2>1, MovedLeaf
  <2> QED BY <2>1, <2>2
<1>15. n = y
  <2>1. y \in PageRecords /\ y.parent = 0
    BY <1>12, <1>13 DEF Halved, SoundLeaf
  <2> QED BY <1>13, <2>1 DEF PageRecords
<1>16. Halved(p, k, l, y)
  BY <1>12, <1>13, <1>14 DEF Halved, Before
<1>17. PICK r : r = RootAbove(x, two, GetMaxKey(l), one)
  OBVIOUS
<1>18. r \in PageRecords /\ r.type = "internal" /\ r.n = 1 /\ r.child[0] = 2 /\ r.key[0] = GetMaxKey(l) /\ r.link = 1
  <2>1. GetMaxKey(l) \in Nat
    BY <1>16, MaxKeyIsMax DEF Halved
  <2>2. x \in PageRecords
    BY <1>12, <1>13
  <2>3. SmallRoot(r, two, GetMaxKey(l), one)
    BY ONLY <1>11, <1>17, <2>1, <2>2, NewRoot
  <2> QED BY <1>30, <2>3 DEF SmallRoot
<1>19. pages' = [Touch({0}) EXCEPT ![0] = r, ![2] = l, ![1] = n] /\ num_pages' = 3
  <2>1. 1 + 1 = 2 /\ 2 + 1 = 3
    OBVIOUS
  <2> QED BY <1>9, <1>13, <1>17, <1>30, <2>1 DEF SplitRoot, Moved, RootAbove
<1>20. PICK W : W = View'
  OBVIOUS
<1>21. /\ Stored' /\ W \in [PageNums -> PageRecords]
       /\ W[0] = r /\ W[2] = l /\ W[1] = y
  <2>1. /\ pages' = [i \in PageNums |-> pages'[i]]
        /\ pages'[0] = r /\ pages'[2] = l /\ pages'[1] = n
        /\ \A i \in PageNums : i \notin {0, 1, 2} => pages'[i] = Touch({0})[i]
    <3>1. PICK T : T = Touch({0})
      OBVIOUS
    <3>2. T = [i \in PageNums |-> T[i]]
      BY <3>1 DEF Touch
    <3>3. pages' = [T EXCEPT ![0] = r, ![2] = l, ![1] = n]
      BY <1>19, <3>1
    <3>4. T = [i \in PageNums |-> T[i]] /\ 0 \in PageNums /\ 1 \in PageNums /\ 2 \in PageNums
      BY <1>11, <3>2
    <3>5. pages' = [i \in PageNums |-> IF i = 0 THEN r ELSE IF i = 2 THEN l ELSE IF i = 1 THEN n ELSE T[i]]
      BY ONLY <3>3, <3>4
    <3> QED BY <1>11, <3>1, <3>5
  <2>2. num_pages' \in num_pages .. MaxPages /\ {0} \subseteq 0 .. num_pages - 1
    BY <1>7, <1>9, <1>19, TableAssumption
  <2>3. \A i \in num_pages .. num_pages' - 1 : i \in {0, 1, 2}
    BY <1>7, <1>19
  <2>4. {0, 1, 2} \subseteq PageNums /\ \A i \in {0, 1, 2} : pages'[i] \in PageRecords /\ i < num_pages'
    BY <1>11, <1>12, <1>13, <1>14, <1>15, <1>18, <1>19, <2>1
  <2>5. /\ Stored' /\ View' \in [PageNums -> PageRecords]
        /\ \A i \in PageNums : View'[i] = IF i \in {0, 1, 2} THEN pages'[i] ELSE View[i]
    <3>1. UNCHANGED <<file, file_pages, phase>>
      BY <1>9
    <3>2. Writes({0}, {0, 1, 2})
      BY <2>1, <2>2, <2>3, <2>4, <3>1 DEF Writes
    <3> QED BY ONLY <1>1, <3>2, WriteKeeps
  <2> QED BY <1>11, <1>15, <1>20, <2>1, <2>5
<1>22. PICK to : Tree(W, 3, 1, to, rows \cup {k})
  <2>1. /\ Halved(V[0], k, W[2], W[1]) /\ W[2].link = 1 /\ W[1].link = 0 /\ ~W[1].root /\ ~W[2].root
        /\ W[0].type = "internal" /\ W[0].n = 1 /\ W[0].child[0] = 2 /\ W[0].link = 1 /\ W[0].key[0] = GetMaxKey(W[2])
    BY <1>8, <1>12, <1>13, <1>14, <1>16, <1>18, <1>21
  <2> QED BY ONLY <1>3, <1>5, <1>7, <1>11, <1>21, <2>1, TreeRootSplit
<1> QED BY <1>9, <1>19, <1>20, <1>21, <1>22 DEF TreeHolds
\* InsertInternal appends a child with larger keys on the right; the separator
\* that was written there before is overwritten.
Marked(r, m, x) == [r EXCEPT !.key[m] = x]
Appended(r, m, sep, b, q) ==
  /\ q \in PageRecords /\ q.type = r.type /\ q.n = m + 1 /\ q.link = b
  /\ q.child[m] = r.link /\ q.key[m] = sep
  /\ \A i \in 0 .. m - 1 : q.child[i] = r.child[i] /\ q.key[i] = r.key[i]

\* The other separators and children stay.
LEMMA AppendChild ==
  ASSUME NEW r \in PageRecords, NEW m \in Nat, m \in Slots, r.n = m, NEW x, x \in Nat, NEW sep, sep \in Nat,
         NEW top, top > sep, NEW b \in PageNums, NEW q, q = InsertInternal(Marked(r, m, x), sep, top, b)
  PROVE  Appended(r, m, sep, b, q)
<1>1. PICK t : t = Marked(r, m, x)
  OBVIOUS
<1>2. /\ t \in PageRecords /\ t.n = m /\ t.link = r.link /\ t.child = r.child /\ t.type = r.type
      /\ \A i \in Slots : i # m => t.key[i] = r.key[i]
  BY <1>1 DEF Marked, PageRecords
<1>3. PICK g : g = [t EXCEPT !.n = m + 1]
  OBVIOUS
<1>4. g \in PageRecords /\ g.n = m + 1 /\ g.link = r.link /\ g.child = r.child /\ g.type = r.type /\ g.key = t.key
  BY <1>2, <1>3 DEF PageRecords
<1>5. q = [g EXCEPT !.key[m] = sep, !.child[m] = t.link, !.link = b]
  <2>1. [t EXCEPT !.n = t.n + 1] = g
    BY <1>2, <1>3
  <2> QED BY <1>1, <1>2, <2>1 DEF InsertInternal
<1>6. PICK u : u = [g EXCEPT !.key[m] = sep]
  OBVIOUS
<1>7. /\ u \in PageRecords /\ u.n = m + 1 /\ u.child = r.child /\ u.type = r.type /\ u.key[m] = sep
      /\ \A i \in Slots : i # m => u.key[i] = r.key[i]
  BY <1>2, <1>4, <1>6 DEF PageRecords
<1>8. PICK v : v = [u EXCEPT !.child[m] = r.link]
  OBVIOUS
<1>9. /\ v \in PageRecords /\ v.n = m + 1 /\ v.type = r.type /\ v.key = u.key /\ v.child[m] = r.link
      /\ \A i \in Slots : i # m => v.child[i] = r.child[i]
  <2>1. r.link \in PageNums
    BY DEF PageRecords
  <2> QED BY <1>7, <1>8, <2>1 DEF PageRecords
<1>10. q = [v EXCEPT !.link = b]
  BY <1>2, <1>5, <1>6, <1>8
<1>11. q \in PageRecords /\ q.n = m + 1 /\ q.type = r.type /\ q.key = v.key /\ q.child = v.child /\ q.link = b
  BY <1>9, <1>10 DEF PageRecords
<1>12. \A i \in 0 .. m - 1 : i \in Slots /\ i # m
  BY TableAssumption DEF Slots
<1> QED BY <1>7, <1>9, <1>11, <1>12 DEF Appended

\* An insertion that splits the last leaf below the root keeps the tree.
LEMMA ChildSplitKeeps ==
  ASSUME TableInv, appendOnly, NEW k \in Keys, InsertSplit(k), ~GetPage(Find(k).page).root
  PROVE  Stored' /\ TreeHolds(View', num_pages', rows')
<1>1. phase = "open" /\ Stored /\ TreeHolds(View, num_pages, rows) /\ Admissible(k)
  BY DEF TableInv, InsertSplit, Readable
<1>2. PICK V : V = View
  OBVIOUS
<1>3. PICK m, ord : Tree(V, num_pages, m, ord, rows)
  BY <1>1, <1>2 DEF TreeHolds
<1>4. PICK a, b : a = ord[m] /\ b = m + 2
  OBVIOUS
<1>5. /\ k \in Nat /\ k \notin rows /\ Above(V, k) /\ a \in PageNums
      /\ Find(k).page = a /\ Find(k).cell = LeafFindCell(V[a], k) /\ GetPage(a) = V[a]
  BY <1>1, <1>2, <1>3, <1>4, FindsLast
<1>6. m \in Nat /\ m \in 0 .. m /\ Chain(V, m, ord, rows)
  BY <1>3 DEF Tree, Chain
<1>7. InnerRoot(V, num_pages, m, ord) /\ num_pages = b
  <2>1. ~LeafRoot(V, num_pages, m, ord)
    BY <1>4, <1>5 DEF LeafRoot
  <2> QED BY <1>3, <1>4, <2>1 DEF Tree, InnerRoot
<1>8. PICK p, r, h : p = V[a] /\ r = V[0] /\ h = SplitLeaf(p, LeafFindCell(p, k), k, b)
  OBVIOUS
<1>9. /\ p.n >= CellsCapacity /\ b + 2 <= MaxPages /\ SplitChild(a, p, h, b) /\ rows' = rows \cup {k}
      /\ file' = file /\ file_pages' = file_pages /\ phase' = phase
  <2>1. GetPage(Find(k).page) = p /\ SplitLeaf(p, Find(k).cell, k, num_pages) = h
    BY <1>5, <1>7, <1>8
  <2> QED BY <1>5, <1>7, <2>1 DEF InsertSplit, LeafFull
<1>10. SoundLeaf(p) /\ k \notin KeysOf(p) /\ p.link = 0 /\ p.parent = 0 /\ p.n >= 1 /\ p.root = FALSE
  <2>1. p = V[ord[m]]
    BY <1>4, <1>8
  <2>2. SoundLeaf(p) /\ k \notin KeysOf(p) /\ p.link = 0
    BY <1>5, <1>6, <2>1 DEF Chain
  <2>3. p.n >= 1 /\ ~p.root
    BY <1>6, <1>7, <2>1 DEF InnerRoot
  <2>4. p.root \in BOOLEAN /\ p.parent = 0
    BY <2>2 DEF SoundLeaf, PageRecords
  <2> QED BY <2>2, <2>3, <2>4
<1>11. /\ 0 \in PageNums /\ b \in PageNums /\ r \in PageRecords /\ r.n = m /\ r.type = "internal" /\ r.link = a
       /\ a \in 1 .. m + 1 /\ GetPage(0) = r
  <2>1. 0 \in PageNums /\ b \in PageNums
    BY <1>4, <1>6, <1>9, TableAssumption DEF PageNums
  <2>2. r \in PageRecords /\ GetPage(0) = r
    BY <1>2, <1>6, <1>8, <2>1 DEF Chain, View
  <2>3. r.n = m /\ r.type = "internal" /\ a = ChildPage(r, m) /\ a \in 1 .. m + 1
    BY <1>4, <1>6, <1>7, <1>8 DEF InnerRoot
  <2> QED BY <2>1, <2>2, <2>3 DEF ChildPage
<1>12. HalvesOf(p, k, b, h)
  <2>1. p.n >= CellsCapacity /\ b \in PageNums
    BY <1>9, <1>11
  <2> QED BY ONLY <1>5, <1>8, <1>10, <2>1, HalvesHalved
<1>13. PICK x, y : x = h.curr /\ y = h.next
  OBVIOUS
<1>14. /\ Halved(p, k, x, y) /\ x \in PageRecords /\ y \in PageRecords
       /\ x.link = b /\ y.link = 0 /\ x.root = FALSE /\ y.root = FALSE
  BY <1>10, <1>12, <1>13 DEF HalvesOf
<1>15. GetMaxKey(x) \in Nat /\ GetMaxKey(y) \in Nat /\ GetMaxKey(y) > GetMaxKey(x)
  <2>1. SoundLeaf(x) /\ SoundLeaf(y) /\ x.n >= 1 /\ y.n >= 1 /\ Before(x, y)
    BY <1>14 DEF Halved
  <2>2. GetMaxKey(x) \in KeysOf(x) /\ GetMaxKey(x) \in Nat /\ GetMaxKey(y) \in KeysOf(y) /\ GetMaxKey(y) \in Nat
    BY <2>1, MaxKeyIsMax
  <2> QED BY <2>1, <2>2 DEF Before
<1>16. InternalFindCell(r, GetMaxKey(p)) = m /\ GetMaxKey(r) \in Nat
  <2>1. GetMaxKey(p) \in Nat /\ GetMaxKey(p) \in KeysOf(p)
    BY <1>10, MaxKeyIsMax
  <2>2. PICK c, z : z = GetMaxKey(p) /\ c = InternalFindCell(V[0], z)
    OBVIOUS
  <2>3. c \in 0 .. m /\ \A i \in 0 .. m - 1 : V[0].key[i] \in Nat /\ (i < c <=> V[0].key[i] < z)
    BY <1>6, <1>7, <2>1, <2>2, RootSearch
  <2>4. ASSUME c < m
        PROVE  FALSE
    <3>1. c \in 0 .. m - 1 /\ c \in 0 .. m
      BY <1>6, <2>3, <2>4
    <3>2. SoundLeaf(V[ord[c]]) /\ V[ord[c]].n >= 1 /\ V[0].key[c] = GetMaxKey(V[ord[c]])
      BY <1>6, <1>7, <3>1 DEF InnerRoot, Chain
    <3>3. Before(V[ord[c]], p)
      BY <1>4, <1>6, <1>8, <2>4, <3>1 DEF Chain
    <3>4. V[0].key[c] < z
      BY <2>1, <2>2, <3>2, <3>3, MaxKeyIsMax DEF Before
    <3> QED BY <2>3, <3>1, <3>4
  <2>5. c = m
    BY <1>6, <2>3, <2>4
  <2>6. m - 1 \in 0 .. m - 1
    BY <1>6, <1>7 DEF InnerRoot
  <2>7. GetMaxKey(r) \in Nat
    BY <1>8, <1>11, <2>3, <2>6 DEF GetMaxKey
  <2> QED BY <1>8, <2>2, <2>5, <2>7
<1>17. m < MaxCells
  BY <1>9, <1>10, <1>11 DEF SplitChild
<1>18. PICK T : T = [Touch({0, a}) EXCEPT ![a] = x, ![b] = y]
  OBVIOUS
<1>19. PICK q : q = InsertInternal(Marked(r, m, GetMaxKey(r)), GetMaxKey(x), GetMaxKey(y), b)
  OBVIOUS
<1>20. T[a] = x /\ a # b /\ b # 0 /\ a # 0
  <2>1. a # b /\ b # 0 /\ a # 0
    BY <1>4, <1>6, <1>11
  <2>2. DOMAIN Touch({0, a}) = PageNums
    BY DEF Touch
  <2> QED BY <1>5, <1>18, <2>1, <2>2
<1>21. pages' = [T EXCEPT ![0] = q] /\ num_pages' = b + 1
  <2>1. {0, a, r.link} = {0, a} /\ GetPage(p.parent) = r /\ p.parent = 0 /\ r.link = a
    BY <1>10, <1>11
  <2>2. Marked(r, m, GetMaxKey(r)) = [r EXCEPT !.key[InternalFindCell(r, GetMaxKey(p))] = GetMaxKey(r)]
    BY <1>16 DEF Marked
  <2> QED BY <1>9, <1>13, <1>18, <1>19, <1>20, <2>1, <2>2 DEF SplitChild
<1>22. Appended(r, m, GetMaxKey(x), b, q)
  <2>1. m \in Slots
    BY <1>6, <1>17, TableAssumption, ZeroPageRecord
  <2> QED BY ONLY <1>6, <1>11, <1>15, <1>16, <1>19, <2>1, AppendChild
<1>23. PICK W : W = View'
  OBVIOUS
<1>24. /\ Stored' /\ W \in [PageNums -> PageRecords] /\ W[0] = q /\ W[a] = x /\ W[b] = y
       /\ \A i \in PageNums : i \notin {0, a, b} => W[i] = V[i]
  <2>1. /\ pages' = [i \in PageNums |-> pages'[i]]
        /\ pages'[0] = q /\ pages'[a] = x /\ pages'[b] = y
        /\ \A i \in PageNums : i \notin {0, a, b} => pages'[i] = Touch({0, a})[i]
    <3>1. PICK S : S = Touch({0, a})
      OBVIOUS
    <3>2. S = [i \in PageNums |-> S[i]]
      BY <3>1 DEF Touch
    <3>3. T = [S EXCEPT ![a] = x, ![b] = y] /\ pages' = [T EXCEPT ![0] = q]
      BY <1>18, <1>21, <3>1
    <3>4. pages' = [i \in PageNums |-> IF i = 0 THEN q ELSE IF i = b THEN y ELSE IF i = a THEN x ELSE S[i]]
      BY ONLY <1>5, <1>11, <1>20, <3>2, <3>3
    <3> QED BY <1>5, <1>11, <1>20, <3>1, <3>4
  <2>2. num_pages' \in num_pages .. MaxPages /\ {0, a} \subseteq 0 .. num_pages - 1
    BY <1>4, <1>6, <1>7, <1>9, <1>11, <1>21, TableAssumption
  <2>3. \A i \in num_pages .. num_pages' - 1 : i \in {0, a, b}
    BY <1>4, <1>6, <1>7, <1>21
  <2>4. ASSUME NEW i \in {0, a, b}
        PROVE  i \in PageNums /\ pages'[i] \in PageRecords /\ i < num_pages'
    <3>1. q \in PageRecords
      BY <1>22 DEF Appended
    <3>2. 0 < b + 1 /\ a < b + 1 /\ b < b + 1
      BY <1>4, <1>6, <1>11
    <3> QED BY <1>5, <1>11, <1>14, <1>21, <2>1, <3>1, <3>2
  <2>5. /\ Stored' /\ View' \in [PageNums -> PageRecords]
        /\ \A i \in PageNums : View'[i] = IF i \in {0, a, b} THEN pages'[i] ELSE View[i]
    <3>1. UNCHANGED <<file, file_pages, phase>>
      BY <1>9
    <3>2. Writes({0, a}, {0, a, b})
      BY <2>1, <2>2, <2>3, <2>4, <3>1 DEF Writes
    <3> QED BY ONLY <1>1, <3>2, WriteKeeps
  <2> QED BY <1>2, <1>5, <1>11, <1>23, <2>1, <2>5
<1>25. PICK to : Tree(W, m + 3, m + 1, to, rows \cup {k})
  <2>1. /\ W[0].type = "internal" /\ W[0].n = m + 1 /\ W[0].link = m + 2 /\ W[0].child[m] = ord[m]
        /\ \A i \in 0 .. m - 1 : W[0].child[i] = V[0].child[i] /\ W[0].key[i] = V[0].key[i]
        /\ W[0].key[m] = GetMaxKey(W[ord[m]])
    BY <1>4, <1>8, <1>11, <1>22, <1>24 DEF Appended
  <2>2. /\ Halved(V[ord[m]], k, W[ord[m]], W[m + 2]) /\ W[ord[m]].link = m + 2 /\ W[m + 2].link = 0
        /\ ~W[ord[m]].root /\ ~W[m + 2].root
    BY <1>4, <1>8, <1>14, <1>24
  <2>3. ASSUME NEW i \in 1 .. m + 1, i # ord[m]
        PROVE  W[i] = V[i]
    <3>1. i \in PageNums /\ i \notin {0, a, b}
      BY <1>4, <1>6, <1>9, <2>3, TableAssumption DEF PageNums
    <3> QED BY <1>24, <3>1
  <2>4. m + 2 \in PageNums /\ m < MaxCells
    BY <1>4, <1>11, <1>17
  <2> QED BY ONLY <1>3, <1>5, <1>7, <1>24, <2>1, <2>2, <2>3, <2>4, TreeChildSplit
<1>26. num_pages' = m + 3
  BY <1>4, <1>6, <1>21
<1> QED BY <1>9, <1>23, <1>24, <1>25, <1>26 DEF TreeHolds
\* A new table is an empty root leaf in memory.
LEMMA TableInitially ==
  ASSUME TableInit
  PROVE  TableInv
<1>1. 0 \in PageNums /\ MaxPages \in Nat /\ MaxPages >= 1
  BY TableAssumption DEF PageNums
<1>2. PICK e : e = EmptyRoot
  OBVIOUS
<1>3. e \in PageRecords /\ e.type = "leaf" /\ e.root = TRUE /\ e.n = 0 /\ e.link = 0 /\ e.parent = 0
  <2>1. PICK z : z = ResetLeaf(ZeroPage)
    OBVIOUS
  <2>2. z \in PageRecords /\ z.type = "leaf" /\ z.n = 0 /\ z.link = 0 /\ z.parent = 0
    BY <1>1, <2>1, ZeroPageRecord DEF ResetLeaf, ZeroPage, PageRecords
  <2> QED BY <1>2, <2>1, <2>2 DEF EmptyRoot, PageRecords
<1>4. /\ pages = [i \in PageNums |-> IF i = 0 THEN e ELSE NoPage] /\ num_pages = 1 /\ file_pages = 0
      /\ file = [i \in PageNums |-> ZeroPage] /\ phase = "open" /\ rows = {}
  BY <1>2 DEF TableInit
<1>5. Stored
  <2>1. pages \in [PageNums -> PageRecords \cup {NoPage}] /\ file \in [PageNums -> PageRecords]
    BY <1>3, <1>4, ZeroPageRecord
  <2>2. \A i \in PageNums : pages[i] # NoPage => i < num_pages
    BY <1>4
  <2>3. \A i \in 0 .. num_pages - 1 : i = 0 /\ pages[i] # NoPage
    BY <1>1, <1>3, <1>4, NoPageIsNone
  <2> QED BY <1>1, <1>4, <2>1, <2>2, <2>3 DEF Stored
<1>6. PICK V : V = View
  OBVIOUS
<1>7. V \in [PageNums -> PageRecords] /\ V[0] = e
  BY <1>1, <1>3, <1>4, <1>6, NoPageIsNone, ZeroPageRecord DEF View, GetPage
<1>8. PICK ord : ord = [i \in 0 .. 0 |-> 0]
  OBVIOUS
<1>9. KeysOf(e) = {} /\ SoundLeaf(e)
  BY <1>3, TableAssumption DEF KeysOf, SoundLeaf, Ascends
<1>10. ord \in [0 .. 0 -> PageNums] /\ ord[0] = 0 /\ \A i \in 0 .. 0 : i = 0
  BY <1>1, <1>8
<1>11. Chain(V, 0, ord, rows)
  BY <1>3, <1>4, <1>7, <1>9, <1>10 DEF Chain
<1>12. LeafRoot(V, num_pages, 0, ord)
  BY <1>3, <1>4, <1>7, <1>10 DEF LeafRoot
<1> QED BY <1>5, <1>6, <1>11, <1>12 DEF TableInv, TreeHolds, Tree

\* Every step of the table keeps the invariant.
LEMMA TableStepKeeps ==
  ASSUME TableInv, [TableNext]_tableVars
  PROVE  TableInv'
<1>1. CASE UNCHANGED tableVars
  BY <1>1 DEF tableVars, TableInv, Readable, Stored, TreeHolds, View, GetPage
<1>2. CASE TableNext
  <2> SUFFICES ASSUME appendOnly', Readable'
               PROVE  Stored' /\ TreeHolds(View', num_pages', rows')
    BY DEF TableInv, TreeHolds
  <2>1. appendOnly /\ TableStep
    BY <1>2 DEF TableNext
  <2>2. ASSUME NEW k \in Keys, Insert(k)
        PROVE  Stored' /\ TreeHolds(View', num_pages', rows')
    <3>1. CASE InsertNoSplit(k)
      BY <2>1, <3>1, NoSplitKeeps
    <3>2. CASE InsertSplit(k)
      <4>1. CASE GetPage(Find(k).page).root
        BY <2>1, <3>2, <4>1, RootSplitKeeps
      <4>2. CASE ~GetPage(Find(k).page).root
        BY <2>1, <3>2, <4>2, ChildSplitKeeps
      <4> QED BY <4>1, <4>2
    <3>3. CASE InsertAbort(k)
      <4>1. phase' = "abort"
        BY <3>3 DEF InsertAbort
      <4> QED BY <4>1 DEF Readable
    <3> QED BY <2>2, <3>1, <3>2, <3>3 DEF Insert
  <2>3. CASE Close
    <3>1. phase = "open" /\ phase' = "open" /\ num_pages' = num_pages /\ rows' = rows
      BY <2>3 DEF Close
    <3>2. PICK Failed : Flush(Failed)
      BY <2>3 DEF Close
    <3>3. Stored /\ TreeHolds(View, num_pages, rows)
      BY <2>1, <3>1 DEF TableInv, Readable
    <3>4. Stored' /\ View' = View
      BY <3>1, <3>2, <3>3, FlushKeeps
    <3> QED BY <3>1, <3>3, <3>4
  <2>4. CASE Destroy
    <3>1. phase = "open" /\ num_pages' = num_pages /\ rows' = rows
      BY <2>4 DEF Destroy
    <3>2. PICK Failed : Flush(Failed) /\ phase' = IF Failed = {} THEN "exited" ELSE "lost"
      BY <2>4 DEF Destroy
    <3>3. Stored /\ TreeHolds(View, num_pages, rows)
      BY <2>1, <3>1 DEF TableInv, Readable
    <3>4. phase' = "exited" /\ Failed = {}
      BY <3>2 DEF Readable
    <3>5. Stored' /\ View' = View
      BY <3>1, <3>2, <3>3, <3>4, FlushKeeps
    <3> QED BY <3>1, <3>3, <3>5
  <2>5. CASE Reopen
    <3>1. /\ phase = "exited" /\ num_pages' = file_pages /\ phase' = "open"
          /\ pages' = pages /\ file' = file /\ file_pages' = file_pages /\ rows' = rows
      BY <2>5 DEF Reopen
    <3>2. Stored /\ TreeHolds(View, num_pages, rows)
      BY <2>1, <3>1 DEF TableInv, Readable
    <3>3. num_pages \in Nat /\ num_pages >= 1 /\ num_pages <= MaxPages /\ file_pages \in Nat /\ file_pages <= num_pages
      BY <3>2, TableAssumption DEF Stored
    <3>4. num_pages - 1 \in PageNums /\ num_pages - 1 \in 0 .. num_pages - 1
      BY <3>3, TableAssumption DEF PageNums
    <3>5. num_pages - 1 < file_pages
      BY <3>1, <3>2, <3>4 DEF Stored
    <3>6. num_pages' = num_pages
      BY <3>1, <3>3, <3>5
    <3>7. View' = View
      BY <3>1, <3>6 DEF View, GetPage
    <3>8. Stored'
      BY <3>1, <3>2, <3>6 DEF Stored
    <3> QED BY <3>1, <3>2, <3>6, <3>7, <3>8
  <2>6. CASE Select
    <3>1. /\ phase = "open" /\ pages' = Touch(0 .. num_pages - 1)
          /\ num_pages' = num_pages /\ file' = file /\ file_pages' = file_pages /\ phase' = phase /\ rows' = rows
      BY <2>6 DEF Select
    <3>2. Stored /\ TreeHolds(View, num_pages, rows)
      BY <2>1, <3>1 DEF TableInv, Readable
    <3>3. Writes(0 .. num_pages - 1, {})
      <4>1. num_pages' \in num_pages .. MaxPages /\ \A i : i \notin num_pages .. num_pages' - 1
        BY <3>1, <3>2, TableAssumption DEF Stored
      <4>2. pages' = [i \in PageNums |-> pages'[i]]
        BY <3>1 DEF Touch
      <4> QED BY <3>1, <4>1, <4>2 DEF Writes
    <3>4. /\ Stored' /\ View' \in [PageNums -> PageRecords]
          /\ \A i \in PageNums : View'[i] = IF i \in {} THEN pages'[i] ELSE View[i]
      BY ONLY <3>1, <3>2, <3>3, WriteKeeps
    <3>5. View' = View
      <4>1. \A i \in PageNums : View'[i] = View[i]
        BY <3>4
      <4> QED BY <4>1 DEF View
    <3> QED BY <3>1, <3>2, <3>4, <3>5
  <2> QED BY <2>1, <2>2, <2>3, <2>4, <2>5, <2>6 DEF TableStep
<1> QED BY <1>1, <1>2

\* However many rows are inserted in ascending order, into leaves and internal
\* pages of any capacity, and however the table is closed, reopened or left
\* in memory by failed writes in between: a select returns every row once and in
\* order, Find locates each of them, and the root has one sound separator per
\* leaf (Table, Cursor and Pager).
THEOREM TableSafe == TableSpec => []AscendingSound
<1>1. TableInit => TableInv
  BY TableInitially
<1>2. TableInv /\ [TableNext]_tableVars => TableInv'
  BY TableStepKeeps
<1>3. TableInv => AscendingSound
  <2> SUFFICES ASSUME TableInv, Readable, appendOnly
               PROVE  ScanReturnsRows /\ FindLocates /\ NoOrphans /\ SeparatorIsMaxKey
    BY DEF AscendingSound
  <2>1. Stored /\ TreeHolds(View, num_pages, rows)
    BY DEF TableInv
  <2>2. num_pages <= MaxPages
    BY <2>1, TableAssumption DEF Stored
  <2> QED BY <2>1, <2>2, TreeAnswers
<1> QED BY <1>1, <1>2, <1>3, PTL DEF TableSpec
==============================================================================
