--------------------------- MODULE PipelineProofs ---------------------------
(***************************************************************************)
(* Proofs about the two pipelines: requests that pass through the executor *)
(* of rocksdb_lab, for any threads and requests, and processors that are   *)
(* put together into pipes in ck_lab, for any processors and pipes.        *)
(***************************************************************************)
EXTENDS RequestExecutor, Pipes, SeqLemmas, FiniteSetTheorems, SequenceTheorems, TLAPS

-----------------------------------------------------------------------------
(* Queues with null requests *)

In(q, x) == \E k \in DOMAIN q : q[k] = x

\* No null request is ahead of x.
NoNullAhead(q, x) == \A k \in DOMAIN q : q[k] = x => \A j \in 1 .. k : q[j] # Null

\* The one null request is the last of the queue.
NullLast(q) ==
  /\ q # <<>> /\ q[Len(q)] = Null
  /\ \A k \in 1 .. Len(q) - 1 : q[k] # Null

\* What a Put does to a queue.
LEMMA PutFacts ==
  ASSUME NEW S, NEW q \in Seq(S), NEW x \in S
  PROVE  /\ Append(q, x) \in Seq(S) /\ Len(Append(q, x)) = Len(q) + 1 /\ Append(q, x) # <<>>
         /\ \A y : In(Append(q, x), y) <=> In(q, y) \/ y = x
         /\ \A y : NoNullAhead(q, y) /\ y # x => NoNullAhead(Append(q, x), y)
         /\ ~In(q, Null) /\ x # Null => NoNullAhead(Append(q, x), x)
         /\ ~In(q, Null) /\ x = Null => NullLast(Append(q, x))
<1>1. /\ Append(q, x) \in Seq(S) /\ Len(Append(q, x)) = Len(q) + 1
      /\ DOMAIN q = 1 .. Len(q) /\ DOMAIN Append(q, x) = 1 .. Len(q) + 1 /\ Len(q) \in Nat
      /\ \A k \in 1 .. Len(q) : Append(q, x)[k] = q[k]
      /\ Append(q, x)[Len(q) + 1] = x
  BY AppendProperties, LenProperties
<1>2. Append(q, x) # <<>>
  BY <1>1
<1>3. \A y : In(Append(q, x), y) <=> In(q, y) \/ y = x
  BY <1>1 DEF In
<1>4. ASSUME NEW y, NoNullAhead(q, y), y # x PROVE NoNullAhead(Append(q, x), y)
  <2> SUFFICES ASSUME NEW k \in 1 .. Len(q) + 1, Append(q, x)[k] = y, NEW j \in 1 .. k
               PROVE  Append(q, x)[j] # Null
    BY <1>1 DEF NoNullAhead
  <2>1. k \in 1 .. Len(q) /\ j \in 1 .. Len(q)
    BY <1>1, <1>4
  <2> QED BY <1>1, <1>4, <2>1 DEF NoNullAhead
<1>5. ASSUME ~In(q, Null), x # Null PROVE NoNullAhead(Append(q, x), x)
  BY <1>1, <1>5 DEF NoNullAhead, In
<1>6. ASSUME ~In(q, Null), x = Null PROVE NullLast(Append(q, x))
  BY <1>1, <1>2, <1>6 DEF NullLast, In
<1> QED BY <1>1, <1>2, <1>3, <1>4, <1>5, <1>6

\* What a Take does to a queue.
LEMMA TakeFacts ==
  ASSUME NEW S, NEW q \in Seq(S), q # <<>>
  PROVE  /\ Tail(q) \in Seq(S) /\ Head(q) \in S /\ Len(Tail(q)) = Len(q) - 1 /\ Len(q) \in Nat \ {0}
         /\ In(q, Head(q))
         /\ \A y : In(q, y) => y = Head(q) \/ In(Tail(q), y)
         /\ \A y : In(Tail(q), y) => In(q, y)
         /\ \A y : NoNullAhead(q, y) /\ In(Tail(q), y) => Head(q) # Null /\ NoNullAhead(Tail(q), y)
         /\ NullLast(q) /\ Head(q) = Null => Tail(q) = <<>>
         /\ NullLast(q) /\ Head(q) # Null => NullLast(Tail(q))
<1>1. /\ Tail(q) \in Seq(S) /\ Head(q) \in S /\ Len(Tail(q)) = Len(q) - 1
      /\ Len(q) \in Nat \ {0} /\ DOMAIN q = 1 .. Len(q) /\ DOMAIN Tail(q) = 1 .. Len(q) - 1
      /\ \A k \in 1 .. Len(q) - 1 : Tail(q)[k] = q[k + 1]
      /\ Head(q) = q[1]
  BY HeadTailProperties, LenProperties, EmptySeq
<1>2. In(q, Head(q))
  BY <1>1 DEF In
<1>3. ASSUME NEW y, In(q, y) PROVE y = Head(q) \/ In(Tail(q), y)
  <2>1. PICK k \in 1 .. Len(q) : q[k] = y
    BY <1>1, <1>3 DEF In
  <2>2. CASE k = 1
    BY <1>1, <2>1, <2>2
  <2>3. CASE k # 1
    <3>1. k - 1 \in 1 .. Len(q) - 1 /\ Tail(q)[k - 1] = y
      BY <1>1, <2>1, <2>3
    <3> QED BY <1>1, <3>1 DEF In
  <2> QED BY <2>2, <2>3
<1>4. ASSUME NEW y, In(Tail(q), y) PROVE In(q, y)
  BY <1>1, <1>4 DEF In
<1>5. ASSUME NEW y, NoNullAhead(q, y), In(Tail(q), y) PROVE Head(q) # Null /\ NoNullAhead(Tail(q), y)
  <2>1. \A k \in 1 .. Len(q) - 1 : Tail(q)[k] = y => \A j \in 1 .. k + 1 : q[j] # Null
    BY <1>1, <1>5 DEF NoNullAhead
  <2>2. NoNullAhead(Tail(q), y)
    BY <1>1, <2>1 DEF NoNullAhead
  <2>3. PICK k \in 1 .. Len(q) - 1 : Tail(q)[k] = y
    BY <1>1, <1>5 DEF In
  <2>4. q[1] # Null
    BY <2>1, <2>3
  <2> QED BY <1>1, <2>2, <2>4
<1>6. ASSUME NullLast(q), Head(q) = Null PROVE Tail(q) = <<>>
  <2>1. Len(q) = 1
    BY <1>1, <1>6 DEF NullLast
  <2> QED BY <1>1, <2>1, EmptySeq
<1>7. ASSUME NullLast(q), Head(q) # Null PROVE NullLast(Tail(q))
  <2>1. Len(q) - 1 >= 1
    BY <1>1, <1>7 DEF NullLast
  <2>2. Tail(q) # <<>>
    <3>1. PICK t : t = Tail(q)
      OBVIOUS
    <3>2. Len(t) >= 1
      BY <1>1, <2>1, <3>1
    <3>3. t # <<>>
      BY <3>2
    <3> QED BY <3>1, <3>3
  <2>4. Tail(q)[Len(Tail(q))] = Null
    <3>1. Len(q) - 1 \in 1 .. Len(q) - 1 /\ Len(Tail(q)) = Len(q) - 1 /\ (Len(q) - 1) + 1 = Len(q)
      BY <1>1, <2>1
    <3>2. Tail(q)[Len(q) - 1] = q[Len(q)]
      BY <1>1, <3>1
    <3> QED BY <1>7, <3>1, <3>2 DEF NullLast
  <2>3. \A k \in 1 .. Len(Tail(q)) - 1 : Tail(q)[k] # Null
    BY <1>1, <1>7 DEF NullLast
  <2> QED BY <2>2, <2>3, <2>4 DEF NullLast
<1> QED BY <1>1, <1>2, <1>3, <1>4, <1>5, <1>6, <1>7

-----------------------------------------------------------------------------
(* Types *)

allVars == <<vars, lateCalls>>

\* A set that is empty or has one element has at most one.
LEMMA AtMostOne ==
  ASSUME NEW m, m = {} \/ \E x : m = {x}
  PROVE  Cardinality(m) <= 1
<1>1. Cardinality(m) = 0 \/ Cardinality(m) = 1
  BY FS_EmptySet, FS_Singleton
<1> QED BY <1>1

\* The slots count round.
LEMMA NextSlotType ==
  ASSUME NEW i \in Slots
  PROVE  NextSlot(i) \in Slots
BY ExecutorAssumption DEF NextSlot, Slots

\* Every variable keeps its type; a queue keeps its capacity and the mutex has one holder.
LEMMA TypesKept ==
  ASSUME TypeOK, [Next]_allVars
  PROVE  TypeOK'
<1> USE DEF TypeOK, execVars, stopVars, requestVars, Goto, WorkerAt, StopperAt
<1>1. ASSUME NEW r \in Requests, HandleRequest(r) PROVE TypeOK'
  BY <1>1 DEF HandleRequest, CallerStates
<1>2. ASSUME NEW r \in Requests, Enqueue(r) PROVE TypeOK'
  <2>1. Cardinality(mtx_') <= 1
    BY <1>2, AtMostOne DEF Enqueue
  <2>2. worker' \in [Slots -> WorkerStates]
    BY <1>2 DEF Enqueue, WorkerStates
  <2>3. current_' \in Slots
    BY <1>2, NextSlotType DEF Enqueue
  <2> QED BY <1>2, <2>1, <2>2, <2>3 DEF Enqueue, CallerStates
<1>3. ASSUME NEW r \in Requests, PutRequest(r) PROVE TypeOK'
  <2>1. Cardinality(mtx_') <= 1
    BY <1>3, AtMostOne DEF PutRequest
  <2>2. \A j \in Slots : queue'[j] \in Seq(Requests \cup {Null}) /\ Len(queue'[j]) <= Capacity
    <3> SUFFICES ASSUME NEW j \in Slots
                 PROVE  queue'[j] \in Seq(Requests \cup {Null}) /\ Len(queue'[j]) <= Capacity
      OBVIOUS
    <3>1. CASE j = target[r]
      <4>1. queue'[j] = Append(queue[j], r) /\ Len(queue[j]) < Capacity /\ queue[j] \in Seq(Requests \cup {Null})
        BY <1>3, <3>1 DEF PutRequest, CanPut
      <4>2. Len(queue[j]) \in Nat
        BY <4>1, LenProperties
      <4> QED BY <4>1, <4>2, PutFacts, ExecutorAssumption
    <3>2. CASE j # target[r]
      BY <1>3, <3>2 DEF PutRequest
    <3> QED BY <3>1, <3>2
  <2>3. queue' \in [Slots -> Seq(Requests \cup {Null})]
    BY <1>3, <2>2 DEF PutRequest
  <2>4. caller' \in [Requests -> CallerStates] /\ returned' \in [Requests -> Outcomes] /\ late' \subseteq Requests
    BY <1>3 DEF PutRequest, CallerStates, Outcomes
  <2> QED BY <1>3, <2>1, <2>2, <2>3, <2>4 DEF PutRequest
<1>4. ASSUME NEW r \in Requests, CheckDone(r) \/ Block(r) \/ SpuriousWakeup(r) PROVE TypeOK'
  BY <1>4 DEF CheckDone, Block, SpuriousWakeup, CallerStates, Outcomes
<1>5. ASSUME NEW i \in Slots, TakeRequest(i) PROVE TypeOK'
  <2>1. queue[i] \in Seq(Requests \cup {Null}) /\ queue[i] # <<>>
    BY <1>5 DEF TakeRequest
  <2>2. /\ Tail(queue[i]) \in Seq(Requests \cup {Null}) /\ Head(queue[i]) \in Requests \cup {Null}
        /\ Len(Tail(queue[i])) <= Capacity
    BY <2>1, TakeFacts, ExecutorAssumption
  <2>3. \A j \in Slots : Len(queue'[j]) <= Capacity
    BY <1>5, <2>2 DEF TakeRequest
  <2>4. queue' \in [Slots -> Seq(Requests \cup {Null})]
    BY <1>5, <2>2 DEF TakeRequest
  <2>5. worker' \in [Slots -> WorkerStates] /\ running' \in [Slots -> Requests \cup {Null}]
    BY <1>5, <2>2 DEF TakeRequest, WorkerStates
  <2> QED BY <1>5, <2>3, <2>4, <2>5 DEF TakeRequest
<1>6. ASSUME NEW i \in Slots, OnExecute(i) \/ SetDone(i) PROVE TypeOK'
  <2>1. worker' \in [Slots -> WorkerStates]
    BY <1>6 DEF OnExecute, SetDone, WorkerStates
  <2>2. status_' \in [Requests -> Outcomes]
    BY <1>6 DEF OnExecute, SetDone, Outcomes
  <2>3. done_' \in [Requests -> BOOLEAN]
    <3>1. CASE OnExecute(i)
      BY <3>1 DEF OnExecute
    <3>2. CASE SetDone(i)
      BY <3>2 DEF SetDone
    <3> QED BY <1>6, <3>1, <3>2
  <2>4. UNCHANGED <<mtx_, current_, executors_, queue, running, caller, target, returned, late, stopVars>>
    BY <1>6 DEF OnExecute, SetDone
  <2> QED BY <2>1, <2>2, <2>3, <2>4
<1>7. ASSUME NEW i \in Slots, Notify(i) PROVE TypeOK'
  BY <1>7 DEF Notify, WorkerStates, CallerStates
<1>8. ASSUME NEW s \in Stoppers, StopBegin(s) PROVE TypeOK'
  BY <1>8 DEF StopBegin, StopperStates
<1>9. ASSUME NEW s \in Stoppers, StopLock(s) PROVE TypeOK'
  <2>1. Cardinality(mtx_') <= 1
    BY <1>9, AtMostOne DEF StopLock
  <2> QED BY <1>9, <2>1 DEF StopLock, StopperStates
<1>10. ASSUME NEW s \in Stoppers, StopPost(s) PROVE TypeOK'
  <2>1. ASSUME NEW i \in todo[s], CanPut(i), queue' = [queue EXCEPT ![i] = Append(@, Null)]
        PROVE  queue' \in [Slots -> Seq(Requests \cup {Null})] /\ \A j \in Slots : Len(queue'[j]) <= Capacity
    <3>1. i \in Slots /\ queue[i] \in Seq(Requests \cup {Null}) /\ Len(queue[i]) < Capacity
      BY <2>1 DEF CanPut
    <3>2. Append(queue[i], Null) \in Seq(Requests \cup {Null}) /\ Len(Append(queue[i], Null)) <= Capacity
      BY <3>1, PutFacts, LenProperties, ExecutorAssumption
    <3> QED BY <2>1, <3>1, <3>2
  <2>2. queue' \in [Slots -> Seq(Requests \cup {Null})] /\ \A j \in Slots : Len(queue'[j]) <= Capacity
    BY <1>10, <2>1 DEF StopPost
  <2>3. todo' \in [Stoppers -> SUBSET Slots] /\ stopper' \in [Stoppers -> StopperStates]
    BY <1>10 DEF StopPost, StopperStates
  <2> QED BY <1>10, <2>2, <2>3 DEF StopPost
<1>11. ASSUME NEW s \in Stoppers, StopJoin(s) PROVE TypeOK'
  <2>1. Cardinality(mtx_') <= 1 /\ mtx_' \subseteq Requests \cup Stoppers
    BY <1>11, AtMostOne DEF StopJoin
  <2>2. todo' \in [Stoppers -> SUBSET Slots] /\ stopper' \in [Stoppers -> StopperStates] /\ joined' \subseteq Slots
    BY <1>11 DEF StopJoin, StopperStates
  <2> QED BY <1>11, <2>1, <2>2 DEF StopJoin
<1>12. ASSUME NEW s \in Stoppers, StopReturn(s) PROVE TypeOK'
  <2>1. Cardinality(mtx_') <= 1
    BY <1>12, AtMostOne DEF StopReturn
  <2> QED BY <1>12, <2>1 DEF StopReturn, StopperStates
<1>13. CASE UNCHANGED allVars
  BY <1>13 DEF allVars, vars
<1> QED BY <1>1, <1>2, <1>3, <1>4, <1>5, <1>6, <1>7, <1>8, <1>9, <1>10, <1>11, <1>12, <1>13
        DEF Next, ExecutorStep, CallerStep, WorkerStep, StopperStep

-----------------------------------------------------------------------------
(* The invariant *)

Past == {s \in Stoppers : stopper[s] \in {"post", "join", "returned", "threw"}}

\* The mutex is held by the caller that is in Put and by the Stop() between
\* its lock and its end, so by one of them at most.
Locks ==
  /\ \A r \in Requests : caller[r] = "put" <=> r \in mtx_
  /\ \A s \in Stoppers : stopper[s] \in {"post", "join"} <=> s \in mtx_
  /\ \A x, y \in mtx_ : x = y

\* A request that was put and is not done is in its executor's queue or in
\* the hands of its worker; only an executor that exists has a worker.
Placed ==
  /\ \A i \in Slots : worker[i] = "none" <=> i \notin executors_
  /\ \A r \in Requests : caller[r] \notin {"start", "enqueue"} => target[r] \in executors_
  /\ \A r \in Accepted :
       \/ done_[r]
       \/ In(queue[target[r]], r)
       \/ running[target[r]] = r /\ worker[target[r]] \in {"execute", "done"}

\* A null request, or a worker that took one, is the work of a Stop() that
\* had the lock; a request put before it is ahead of every null request.
Nulls ==
  /\ \A i \in Slots : worker[i] = "exited" \/ In(queue[i], Null) => Past # {}
  /\ \A r \in Requests \ late, i \in Slots :
       In(queue[i], r) => worker[i] # "exited" /\ NoNullAhead(queue[i], r)

\* A Stop() has joined the executors it no longer has to join, and when one
\* has returned the workers of all earlier requests are gone.
Ends ==
  /\ \A s \in Stoppers, i \in executors_ :
       stopper[s] = "join" /\ i \notin todo[s] => worker[i] = "exited"
  /\ stopped_ => \E s \in Stoppers : stopper[s] = "returned"
  /\ stopped_ => \A r \in Accepted \ late : worker[target[r]] = "exited"

Ending(i) == worker[i] # "exited" /\ NullLast(queue[i])
Drained(i) == worker[i] = "exited" /\ queue[i] = <<>>

\* When nothing comes after Stop(): it is alone, and each executor it has
\* posted to ends on that null request with nothing behind it.
Alone ==
  /\ StopBegun => \A r \in Requests : caller[r] \in {"start", "returned"}
  /\ \A s, t \in Stoppers : stopper[s] # "start" /\ stopper[t] # "start" => s = t
  /\ \A s \in Stoppers : stopper[s] = "post" =>
       /\ todo[s] \subseteq executors_
       /\ \A i \in executors_ :
            IF i \in todo[s] THEN worker[i] # "exited" /\ ~In(queue[i], Null)
            ELSE Ending(i) \/ Drained(i)
  /\ \A s \in Stoppers, i \in executors_ :
       /\ stopper[s] = "join" => Ending(i) \/ Drained(i)
       /\ stopper[s] = "join" /\ i \notin todo[s] => i \in joined
       /\ stopper[s] = "returned" => Drained(i) /\ i \in joined

ExecInv == TypeOK /\ Locks /\ Placed /\ Nulls /\ Ends /\ (~lateCalls => Alone)

\* The mutex and the stages that hold it.
LEMMA LocksKept ==
  ASSUME TypeOK, Locks, [Next]_allVars
  PROVE  Locks'
<1> USE DEF TypeOK, Locks, execVars, stopVars, requestVars, Goto, WorkerAt, StopperAt
<1>1. ASSUME NEW r \in Requests, HandleRequest(r) \/ CheckDone(r) \/ Block(r) \/ SpuriousWakeup(r)
      PROVE  Locks'
  BY <1>1 DEF HandleRequest, CheckDone, Block, SpuriousWakeup
<1>2. ASSUME NEW r \in Requests, Enqueue(r) PROVE Locks'
  BY <1>2, ExecutorAssumption DEF Enqueue
<1>3. ASSUME NEW r \in Requests, PutRequest(r) PROVE Locks'
  <2>1. mtx_' = {} /\ stopper' = stopper /\ r \in mtx_
    BY <1>3 DEF PutRequest
  <2>2. caller'[r] \in {"wait", "returned"} /\ \A q \in Requests \ {r} : caller'[q] = caller[q]
    BY <1>3 DEF PutRequest
  <2>3. \A x \in mtx_ : x = r
    BY <2>1
  <2> QED BY <2>1, <2>2, <2>3, ExecutorAssumption
<1>4. ASSUME NEW i \in Slots, TakeRequest(i) \/ OnExecute(i) \/ SetDone(i) PROVE Locks'
  BY <1>4 DEF TakeRequest, OnExecute, SetDone
<1>5. ASSUME NEW i \in Slots, Notify(i) PROVE Locks'
  BY <1>5 DEF Notify
<1>6. ASSUME NEW s \in Stoppers, StopBegin(s) PROVE Locks'
  BY <1>6 DEF StopBegin
<1>7. ASSUME NEW s \in Stoppers, StopLock(s) PROVE Locks'
  BY <1>7, ExecutorAssumption DEF StopLock
<1>8. ASSUME NEW s \in Stoppers, StopPost(s) PROVE Locks'
  BY <1>8 DEF StopPost
<1>9. ASSUME NEW s \in Stoppers, StopJoin(s) PROVE Locks'
  BY <1>9, ExecutorAssumption DEF StopJoin
<1>10. ASSUME NEW s \in Stoppers, StopReturn(s) PROVE Locks'
  BY <1>10, ExecutorAssumption DEF StopReturn
<1>11. CASE UNCHANGED allVars
  BY <1>11 DEF allVars, vars
<1> QED BY <1>1, <1>2, <1>3, <1>4, <1>5, <1>6, <1>7, <1>8, <1>9, <1>10, <1>11
        DEF Next, ExecutorStep, CallerStep, WorkerStep, StopperStep

\* No accepted request is lost.
LEMMA PlacedKept ==
  ASSUME TypeOK, Placed, [Next]_allVars
  PROVE  Placed'
<1> USE DEF TypeOK, Placed, Accepted, execVars, stopVars, requestVars, Goto, WorkerAt, StopperAt
<1>1. ASSUME NEW r \in Requests, HandleRequest(r) PROVE Placed'
  BY <1>1 DEF HandleRequest
<1>2. ASSUME NEW r \in Requests, CheckDone(r) \/ Block(r) \/ SpuriousWakeup(r) PROVE Placed'
  <2>1. UNCHANGED <<target, done_, execVars>>
    BY <1>2 DEF CheckDone, Block, SpuriousWakeup
  <2>2. \A q \in Requests : caller'[q] = caller[q] \/ (q = r /\ r \in Accepted)
    BY <1>2 DEF CheckDone, Block, SpuriousWakeup
  <2>3. \A q \in Requests : q \in Accepted' => q \in Accepted
    BY <2>2
  <2>4. \A q \in Requests : caller'[q] \notin {"start", "enqueue"} => caller[q] \notin {"start", "enqueue"}
    BY <2>2
  <2> QED BY <2>1, <2>3, <2>4
<1>3. ASSUME NEW r \in Requests, Enqueue(r) PROVE Placed'
  <2>1. \A i \in Slots : worker'[i] = worker[i] \/ (i \notin executors_ /\ worker[i] = "none")
    BY <1>3 DEF Enqueue
  <2>2. \A i \in Slots : worker'[i] = "none" <=> i \notin executors_'
    BY <1>3 DEF Enqueue
  <2>3. \A q \in Requests : caller'[q] \notin {"start", "enqueue"} => target'[q] \in executors_'
    BY <1>3 DEF Enqueue
  <2>4. ASSUME NEW q \in Accepted'
        PROVE  done_'[q] \/ In(queue'[target'[q]], q)
                \/ (running'[target'[q]] = q /\ worker'[target'[q]] \in {"execute", "done"})
    <3>1. q \in Accepted /\ target'[q] = target[q] /\ target[q] \in executors_ /\ target[q] \in Slots
      BY <1>3, <2>4 DEF Enqueue
    <3> QED BY <1>3, <2>1, <3>1 DEF Enqueue
  <2> QED BY <2>2, <2>3, <2>4
<1>4. ASSUME NEW r \in Requests, PutRequest(r) PROVE Placed'
  <2>1. target[r] \in Slots /\ target' = target /\ target[r] \in executors_ /\ executors_' = executors_
        /\ worker' = worker /\ running' = running /\ done_' = done_
    BY <1>4 DEF PutRequest
  <2>2. \A y : In(queue'[target[r]], y) <=> In(queue[target[r]], y) \/ y = r
    BY <1>4, <2>1, PutFacts DEF PutRequest
  <2>3. \A q \in Requests : (caller'[q] = caller[q] \/ q = r) /\ (caller'[r] \in {"wait", "returned"})
    BY <1>4 DEF PutRequest
  <2>4. ASSUME NEW q \in Accepted'
        PROVE  done_'[q] \/ In(queue'[target'[q]], q)
                \/ (running'[target'[q]] = q /\ worker'[target'[q]] \in {"execute", "done"})
    <3>1. CASE q = r
      BY <2>1, <2>2, <3>1
    <3>2. CASE q # r
      <4>1. q \in Accepted /\ target[q] \in Slots
        BY <2>3, <2>4, <3>2
      <4>2. queue'[target[q]] = queue[target[q]] \/ target[q] = target[r]
        BY <1>4, <2>1, <4>1 DEF PutRequest
      <4> QED BY <2>1, <2>2, <4>1, <4>2
    <3> QED BY <3>1, <3>2
  <2> QED BY <1>4, <2>1, <2>3, <2>4
<1>5. ASSUME NEW i \in Slots, TakeRequest(i) PROVE Placed'
  <2>1. queue[i] \in Seq(Requests \cup {Null}) /\ queue[i] # <<>>
    BY <1>5 DEF TakeRequest
  <2>2. \A y : In(queue[i], y) => y = Head(queue[i]) \/ In(Tail(queue[i]), y)
    BY <2>1, TakeFacts
  <2>3. /\ queue'[i] = Tail(queue[i]) /\ \A j \in Slots \ {i} : queue'[j] = queue[j]
        /\ running'[i] = Head(queue[i]) /\ \A j \in Slots \ {i} : running'[j] = running[j]
        /\ Head(queue[i]) # Null => worker'[i] = "execute"
        /\ \A j \in Slots \ {i} : worker'[j] = worker[j]
        /\ worker[i] = "take" /\ worker'[i] # "none"
    BY <1>5 DEF TakeRequest
  <2>4. UNCHANGED <<caller, target, done_, executors_>>
    BY <1>5 DEF TakeRequest
  <2>5. ASSUME NEW q \in Accepted
        PROVE  done_'[q] \/ In(queue'[target[q]], q)
                \/ (running'[target[q]] = q /\ worker'[target[q]] \in {"execute", "done"})
    <3>1. target[q] \in Slots /\ q # Null
      BY ExecutorAssumption
    <3>2. CASE target[q] = i
      <4>1. done_[q] \/ In(queue[i], q)
        BY <2>3, <3>2
      <4>2. CASE done_[q]
        BY <2>4, <4>2
      <4>3. CASE In(queue[i], q)
        <5>1. q = Head(queue[i]) \/ In(queue'[i], q)
          BY <2>2, <2>3, <4>3
        <5> QED BY <2>3, <3>1, <3>2, <5>1
      <4> QED BY <4>1, <4>2, <4>3
    <3>3. CASE target[q] # i
      BY <2>3, <2>4, <3>1, <3>3
    <3> QED BY <3>2, <3>3
  <2> QED BY <2>3, <2>4, <2>5
<1>6. ASSUME NEW i \in Slots, OnExecute(i) PROVE Placed'
  BY <1>6 DEF OnExecute
<1>7. ASSUME NEW i \in Slots, SetDone(i) PROVE Placed'
  <2>1. UNCHANGED <<caller, target, executors_, queue, running>> /\ worker[i] = "done"
    BY <1>7 DEF SetDone
  <2>2. /\ \A j \in Slots : worker'[j] = worker[j] \/ (j = i /\ worker'[i] = "notify")
        /\ \A q \in Requests : done_'[q] = done_[q] \/ done_'[q]
        /\ running[i] \in Requests => done_'[running[i]]
    BY <1>7 DEF SetDone
  <2>3. ASSUME NEW q \in Accepted
        PROVE  done_'[q] \/ In(queue[target[q]], q)
                \/ (running[target[q]] = q /\ worker'[target[q]] \in {"execute", "done"})
    <3>1. target[q] \in Slots
      OBVIOUS
    <3>2. CASE done_[q] \/ In(queue[target[q]], q)
      BY <2>2, <3>2
    <3>3. CASE running[target[q]] = q /\ target[q] = i
      BY <2>2, <3>3
    <3>4. CASE running[target[q]] = q /\ worker[target[q]] \in {"execute", "done"} /\ target[q] # i
      BY <2>2, <3>1, <3>4
    <3> QED BY <3>2, <3>3, <3>4
  <2> QED BY <2>1, <2>2, <2>3
<1>8. ASSUME NEW i \in Slots, Notify(i) PROVE Placed'
  <2>1. UNCHANGED <<target, executors_, queue, done_>> /\ worker[i] = "notify" /\ worker'[i] = "take"
    BY <1>8 DEF Notify
  <2>2. \A j \in Slots \ {i} : worker'[j] = worker[j] /\ running'[j] = running[j]
    BY <1>8 DEF Notify
  <2>3. \A q \in Requests : caller'[q] = caller[q] \/ (caller[q] = "asleep" /\ caller'[q] = "wait")
    BY <1>8 DEF Notify
  <2>4. ASSUME NEW q \in Accepted
        PROVE  done_[q] \/ In(queue[target[q]], q)
                \/ (running'[target[q]] = q /\ worker'[target[q]] \in {"execute", "done"})
    <3>1. target[q] \in Slots
      OBVIOUS
    <3> QED BY <2>1, <2>2, <3>1
  <2>5. /\ \A q \in Requests : q \in Accepted' => q \in Accepted
        /\ \A q \in Requests : caller'[q] \notin {"start", "enqueue"} => caller[q] \notin {"start", "enqueue"}
    BY <2>3
  <2>6. \A j \in Slots : worker'[j] = "none" <=> j \notin executors_'
    BY <2>1, <2>2
  <2> QED BY <2>1, <2>4, <2>5, <2>6
<1>9. ASSUME NEW s \in Stoppers, StopPost(s) PROVE Placed'
  <2>1. UNCHANGED <<caller, target, executors_, running, done_, worker>>
    BY <1>9 DEF StopPost
  <2>2. ASSUME NEW j \in Slots, NEW y, In(queue[j], y) PROVE In(queue'[j], y)
    <3>1. queue' = queue \/ \E i \in todo[s] : queue' = [queue EXCEPT ![i] = Append(@, Null)]
      BY <1>9 DEF StopPost
    <3>2. queue[j] \in Seq(Requests \cup {Null})
      OBVIOUS
    <3>3. queue'[j] = queue[j] \/ queue'[j] = Append(queue[j], Null)
      BY <3>1
    <3>4. In(Append(queue[j], Null), y)
      BY <2>2, <3>2, PutFacts
    <3> QED BY <2>2, <3>3, <3>4
  <2> QED BY <2>1, <2>2
<1>10. ASSUME NEW s \in Stoppers, StopBegin(s) \/ StopLock(s) \/ StopJoin(s) \/ StopReturn(s) PROVE Placed'
  BY <1>10 DEF StopBegin, StopLock, StopJoin, StopReturn
<1>11. CASE UNCHANGED allVars
  BY <1>11 DEF allVars, vars
<1> QED BY <1>1, <1>2, <1>3, <1>4, <1>5, <1>6, <1>7, <1>8, <1>9, <1>10, <1>11
        DEF Next, ExecutorStep, CallerStep, WorkerStep, StopperStep

\* Requests stay ahead of the null requests that came after them.
LEMMA NullsKept ==
  ASSUME TypeOK, Nulls, [Next]_allVars
  PROVE  Nulls'
<1> USE DEF TypeOK, Nulls, Past, execVars, stopVars, requestVars, Goto, WorkerAt, StopperAt
<1>1. ASSUME NEW r \in Requests, HandleRequest(r) \/ CheckDone(r) \/ Block(r) \/ SpuriousWakeup(r)
      PROVE  Nulls'
  BY <1>1 DEF HandleRequest, CheckDone, Block, SpuriousWakeup
<1>2. ASSUME NEW r \in Requests, Enqueue(r) PROVE Nulls'
  <2>1. \A i \in Slots : worker'[i] = "exited" => worker[i] = "exited"
    BY <1>2 DEF Enqueue
  <2>2. UNCHANGED <<queue, stopper, late>>
    BY <1>2 DEF Enqueue
  <2> QED BY <2>1, <2>2
<1>3. ASSUME NEW r \in Requests, PutRequest(r) PROVE Nulls'
  <2>1. UNCHANGED <<worker, stopper>> /\ late \subseteq late' /\ (r \notin late' => Past = {})
    BY <1>3 DEF PutRequest
  <2>2. \A j \in Slots : queue'[j] = queue[j] \/ queue'[j] = Append(queue[j], r)
    BY <1>3 DEF PutRequest
  <2>3. ASSUME NEW j \in Slots, In(queue'[j], Null) PROVE In(queue[j], Null)
    <3>1. queue[j] \in Seq(Requests \cup {Null}) /\ r \in Requests \cup {Null} /\ r # Null
      BY ExecutorAssumption
    <3>2. In(Append(queue[j], r), Null) <=> In(queue[j], Null) \/ Null = r
      BY <3>1, PutFacts
    <3> QED BY <2>2, <2>3, <3>1, <3>2
  <2>4. ASSUME NEW q \in Requests \ late', NEW j \in Slots, In(queue'[j], q)
        PROVE  worker[j] # "exited" /\ NoNullAhead(queue'[j], q)
    <3>1. queue[j] \in Seq(Requests \cup {Null})
      OBVIOUS
    <3>2. CASE queue'[j] = queue[j]
      BY <2>1, <2>4, <3>2
    <3>3. CASE queue'[j] = Append(queue[j], r) /\ q = r
      <4>1. worker[j] # "exited" /\ ~In(queue[j], Null)
        BY <2>1, <2>4, <3>3
      <4> QED BY <3>1, <3>3, <4>1, PutFacts, ExecutorAssumption
    <3>4. CASE queue'[j] = Append(queue[j], r) /\ q # r
      <4>1. In(queue[j], q)
        BY <2>4, <3>1, <3>4, PutFacts
      <4>2. worker[j] # "exited" /\ NoNullAhead(queue[j], q)
        BY <2>1, <4>1
      <4> QED BY <3>1, <3>4, <4>2, PutFacts
    <3> QED BY <2>2, <3>2, <3>3, <3>4
  <2> QED BY <2>1, <2>3, <2>4
<1>4. ASSUME NEW i \in Slots, TakeRequest(i) PROVE Nulls'
  <2>1. queue[i] \in Seq(Requests \cup {Null}) /\ queue[i] # <<>>
    BY <1>4 DEF TakeRequest
  <2>2. /\ queue'[i] = Tail(queue[i]) /\ \A j \in Slots \ {i} : queue'[j] = queue[j]
        /\ worker'[i] = "exited" => Head(queue[i]) = Null
        /\ \A j \in Slots \ {i} : worker'[j] = worker[j]
    BY <1>4 DEF TakeRequest
  <2>3. UNCHANGED <<stopper, late>>
    BY <1>4 DEF TakeRequest
  <2>4. \A j \in Slots : worker'[j] = "exited" \/ In(queue'[j], Null) => worker[j] = "exited" \/ In(queue[j], Null)
    <3>1. In(queue[i], Head(queue[i])) /\ \A y : In(Tail(queue[i]), y) => In(queue[i], y)
      BY <2>1, TakeFacts
    <3> QED BY <2>2, <3>1
  <2>5. ASSUME NEW q \in Requests \ late, NEW j \in Slots, In(queue'[j], q)
        PROVE  worker'[j] # "exited" /\ NoNullAhead(queue'[j], q)
    <3>1. CASE j = i
      <4>1. In(queue[i], q)
        <5>1. \A y : In(Tail(queue[i]), y) => In(queue[i], y)
          BY <2>1, TakeFacts
        <5> QED BY <2>2, <2>5, <3>1, <5>1
      <4>2. NoNullAhead(queue[i], q) /\ In(Tail(queue[i]), q)
        BY <2>2, <2>5, <3>1, <4>1
      <4>3. Head(queue[i]) # Null /\ NoNullAhead(Tail(queue[i]), q)
        BY <2>1, <4>2, TakeFacts
      <4> QED BY <2>2, <3>1, <4>3
    <3>2. CASE j # i
      BY <2>2, <2>5, <3>2
    <3> QED BY <3>1, <3>2
  <2> QED BY <2>3, <2>4, <2>5
<1>5. ASSUME NEW i \in Slots, OnExecute(i) \/ SetDone(i) \/ Notify(i) PROVE Nulls'
  <2>1. \A j \in Slots : worker'[j] = "exited" => worker[j] = "exited"
    BY <1>5 DEF OnExecute, SetDone, Notify
  <2>2. UNCHANGED <<queue, stopper, late>>
    BY <1>5 DEF OnExecute, SetDone, Notify
  <2> QED BY <2>1, <2>2
<1>6. ASSUME NEW s \in Stoppers, StopPost(s) PROVE Nulls'
  <2>1. UNCHANGED <<worker, late>> /\ s \in Past' /\ s \in Past
    BY <1>6 DEF StopPost
  <2>2. queue' = queue \/ \E i \in todo[s] : queue' = [queue EXCEPT ![i] = Append(@, Null)]
    BY <1>6 DEF StopPost
  <2>3. \A j \in Slots : queue'[j] = queue[j] \/ queue'[j] = Append(queue[j], Null)
    BY <2>2
  <2>4. ASSUME NEW q \in Requests \ late, NEW j \in Slots, In(queue'[j], q)
        PROVE  worker[j] # "exited" /\ NoNullAhead(queue'[j], q)
    <3>1. queue[j] \in Seq(Requests \cup {Null}) /\ q # Null
      BY ExecutorAssumption
    <3>2. In(queue[j], q)
      <4>1. In(Append(queue[j], Null), q) <=> In(queue[j], q) \/ q = Null
        BY <3>1, PutFacts
      <4> QED BY <2>3, <2>4, <3>1, <4>1
    <3>3. worker[j] # "exited" /\ NoNullAhead(queue[j], q)
      BY <3>2
    <3>4. NoNullAhead(Append(queue[j], Null), q)
      BY <3>1, <3>3, PutFacts
    <3> QED BY <2>3, <3>3, <3>4
  <2> QED BY <2>1, <2>4
<1>7. ASSUME NEW s \in Stoppers, StopBegin(s) \/ StopLock(s) \/ StopJoin(s) \/ StopReturn(s) PROVE Nulls'
  <2>1. UNCHANGED <<worker, queue, late>>
    BY <1>7 DEF StopBegin, StopLock, StopJoin, StopReturn
  <2>2. \A x \in Past : x \in Past'
    BY <1>7 DEF StopBegin, StopLock, StopJoin, StopReturn
  <2> QED BY <2>1, <2>2
<1>8. CASE UNCHANGED allVars
  BY <1>8 DEF allVars, vars
<1> QED BY <1>1, <1>2, <1>3, <1>4, <1>5, <1>6, <1>7, <1>8
        DEF Next, ExecutorStep, CallerStep, WorkerStep, StopperStep

\* What joining has established stays so.
LEMMA EndsKept ==
  ASSUME TypeOK, Locks, Placed, Ends, [Next]_allVars
  PROVE  Ends'
<1> USE DEF TypeOK, Ends, Accepted, execVars, stopVars, requestVars, Goto, WorkerAt, StopperAt
<1>0. \A r \in Accepted : target[r] \in executors_ /\ target[r] \in Slots
  BY DEF Placed
<1>1. ASSUME NEW r \in Requests, HandleRequest(r) \/ CheckDone(r) \/ Block(r) \/ SpuriousWakeup(r)
      PROVE  Ends'
  <2>1. UNCHANGED <<target, late, execVars, stopVars>>
    BY <1>1 DEF HandleRequest, CheckDone, Block, SpuriousWakeup
  <2>2. \A q \in Requests : q \in Accepted' => q \in Accepted
    BY <1>1 DEF HandleRequest, CheckDone, Block, SpuriousWakeup
  <2> QED BY <2>1, <2>2
<1>2. ASSUME NEW r \in Requests, Enqueue(r) PROVE Ends'
  <2>1. \A s \in Stoppers : stopper[s] # "join"
    BY <1>2 DEF Enqueue, Locks
  <2>2. UNCHANGED <<late, stopVars>>
    BY <1>2 DEF Enqueue
  <2>3. \A i \in Slots : worker[i] = "exited" => worker'[i] = "exited"
    BY <1>2 DEF Enqueue, Placed
  <2>4. \A q \in Requests : q \in Accepted' => q \in Accepted /\ target'[q] = target[q]
    BY <1>2 DEF Enqueue
  <2> QED BY <1>0, <2>1, <2>2, <2>3, <2>4
<1>3. ASSUME NEW r \in Requests, PutRequest(r) PROVE Ends'
  <2>1. UNCHANGED <<worker, executors_, target, stopVars>>
    BY <1>3 DEF PutRequest
  <2>2. \A q \in Requests : q \in Accepted' => q \in Accepted \/ q = r
    BY <1>3 DEF PutRequest
  <2>3. late \subseteq late' /\ (stopped_ => r \in late')
    BY <1>3 DEF PutRequest
  <2> QED BY <2>1, <2>2, <2>3
<1>4. ASSUME NEW i \in Slots, WorkerStep(i) PROVE Ends'
  <2>1. UNCHANGED <<executors_, target, late, stopVars>>
    BY <1>4 DEF WorkerStep, TakeRequest, OnExecute, SetDone, Notify
  <2>2. \A j \in Slots : worker[j] = "exited" => worker'[j] = "exited"
    BY <1>4 DEF WorkerStep, TakeRequest, OnExecute, SetDone, Notify
  <2>3. \A q \in Requests : caller'[q] = caller[q] \/ (caller[q] = "asleep" /\ caller'[q] = "wait")
    BY <1>4 DEF WorkerStep, TakeRequest, OnExecute, SetDone, Notify
  <2>4. \A q \in Requests : q \in Accepted' => q \in Accepted
    BY <2>3
  <2> QED BY <1>0, <2>1, <2>2, <2>4
<1>5. ASSUME NEW s \in Stoppers, StopBegin(s) \/ StopLock(s) PROVE Ends'
  <2>1. UNCHANGED <<executors_, worker, caller, target, late, stopped_>>
    BY <1>5 DEF StopBegin, StopLock
  <2>2. \A t \in Stoppers : /\ stopper'[t] = "join" => stopper[t] = "join" /\ todo'[t] = todo[t]
                            /\ stopper[t] = "returned" => stopper'[t] = "returned"
    BY <1>5 DEF StopBegin, StopLock
  <2> QED BY <2>1, <2>2
<1>6. ASSUME NEW s \in Stoppers, StopPost(s) PROVE Ends'
  <2>1. UNCHANGED <<executors_, worker, caller, target, late, stopped_>>
    BY <1>6 DEF StopPost
  <2>2. \A t \in Stoppers : /\ stopper'[t] = "join" =>
                                 (stopper[t] = "join" /\ todo'[t] = todo[t]) \/ todo'[t] = executors_
                            /\ stopper[t] = "returned" => stopper'[t] = "returned"
    BY <1>6 DEF StopPost
  <2> QED BY <2>1, <2>2
<1>7. ASSUME NEW s \in Stoppers, StopJoin(s) PROVE Ends'
  <2>1. UNCHANGED <<executors_, worker, caller, target, late, stopped_>>
    BY <1>7 DEF StopJoin
  <2>2. \A t \in Stoppers :
          /\ stopper'[t] = "join" =>
               /\ stopper[t] = "join"
               /\ \A i \in Slots : i \notin todo'[t] => i \notin todo[t] \/ worker[i] = "exited"
          /\ stopper[t] = "returned" => stopper'[t] = "returned"
    <3>1. CASE \E i \in todo[s] : i \notin joined /\ worker[i] = "exited" /\ todo' = [todo EXCEPT ![s] = @ \ {i}] /\ stopper' = stopper
      BY <1>7, <3>1 DEF StopJoin
    <3>2. CASE stopper' = [stopper EXCEPT ![s] = "threw"] /\ todo' = todo
      BY <1>7, <3>2 DEF StopJoin
    <3> QED BY <1>7, <3>1, <3>2 DEF StopJoin
  <2> QED BY <2>1, <2>2
<1>8. ASSUME NEW s \in Stoppers, StopReturn(s) PROVE Ends'
  <2>1. UNCHANGED <<executors_, worker, caller, target, late, todo>>
    BY <1>8 DEF StopReturn
  <2>2. /\ stopper'[s] = "returned"
        /\ \A t \in Stoppers : stopper'[t] = "join" => stopper[t] = "join"
    BY <1>8 DEF StopReturn
  <2>3. \A i \in executors_ : worker[i] = "exited"
    BY <1>8 DEF StopReturn
  <2> QED BY <1>0, <2>1, <2>2, <2>3
<1>9. CASE UNCHANGED allVars
  BY <1>9 DEF allVars, vars
<1> QED BY <1>1, <1>2, <1>3, <1>4, <1>5, <1>6, <1>7, <1>8, <1>9
        DEF Next, ExecutorStep, CallerStep, StopperStep

\* A Stop() that nothing races with drains the executors.
LEMMA AloneKept ==
  ASSUME TypeOK, Locks, Placed, Nulls, Ends, Alone, ~lateCalls, [Next]_allVars
  PROVE  Alone'
<1> USE DEF TypeOK, execVars, stopVars, requestVars, Goto, WorkerAt, StopperAt, StopBegun
<1>1. ASSUME NEW r \in Requests, HandleRequest(r) \/ CallerStep(r) \/ SpuriousWakeup(r) PROVE Alone'
  <2>1. \A s \in Stoppers : stopper[s] = "start"
    BY <1>1 DEF Alone, HandleRequest, CallerStep, Enqueue, PutRequest, CheckDone, Block, SpuriousWakeup
  <2>2. stopper' = stopper
    BY <1>1 DEF HandleRequest, CallerStep, Enqueue, PutRequest, CheckDone, Block, SpuriousWakeup
  <2> QED BY <2>1, <2>2 DEF Alone
<1>2. ASSUME NEW i \in Slots, TakeRequest(i) PROVE Alone'
  <2>1. queue[i] \in Seq(Requests \cup {Null}) /\ queue[i] # <<>>
    BY <1>2 DEF TakeRequest
  <2>2. /\ queue'[i] = Tail(queue[i]) /\ \A j \in Slots \ {i} : queue'[j] = queue[j]
        /\ worker'[i] = IF Head(queue[i]) = Null THEN "exited" ELSE "execute"
        /\ \A j \in Slots \ {i} : worker'[j] = worker[j]
        /\ worker[i] = "take"
    BY <1>2 DEF TakeRequest
  <2>3. UNCHANGED <<caller, executors_, stopVars>>
    BY <1>2 DEF TakeRequest
  <2>4. ASSUME NEW j \in Slots, Ending(j) \/ Drained(j) PROVE (Ending(j) \/ Drained(j))'
    <3>1. CASE j = i
      <4>1. NullLast(queue[i])
        BY <2>2, <2>4, <3>1 DEF Ending, Drained
      <4>2. /\ Head(queue[i]) = Null => Tail(queue[i]) = <<>>
            /\ Head(queue[i]) # Null => NullLast(Tail(queue[i]))
        BY <2>1, <4>1, TakeFacts
      <4> QED BY <2>2, <3>1, <4>2 DEF Ending, Drained
    <3>2. CASE j # i
      BY <2>2, <2>4, <3>2 DEF Ending, Drained
    <3> QED BY <3>1, <3>2
  <2>5. ASSUME NEW j \in Slots, Drained(j) PROVE Drained(j)'
    BY <2>2, <2>5 DEF Drained
  <2>6. ASSUME NEW j \in Slots, worker[j] # "exited", ~In(queue[j], Null)
        PROVE  worker'[j] # "exited" /\ ~In(queue'[j], Null)
    <3>1. In(queue[i], Head(queue[i])) /\ \A y : In(Tail(queue[i]), y) => In(queue[i], y)
      BY <2>1, TakeFacts
    <3> QED BY <2>2, <2>6, <3>1
  <2> QED BY <2>3, <2>4, <2>5, <2>6 DEF Alone
<1>3. ASSUME NEW i \in Slots, OnExecute(i) \/ SetDone(i) \/ Notify(i) PROVE Alone'
  <2>1. UNCHANGED <<queue, executors_, stopVars>>
    BY <1>3 DEF OnExecute, SetDone, Notify
  <2>2. \A j \in Slots : worker'[j] = "exited" <=> worker[j] = "exited"
    BY <1>3 DEF OnExecute, SetDone, Notify
  <2>3. \A q \in Requests : caller'[q] = caller[q] \/ caller[q] = "asleep"
    BY <1>3 DEF OnExecute, SetDone, Notify
  <2>4. \A j \in Slots : (Ending(j) <=> Ending(j)') /\ (Drained(j) <=> Drained(j)')
    BY <2>1, <2>2 DEF Ending, Drained
  <2> QED BY <2>1, <2>2, <2>3, <2>4 DEF Alone
<1>4. ASSUME NEW s \in Stoppers, StopBegin(s) PROVE Alone'
  <2>1. \A t \in Stoppers : stopper[t] = "start"
    BY <1>4 DEF StopBegin
  <2>2. ~stopped_
    BY <2>1 DEF Ends
  <2>3. \A t \in Stoppers : stopper'[t] = IF t = s THEN "lock" ELSE "start"
    BY <1>4, <2>1, <2>2 DEF StopBegin
  <2>4. \A r \in Requests : caller'[r] \in {"start", "returned"}
    BY <1>4 DEF StopBegin
  <2> QED BY <2>3, <2>4 DEF Alone
<1>5. ASSUME NEW s \in Stoppers, StopperStep(s) PROVE Alone'
  <2>1. \A t \in Stoppers \ {s} : stopper[t] = "start" /\ stopper'[t] = "start"
    BY <1>5 DEF Alone, StopperStep, StopLock, StopPost, StopJoin, StopReturn
  <2>2. \A r \in Requests : caller'[r] \in {"start", "returned"}
    BY <1>5 DEF Alone, StopperStep, StopLock, StopPost, StopJoin, StopReturn
  <2>3. UNCHANGED <<executors_, worker>>
    BY <1>5 DEF StopperStep, StopLock, StopPost, StopJoin, StopReturn
  <2>4. CASE StopLock(s)
    <3>1. stopper'[s] = "post" /\ todo'[s] = executors_ /\ queue' = queue
      BY <2>4 DEF StopLock
    <3>2. Past = {}
      BY <2>1, <2>4 DEF StopLock, Past
    <3>3. \A i \in executors_ : worker[i] # "exited" /\ ~In(queue[i], Null)
      BY <3>2 DEF Nulls
    <3> QED BY <2>1, <2>2, <2>3, <3>1, <3>3 DEF Alone
  <2>5. CASE StopPost(s)
    <3>1. CASE todo[s] = {} /\ stopper' = [stopper EXCEPT ![s] = "join"]
                 /\ todo' = [todo EXCEPT ![s] = executors_] /\ UNCHANGED queue
      <4>1. \A i \in executors_ : (Ending(i) \/ Drained(i))'
        BY <2>3, <2>5, <3>1 DEF Alone, StopPost, Ending, Drained
      <4> QED BY <2>1, <2>2, <2>3, <3>1, <4>1 DEF Alone
    <3>2. ASSUME NEW i \in todo[s], queue' = [queue EXCEPT ![i] = Append(@, Null)],
                 todo' = [todo EXCEPT ![s] = @ \ {i}], UNCHANGED stopper
          PROVE  Alone'
      <4>1. stopper[s] = "post" /\ i \in executors_ /\ i \in Slots /\ todo'[s] \subseteq executors_
        BY <2>5, <3>2 DEF Alone, StopPost
      <4>2. worker[i] # "exited" /\ ~In(queue[i], Null) /\ queue[i] \in Seq(Requests \cup {Null})
        BY <3>2, <4>1 DEF Alone
      <4>3. NullLast(queue'[i])
        BY <3>2, <4>1, <4>2, PutFacts
      <4>4. \A j \in executors_ \ {i} :
              IF j \in todo'[s] THEN worker[j] # "exited" /\ ~In(queue'[j], Null)
              ELSE (Ending(j) \/ Drained(j))'
        BY <2>3, <3>2, <4>1 DEF Alone, Ending, Drained
      <4>5. Ending(i)' /\ i \notin todo'[s]
        BY <2>3, <3>2, <4>2, <4>3 DEF Ending
      <4>6. \A j \in executors_ :
              IF j \in todo'[s] THEN worker'[j] # "exited" /\ ~In(queue'[j], Null)
              ELSE (Ending(j) \/ Drained(j))'
        BY <2>3, <4>4, <4>5
      <4>7. stopper'[s] = "post"
        BY <3>2, <4>1
      <4> QED BY <2>1, <2>2, <2>3, <4>1, <4>6, <4>7 DEF Alone
    <3> QED BY <2>5, <3>1, <3>2 DEF StopPost
  <2>6. CASE StopJoin(s)
    <3>1. stopper[s] = "join" /\ queue' = queue
      BY <2>6 DEF StopJoin
    <3>2. \A i \in executors_ : (Ending(i) \/ Drained(i))'
      BY <2>3, <3>1 DEF Alone, Ending, Drained
    <3>3. stopper'[s] \in {"join", "threw"} /\ \A i \in Slots : i \in joined => i \in joined'
      BY <2>6, <3>1 DEF StopJoin
    <3>4. \A i \in Slots : i \notin todo'[s] => i \notin todo[s] \/ i \in joined'
      BY <2>6 DEF StopJoin
    <3>5. \A i \in executors_ : i \notin todo'[s] => i \in joined'
      BY <3>1, <3>3, <3>4 DEF Alone
    <3> QED BY <2>1, <2>2, <2>3, <3>2, <3>3, <3>5 DEF Alone
  <2>7. CASE StopReturn(s)
    <3>1. stopper[s] = "join" /\ stopper'[s] = "returned" /\ todo[s] = {} /\ UNCHANGED <<queue, joined>>
      BY <2>7 DEF StopReturn
    <3>2. \A i \in executors_ : worker[i] = "exited"
      BY <3>1 DEF Ends
    <3>3. \A i \in executors_ : Drained(i)' /\ i \in joined'
      BY <2>3, <3>1, <3>2 DEF Alone, Ending, Drained
    <3> QED BY <2>1, <2>2, <2>3, <3>1, <3>3 DEF Alone
  <2> QED BY <1>5, <2>4, <2>5, <2>6, <2>7 DEF StopperStep
<1>6. CASE UNCHANGED allVars
  BY <1>6 DEF allVars, vars, Alone, Ending, Drained
<1> QED BY <1>1, <1>2, <1>3, <1>4, <1>5, <1>6 DEF Next, ExecutorStep, WorkerStep

-----------------------------------------------------------------------------
\* The first states satisfy the invariant.
LEMMA ExecStarts ==
  ASSUME Init
  PROVE  ExecInv
<1> USE ExecutorAssumption DEF Init
<1>1. TypeOK
  <2>1. Cardinality(mtx_) <= 1
    BY AtMostOne
  <2>2. current_ \in Slots
    BY DEF Slots
  <2>3. queue \in [Slots -> Seq(Requests \cup {Null})] /\ \A i \in Slots : Len(queue[i]) <= Capacity
    OBVIOUS
  <2> QED BY <2>1, <2>2, <2>3 DEF TypeOK, WorkerStates, CallerStates, StopperStates, Outcomes
<1>2. Locks /\ Placed /\ Ends
  BY DEF Locks, Placed, Ends, Accepted
<1>3. \A i \in Slots : \A x : ~In(queue[i], x)
  BY DEF In
<1>4. Nulls
  BY <1>3 DEF Nulls
<1>5. Alone
  BY DEF Alone, StopBegun
<1> QED BY <1>1, <1>2, <1>4, <1>5 DEF ExecInv

\* The invariant says what StopDrains says.
LEMMA ExecMeans ==
  ASSUME ExecInv
  PROVE  StopDrains
<1> USE DEF ExecInv, TypeOK
<1>1. ASSUME stopped_, NEW r \in Accepted \ late PROVE done_[r]
  <2>1. worker[target[r]] = "exited" /\ target[r] \in Slots
    BY <1>1 DEF Ends, Placed, Accepted
  <2>2. ~In(queue[target[r]], r)
    BY <2>1 DEF Nulls, Accepted
  <2> QED BY <2>1, <2>2 DEF Placed
<1>2. ASSUME stopped_, ~lateCalls, NEW i \in executors_ PROVE queue[i] = <<>> /\ i \in joined
  BY <1>2 DEF Ends, Alone, Drained
<1>3. ASSUME NEW r \in Requests, caller[r] = "put", ~lateCalls
      PROVE  worker[target[r]] \notin {"none", "exited"}
  <2>1. target[r] \in executors_ /\ target[r] \in Slots
    BY <1>3 DEF Placed
  <2>2. ~StopBegun
    BY <1>3 DEF Alone
  <2>3. Past = {}
    BY <2>2 DEF StopBegun, Past
  <2> QED BY <2>1, <2>3 DEF Placed, Nulls
<1> QED BY <1>1, <1>2, <1>3 DEF StopDrains

\* Stop() drains what was accepted before it, for any number of requests,
\* executors, stopping threads and any queue capacity: it returns only when
\* every request put before its null requests has been executed, and without
\* racing calls it leaves no request and no joinable thread behind.
THEOREM ExecutorSafe == Spec => []StopDrains
<1>1. Init => ExecInv
  BY ExecStarts
<1>2. ExecInv /\ [Next]_allVars => ExecInv'
  <2> SUFFICES ASSUME ExecInv, [Next]_allVars PROVE ExecInv'
    OBVIOUS
  <2>1. TypeOK' /\ Locks' /\ Placed' /\ Nulls' /\ Ends'
    BY TypesKept, LocksKept, PlacedKept, NullsKept, EndsKept DEF ExecInv
  <2>2. lateCalls' = lateCalls
    BY DEF Next, allVars
  <2>3. ASSUME ~lateCalls PROVE Alone'
    BY <2>3, AloneKept DEF ExecInv
  <2> QED BY <2>1, <2>2, <2>3 DEF ExecInv
<1>3. ExecInv => StopDrains
  BY ExecMeans
<1> QED BY <1>1, <1>2, <1>3, PTL DEF Spec, allVars

-----------------------------------------------------------------------------
(* Pipes *)

AnyPort == Processors \X Nat
IsOutput(o) == o \in AnyPort /\ o[2] < PortCounts[o[1]][2]
IsInput(i) == i \in AnyPort /\ i[2] < PortCounts[i[1]][1]

\* A port is in one connection.
LinksOK(l) ==
  /\ \A c \in l : c \in AnyPort \X AnyPort /\ IsOutput(c[1]) /\ IsInput(c[2])
  /\ \A c, d \in l : c[1] = d[1] \/ c[2] = d[2] => c = d

PipeRecord == [procs : Seq(Processors), outs : Seq(AnyPort), max : Nat, merged : BOOLEAN]

\* What every pipe is when the processors handed out are u.
PipeOK(x, u) ==
  /\ x \in PipeRecord /\ Len(x.outs) <= x.max /\ Range(x.procs) \subseteq u
  /\ \A k \in DOMAIN x.outs : IsOutput(x.outs[k]) /\ x.outs[k][1] \in Range(x.procs)

\* What a pipe is in addition, when the connections are l, while no other has its ports.
OpenPipe(x, l) ==
  /\ IsInjective(x.procs) /\ IsInjective(x.outs)
  /\ \A k \in DOMAIN x.outs : ~OutConnected(l, x.outs[k])

Apart(x, y) == Range(x.procs) \cap Range(y.procs) = {}

\* The inductive invariant. A pipe lists outputs of its own processors, those are handed out, and a
\* port is in one connection. As long as no caller went on with a pipe that MergePipes has copied,
\* the other pipes list open outputs and no two of them share a processor: so connecting the outputs
\* of one pipe, or processors that no pipe has, closes no port that another one lists.
PipesInv ==
  /\ LinksOK(links) /\ DOMAIN pipe = Locals \cup Pipelines /\ used \subseteq Processors /\ misused \in BOOLEAN
  /\ \A h \in Held : PipeOK(pipe[h], used)
  /\ ~misused => \A h \in Sole : OpenPipe(pipe[h], links) /\ \A g \in Sole : g # h => Apart(pipe[h], pipe[g])
  /\ EdgesMirrored

LEMMA CountsNat ==
  ASSUME NEW p \in Processors
  PROVE  PortCounts[p][1] \in Nat /\ PortCounts[p][2] \in Nat
BY PipeAssumption

\* The open outputs of a processor, in order: each once.
LEMMA UnconnectedFacts ==
  ASSUME NEW l, NEW p \in Processors
  PROVE  /\ Unconnected(l, p) \in Seq(AnyPort) /\ IsInjective(Unconnected(l, p))
         /\ \A k \in DOMAIN Unconnected(l, p) : LET o == Unconnected(l, p)[k] IN IsOutput(o) /\ o[1] = p /\ ~OutConnected(l, o)
<1>1. PICK n \in Nat : n = PortCounts[p][2]
  BY CountsNat
<1>2. PICK V : V = Seq(AnyPort)
  OBVIOUS
<1> DEFINE Next_(i, s) == IF OutConnected(l, <<p, i - 1>>) THEN s ELSE Append(s, <<p, i - 1>>)
<1>3. PICK step : step = [x \in (1 .. n) \X V |-> Next_(x[1], x[2])]
  OBVIOUS
<1>4. \A i \in 1 .. n, s \in V : Next_(i, s) \in V
  <2>1. ASSUME NEW i \in 1 .. n, NEW s \in V
        PROVE  Next_(i, s) \in V
    <3>1. <<p, i - 1>> \in AnyPort
      BY DEF AnyPort
    <3> QED BY <3>1, <1>2
  <2> QED BY <2>1
<1> HIDE DEF Next_
<1>5. PICK f \in [0 .. n -> V] : f[0] = <<>> /\ \A i \in 1 .. n : f[i] = Next_(i, f[i - 1])
  <2>0. PICK b : b = <<>>
    OBVIOUS
  <2>1. b \in V /\ n \in Nat
    BY <1>2, <2>0
  <2>2. step \in [(1 .. n) \X V -> V]
    BY <1>3, <1>4
  <2>3. PICK f \in [0 .. n -> V] : Follows(f, n, b, step)
    BY ONLY <2>1, <2>2, RecursionOnInterval
  <2>4. ASSUME NEW i \in 1 .. n
        PROVE  f[i] = Next_(i, f[i - 1])
    <3>1. <<i, f[i - 1]>> \in (1 .. n) \X V
      BY <2>3
    <3> QED BY <3>1, <2>3, <1>3 DEF Follows
  <2> QED BY <2>0, <2>3, <2>4 DEF Follows
<1> DEFINE Body(g) == [i \in 0 .. n |-> IF i = 0 THEN <<>> ELSE Next_(i, g[i - 1])]
<1>6. f = Body(f)
  <2>1. \A i \in 0 .. n : f[i] = IF i = 0 THEN <<>> ELSE Next_(i, f[i - 1])
    BY <1>5
  <2> QED BY <2>1, <1>5
<1>7. PICK open : open = CHOOSE g : g = Body(g)
  OBVIOUS
<1>8. open[0] = <<>> /\ \A i \in 0 .. n - 1 : open[i + 1] = Next_(i + 1, open[i])
  <2>1. open = Body(open)
    BY <1>6, <1>7
  <2> QED BY <2>1
<1>9. Unconnected(l, p) = open[n]
  BY <1>1, <1>7 DEF Unconnected, Next_
<1> DEFINE Good(i) == /\ open[i] \in Seq(AnyPort) /\ IsInjective(open[i])
                      /\ \A k \in DOMAIN open[i] : LET o == open[i][k]
                                                   IN o \in AnyPort /\ o[1] = p /\ o[2] < i /\ ~OutConnected(l, o)
           P == {i \in Nat : i <= n => Good(i)}
<1>10. 0 \in P
  <2>1. IsInjective(open[0]) /\ open[0] \in Seq(AnyPort) /\ DOMAIN open[0] = {}
    BY <1>8 DEF IsInjective
  <2> QED BY <2>1
<1>11. ASSUME NEW i \in Nat, i \in P
       PROVE  i + 1 \in P
  <2> SUFFICES ASSUME i + 1 <= n
               PROVE  Good(i + 1)
    OBVIOUS
  <2>1. PICK s : s = open[i] /\ open[i + 1] = Next_(i + 1, s)
    BY <1>8
  <2>2. PICK o : o = <<p, i>>
    OBVIOUS
  <2>3. o \in AnyPort /\ o[1] = p /\ o[2] = i /\ open[i + 1] = IF OutConnected(l, o) THEN s ELSE Append(s, o)
    BY <2>1, <2>2 DEF AnyPort, Next_
  <2>4. /\ s \in Seq(AnyPort) /\ IsInjective(s)
        /\ \A k \in DOMAIN s : s[k] \in AnyPort /\ s[k][1] = p /\ s[k][2] < i /\ ~OutConnected(l, s[k])
    BY <1>11, <2>1
  <2>5. CASE OutConnected(l, o)
    BY <2>3, <2>4, <2>5 DEF AnyPort
  <2>6. CASE ~OutConnected(l, o)
    <3>1. PICK t : t = Append(s, o)
      OBVIOUS
    <3>2. /\ t \in Seq(AnyPort) /\ DOMAIN t = DOMAIN s \cup {Len(s) + 1} /\ t[Len(s) + 1] = o
          /\ \A k \in DOMAIN s : t[k] = s[k] /\ k # Len(s) + 1
      BY <3>1, <2>3, <2>4
    <3>3. \A k \in DOMAIN s : s[k] # o
      BY <2>3, <2>4
    <3>4. IsInjective(t)
      BY <2>4, <3>2, <3>3 DEF IsInjective
    <3>5. open[i + 1] = t
      BY <2>3, <2>6, <3>1
    <3>6. \A k \in DOMAIN t : t[k] \in AnyPort /\ t[k][1] = p /\ t[k][2] < i + 1 /\ ~OutConnected(l, t[k])
      BY <2>3, <2>4, <2>6, <3>2 DEF AnyPort
    <3> QED BY <3>2, <3>4, <3>5, <3>6
  <2> QED BY <2>5, <2>6
<1>12. Nat \subseteq P
  <2> HIDE DEF P
  <2> QED BY <1>10, <1>11, SetInduction
<1>13. Good(n)
  BY <1>12
<1> QED BY <1>1, <1>9, <1>13 DEF IsOutput
\* The open outputs of the processors of a new pipe, processor by processor.
Owned(l, ps, s, m) ==
  /\ s \in Seq(AnyPort) /\ IsInjective(s)
  /\ \A k \in DOMAIN s : IsOutput(s[k]) /\ (\E i \in 1 .. m : s[k][1] = ps[i]) /\ ~OutConnected(l, s[k])

LEMMA OwnedNext ==
  ASSUME NEW l, NEW ps \in Seq(Processors), IsInjective(ps), NEW m \in Nat, m + 1 <= Len(ps), NEW s, Owned(l, ps, s, m)
  PROVE  Owned(l, ps, s \o Unconnected(l, ps[m + 1]), m + 1)
<1>1. PICK p \in Processors : p = ps[m + 1]
  OBVIOUS
<1>2. PICK u : u = Unconnected(l, p)
  OBVIOUS
<1>3. PICK t : t = s \o u
  OBVIOUS
<1>4. /\ u \in Seq(AnyPort) /\ IsInjective(u)
      /\ \A k \in DOMAIN u : IsOutput(u[k]) /\ u[k][1] = p /\ ~OutConnected(l, u[k])
  BY <1>2, UnconnectedFacts
<1>5. s \in Seq(AnyPort) /\ Len(s) \in Nat /\ DOMAIN s = 1 .. Len(s)
  BY DEF Owned
<1>6. /\ t \in Seq(AnyPort) /\ Len(t) = Len(s) + Len(u) /\ DOMAIN t = 1 .. Len(t) /\ \A k \in 1 .. Len(s) : t[k] = s[k]
      /\ \A k \in Len(s) + 1 .. Len(t) : t[k] = u[k - Len(s)] /\ k - Len(s) \in DOMAIN u
  BY <1>3, <1>4, <1>5
<1>7. \A k \in 1 .. Len(s) : s[k][1] # p
  <2>1. \A i \in 1 .. m : ps[i] # ps[m + 1]
    BY DEF IsInjective
  <2> QED BY <2>1, <1>1, <1>5 DEF Owned
<1>8. IsInjective(t)
  <2>1. ASSUME NEW a \in DOMAIN t, NEW b \in DOMAIN t, t[a] = t[b]
        PROVE  a = b
    <3>1. CASE a <= Len(s) /\ b <= Len(s)
      BY <2>1, <3>1, <1>5, <1>6 DEF IsInjective, Owned
    <3>2. CASE a > Len(s) /\ b > Len(s)
      <4>1. t[a] = u[a - Len(s)] /\ t[b] = u[b - Len(s)] /\ a - Len(s) \in DOMAIN u /\ b - Len(s) \in DOMAIN u
        BY <3>2, <1>5, <1>6
      <4>2. a - Len(s) = b - Len(s)
        BY <4>1, <2>1, <1>4 DEF IsInjective
      <4> QED BY <4>2, <1>5, <1>6
    <3>3. \A c \in DOMAIN t : c > Len(s) => t[c][1] = p
      BY <1>4, <1>5, <1>6
    <3>4. \A c \in DOMAIN t : c <= Len(s) => t[c][1] # p
      BY <1>5, <1>6, <1>7
    <3> QED BY <2>1, <3>1, <3>2, <3>3, <3>4, <1>5, <1>6
  <2> QED BY <2>1 DEF IsInjective
<1>9. ASSUME NEW k \in DOMAIN t
      PROVE  IsOutput(t[k]) /\ (\E i \in 1 .. m + 1 : t[k][1] = ps[i]) /\ ~OutConnected(l, t[k])
  <2>1. CASE k <= Len(s)
    <3>1. k \in DOMAIN s /\ t[k] = s[k]
      BY <2>1, <1>5, <1>6
    <3>2. PICK i \in 1 .. m : s[k][1] = ps[i]
      BY <3>1 DEF Owned
    <3>3. i \in 1 .. m + 1
      BY <3>2
    <3> QED BY <3>1, <3>2, <3>3 DEF Owned
  <2>2. CASE k > Len(s)
    <3>1. m + 1 \in 1 .. m + 1
      OBVIOUS
    <3>2. IsOutput(t[k]) /\ t[k][1] = p /\ ~OutConnected(l, t[k])
      BY <2>2, <1>4, <1>5, <1>6
    <3> QED BY <3>1, <3>2, <1>1
  <2> QED BY <2>1, <2>2, <1>5, <1>6
<1> QED BY <1>1, <1>2, <1>3, <1>6, <1>8, <1>9 DEF Owned

LEMMA OpenOutputsFacts ==
  ASSUME NEW l, NEW ps \in Seq(Processors), IsInjective(ps)
  PROVE  Owned(l, ps, OpenOutputs(l, ps), Len(ps))
<1>1. PICK n \in Nat : n = Len(ps)
  OBVIOUS
<1>2. PICK V : V = Seq(AnyPort)
  OBVIOUS
<1>3. PICK step : step = [x \in (1 .. n) \X V |-> x[2] \o Unconnected(l, ps[x[1]])]
  OBVIOUS
<1>4. \A i \in 1 .. n, s \in V : s \o Unconnected(l, ps[i]) \in V
  <2>1. ASSUME NEW i \in 1 .. n, NEW s \in V
        PROVE  s \o Unconnected(l, ps[i]) \in V
    <3>1. ps[i] \in Processors
      BY <1>1
    <3>2. Unconnected(l, ps[i]) \in Seq(AnyPort)
      BY <3>1, UnconnectedFacts
    <3> QED BY <3>2, <1>2
  <2> QED BY <2>1
<1>5. PICK f \in [0 .. n -> V] : f[0] = <<>> /\ \A i \in 1 .. n : f[i] = f[i - 1] \o Unconnected(l, ps[i])
  <2>0. PICK b : b = <<>>
    OBVIOUS
  <2>1. b \in V /\ n \in Nat
    BY <1>2, <2>0
  <2>2. step \in [(1 .. n) \X V -> V]
    BY <1>3, <1>4
  <2>3. PICK f \in [0 .. n -> V] : Follows(f, n, b, step)
    BY ONLY <2>1, <2>2, RecursionOnInterval
  <2>4. ASSUME NEW i \in 1 .. n
        PROVE  f[i] = f[i - 1] \o Unconnected(l, ps[i])
    <3>1. <<i, f[i - 1]>> \in (1 .. n) \X V
      BY <2>3
    <3> QED BY <3>1, <2>3, <1>3 DEF Follows
  <2> QED BY <2>0, <2>3, <2>4 DEF Follows
<1> DEFINE Body(g) == [k \in 0 .. n |-> IF k = 0 THEN <<>> ELSE g[k - 1] \o Unconnected(l, ps[k])]
<1>6. f = Body(f)
  <2>1. \A i \in 0 .. n : f[i] = IF i = 0 THEN <<>> ELSE f[i - 1] \o Unconnected(l, ps[i])
    BY <1>5
  <2> QED BY <2>1, <1>5
<1>7. PICK outs : outs = CHOOSE g : g = Body(g)
  OBVIOUS
<1>8. outs[0] = <<>> /\ \A i \in 0 .. n - 1 : outs[i + 1] = outs[i] \o Unconnected(l, ps[i + 1])
  <2>1. outs = Body(outs)
    BY <1>6, <1>7
  <2> QED BY <2>1
<1>9. OpenOutputs(l, ps) = outs[n]
  BY <1>1, <1>7 DEF OpenOutputs
<1> DEFINE P == {i \in Nat : i <= n => Owned(l, ps, outs[i], i)}
<1>10. 0 \in P
  <2>1. IsInjective(outs[0]) /\ outs[0] \in Seq(AnyPort) /\ DOMAIN outs[0] = {}
    BY <1>8 DEF IsInjective
  <2> QED BY <2>1 DEF Owned
<1>11. ASSUME NEW i \in Nat, i \in P
       PROVE  i + 1 \in P
  <2> SUFFICES ASSUME i + 1 <= n
               PROVE  Owned(l, ps, outs[i + 1], i + 1)
    OBVIOUS
  <2>1. PICK s : s = outs[i]
    OBVIOUS
  <2>2. Owned(l, ps, s, i) /\ i + 1 <= Len(ps)
    BY <1>1, <1>11, <2>1
  <2>3. outs[i + 1] = s \o Unconnected(l, ps[i + 1])
    BY <1>8, <2>1
  <2>4. Owned(l, ps, s \o Unconnected(l, ps[i + 1]), i + 1)
    BY ONLY <2>2, OwnedNext, ps \in Seq(Processors), IsInjective(ps), i \in Nat
  <2> QED BY <2>3, <2>4
<1>12. Nat \subseteq P
  <2> HIDE DEF P
  <2> QED BY <1>10, <1>11, SetInduction
<1> QED BY <1>1, <1>9, <1>12

\* Some pipes are replaced: what the others have is left alone.
LEMMA PipesReplaced ==
  ASSUME PipesInv, NEW C, DOMAIN pipe' = DOMAIN pipe, \A f \in DOMAIN pipe : f \notin C => pipe'[f] = pipe[f],
         links' = links, graph' = graph, used \subseteq used', used' \subseteq Processors, misused' \in BOOLEAN,
         \A f \in C : pipe'[f] # NoPipe => PipeOK(pipe'[f], used'),
         misused => misused',
         ~misused' => \A f \in C : f \in Sole' => /\ OpenPipe(pipe'[f], links)
                                                  /\ \A g \in Sole' : g # f => Apart(pipe'[f], pipe'[g])
  PROVE  PipesInv'
<1>1. Held' = {f \in DOMAIN pipe : pipe'[f] # NoPipe} /\ Sole' = {f \in Held' : ~pipe'[f].merged}
  BY DEF Held, Sole
<1>2. \A f \in Held' : f \notin C => f \in Held /\ pipe'[f] = pipe[f]
  BY <1>1 DEF Held
<1>3. \A f \in Sole' : f \notin C => f \in Sole /\ pipe'[f] = pipe[f]
  BY <1>1, <1>2 DEF Sole
<1>4. \A f \in Held' : PipeOK(pipe'[f], used')
  <2>1. \A f \in Held : PipeOK(pipe[f], used')
    BY DEF PipesInv, PipeOK
  <2> QED BY <1>1, <1>2, <2>1
<1>5. ASSUME ~misused', NEW f \in Sole'
      PROVE  OpenPipe(pipe'[f], links') /\ \A g \in Sole' : g # f => Apart(pipe'[f], pipe'[g])
  <2>1. CASE f \in C
    BY <1>5, <2>1
  <2>2. CASE f \notin C
    <3>0. ~misused
      BY <1>5
    <3>1. f \in Sole /\ pipe'[f] = pipe[f] /\ OpenPipe(pipe'[f], links')
      BY <1>3, <3>0, <2>2 DEF PipesInv
    <3>2. ASSUME NEW g \in Sole', g # f
          PROVE  Apart(pipe'[f], pipe'[g])
      <4>1. CASE g \in C
        BY <1>5, <3>2, <4>1 DEF Apart
      <4>2. CASE g \notin C
        BY <1>3, <3>0, <3>1, <3>2, <4>2 DEF PipesInv
      <4> QED BY <4>1, <4>2
    <3> QED BY <3>1, <3>2
  <2> QED BY <2>1, <2>2
<1>6. EdgesMirrored' /\ LinksOK(links)' /\ DOMAIN pipe' = Locals \cup Pipelines
  BY DEF PipesInv, EdgesMirrored, LinksOK
<1> QED BY <1>4, <1>5, <1>6 DEF PipesInv

\* One pipe is replaced, or a new one is held.
LEMMA PipeReplaced ==
  ASSUME PipesInv, NEW h \in Locals \cup Pipelines, NEW x, pipe' = [pipe EXCEPT ![h] = x], graph' = graph, links' = links,
         misused' = misused, used \subseteq used', used' \subseteq Processors, x # NoPipe => PipeOK(x, used'),
         x # NoPipe /\ ~x.merged /\ ~misused => OpenPipe(x, links) /\ \A g \in Sole : g # h => Apart(x, pipe[g])
  PROVE  PipesInv'
<1>1. DOMAIN pipe = Locals \cup Pipelines /\ misused \in BOOLEAN
  BY DEF PipesInv
<1>2. DOMAIN pipe' = DOMAIN pipe /\ pipe'[h] = x /\ \A f \in DOMAIN pipe : f \notin {h} => pipe'[f] = pipe[f]
  BY <1>1
<1>3. \A g \in Sole' : pipe'[g] # NoPipe /\ ~pipe'[g].merged /\ (g # h => g \in Sole)
  BY <1>1, <1>2 DEF Sole, Held
<1>4. \A f \in {h} : pipe'[f] # NoPipe => PipeOK(pipe'[f], used')
  BY <1>2
<1>5. ASSUME ~misused', NEW f \in {h}, f \in Sole'
      PROVE  OpenPipe(pipe'[f], links) /\ \A g \in Sole' : g # f => Apart(pipe'[f], pipe'[g])
  <2>1. x # NoPipe /\ ~x.merged /\ ~misused
    BY <1>2, <1>3, <1>5
  <2>2. \A g \in Sole' : g # h => g \in DOMAIN pipe /\ pipe'[g] = pipe[g]
    BY <1>2, <1>3 DEF Sole, Held
  <2> QED BY <1>2, <1>3, <1>5, <2>1, <2>2
<1>6. misused' \in BOOLEAN /\ (misused => misused')
  BY <1>1
<1>7. PICK C : C = {h}
  OBVIOUS
<1>8. /\ \A f \in DOMAIN pipe : f \notin C => pipe'[f] = pipe[f]
      /\ \A f \in C : pipe'[f] # NoPipe => PipeOK(pipe'[f], used')
      /\ ~misused' => \A f \in C : f \in Sole' => /\ OpenPipe(pipe'[f], links)
                                                  /\ \A g \in Sole' : g # f => Apart(pipe'[f], pipe'[g])
  BY <1>2, <1>4, <1>5, <1>7
<1>9. DOMAIN pipe' = DOMAIN pipe
  BY <1>2
<1> QED BY ONLY PipesInv, links' = links, graph' = graph, used \subseteq used', used' \subseteq Processors, <1>6, <1>8, <1>9, PipesReplaced

MovedTo(h, g, x) == pipe' = [pipe EXCEPT ![h] = x, ![g] = NoPipe]

\* One pipe moves to another pointer, which held none or is merged with it.
LEMMA PipeMoved ==
  ASSUME PipesInv, NEW h \in Locals \cup Pipelines, NEW g \in Locals \cup Pipelines, h # g, NEW x,
         MovedTo(h, g, x), links' = links, used' = used, graph' = graph, misused' \in BOOLEAN, misused => misused',
         x # NoPipe => PipeOK(x, used),
         x # NoPipe /\ ~x.merged /\ ~misused' => OpenPipe(x, links) /\ \A f \in Sole : f # h /\ f # g => Apart(x, pipe[f])
  PROVE  PipesInv'
<1>1. DOMAIN pipe = Locals \cup Pipelines
  BY DEF PipesInv
<1>2. /\ DOMAIN pipe' = DOMAIN pipe /\ pipe'[h] = x /\ pipe'[g] = NoPipe
      /\ \A f \in DOMAIN pipe : f \notin {h, g} => pipe'[f] = pipe[f]
  BY <1>1 DEF MovedTo
<1>3. /\ \A f \in Sole' : pipe'[f] # NoPipe /\ ~pipe'[f].merged /\ f # g
      /\ \A f \in Sole' : f # h => f \in Sole /\ pipe'[f] = pipe[f]
  BY <1>1, <1>2 DEF Sole, Held
<1>4. \A f \in {h, g} : pipe'[f] # NoPipe => PipeOK(pipe'[f], used')
  BY <1>2
<1>5. ASSUME ~misused', NEW f \in {h, g}, f \in Sole'
      PROVE  OpenPipe(pipe'[f], links) /\ \A e \in Sole' : e # f => Apart(pipe'[f], pipe'[e])
  <2>1. f = h /\ x # NoPipe /\ ~x.merged
    BY <1>2, <1>3, <1>5
  <2> QED BY <1>2, <1>3, <1>5, <2>1
<1>6. used \subseteq used' /\ used' \subseteq Processors
  BY DEF PipesInv
<1>7. PICK C : C = {h, g}
  OBVIOUS
<1>8. /\ \A f \in DOMAIN pipe : f \notin C => pipe'[f] = pipe[f]
      /\ \A f \in C : pipe'[f] # NoPipe => PipeOK(pipe'[f], used')
      /\ ~misused' => \A f \in C : f \in Sole' => /\ OpenPipe(pipe'[f], links)
                                                  /\ \A e \in Sole' : e # f => Apart(pipe'[f], pipe'[e])
  BY <1>2, <1>4, <1>5, <1>7
<1>9. DOMAIN pipe' = DOMAIN pipe /\ misused' \in BOOLEAN /\ (misused => misused')
  BY <1>2
<1> QED BY ONLY PipesInv, links' = links, graph' = graph, <1>6, <1>8, <1>9, PipesReplaced

LEMMA MaxOfTwo ==
  ASSUME NEW a \in Nat, NEW b \in Nat
  PROVE  Max({a, b}) \in Nat /\ Max({a, b}) >= a /\ Max({a, b}) >= b
<1>1. \E x \in {a, b} : \A y \in {a, b} : x >= y
  OBVIOUS
<1> QED BY <1>1 DEF Max

\* A sequence without repetitions stays so when something new is put at its end.
LEMMA AppendedOnce ==
  ASSUME NEW S, NEW s \in Seq(S), NEW e \in S
  PROVE  /\ Append(s, e) \in Seq(S) /\ Range(Append(s, e)) = Range(s) \cup {e} /\ Len(Append(s, e)) = Len(s) + 1
         /\ \A k \in DOMAIN Append(s, e) : Append(s, e)[k] = e \/ \E j \in DOMAIN s : Append(s, e)[k] = s[j]
         /\ IsInjective(s) /\ e \notin Range(s) => IsInjective(Append(s, e))
<1>1. PICK t : t = Append(s, e)
  OBVIOUS
<1>2. /\ t \in Seq(S) /\ DOMAIN t = DOMAIN s \cup {Len(s) + 1} /\ t[Len(s) + 1] = e /\ Len(t) = Len(s) + 1
      /\ \A k \in DOMAIN s : t[k] = s[k] /\ k # Len(s) + 1
  BY <1>1
<1>4. ASSUME IsInjective(s), e \notin Range(s)
      PROVE  IsInjective(t)
  <2>1. \A k \in DOMAIN s : s[k] # e
    BY <1>4 DEF Range
  <2> QED BY <1>2, <1>4, <2>1 DEF IsInjective
<1>5. Range(t) = Range(s) \cup {e}
  BY <1>2 DEF Range
<1> QED BY <1>1, <1>2, <1>4, <1>5

LEMMA JoinedOnce ==
  ASSUME NEW S, NEW s \in Seq(S), NEW u \in Seq(S)
  PROVE  /\ s \o u \in Seq(S) /\ Range(s \o u) = Range(s) \cup Range(u) /\ Len(s \o u) = Len(s) + Len(u)
         /\ IsInjective(s) /\ IsInjective(u) /\ Range(s) \cap Range(u) = {} => IsInjective(s \o u)
<1>1. PICK t : t = s \o u
  OBVIOUS
<1>2. /\ t \in Seq(S) /\ Len(t) = Len(s) + Len(u) /\ DOMAIN t = 1 .. Len(t) /\ DOMAIN s = 1 .. Len(s) /\ DOMAIN u = 1 .. Len(u)
      /\ Len(s) \in Nat /\ Len(u) \in Nat
      /\ \A k \in 1 .. Len(s) : t[k] = s[k]
      /\ \A k \in Len(s) + 1 .. Len(t) : t[k] = u[k - Len(s)] /\ k - Len(s) \in DOMAIN u
      /\ \A k \in DOMAIN u : t[Len(s) + k] = u[k]
  BY <1>1
<1>4. ASSUME IsInjective(s), IsInjective(u), Range(s) \cap Range(u) = {}
      PROVE  IsInjective(t)
  <2>0. \A i \in DOMAIN s, j \in DOMAIN u : s[i] # u[j]
    BY <1>4 DEF Range
  <2>1. ASSUME NEW a \in DOMAIN t, NEW b \in DOMAIN t, t[a] = t[b]
        PROVE  a = b
    <3>1. CASE a <= Len(s) /\ b <= Len(s)
      BY <2>1, <3>1, <1>2, <1>4 DEF IsInjective
    <3>2. CASE a > Len(s) /\ b > Len(s)
      <4>1. a - Len(s) = b - Len(s)
        BY <3>2, <2>1, <1>2, <1>4 DEF IsInjective
      <4> QED BY <4>1, <1>2
    <3>3. CASE a <= Len(s) /\ b > Len(s)
      <4>1. a \in DOMAIN s /\ b - Len(s) \in DOMAIN u /\ t[a] = s[a] /\ t[b] = u[b - Len(s)]
        BY <3>3, <1>2
      <4> QED BY <4>1, <2>0, <2>1
    <3>4. CASE a > Len(s) /\ b <= Len(s)
      <4>1. b \in DOMAIN s /\ a - Len(s) \in DOMAIN u /\ t[b] = s[b] /\ t[a] = u[a - Len(s)]
        BY <3>4, <1>2
      <4> QED BY <4>1, <2>0, <2>1
    <3> QED BY <3>1, <3>2, <3>3, <3>4, <1>2
  <2> QED BY <2>1 DEF IsInjective
<1>5. Range(t) = Range(s) \cup Range(u)
  <2>1. ASSUME NEW k \in DOMAIN t
        PROVE  t[k] \in Range(s) \cup Range(u)
    <3>1. CASE k <= Len(s)
      <4>1. k \in DOMAIN s /\ t[k] = s[k]
        BY <3>1, <1>2
      <4> QED BY <4>1 DEF Range
    <3>2. CASE k > Len(s)
      <4>1. k - Len(s) \in DOMAIN u /\ t[k] = u[k - Len(s)]
        BY <3>2, <1>2
      <4> QED BY <4>1 DEF Range
    <3> QED BY <3>1, <3>2, <1>2
  <2>2. Range(s) \subseteq Range(t)
    BY <1>2 DEF Range
  <2>3. ASSUME NEW k \in DOMAIN u
        PROVE  u[k] \in Range(t)
    <3>1. Len(s) + k \in DOMAIN t /\ t[Len(s) + k] = u[k]
      BY <1>2
    <3> QED BY <3>1 DEF Range
  <2> QED BY <2>1, <2>2, <2>3 DEF Range
<1> QED BY <1>1, <1>2, <1>4, <1>5

LEMMA PipesSame ==
  ASSUME PipesInv, UNCHANGED <<links, pipe, graph>>, used \subseteq used', used' \subseteq Processors,
         misused' \in BOOLEAN, misused => misused'
  PROVE  PipesInv'
<1>1. Held' = Held /\ Sole' = Sole /\ LinksOK(links)' /\ EdgesMirrored'
  BY DEF PipesInv, Held, Sole, LinksOK, EdgesMirrored
<1>2. \A g \in Held : PipeOK(pipe[g], used')
  BY DEF PipesInv, PipeOK
<1>3. ~misused' => ~misused
  OBVIOUS
<1> QED BY <1>1, <1>2, <1>3 DEF PipesInv

LEMMA SourceAdded ==
  ASSUME PipesInv, NEW h \in Locals \cup Pipelines, NEW p \in Processors \ used, AddSource(h, p)
  PROVE  PipesInv'
<1>1. CASE OutConnected(links, <<p, 0>>)
  <2>1. UNCHANGED <<links, pipe, used, graph, misused>> /\ used \subseteq Processors /\ misused \in BOOLEAN
    BY <1>1 DEF AddSource, PipesInv
  <2> QED BY <2>1, PipesSame
<1>2. CASE ~OutConnected(links, <<p, 0>>)
  <2>1. PICK x : x = pipe[h]
    OBVIOUS
  <2>2. PICK o : o = <<p, 0>>
    OBVIOUS
  <2>3. PICK outs : outs = Append(x.outs, o)
    OBVIOUS
  <2>4. PICK procs : procs = Append(x.procs, p)
    OBVIOUS
  <2>5. PICK m : m = Max({x.max, Len(outs)})
    OBVIOUS
  <2>6. PICK y : y = [x EXCEPT !.procs = procs, !.outs = outs, !.max = m]
    OBVIOUS
  <2>7. h \in Held /\ PipeOK(x, used) /\ DOMAIN pipe = Locals \cup Pipelines
    BY <2>1 DEF PipesInv, Held, AddSource
  <2>8. x.procs \in Seq(Processors) /\ x.outs \in Seq(AnyPort) /\ x.max \in Nat /\ x.merged \in BOOLEAN /\ x \in PipeRecord
    BY <2>7 DEF PipeOK, PipeRecord
  <2>9. pipe' = [pipe EXCEPT ![h] = y] /\ used' = used \cup {p} /\ UNCHANGED <<links, graph, misused>>
    <3>1. WithSource(x, p) = y
      BY <2>2, <2>3, <2>4, <2>5, <2>6 DEF WithSource
    <3> QED BY <1>2, <2>1, <2>7, <3>1 DEF AddSource
  <2>10. o \in AnyPort /\ IsOutput(o) /\ o[1] = p /\ ~OutConnected(links, o)
    <3>1. PortCounts[p][2] \in Nat
      BY CountsNat
    <3>2. PortCounts[p][2] > 0
      BY <3>1 DEF AddSource, Outputs
    <3> QED BY <2>2, <3>1, <3>2, <1>2 DEF AnyPort, IsOutput
  <2>11. o \notin Range(x.outs) /\ p \notin Range(x.procs)
    BY <2>7, <2>10 DEF PipeOK, Range
  <2>12. /\ outs \in Seq(AnyPort) /\ Len(outs) = Len(x.outs) + 1 /\ (IsInjective(x.outs) => IsInjective(outs))
         /\ \A k \in DOMAIN outs : outs[k] = o \/ \E j \in DOMAIN x.outs : outs[k] = x.outs[j]
    BY <2>3, <2>8, <2>10, <2>11, AppendedOnce
  <2>13. procs \in Seq(Processors) /\ Range(procs) = Range(x.procs) \cup {p} /\ (IsInjective(x.procs) => IsInjective(procs))
    BY <2>4, <2>8, <2>11, AppendedOnce
  <2>14. m \in Nat /\ Len(outs) <= m
    BY <2>5, <2>8, <2>12, MaxOfTwo
  <2>15. y.procs = procs /\ y.outs = outs /\ y.max = m /\ y.merged = x.merged /\ y \in PipeRecord
    BY <2>6, <2>8, <2>12, <2>13, <2>14 DEF PipeRecord
  <2>16. PipeOK(y, used')
    BY <2>7, <2>9, <2>10, <2>12, <2>13, <2>14, <2>15 DEF PipeOK
  <2>17. used \subseteq used' /\ used' \subseteq Processors /\ graph' = graph /\ links' = links /\ misused' = misused
    BY <2>9 DEF PipesInv
  <2>18. ASSUME ~y.merged, ~misused
         PROVE  OpenPipe(y, links) /\ \A g \in Sole : g # h => Apart(y, pipe[g])
    <3>1. \A g \in Held : p \notin Range(pipe[g].procs)
      BY DEF PipesInv, PipeOK
    <3>2. h \in Sole /\ Sole \subseteq Held
      BY <2>1, <2>7, <2>15, <2>18 DEF Sole
    <3>3. OpenPipe(x, links) /\ \A g \in Sole : g # h => Apart(x, pipe[g])
      BY <2>1, <2>18, <3>2 DEF PipesInv
    <3>4. OpenPipe(y, links)
      BY <2>10, <2>12, <2>13, <2>15, <3>3 DEF OpenPipe
    <3> QED BY <2>13, <2>15, <3>1, <3>2, <3>3, <3>4 DEF Apart
  <2> QED BY <2>9, <2>16, <2>17, <2>18, PipeReplaced
<1> QED BY <1>1, <1>2

LEMMA EmptyPipeOK ==
  ASSUME NEW x, NEW m \in Nat, x = [EmptyPipe EXCEPT !.max = m], NEW u, NEW l
  PROVE  PipeOK(x, u) /\ OpenPipe(x, l) /\ Range(x.procs) = {} /\ ~x.merged
<1>1. x = [procs |-> <<>>, outs |-> <<>>, max |-> m, merged |-> FALSE]
  BY DEF EmptyPipe
<1>2. x.procs = <<>> /\ x.outs = <<>> /\ x.max = m /\ x.merged = FALSE
  BY <1>1
<1>3. x \in PipeRecord
  <2>1. PICK b, c : b = <<>> /\ c = <<>>
    OBVIOUS
  <2>2. b \in Seq(Processors) /\ c \in Seq(AnyPort)
    BY <2>1
  <2>3. x = [procs |-> b, outs |-> c, max |-> m, merged |-> FALSE]
    BY <1>1, <2>1
  <2> QED BY ONLY m \in Nat, <2>2, <2>3 DEF PipeRecord
<1> QED BY <1>2, <1>3 DEF PipeOK, OpenPipe, IsInjective, Range

LEMMA PipeMade ==
  ASSUME PipesInv, NEW h \in Locals \cup Pipelines, NewPipe(h) \/ AddSink(h) \/ Reset(h)
  PROVE  PipesInv'
<1>1. /\ links' = links /\ used' = used /\ graph' = graph /\ misused' = misused
      /\ used \subseteq used' /\ used' \subseteq Processors /\ DOMAIN pipe = Locals \cup Pipelines
  BY DEF NewPipe, AddSink, Reset, PipesInv
<1>2. CASE NewPipe(h)
  <2>1. PICK x : x = EmptyPipe
    OBVIOUS
  <2>2. x = [EmptyPipe EXCEPT !.max = 0]
    BY <2>1 DEF EmptyPipe
  <2>3. PipeOK(x, used') /\ OpenPipe(x, links) /\ Range(x.procs) = {}
    BY <2>2, EmptyPipeOK
  <2>4. pipe' = [pipe EXCEPT ![h] = x] /\ \A g \in Sole : Apart(x, pipe[g])
    BY <1>2, <2>1, <2>3 DEF NewPipe, Apart
  <2> QED BY <1>1, <2>3, <2>4, PipeReplaced
<1>3. CASE AddSink(h)
  <2>1. PICK x : x = pipe[h]
    OBVIOUS
  <2>2. PICK y : y = [x EXCEPT !.outs = <<>>]
    OBVIOUS
  <2>3. h \in Held /\ PipeOK(x, used)
    BY <1>1, <1>3, <2>1 DEF PipesInv, Held, AddSink
  <2>4. y.procs = x.procs /\ y.outs = <<>> /\ y.max = x.max /\ y.merged = x.merged /\ y \in PipeRecord /\ x.max \in Nat
    <3>0. PICK b : b = <<>>
      OBVIOUS
    <3>1. b \in Seq(AnyPort) /\ b = <<>>
      BY <3>0
    <3>2. y = [x EXCEPT !.outs = b] /\ x \in PipeRecord
      BY <2>2, <2>3, <3>0 DEF PipeOK
    <3> QED BY <3>1, <3>2 DEF PipeRecord
  <2>5. PipeOK(y, used')
    BY <1>1, <2>3, <2>4 DEF PipeOK
  <2>6. pipe' = [pipe EXCEPT ![h] = y]
    BY <1>3, <2>1, <2>2 DEF AddSink
  <2>7. ASSUME ~y.merged, ~misused
        PROVE  OpenPipe(y, links) /\ \A g \in Sole : g # h => Apart(y, pipe[g])
    <3>1. h \in Sole
      BY <2>1, <2>3, <2>4, <2>7 DEF Sole
    <3>2. OpenPipe(x, links) /\ \A g \in Sole : g # h => Apart(x, pipe[g])
      BY <2>1, <2>7, <3>1 DEF PipesInv
    <3> QED BY <2>4, <3>2 DEF OpenPipe, Apart, IsInjective
  <2> QED BY <1>1, <2>5, <2>6, <2>7, PipeReplaced
<1>4. CASE Reset(h)
  <2>1. pipe' = [pipe EXCEPT ![h] = NoPipe]
    BY <1>4 DEF Reset
  <2> QED BY <1>1, <2>1, PipeReplaced
<1> QED BY <1>2, <1>3, <1>4

LEMMA PipeOfMade ==
  ASSUME PipesInv, NEW h \in Locals \cup Pipelines, NEW ps \in Seq(Processors \ used), IsInjective(ps), PipeOf(h, ps)
  PROVE  PipesInv'
<1>1. /\ links' = links /\ graph' = graph /\ misused' = misused /\ misused \in BOOLEAN
      /\ used' = used \cup Range(ps) /\ used \subseteq used' /\ used' \subseteq Processors
      /\ DOMAIN pipe = Locals \cup Pipelines
  BY DEF PipeOf, PipesInv, Range
<1>2. CASE PipeOfAsserts(ps)
  <2>1. PICK outs : outs = OpenOutputs(links, ps)
    OBVIOUS
  <2>2. PICK y : y = [procs |-> ps, outs |-> outs, max |-> Len(outs), merged |-> FALSE]
    OBVIOUS
  <2>3. ps \in Seq(Processors)
    OBVIOUS
  <2>4. Owned(links, ps, outs, Len(ps))
    BY <2>1, <2>3, OpenOutputsFacts
  <2>5. y.procs = ps /\ y.outs = outs /\ y.max = Len(outs) /\ y \in PipeRecord /\ Len(outs) \in Nat
    BY <2>2, <2>3, <2>4 DEF Owned, PipeRecord
  <2>6. \A k \in DOMAIN outs : outs[k][1] \in Range(ps)
    BY <2>3, <2>4 DEF Owned, Range
  <2>7. PipeOK(y, used') /\ OpenPipe(y, links)
    BY <1>1, <2>4, <2>5, <2>6 DEF PipeOK, OpenPipe, Owned
  <2>8. pipe' = [pipe EXCEPT ![h] = y]
    BY <1>2, <2>1, <2>2 DEF PipeOf
  <2>9. \A g \in Sole : Apart(y, pipe[g])
    <3>1. \A g \in Held : Range(pipe[g].procs) \subseteq used
      BY DEF PipesInv, PipeOK
    <3>2. Range(ps) \cap used = {} /\ Sole \subseteq Held
      BY DEF Range, Sole
    <3> QED BY <2>5, <3>1, <3>2 DEF Apart
  <2> QED BY <1>1, <2>7, <2>8, <2>9, PipeReplaced
<1>3. CASE ~PipeOfAsserts(ps)
  <2>1. UNCHANGED pipe
    BY <1>3 DEF PipeOf
  <2> QED BY <1>1, <2>1, PipesSame
<1> QED BY <1>2, <1>3

\* Two pipes end to end.
LEMMA MergedOK ==
  ASSUME NEW a, NEW b, NEW u, PipeOK(a, u), PipeOK(b, u), NEW y, y = MergedPipes(a, b), NEW l
  PROVE  /\ PipeOK(y, u) /\ Range(y.procs) = Range(a.procs) \cup Range(b.procs) /\ ~y.merged
         /\ OpenPipe(a, l) /\ OpenPipe(b, l) /\ Apart(a, b) => OpenPipe(y, l)
<1>3. PICK outs : outs = a.outs \o b.outs
  OBVIOUS
<1>4. PICK procs : procs = a.procs \o b.procs
  OBVIOUS
<1>5. y = [procs |-> procs, outs |-> outs, max |-> a.max + b.max, merged |-> FALSE]
  BY <1>3, <1>4 DEF MergedPipes
<1>8. /\ a.procs \in Seq(Processors) /\ a.outs \in Seq(AnyPort) /\ a.max \in Nat
      /\ b.procs \in Seq(Processors) /\ b.outs \in Seq(AnyPort) /\ b.max \in Nat
  BY DEF PipeOK, PipeRecord
<1>9. /\ procs \in Seq(Processors) /\ Range(procs) = Range(a.procs) \cup Range(b.procs)
      /\ IsInjective(a.procs) /\ IsInjective(b.procs) /\ Apart(a, b) => IsInjective(procs)
  BY <1>4, <1>8, JoinedOnce DEF Apart
<1>10. Apart(a, b) => Range(a.outs) \cap Range(b.outs) = {}
  <2>1. (\A o \in Range(a.outs) : o[1] \in Range(a.procs)) /\ \A o \in Range(b.outs) : o[1] \in Range(b.procs)
    BY DEF PipeOK, Range
  <2> QED BY <2>1 DEF Apart
<1>11. /\ outs \in Seq(AnyPort) /\ Range(outs) = Range(a.outs) \cup Range(b.outs) /\ Len(outs) = Len(a.outs) + Len(b.outs)
       /\ IsInjective(a.outs) /\ IsInjective(b.outs) /\ Apart(a, b) => IsInjective(outs)
  BY <1>3, <1>8, <1>10, JoinedOnce
<1>12. y.procs = procs /\ y.outs = outs /\ y.max = a.max + b.max /\ y.merged = FALSE /\ y \in PipeRecord
  BY <1>5, <1>8, <1>9, <1>11 DEF PipeRecord
<1>13. \A o \in Range(outs) : IsOutput(o) /\ o[1] \in Range(procs)
  BY <1>9, <1>11 DEF PipeOK, Range
<1>14. Len(y.outs) <= y.max
  <2>1. Len(a.outs) <= a.max /\ Len(b.outs) <= b.max /\ Len(a.outs) \in Nat /\ Len(b.outs) \in Nat
    <3>1. Len(a.outs) \in Nat /\ Len(b.outs) \in Nat
      BY <1>8
    <3> QED BY <3>1 DEF PipeOK
  <2>2. Len(a.outs) + Len(b.outs) <= a.max + b.max
    <3>1. PICK i \in Nat, j \in Nat, m \in Nat, n \in Nat : i = Len(a.outs) /\ j = Len(b.outs) /\ m = a.max /\ n = b.max
      BY <2>1, <1>8
    <3>2. i <= m /\ j <= n
      BY <2>1, <3>1
    <3>3. i + j <= m + n
      BY <3>2
    <3> QED BY <3>1, <3>3
  <2> QED BY <2>2, <1>11, <1>12
<1>15. \A k \in DOMAIN outs : outs[k] \in Range(outs)
  BY DEF Range
<1>16. PipeOK(y, u)
  BY <1>9, <1>12, <1>13, <1>14, <1>15 DEF PipeOK
<1>17. ASSUME OpenPipe(a, l), OpenPipe(b, l), Apart(a, b)
       PROVE  OpenPipe(y, l)
  <2>1. \A o \in Range(outs) : ~OutConnected(l, o)
    BY <1>11, <1>17 DEF OpenPipe, Range
  <2>2. IsInjective(procs) /\ IsInjective(outs)
    BY <1>9, <1>11, <1>17 DEF OpenPipe
  <2> QED BY <1>12, <1>15, <2>1, <2>2 DEF OpenPipe
<1> QED BY <1>9, <1>12, <1>16, <1>17

\* The pipes that are merged stay, and are not the only ones with their ports any more.
LEMMA PipesCopied ==
  ASSUME PipesInv, NEW r \in Locals, NEW h \in Locals, NEW g \in Locals, pipe[r] = NoPipe, h # g, pipe[h] # NoPipe, pipe[g] # NoPipe,
         pipe' = [pipe EXCEPT ![r] = MergedPipes(pipe[h], pipe[g]), ![h].merged = TRUE, ![g].merged = TRUE],
         misused' = (misused \/ pipe[h].merged \/ pipe[g].merged), links' = links, used' = used, graph' = graph
  PROVE  PipesInv'
<1>1. PICK a, b : a = pipe[h] /\ b = pipe[g]
  OBVIOUS
<1>2. PICK y : y = MergedPipes(a, b)
  OBVIOUS
<1>3. /\ DOMAIN pipe = Locals \cup Pipelines /\ h \in Held /\ g \in Held /\ r # h /\ r # g /\ h # g /\ misused \in BOOLEAN
      /\ PipeOK(a, used) /\ PipeOK(b, used)
  BY <1>1 DEF PipesInv, Held
<1>4. PICK c, d : c = [a EXCEPT !.merged = TRUE] /\ d = [b EXCEPT !.merged = TRUE]
  OBVIOUS
<1>5. /\ pipe'[r] = y /\ pipe'[h] = c /\ pipe'[g] = d /\ DOMAIN pipe' = DOMAIN pipe
      /\ \A f \in DOMAIN pipe : f \notin {r, h, g} => pipe'[f] = pipe[f]
  BY <1>1, <1>2, <1>3, <1>4
<1>6. /\ c.procs = a.procs /\ c.outs = a.outs /\ c.max = a.max /\ c.merged = TRUE /\ c \in PipeRecord
      /\ d.procs = b.procs /\ d.outs = b.outs /\ d.max = b.max /\ d.merged = TRUE /\ d \in PipeRecord
  BY <1>3, <1>4 DEF PipeOK, PipeRecord
<1>7. PipeOK(c, used') /\ PipeOK(d, used')
  BY <1>3, <1>6 DEF PipeOK
<1>8. PipeOK(y, used') /\ Range(y.procs) = Range(a.procs) \cup Range(b.procs) /\ ~y.merged
  BY <1>2, <1>3, MergedOK
<1>9. a.merged \in BOOLEAN /\ b.merged \in BOOLEAN
  BY <1>3 DEF PipeOK, PipeRecord
<1>10. misused' = (misused \/ a.merged \/ b.merged)
  BY <1>1
<1>11. misused' \in BOOLEAN /\ (misused => misused')
  BY <1>10
<1>12. /\ h \notin Sole' /\ g \notin Sole' /\ \A f \in Sole' : f # r => f \in Sole /\ pipe'[f] = pipe[f] /\ f # h /\ f # g
  <2>1. Sole' = {f \in DOMAIN pipe : pipe'[f] # NoPipe /\ ~pipe'[f].merged}
    BY <1>5 DEF Sole, Held
  <2> QED BY <2>1, <1>5, <1>6 DEF Sole, Held
<1>13. ASSUME ~misused'
       PROVE  OpenPipe(y, links) /\ \A f \in Sole' : f # r => Apart(y, pipe'[f])
  <2>1. ~misused /\ h \in Sole /\ g \in Sole
    BY <1>1, <1>3, <1>10, <1>13 DEF Sole
  <2>2. OpenPipe(a, links) /\ OpenPipe(b, links) /\ Apart(a, b)
    BY <1>1, <1>3, <2>1 DEF PipesInv
  <2>3. \A f \in Sole : f # h /\ f # g => Apart(a, pipe[f]) /\ Apart(b, pipe[f])
    BY <1>1, <2>1 DEF PipesInv
  <2>4. OpenPipe(y, links)
    BY <1>2, <1>3, <2>2, MergedOK
  <2> QED BY <1>8, <1>12, <2>3, <2>4 DEF Apart
<1>14. PICK C : C = {r, h, g}
  OBVIOUS
<1>15. /\ \A f \in DOMAIN pipe : f \notin C => pipe'[f] = pipe[f]
       /\ \A f \in C : pipe'[f] # NoPipe => PipeOK(pipe'[f], used')
  BY <1>5, <1>7, <1>8, <1>14
<1>16. ~misused' => \A f \in C : f \in Sole' => OpenPipe(pipe'[f], links) /\ \A e \in Sole' : e # f => Apart(pipe'[f], pipe'[e])
  BY <1>5, <1>12, <1>13, <1>14
<1>17. DOMAIN pipe' = DOMAIN pipe /\ used \subseteq used' /\ used' \subseteq Processors
  BY <1>5 DEF PipesInv
<1> QED BY ONLY PipesInv, links' = links, graph' = graph, <1>11, <1>15, <1>16, <1>17, PipesReplaced

\* The one pipe that is left is moved from; what it leaves has nothing.
LEMMA PipeTaken ==
  ASSUME PipesInv, NEW r \in Locals, NEW h \in Locals, NEW g \in Locals, pipe[r] = NoPipe, h # g, pipe[h] # NoPipe, pipe[g] # NoPipe,
         pipe' = [pipe EXCEPT ![r] = pipe[g], ![h] = NoPipe, ![g] = MovedFrom(@)],
         misused' = misused, links' = links, used' = used, graph' = graph
  PROVE  PipesInv'
<1>1. PICK b : b = pipe[g]
  OBVIOUS
<1>2. PICK e : e = MovedFrom(b)
  OBVIOUS
<1>3. /\ DOMAIN pipe = Locals \cup Pipelines /\ g \in Held /\ r # h /\ r # g /\ h # g /\ misused \in BOOLEAN /\ PipeOK(b, used)
  BY <1>1 DEF PipesInv, Held
<1>4. /\ pipe'[r] = b /\ pipe'[h] = NoPipe /\ pipe'[g] = e /\ DOMAIN pipe' = DOMAIN pipe
      /\ \A f \in DOMAIN pipe : f \notin {r, h, g} => pipe'[f] = pipe[f]
  BY <1>1, <1>2, <1>3
<1>5. b.max \in Nat
  BY <1>3 DEF PipeOK, PipeRecord
<1>6. PipeOK(e, used') /\ OpenPipe(e, links) /\ Range(e.procs) = {}
  BY <1>2, <1>5, EmptyPipeOK DEF MovedFrom
<1>7. /\ Sole' = {f \in DOMAIN pipe : pipe'[f] # NoPipe /\ ~pipe'[f].merged}
      /\ h \notin Sole' /\ \A f \in Sole' : f \notin {r, g} => f \in Sole /\ pipe'[f] = pipe[f]
  <2>1. Sole' = {f \in DOMAIN pipe : pipe'[f] # NoPipe /\ ~pipe'[f].merged}
    BY <1>4 DEF Sole, Held
  <2> QED BY <2>1, <1>4 DEF Sole, Held
<1>8. \A x : Apart(e, x) /\ Apart(x, e)
  BY <1>6 DEF Apart
<1>9. ASSUME ~misused', r \in Sole'
      PROVE  OpenPipe(b, links) /\ \A f \in Sole' : f # r => Apart(b, pipe'[f])
  <2>1. g \in Sole /\ ~misused
    BY <1>1, <1>3, <1>4, <1>7, <1>9 DEF Sole
  <2>2. OpenPipe(b, links) /\ \A f \in Sole : f # g => Apart(b, pipe[f])
    BY <1>1, <2>1 DEF PipesInv
  <2> QED BY <2>2, <1>4, <1>7, <1>8
<1>10. PICK C : C = {r, h, g}
  OBVIOUS
<1>11. /\ \A f \in DOMAIN pipe : f \notin C => pipe'[f] = pipe[f]
       /\ \A f \in C : pipe'[f] # NoPipe => PipeOK(pipe'[f], used')
  BY <1>3, <1>4, <1>6, <1>10
<1>12. ~misused' => \A f \in C : f \in Sole' => OpenPipe(pipe'[f], links) /\ \A x \in Sole' : x # f => Apart(pipe'[f], pipe'[x])
  BY <1>4, <1>6, <1>7, <1>8, <1>9, <1>10
<1>13. /\ DOMAIN pipe' = DOMAIN pipe /\ used \subseteq used' /\ used' \subseteq Processors
       /\ misused' \in BOOLEAN /\ (misused => misused')
  BY <1>3, <1>4 DEF PipesInv
<1> QED BY ONLY PipesInv, links' = links, graph' = graph, <1>11, <1>12, <1>13, PipesReplaced

LEMMA PipesMerged ==
  ASSUME PipesInv, NEW r \in Locals, NEW h \in Locals, NEW g \in Locals, MergePipes(r, h, g)
  PROVE  PipesInv'
<1>1. /\ links' = links /\ used' = used /\ graph' = graph /\ pipe[r] = NoPipe /\ h # g /\ pipe[h] # NoPipe /\ pipe[g] # NoPipe
      /\ used \subseteq used' /\ used' \subseteq Processors /\ misused \in BOOLEAN
  BY DEF MergePipes, PipesInv
<1>2. CASE ~Empty(pipe[h]) /\ ~Empty(pipe[g])
  <2>1. /\ pipe' = [pipe EXCEPT ![r] = MergedPipes(pipe[h], pipe[g]), ![h].merged = TRUE, ![g].merged = TRUE]
        /\ misused' = (misused \/ pipe[h].merged \/ pipe[g].merged)
    BY <1>2 DEF MergePipes
  <2> QED BY ONLY PipesInv, r \in Locals, h \in Locals, g \in Locals, <1>1, <2>1, PipesCopied
<1>3. CASE Empty(pipe[h])
  <2>1. pipe' = [pipe EXCEPT ![r] = pipe[g], ![h] = NoPipe, ![g] = MovedFrom(@)] /\ misused' = misused
    BY <1>3 DEF MergePipes
  <2> QED BY ONLY PipesInv, r \in Locals, h \in Locals, g \in Locals, <1>1, <2>1, PipeTaken
<1>4. CASE ~Empty(pipe[h]) /\ Empty(pipe[g])
  <2>1. UNCHANGED <<pipe, misused>>
    BY <1>4 DEF MergePipes
  <2> QED BY <1>1, <2>1, PipesSame
<1> QED BY <1>2, <1>3, <1>4

LEMMA PipelinesMerged ==
  ASSUME PipesInv, NEW pl \in Pipelines, NEW other \in Pipelines, MergePipelineBefore(pl, other)
  PROVE  PipesInv'
<1>1. CASE pl = other \/ pipe[pl] = NoPipe \/ pipe[other] = NoPipe
  <2>1. UNCHANGED <<links, pipe, used, graph, misused>> /\ used \subseteq Processors /\ misused \in BOOLEAN
    BY <1>1 DEF MergePipelineBefore, PipesInv, IsInitialized
  <2> QED BY <2>1, PipesSame
<1>2. CASE pl # other /\ pipe[pl] # NoPipe /\ pipe[other] # NoPipe
  <2>1. PICK a, b : a = pipe[pl] /\ b = pipe[other]
    OBVIOUS
  <2>2. PICK y : y = MergedPipes(a, b)
    OBVIOUS
  <2>3. /\ DOMAIN pipe = Locals \cup Pipelines /\ pl \in Held /\ other \in Held /\ misused \in BOOLEAN
        /\ PipeOK(a, used) /\ PipeOK(b, used)
    BY <1>2, <2>1 DEF PipesInv, Held
  <2>4. /\ MovedTo(pl, other, y) /\ misused' = (misused \/ a.merged \/ b.merged)
        /\ links' = links /\ used' = used /\ graph' = graph
    BY <1>2, <2>1, <2>2, <2>3 DEF MergePipelineBefore, MovedTo
  <2>5. a.merged \in BOOLEAN /\ b.merged \in BOOLEAN
    BY <2>3 DEF PipeOK, PipeRecord
  <2>6. misused' \in BOOLEAN /\ (misused => misused')
    BY <2>4, <2>5
  <2>7. PipeOK(y, used) /\ Range(y.procs) = Range(a.procs) \cup Range(b.procs)
    BY <2>2, <2>3, MergedOK
  <2>8. ASSUME ~misused'
        PROVE  OpenPipe(y, links) /\ \A f \in Sole : f # pl /\ f # other => Apart(y, pipe[f])
    <3>1. ~misused /\ pl \in Sole /\ other \in Sole
      BY <2>1, <2>3, <2>4, <2>8 DEF Sole
    <3>2. OpenPipe(a, links) /\ OpenPipe(b, links) /\ Apart(a, b)
      BY <1>2, <2>1, <3>1 DEF PipesInv
    <3>3. \A f \in Sole : f # pl /\ f # other => Apart(a, pipe[f]) /\ Apart(b, pipe[f])
      BY <2>1, <3>1 DEF PipesInv
    <3>4. OpenPipe(y, links)
      BY <2>2, <2>3, <3>2, MergedOK
    <3> QED BY <2>7, <3>3, <3>4 DEF Apart
  <2>9. pl \in Locals \cup Pipelines /\ other \in Locals \cup Pipelines /\ pl # other
    BY <1>2
  <2> QED BY ONLY PipesInv, <2>4, <2>6, <2>7, <2>8, <2>9, PipeMoved
<1> QED BY <1>1, <1>2

LEMMA PipeHandedOver ==
  ASSUME PipesInv, NEW h \in Locals, NEW pl \in Pipelines, Initialize(pl, h) \/ DetachPipe(pl, h)
  PROVE  PipesInv'
<1>1. /\ links' = links /\ used' = used /\ graph' = graph /\ misused' = misused
      /\ used \subseteq used' /\ used' \subseteq Processors /\ DOMAIN pipe = Locals \cup Pipelines /\ misused' \in BOOLEAN /\ (misused => misused')
  BY DEF Initialize, DetachPipe, PipesInv
<1>2. ASSUME NEW from \in Locals \cup Pipelines, NEW to \in Locals \cup Pipelines, from # to,
             pipe' = [pipe EXCEPT ![to] = pipe[from], ![from] = NoPipe]
      PROVE  PipesInv'
  <2>1. PICK x : x = pipe[from]
    OBVIOUS
  <2>2. x # NoPipe => from \in Held /\ PipeOK(x, used)
    BY <1>1, <2>1 DEF PipesInv, Held
  <2>3. ASSUME x # NoPipe, ~x.merged, ~misused'
        PROVE  OpenPipe(x, links) /\ \A f \in Sole : f # to /\ f # from => Apart(x, pipe[f])
    <3>1. from \in Sole /\ ~misused
      BY <1>1, <2>1, <2>2, <2>3 DEF Sole
    <3> QED BY <2>1, <3>1 DEF PipesInv
  <2>4. MovedTo(to, from, x) /\ to # from
    BY <1>2, <2>1 DEF MovedTo
  <2> QED BY ONLY PipesInv, to \in Locals \cup Pipelines, from \in Locals \cup Pipelines, <1>1, <2>2, <2>3, <2>4, PipeMoved
<1>3. CASE Initialize(pl, h)
  <2>1. pipe' = [pipe EXCEPT ![pl] = pipe[h], ![h] = NoPipe] /\ pl # h
    BY <1>3 DEF Initialize, IsInitialized
  <2> QED BY <1>2, <2>1
<1>5. CASE DetachPipe(pl, h) /\ pl = h
  <2>1. pipe' = [pipe EXCEPT ![h] = NoPipe]
    BY <1>1, <1>5 DEF DetachPipe
  <2> QED BY <1>1, <2>1, PipeReplaced
<1>4. CASE DetachPipe(pl, h) /\ pl # h
  <2>1. pipe' = [pipe EXCEPT ![h] = pipe[pl], ![pl] = NoPipe]
    BY <1>4 DEF DetachPipe
  <2> QED BY <1>2, <1>4, <2>1
<1> QED BY <1>3, <1>4, <1>5

\* Connecting ports none of which is connected, an output and an input each once.
LEMMA LinksAdded ==
  ASSUME NEW l, LinksOK(l), NEW outs, NEW ins, Connectable(l, outs, ins), IsInjective(ins), DOMAIN ins = DOMAIN outs,
         \A k \in DOMAIN outs : IsOutput(outs[k]) /\ IsInput(ins[k])
  PROVE  LinksOK(ConnectAll(l, outs, ins))
<1>1. PICK new : new = {<<outs[k], ins[k]>> : k \in DOMAIN outs}
  OBVIOUS
<1>2. ConnectAll(l, outs, ins) = l \cup new
  BY <1>1 DEF ConnectAll
<1>3. ASSUME NEW c \in new
      PROVE  \E k \in DOMAIN outs : c = <<outs[k], ins[k]>> /\ c[1] = outs[k] /\ c[2] = ins[k]
  BY <1>1
<1>4. \A c \in new : c \in AnyPort \X AnyPort /\ IsOutput(c[1]) /\ IsInput(c[2])
  BY <1>3 DEF IsOutput, IsInput
<1>5. \A c, d \in new : c[1] = d[1] \/ c[2] = d[2] => c = d
  BY <1>3 DEF Connectable, IsInjective
<1>6. \A c \in new, d \in l : c[1] # d[1] /\ c[2] # d[2]
  BY <1>3 DEF Connectable, OutConnected, InConnected
<1> QED BY <1>2, <1>4, <1>5, <1>6 DEF LinksOK

LEMMA PortSeqs ==
  ASSUME NEW p \in Processors
  PROVE  /\ DOMAIN InputSeq(p) = 1 .. PortCounts[p][1] /\ IsInjective(InputSeq(p)) /\ \A k \in DOMAIN InputSeq(p) : IsInput(InputSeq(p)[k])
         /\ DOMAIN OutputSeq(p) = 1 .. PortCounts[p][2] /\ \A k \in DOMAIN OutputSeq(p) : IsOutput(OutputSeq(p)[k]) /\ OutputSeq(p)[k][1] = p
<1>1. PortCounts[p][1] \in Nat /\ PortCounts[p][2] \in Nat
  BY CountsNat
<1>2. DOMAIN InputSeq(p) = 1 .. PortCounts[p][1] /\ \A k \in DOMAIN InputSeq(p) : InputSeq(p)[k] = <<p, k - 1>>
  BY DEF InputSeq
<1>3. DOMAIN OutputSeq(p) = 1 .. PortCounts[p][2] /\ \A k \in DOMAIN OutputSeq(p) : OutputSeq(p)[k] = <<p, k - 1>>
  BY DEF OutputSeq
<1>4. IsInjective(InputSeq(p))
  BY <1>1, <1>2 DEF IsInjective
<1>5. \A k \in DOMAIN InputSeq(p) : IsInput(InputSeq(p)[k])
  <2>1. ASSUME NEW k \in 1 .. PortCounts[p][1]
        PROVE  IsInput(<<p, k - 1>>)
    <3>1. PICK i : i = <<p, k - 1>>
      OBVIOUS
    <3>2. i \in AnyPort /\ i[1] = p /\ i[2] = k - 1
      BY <1>1, <3>1 DEF AnyPort
    <3> QED BY <1>1, <3>1, <3>2 DEF IsInput
  <2> QED BY <1>2, <2>1
<1>6. \A k \in DOMAIN OutputSeq(p) : IsOutput(OutputSeq(p)[k]) /\ OutputSeq(p)[k][1] = p
  <2>1. ASSUME NEW k \in 1 .. PortCounts[p][2]
        PROVE  IsOutput(<<p, k - 1>>) /\ <<p, k - 1>>[1] = p
    <3>1. PICK o : o = <<p, k - 1>>
      OBVIOUS
    <3>2. o \in AnyPort /\ o[1] = p /\ o[2] = k - 1
      BY <1>1, <3>1 DEF AnyPort
    <3> QED BY <1>1, <3>1, <3>2 DEF IsOutput
  <2> QED BY <1>3, <2>1
<1> QED BY <1>2, <1>3, <1>4, <1>5, <1>6

\* Connections from ports that a pipe does not list leave the pipe as it was.
LEMMA PipeKept ==
  ASSUME NEW x, NEW l, OpenPipe(x, l), NEW outs, NEW ins, \A k \in DOMAIN outs : outs[k] \notin Range(x.outs)
  PROVE  OpenPipe(x, ConnectAll(l, outs, ins))
<1>1. ASSUME NEW o, o \in Range(x.outs), OutConnected(ConnectAll(l, outs, ins), o)
      PROVE  OutConnected(l, o)
  <2>1. PICK c \in ConnectAll(l, outs, ins) : c[1] = o
    BY <1>1 DEF OutConnected
  <2>2. c \in l \/ \E k \in DOMAIN outs : c = <<outs[k], ins[k]>>
    BY <2>1 DEF ConnectAll
  <2> QED BY <1>1, <2>1, <2>2 DEF OutConnected
<1>2. \A k \in DOMAIN x.outs : x.outs[k] \in Range(x.outs)
  BY DEF Range
<1> QED BY <1>1, <1>2 DEF OpenPipe

LEMMA ProcessorsConnected ==
  ASSUME PipesInv, NEW p \in Processors \ used, NEW q \in Processors \ used, AsFromConnect(p, q)
  PROVE  PipesInv'
<1>1. UNCHANGED <<pipe, used, graph, misused>> /\ used \subseteq Processors /\ LinksOK(links) /\ misused \in BOOLEAN
  BY DEF AsFromConnect, PipesInv
<1>2. CASE ~Connectable(links, OutputSeq(p), InputSeq(q))
  BY <1>1, <1>2, PipesSame DEF AsFromConnect
<1>3. CASE Connectable(links, OutputSeq(p), InputSeq(q))
  <2>1. PICK outs, ins : outs = OutputSeq(p) /\ ins = InputSeq(q)
    OBVIOUS
  <2>2. links' = ConnectAll(links, outs, ins) /\ DOMAIN ins = DOMAIN outs /\ Connectable(links, outs, ins) /\ IsInjective(ins)
    BY <1>3, <2>1, PortSeqs DEF AsFromConnect
  <2>3. \A k \in DOMAIN outs : IsOutput(outs[k]) /\ IsInput(ins[k]) /\ outs[k][1] = p
    BY <2>1, <2>2, PortSeqs
  <2>4. LinksOK(links')
    BY <1>1, <2>2, <2>3, LinksAdded
  <2>5. ASSUME NEW g \in Sole, ~misused
        PROVE  OpenPipe(pipe[g], links')
    <3>1. PipeOK(pipe[g], used) /\ OpenPipe(pipe[g], links)
      BY <2>5 DEF PipesInv, Sole
    <3>2. \A k \in DOMAIN outs : outs[k] \notin Range(pipe[g].outs)
      BY <2>3, <3>1 DEF PipeOK, Range
    <3> QED BY <3>1, <3>2, <2>2, PipeKept
  <2>6. Held' = Held /\ Sole' = Sole /\ EdgesMirrored'
    BY <1>1 DEF PipesInv, Held, Sole, EdgesMirrored
  <2> QED BY <1>1, <2>4, <2>5, <2>6 DEF PipesInv
<1> QED BY <1>2, <1>3

LEMMA TransformAdded ==
  ASSUME PipesInv, NEW h \in Locals \cup Pipelines, NEW t \in Processors \ used, AddTransform(h, t)
  PROVE  PipesInv'
<1>1. PICK x : x = pipe[h]
  OBVIOUS
<1>2. /\ graph' = graph /\ used \subseteq Processors /\ LinksOK(links) /\ DOMAIN pipe = Locals \cup Pipelines
      /\ h \in Held /\ PipeOK(x, used) /\ misused \in BOOLEAN
  BY <1>1 DEF AddTransform, PipesInv, Held
<1>3. x.procs \in Seq(Processors) /\ x.outs \in Seq(AnyPort) /\ x.max \in Nat /\ x.merged \in BOOLEAN /\ x \in PipeRecord
  BY <1>2 DEF PipeOK, PipeRecord
<1>4. CASE ~Matches(x, t)
  BY <1>1, <1>2, <1>4, PipesSame DEF AddTransform
<1>5. ASSUME Matches(x, t)
      PROVE  used' = used \cup {t} /\ misused' \in BOOLEAN /\ (misused => misused') /\ (~misused' => ~misused /\ ~x.merged)
  <2>1. used' = used \cup {t} /\ misused' = (misused \/ x.merged)
    BY <1>1, <1>5 DEF AddTransform
  <2> QED BY <2>1, <1>2, <1>3
<1>6. CASE Matches(x, t) /\ ~Connectable(links, x.outs, InputSeq(t))
  <2>1. UNCHANGED <<links, pipe>> /\ used \subseteq used' /\ used' \subseteq Processors
    BY <1>1, <1>2, <1>5, <1>6 DEF AddTransform
  <2> QED BY <1>2, <1>5, <1>6, <2>1, PipesSame
<1>7. CASE Matches(x, t) /\ Connectable(links, x.outs, InputSeq(t))
  <2>1. PICK ins : ins = InputSeq(t)
    OBVIOUS
  <2>2. PICK l : l = ConnectAll(links, x.outs, ins)
    OBVIOUS
  <2>3. PICK outs : outs = Unconnected(l, t)
    OBVIOUS
  <2>4. PICK procs : procs = Append(x.procs, t)
    OBVIOUS
  <2>5. PICK m : m = Max({x.max, Len(outs)})
    OBVIOUS
  <2>6. PICK y : y = [x EXCEPT !.procs = procs, !.outs = outs, !.max = m]
    OBVIOUS
  <2>7. links' = l /\ pipe' = [pipe EXCEPT ![h] = y]
    <3>1. Transformed(x, t, l) = y
      BY <2>3, <2>4, <2>5, <2>6 DEF Transformed
    <3> QED BY <1>1, <1>2, <1>7, <2>1, <2>2, <3>1 DEF AddTransform
  <2>9. DOMAIN ins = DOMAIN x.outs /\ IsInjective(ins) /\ \A k \in DOMAIN ins : IsInput(ins[k])
    BY <1>3, <1>7, <2>1, PortSeqs DEF Matches
  <2>10. LinksOK(l)
    BY <1>2, <1>7, <2>1, <2>2, <2>9, LinksAdded DEF PipeOK
  <2>11. /\ outs \in Seq(AnyPort) /\ IsInjective(outs)
         /\ \A k \in DOMAIN outs : IsOutput(outs[k]) /\ outs[k][1] = t /\ ~OutConnected(l, outs[k])
    BY <2>3, UnconnectedFacts
  <2>12. t \notin Range(x.procs)
    BY <1>2 DEF PipeOK
  <2>13. procs \in Seq(Processors) /\ (IsInjective(x.procs) => IsInjective(procs)) /\ Range(procs) = Range(x.procs) \cup {t}
    BY <1>3, <2>4, <2>12, AppendedOnce
  <2>14. m \in Nat /\ Len(outs) <= m
    BY <1>3, <2>5, <2>11, MaxOfTwo
  <2>15. y.procs = procs /\ y.outs = outs /\ y.max = m /\ y.merged = x.merged /\ y \in PipeRecord
    BY <1>3, <2>6, <2>11, <2>13, <2>14 DEF PipeRecord
  <2>16. PipeOK(y, used') /\ used' = used \cup {t}
    BY <1>2, <1>5, <1>7, <2>11, <2>13, <2>14, <2>15 DEF PipeOK
  <2>17. /\ DOMAIN pipe' = Locals \cup Pipelines /\ pipe'[h] = y /\ \A g \in DOMAIN pipe' : g # h => pipe'[g] = pipe[g]
         /\ Held' = {g \in DOMAIN pipe' : pipe'[g] # NoPipe} /\ Sole' = {g \in Held' : ~pipe'[g].merged}
    BY <1>2, <2>7 DEF Held, Sole
  <2>18. (\A g \in Held' : g # h => g \in Held) /\ \A g \in Sole' : g # h => g \in Sole
    BY <1>2, <2>17 DEF Held, Sole
  <2>19. \A g \in Held' : PipeOK(pipe'[g], used')
    <3>1. \A g \in Held : PipeOK(pipe[g], used')
      BY <2>16 DEF PipesInv, PipeOK
    <3> QED BY <2>16, <2>17, <2>18, <3>1
  <2>20. ASSUME ~misused'
         PROVE  \A g \in Sole' : OpenPipe(pipe'[g], l) /\ \A f \in Sole' : f # g => Apart(pipe'[g], pipe'[f])
    <3>1. ~misused /\ h \in Sole
      BY <1>1, <1>2, <1>5, <1>7, <2>20 DEF Sole
    <3>2. OpenPipe(x, links) /\ \A g \in Sole : g # h => Apart(x, pipe[g]) /\ OpenPipe(pipe[g], links)
      BY <1>1, <3>1 DEF PipesInv
    <3>3. OpenPipe(y, l)
      BY <2>11, <2>13, <2>15, <3>2 DEF OpenPipe
    <3>4. ASSUME NEW g \in Sole, g # h
          PROVE  OpenPipe(pipe[g], l) /\ Apart(y, pipe[g])
      <4>1. PipeOK(pipe[g], used) /\ Apart(x, pipe[g]) /\ t \notin Range(pipe[g].procs) /\ OpenPipe(pipe[g], links)
        BY <3>2, <3>4 DEF PipesInv, PipeOK, Sole
      <4>2. ASSUME NEW k \in DOMAIN x.outs
            PROVE  x.outs[k] \notin Range(pipe[g].outs)
        <5>1. x.outs[k][1] \notin Range(pipe[g].procs)
          BY <1>2, <4>1 DEF PipeOK, Apart
        <5> QED BY <5>1, <4>1 DEF PipeOK, Range
      <4> QED BY <4>1, <4>2, <2>2, <2>13, <2>15, PipeKept DEF Apart
    <3>5. \A g \in Sole' : OpenPipe(pipe'[g], l)
      BY <2>17, <2>18, <3>3, <3>4 DEF Held, Sole
    <3>6. ASSUME NEW g \in Sole', NEW f \in Sole', f # g
          PROVE  Apart(pipe'[g], pipe'[f])
      <4>0. f \in DOMAIN pipe' /\ g \in DOMAIN pipe'
        BY <2>17
      <4>1. CASE g = h
        BY <2>17, <2>18, <3>4, <3>6, <4>0, <4>1
      <4>2. CASE f = h
        BY <2>17, <2>18, <3>4, <3>6, <4>0, <4>2 DEF Apart
      <4>3. CASE f # h /\ g # h
        BY <2>17, <2>18, <3>1, <3>6, <4>0, <4>3 DEF PipesInv
      <4> QED BY <4>1, <4>2, <4>3
    <3> QED BY <3>5, <3>6
  <2>21. EdgesMirrored' /\ used' \subseteq Processors /\ misused' \in BOOLEAN
    BY <1>2, <1>5, <1>7, <2>16 DEF PipesInv, EdgesMirrored
  <2> QED BY <2>7, <2>10, <2>17, <2>19, <2>20, <2>21 DEF PipesInv
<1> QED BY <1>4, <1>6, <1>7

\* A processor is one node of the graph.
LEMMA NodeFound ==
  ASSUME NEW n \in Nat, NEW ps, DOMAIN ps = 1 .. n, IsInjective(ps), NEW k \in 1 .. n
  PROVE  NodeOf(ps, ps[k]) = k - 1
<1>1. {j \in DOMAIN ps : ps[j] = ps[k]} = {k}
  BY DEF IsInjective
<1>2. Max({k}) = k
  BY DEF Max
<1> QED BY <1>1, <1>2 DEF NodeOf

\* The connection of a port is the one found for it.
LEMMA LinkFound ==
  ASSUME LinksOK(links), NEW c \in links
  PROVE  /\ (CHOOSE x \in links : x[1] = c[1]) = c
         /\ (CHOOSE x \in links : x[2] = c[2]) = c
<1>1. \A x \in links : x[1] = c[1] \/ x[2] = c[2] => x = c
  BY DEF LinksOK
<1> QED BY <1>1

\* What a connection between two nodes puts in each of them.
EdgeAt(nodes, c, n, m) ==
  /\ c[1][2] + 1 \in DOMAIN nodes[n].direct /\ c[2][2] + 1 \in DOMAIN nodes[m].back
  /\ nodes[n].direct[c[1][2] + 1] = [to |-> m - 1, input |-> c[2][2], output |-> c[1][2]]
  /\ nodes[m].back[c[2][2] + 1] = [to |-> n - 1, input |-> c[2][2], output |-> c[1][2]]

LEMMA EdgesOfLink ==
  ASSUME LinksOK(links), NEW N \in Nat, NEW ps \in [1 .. N -> Processors], IsInjective(ps),
         NEW c \in links, NEW n \in 1 .. N, NEW m \in 1 .. N, c[1][1] = ps[n], c[2][1] = ps[m]
  PROVE  EdgeAt([k \in DOMAIN ps |-> AddEdges(ps, ps[k])], c, n, m)
<1>1. PICK nodes : nodes = [k \in DOMAIN ps |-> AddEdges(ps, ps[k])]
  OBVIOUS
<1>2. PICK p \in Processors, q \in Processors : p = ps[n] /\ q = ps[m]
  OBVIOUS
<1>3. PICK i \in Nat, j \in Nat : i = c[1][2] /\ j = c[2][2]
  BY DEF LinksOK, AnyPort
<1>4. c[1] = <<p, i>> /\ c[2] = <<q, j>> /\ i < PortCounts[p][2] /\ j < PortCounts[q][1]
  BY <1>2, <1>3 DEF LinksOK, IsOutput, IsInput, AnyPort
<1>5. PortCounts[p][2] \in Nat /\ PortCounts[q][1] \in Nat
  BY CountsNat
<1>6. NodeOf(ps, p) = n - 1 /\ NodeOf(ps, q) = m - 1
  BY <1>2, NodeFound
<1>7. i + 1 \in 1 .. PortCounts[p][2] /\ j + 1 \in 1 .. PortCounts[q][1]
  <2>1. PICK a \in Nat, b \in Nat : a = PortCounts[p][2] /\ b = PortCounts[q][1]
    BY <1>5
  <2>2. i < a /\ j < b
    BY <1>4, <2>1
  <2>3. i + 1 \in 1 .. a /\ j + 1 \in 1 .. b
    BY <2>2
  <2> QED BY <2>1, <2>3
<1> DEFINE OutLink(k) == CHOOSE x \in links : x[1] = <<p, k - 1>>
           InLink(k) == CHOOSE x \in links : x[2] = <<q, k - 1>>
<1>8. OutLink(i + 1) = c /\ InLink(j + 1) = c
  <2>1. <<p, (i + 1) - 1>> = c[1] /\ <<q, (j + 1) - 1>> = c[2]
    BY <1>4
  <2> QED BY <2>1, LinkFound
<1>9. nodes[n].direct = [k \in 1 .. PortCounts[p][2] |-> Edge(ps, OutLink(k), OutLink(k)[2][1])]
  BY <1>1, <1>2 DEF AddEdges
<1>10. nodes[m].back = [k \in 1 .. PortCounts[q][1] |-> Edge(ps, InLink(k), InLink(k)[1][1])]
  BY <1>1, <1>2 DEF AddEdges
<1> HIDE DEF OutLink, InLink
<1>11. i + 1 \in DOMAIN nodes[n].direct /\ nodes[n].direct[i + 1] = Edge(ps, c, c[2][1])
  BY <1>7, <1>8, <1>9
<1>12. j + 1 \in DOMAIN nodes[m].back /\ nodes[m].back[j + 1] = Edge(ps, c, c[1][1])
  BY <1>7, <1>8, <1>10
<1>13. /\ Edge(ps, c, c[2][1]) = [to |-> m - 1, input |-> c[2][2], output |-> c[1][2]]
       /\ Edge(ps, c, c[1][1]) = [to |-> n - 1, input |-> c[2][2], output |-> c[1][2]]
  BY <1>2, <1>6 DEF Edge
<1> QED BY <1>1, <1>3, <1>11, <1>12, <1>13 DEF EdgeAt

LEMMA GraphMirrored ==
  ASSUME LinksOK(links), NEW N \in Nat, NEW ps \in [1 .. N -> Processors], IsInjective(ps), Closed(Range(ps))
  PROVE  Mirrored([k \in DOMAIN ps |-> AddEdges(ps, ps[k])])
<1>1. PICK nodes : nodes = [k \in DOMAIN ps |-> AddEdges(ps, ps[k])]
  OBVIOUS
<1>2. DOMAIN nodes = 1 .. N
  BY <1>1
<1>3. \A c \in links, n \in 1 .. N, m \in 1 .. N : c[1][1] = ps[n] /\ c[2][1] = ps[m] => EdgeAt(nodes, c, n, m)
  BY <1>1, EdgesOfLink
<1>4. ASSUME NEW n \in 1 .. N, NEW k \in DOMAIN nodes[n].direct
      PROVE  \E c \in links, m \in 1 .. N : EdgeAt(nodes, c, n, m) /\ c[1][2] = k - 1 /\ c[1][2] \in Nat /\ c[2][2] \in Nat
  <2>1. PICK p \in Processors : p = ps[n]
    OBVIOUS
  <2>2. k \in 1 .. PortCounts[p][2] /\ PortCounts[p][2] \in Nat
    BY <1>1, <1>4, <2>1, CountsNat DEF AddEdges
  <2>3. <<p, k - 1>> \in Outputs(p) /\ p \in Range(ps)
    BY <2>1, <2>2 DEF Outputs, Range
  <2>4. PICK c \in links : c[1] = <<p, k - 1>> /\ c[2][1] \in Range(ps)
    BY <2>3 DEF Closed
  <2>5. PICK m \in 1 .. N : c[2][1] = ps[m]
    BY <2>4 DEF Range
  <2>6. c[1][1] = ps[n] /\ c[1][2] = k - 1
    BY <2>1, <2>4
  <2>7. c[1][2] \in Nat /\ c[2][2] \in Nat
    BY <2>4 DEF LinksOK, AnyPort
  <2> QED BY <1>3, <2>4, <2>5, <2>6, <2>7
<1>5. ASSUME NEW m \in 1 .. N, NEW k \in DOMAIN nodes[m].back
      PROVE  \E c \in links, n \in 1 .. N : EdgeAt(nodes, c, n, m) /\ c[2][2] = k - 1 /\ c[1][2] \in Nat /\ c[2][2] \in Nat
  <2>1. PICK p \in Processors : p = ps[m]
    OBVIOUS
  <2>2. k \in 1 .. PortCounts[p][1] /\ PortCounts[p][1] \in Nat
    BY <1>1, <1>5, <2>1, CountsNat DEF AddEdges
  <2>3. <<p, k - 1>> \in Inputs(p) /\ p \in Range(ps)
    BY <2>1, <2>2 DEF Inputs, Range
  <2>4. PICK c \in links : c[2] = <<p, k - 1>> /\ c[1][1] \in Range(ps)
    BY <2>3 DEF Closed
  <2>5. PICK n \in 1 .. N : c[1][1] = ps[n]
    BY <2>4 DEF Range
  <2>6. c[2][1] = ps[m] /\ c[2][2] = k - 1
    BY <2>1, <2>4
  <2>7. c[1][2] \in Nat /\ c[2][2] \in Nat
    BY <2>4 DEF LinksOK, AnyPort
  <2> QED BY <1>3, <2>4, <2>5, <2>6, <2>7
<1>6. ASSUME NEW n \in DOMAIN nodes, NEW k \in DOMAIN nodes[n].direct, NEW e, e = nodes[n].direct[k]
      PROVE  /\ e.output = k - 1 /\ e.to + 1 \in DOMAIN nodes
             /\ e.input + 1 \in DOMAIN nodes[e.to + 1].back
             /\ nodes[e.to + 1].back[e.input + 1] = [to |-> n - 1, input |-> e.input, output |-> e.output]
  <2>1. PICK c \in links, m \in 1 .. N : EdgeAt(nodes, c, n, m) /\ c[1][2] = k - 1 /\ c[1][2] \in Nat /\ c[2][2] \in Nat
    BY <1>2, <1>4, <1>6
  <2>2. k \in Int /\ c[1][2] + 1 = k
    <3>1. k \in 1 .. PortCounts[ps[n]][2] /\ PortCounts[ps[n]][2] \in Nat
      BY <1>1, <1>2, <1>6, CountsNat DEF AddEdges
    <3> QED BY <2>1, <3>1
  <2>3. e = [to |-> m - 1, input |-> c[2][2], output |-> c[1][2]]
    BY <1>6, <2>1, <2>2 DEF EdgeAt
  <2>4. e.to + 1 = m /\ e.input = c[2][2] /\ e.output = c[1][2]
    BY <2>3
  <2> QED BY <1>2, <2>1, <2>4 DEF EdgeAt
<1>7. ASSUME NEW m \in DOMAIN nodes, NEW k \in DOMAIN nodes[m].back, NEW e, e = nodes[m].back[k]
      PROVE  e.input = k - 1 /\ nodes[e.to + 1].direct[e.output + 1] = [to |-> m - 1, input |-> e.input, output |-> e.output]
  <2>1. PICK c \in links, n \in 1 .. N : EdgeAt(nodes, c, n, m) /\ c[2][2] = k - 1 /\ c[1][2] \in Nat /\ c[2][2] \in Nat
    BY <1>2, <1>5, <1>7
  <2>2. k \in Int /\ c[2][2] + 1 = k
    <3>1. k \in 1 .. PortCounts[ps[m]][1] /\ PortCounts[ps[m]][1] \in Nat
      BY <1>1, <1>2, <1>7, CountsNat DEF AddEdges
    <3> QED BY <2>1, <3>1
  <2>3. e = [to |-> n - 1, input |-> c[2][2], output |-> c[1][2]]
    BY <1>7, <2>1, <2>2 DEF EdgeAt
  <2>4. e.to + 1 = n /\ e.input = c[2][2] /\ e.output = c[1][2]
    BY <2>3
  <2> QED BY <1>2, <2>1, <2>4 DEF EdgeAt
<1>8. Mirrored(nodes)
  BY <1>6, <1>7 DEF Mirrored
<1> QED BY <1>1, <1>8

LEMMA PipesStart ==
  ASSUME PipeInit
  PROVE  PipesInv
<1>1. Held = {} /\ Sole = {}
  BY DEF PipeInit, Held, Sole
<1>2. DOMAIN graph = {} /\ DOMAIN pipe = Locals \cup Pipelines /\ links = {} /\ used = {} /\ misused = FALSE
  BY DEF PipeInit
<1> QED BY <1>1, <1>2 DEF PipesInv, LinksOK, EdgesMirrored, Mirrored

LEMMA GraphBuilt ==
  ASSUME PipesInv, NEW S \in SUBSET Processors, NEW ps \in SetToSeqs(S), BuildGraph(ps)
  PROVE  PipesInv'
<1>1. PICK N \in Nat : N = Cardinality(S)
  BY PipeAssumption, FS_Subset, FS_CardinalityType
<1>2. ps \in [1 .. N -> Processors] /\ IsInjective(ps)
  BY <1>1 DEF SetToSeqs, IsInjective
<1>3. LinksOK(links) /\ Closed(Range(ps)) /\ graph' = [k \in DOMAIN ps |-> AddEdges(ps, ps[k])]
  BY DEF PipesInv, BuildGraph
<1>4. EdgesMirrored'
  BY <1>2, <1>3, GraphMirrored DEF EdgesMirrored
<1>5. UNCHANGED <<links, pipe, used, misused>>
  BY DEF BuildGraph
<1>6. Held' = Held /\ Sole' = Sole
  BY <1>5 DEF Held, Sole
<1> QED BY <1>4, <1>5, <1>6 DEF PipesInv, LinksOK

LEMMA ChainIsSeq ==
  ASSUME NEW S, NEW s \in Chains(S)
  PROVE  s \in Seq(S) /\ IsInjective(s)
<1>1. IsInjective(s) /\ (s \in S \X S \/ s \in S \X S \X S)
  BY DEF Chains
<1>2. CASE s \in S \X S
  <2>1. PICK a \in S, b \in S : s = <<a, b>>
    BY <1>2
  <2> QED BY <1>1, <2>1
<1>3. CASE s \in S \X S \X S
  <2>1. PICK a \in S, b \in S, c \in S : s = <<a, b, c>>
    BY <1>3
  <2> QED BY <1>1, <2>1
<1> QED BY <1>1, <1>2, <1>3

LEMMA PipesStep ==
  ASSUME PipesInv, PipeNext
  PROVE  PipesInv'
<1>1. Fresh = Processors \ used /\ used \subseteq Processors /\ misused \in BOOLEAN
  BY DEF Fresh, PipesInv
<1>2. ASSUME NEW h \in Locals, NewPipe(h) \/ AddSink(h)
      PROVE  PipesInv'
  BY <1>2, PipeMade
<1>3. ASSUME NEW h \in Locals, NEW p \in Fresh, AddSource(h, p)
      PROVE  PipesInv'
  BY <1>1, <1>3, SourceAdded
<1>4. ASSUME NEW h \in Locals \cup Pipelines, NEW p \in Fresh, AddTransform(h, p)
      PROVE  PipesInv'
  BY <1>1, <1>4, TransformAdded
<1>5. ASSUME NEW r \in Locals, NEW h \in Locals, NEW g \in Locals, MergePipes(r, h, g)
      PROVE  PipesInv'
  BY <1>5, PipesMerged
<1>6. ASSUME NEW h \in Locals, NEW ps \in Chains(Fresh), PipeOf(h, ps)
      PROVE  PipesInv'
  BY <1>1, <1>6, ChainIsSeq, PipeOfMade
<1>7. ASSUME NEW pl \in Pipelines, NEW h \in Locals, Initialize(pl, h) \/ DetachPipe(pl, h)
      PROVE  PipesInv'
  BY <1>7, PipeHandedOver
<1>8. ASSUME NEW pl \in Pipelines, Reset(pl)
      PROVE  PipesInv'
  BY <1>8, PipeMade
<1>9. ASSUME NEW pl \in Pipelines, NEW t \in Fresh, PipelineAddTransform(pl, t)
      PROVE  PipesInv'
  BY <1>1, <1>4, <1>9, PipesSame DEF PipelineAddTransform
<1>10. ASSUME NEW pl \in Pipelines, NEW other \in Pipelines, MergePipelineBefore(pl, other)
       PROVE  PipesInv'
  BY <1>10, PipelinesMerged
<1>11. ASSUME NEW p \in Fresh, NEW q \in Fresh, AsFromConnect(p, q)
       PROVE  PipesInv'
  BY <1>1, <1>11, ProcessorsConnected
<1>12. ASSUME NEW S \in SUBSET Processors, NEW ps \in SetToSeqs(S), BuildGraph(ps)
       PROVE  PipesInv'
  BY <1>12, GraphBuilt
<1> QED BY <1>2, <1>3, <1>4, <1>5, <1>6, <1>7, <1>8, <1>9, <1>10, <1>11, <1>12 DEF PipeNext

LEMMA PipesInvSound ==
  ASSUME PipesInv
  PROVE  PipesSound
<1>1. ASSUME NEW h \in Held
      PROVE  Len(pipe[h].outs) <= NumThreads(pipe[h], 0)
  <2>1. PICK m \in Nat : m = pipe[h].max
    BY DEF PipesInv, PipeOK, PipeRecord
  <2>2. Len(pipe[h].outs) <= m /\ Len(pipe[h].outs) \in Nat
    BY <2>1 DEF PipesInv, PipeOK, PipeRecord
  <2>3. NumThreads(pipe[h], 0) = Max({1, m})
    BY <2>1 DEF NumThreads
  <2> QED BY <2>2, <2>3, MaxOfTwo
<1>2. ASSUME ~misused, NEW h \in Sole
      PROVE  /\ IsInjective(pipe[h].outs) /\ IsInjective(pipe[h].procs)
             /\ \A k \in DOMAIN pipe[h].outs :
                  ~OutConnected(links, pipe[h].outs[k]) /\ pipe[h].outs[k][1] \in Range(pipe[h].procs)
             /\ \A g \in Sole \ {h} : Range(pipe[h].procs) \cap Range(pipe[g].procs) = {}
  <2>1. OpenPipe(pipe[h], links) /\ PipeOK(pipe[h], used) /\ \A g \in Sole : g # h => Apart(pipe[h], pipe[g])
    BY <1>2 DEF PipesInv, Sole
  <2> QED BY <2>1 DEF OpenPipe, PipeOK, Apart
<1> QED BY <1>1, <1>2 DEF PipesInv, PipesSound

\* However pipes are made, extended, merged and moved, and for any processors: what a pipe that no
\* merge has copied thinks is open is, until a caller extends or merges a copied one; no pipe has
\* more streams than threads, and the graph mirrors the connections (Pipe.cpp, Pipeline.cpp, Graph.cpp).
THEOREM PipesSafe == PipeSpec => []PipesSound
<1>1. PipeInit => PipesInv
  BY PipesStart
<1>2. PipesInv /\ [PipeNext]_pipeVars => PipesInv'
  <2>1. ASSUME PipesInv, UNCHANGED pipeVars
        PROVE  PipesInv'
    BY <2>1, PipesSame DEF pipeVars, PipesInv
  <2> QED BY <2>1, PipesStep
<1>3. PipesInv => PipesSound
  BY PipesInvSound
<1> QED BY <1>1, <1>2, <1>3, PTL DEF PipeSpec
====
