-------------------------- MODULE RequestExecutor --------------------------
(***************************************************************************)
(* RequestExector of rocksdb_lab (executor.{h,cpp}) and the BaseRequest it *)
(* runs (requests.{h,cpp}).                                                *)
(*                                                                         *)
(* A thread calls HandleRequest(r).  Under mtx_ it picks the next executor *)
(* round robin, starts its thread the first time it is used, and puts r in *)
(* that executor's queue, blocking with mtx_ held while the queue is full. *)
(* A synchronous caller then sleeps on the request's condition variable.   *)
(* Stop() posts one null request to every executor and joins the threads.  *)
(*                                                                         *)
(* The queues are the BlockingQueue of module BlockingQueue, used here     *)
(* through what it is proved to be: a bounded FIFO channel that loses no   *)
(* wake-up.  BaseRequest::Done() sets done_ and notifies without holding   *)
(* finish_mtx_, so the waiter's "predicate is false" and "is asleep" are   *)
(* two steps.                                                              *)
(***************************************************************************)
EXTENDS Naturals, Sequences, FiniteSets

CONSTANTS
  Requests,   \* each is handed to HandleRequest by a thread of its own
  Async,      \* those whose context says async
  Parallel,   \* parallel_, the number of executors (16 in the code)
  Capacity,   \* capacity_ of an executor's queue (32 in the code)
  Stoppers,   \* threads that call Stop(); the destructor is one of them
  LateModes,  \* the values of lateCalls
  Null        \* the null RequestPtr that tells a worker to leave

Slots == 0 .. Parallel - 1

ASSUME ExecutorAssumption ==
  /\ Parallel \in Nat \ {0}
  /\ Capacity \in Nat \ {0}
  /\ Async \subseteq Requests
  /\ Null \notin Requests
  /\ LateModes \subseteq BOOLEAN
  /\ Requests \cap Stoppers = {}

VARIABLES
  mtx_,        \* {} or the one thread that holds the executor's mutex
  current_,    \* round-robin cursor
  executors_,  \* slots whose thread and queue exist
  stopped_,
  queue,       \* execute_queue of every slot
  worker,      \* where WorkingThread of every slot is
  running,     \* the request each worker holds, Null between requests
  caller,      \* where HandleRequest(r) is
  target,      \* target_exector chosen for r
  done_,       \* done_ of every request
  status_,     \* outcome of OnExecute: "none", "ok" or "error"
  returned,    \* what HandleRequest(r) returned: "none", "ok" or "error"
  stopper,     \* where each Stop() call is
  todo,        \* slots a Stop() call has still to post to, then to join
  joined,      \* slots whose thread has been joined
  late,        \* history: requests put behind a null request
  lateCalls    \* never changes: may calls and other Stops come once a Stop() has begun?

requestVars == <<caller, target, done_, status_, returned, late>>
execVars == <<mtx_, current_, executors_, queue, worker, running>>
stopVars == <<stopped_, stopper, todo, joined>>
vars == <<requestVars, execVars, stopVars>>

WorkerStates == {"none", "take", "execute", "done", "notify", "exited"}
CallerStates == {"start", "enqueue", "put", "wait", "blocking", "asleep",
                 "returned"}
StopperStates == {"start", "lock", "post", "join", "returned", "threw"}
Outcomes == {"none", "ok", "error"}

TypeOK ==
  /\ mtx_ \subseteq Requests \cup Stoppers
  /\ Cardinality(mtx_) <= 1
  /\ current_ \in Slots
  /\ executors_ \subseteq Slots
  /\ stopped_ \in BOOLEAN
  /\ queue \in [Slots -> Seq(Requests \cup {Null})]
  /\ \A i \in Slots : Len(queue[i]) <= Capacity
  /\ worker \in [Slots -> WorkerStates]
  /\ running \in [Slots -> Requests \cup {Null}]
  /\ caller \in [Requests -> CallerStates]
  /\ target \in [Requests -> Slots \cup {Parallel}]
  /\ done_ \in [Requests -> BOOLEAN]
  /\ status_ \in [Requests -> Outcomes]
  /\ returned \in [Requests -> Outcomes]
  /\ stopper \in [Stoppers -> StopperStates]
  /\ todo \in [Stoppers -> SUBSET Slots]
  /\ joined \subseteq Slots
  /\ late \subseteq Requests

Init ==
  /\ mtx_ = {}
  /\ current_ = 0
  /\ executors_ = {}
  /\ stopped_ = FALSE
  /\ queue = [i \in Slots |-> <<>>]
  /\ worker = [i \in Slots |-> "none"]
  /\ running = [i \in Slots |-> Null]
  /\ caller = [r \in Requests |-> "start"]
  /\ target = [r \in Requests |-> Parallel]
  /\ done_ = [r \in Requests |-> FALSE]
  /\ status_ = [r \in Requests |-> "none"]
  /\ returned = [r \in Requests |-> "none"]
  /\ stopper = [s \in Stoppers |-> "start"]
  /\ todo = [s \in Stoppers |-> {}]
  /\ joined = {}
  /\ late = {}
  /\ lateCalls \in LateModes

-----------------------------------------------------------------------------
(* HandleRequest and Enqueue. *)

Goto(r, pc) == caller' = [caller EXCEPT ![r] = pc]

\* The program destroys the executor, which is what calls Stop(), only when
\* no thread uses it any more; lateCalls admits explicit Stops that race
\* with callers and with each other.
StopBegun == \E s \in Stoppers : stopper[s] # "start"

HandleRequest(r) ==
  /\ caller[r] = "start"
  /\ StopBegun => lateCalls
  /\ Goto(r, "enqueue")
  /\ UNCHANGED <<target, done_, status_, returned, late, execVars, stopVars>>

NextSlot(i) == (i + 1) % Parallel

\* Lock mtx_, choose the executor (Routing() is -1 for every request) and
\* create it on first use.
Enqueue(r) ==
  /\ caller[r] = "enqueue" /\ mtx_ = {}
  /\ mtx_' = {r}
  /\ target' = [target EXCEPT ![r] = current_]
  /\ current_' = NextSlot(current_)
  /\ executors_' = executors_ \cup {current_}
  /\ worker' = IF current_ \in executors_ THEN worker
               ELSE [worker EXCEPT ![current_] = "take"]
  /\ Goto(r, "put")
  /\ UNCHANGED <<queue, running, done_, status_, returned, late, stopVars>>

CanPut(i) == Len(queue[i]) < Capacity

\* Put blocks while the queue is full, with mtx_ still held.
PutRequest(r) ==
  LET i == target[r] IN
  /\ caller[r] = "put" /\ CanPut(i)
  /\ queue' = [queue EXCEPT ![i] = Append(@, r)]
  /\ late' = IF \E s \in Stoppers : stopper[s] \in {"post", "join", "returned", "threw"}
             THEN late \cup {r} ELSE late
  /\ mtx_' = {}
  /\ \/ /\ r \in Async
        /\ Goto(r, "returned")
        /\ returned' = [returned EXCEPT ![r] = "ok"]
     \/ /\ r \notin Async
        /\ Goto(r, "wait")
        /\ UNCHANGED returned
  /\ UNCHANGED <<current_, executors_, worker, running, target, done_, status_,
                 stopVars>>

-----------------------------------------------------------------------------
(* BaseRequest::WaitToFinish, under finish_mtx_. *)

CheckDone(r) ==
  /\ caller[r] = "wait"
  /\ \/ /\ done_[r]
        /\ Goto(r, "returned")
        /\ returned' = [returned EXCEPT ![r] = "ok"]
     \/ /\ ~done_[r]
        /\ Goto(r, "blocking")
        /\ UNCHANGED returned
  /\ UNCHANGED <<target, done_, status_, late, execVars, stopVars>>

\* wait() releases finish_mtx_ and joins the condition variable's waiters.
Block(r) ==
  /\ caller[r] = "blocking"
  /\ Goto(r, "asleep")
  /\ UNCHANGED <<target, done_, status_, returned, late, execVars, stopVars>>

SpuriousWakeup(r) ==
  /\ caller[r] = "asleep"
  /\ Goto(r, "wait")
  /\ UNCHANGED <<target, done_, status_, returned, late, execVars, stopVars>>

-----------------------------------------------------------------------------
(* WorkingThread, BaseRequest::Execute and BaseRequest::Done. *)

WorkerAt(i, from, to) ==
  /\ worker[i] = from
  /\ worker' = [worker EXCEPT ![i] = to]

TakeRequest(i) ==
  /\ queue[i] # <<>>
  /\ LET r == Head(queue[i])
     IN  /\ WorkerAt(i, "take", IF r = Null THEN "exited" ELSE "execute")
         /\ running' = [running EXCEPT ![i] = r]
         /\ queue' = [queue EXCEPT ![i] = Tail(@)]
  /\ UNCHANGED <<mtx_, current_, executors_, requestVars, stopVars>>

OnExecute(i) ==
  /\ WorkerAt(i, "execute", "done")
  /\ \E s \in {"ok", "error"} :
       status_' = [status_ EXCEPT ![running[i]] = s]
  /\ UNCHANGED <<mtx_, current_, executors_, queue, running,
                 caller, target, done_, returned, late, stopVars>>

\* Variant: a failed request leaves the worker's loop without Done().
SetDoneIfOk(i) ==
  /\ WorkerAt(i, "done", "notify")
  /\ done_' = [done_ EXCEPT ![running[i]] = status_[running[i]] = "ok"]
  /\ UNCHANGED <<mtx_, current_, executors_, queue, running,
                 caller, target, status_, returned, late, stopVars>>

\* done_ = true, with no lock held.
SetDone(i) ==
  /\ WorkerAt(i, "done", "notify")
  /\ done_' = [done_ EXCEPT ![running[i]] = TRUE]
  /\ UNCHANGED <<mtx_, current_, executors_, queue, running,
                 caller, target, status_, returned, late, stopVars>>

\* finish_cond_.notify_all(), with no lock held; then the loop goes round.
Notify(i) ==
  LET r == running[i] IN
  /\ WorkerAt(i, "notify", "take")
  /\ running' = [running EXCEPT ![i] = Null]
  /\ caller' = IF caller[r] = "asleep" THEN [caller EXCEPT ![r] = "wait"]
               ELSE caller
  /\ UNCHANGED <<mtx_, current_, executors_, queue,
                 target, done_, status_, returned, late, stopVars>>

-----------------------------------------------------------------------------
(* Stop. *)

StopperAt(s, from, to) ==
  /\ stopper[s] = from
  /\ stopper' = [stopper EXCEPT ![s] = to]

\* if (stopped_) return;  -- read without the lock.
StopBegin(s) ==
  /\ lateCalls \/ (~StopBegun /\ \A r \in Requests : caller[r] \in {"start", "returned"})
  /\ StopperAt(s, "start", IF stopped_ THEN "returned" ELSE "lock")
  /\ UNCHANGED <<stopped_, todo, joined, execVars, requestVars>>

StopLock(s) ==
  /\ mtx_ = {}
  /\ mtx_' = {s}
  /\ StopperAt(s, "lock", "post")
  /\ todo' = [todo EXCEPT ![s] = executors_]
  /\ UNCHANGED <<stopped_, joined, current_, executors_, queue, worker,
                 running, requestVars>>

\* Put(nullptr) to the executors, in the order of the map.
StopPost(s) ==
  /\ stopper[s] = "post"
  /\ \/ \E i \in todo[s] :
          /\ \A j \in todo[s] : i <= j
          /\ CanPut(i)
          /\ queue' = [queue EXCEPT ![i] = Append(@, Null)]
          /\ todo' = [todo EXCEPT ![s] = @ \ {i}]
          /\ UNCHANGED stopper
     \/ /\ todo[s] = {}
        /\ stopper' = [stopper EXCEPT ![s] = "join"]
        /\ todo' = [todo EXCEPT ![s] = executors_]
        /\ UNCHANGED queue
  /\ UNCHANGED <<stopped_, joined, mtx_, current_, executors_, worker,
                 running, requestVars>>

\* join() waits for the thread to exit; on a thread joined before, it throws
\* std::system_error and the lock is released on the way out.
StopJoin(s) ==
  /\ stopper[s] = "join"
  /\ \E i \in todo[s] :
       /\ \A j \in todo[s] : i <= j
       /\ \/ /\ i \notin joined /\ worker[i] = "exited"
             /\ joined' = joined \cup {i}
             /\ todo' = [todo EXCEPT ![s] = @ \ {i}]
             /\ UNCHANGED <<mtx_, stopper>>
          \/ /\ i \in joined
             /\ stopper' = [stopper EXCEPT ![s] = "threw"]
             /\ mtx_' = {}
             /\ UNCHANGED <<joined, todo>>
  /\ UNCHANGED <<stopped_, current_, executors_, queue, worker, running,
                 requestVars>>

\* Variant: Stop() returns once the null requests are posted.
StopReturnUnjoined(s) ==
  /\ stopper[s] = "join"
  /\ StopperAt(s, "join", "returned")
  /\ stopped_' = TRUE
  /\ mtx_' = {}
  /\ UNCHANGED <<todo, joined, current_, executors_, queue, worker, running,
                 requestVars>>

StopReturn(s) ==
  /\ todo[s] = {}
  /\ StopperAt(s, "join", "returned")
  /\ stopped_' = TRUE
  /\ mtx_' = {}
  /\ UNCHANGED <<todo, joined, current_, executors_, queue, worker, running,
                 requestVars>>

-----------------------------------------------------------------------------
CallerStep(r) == Enqueue(r) \/ PutRequest(r) \/ CheckDone(r) \/ Block(r)

WorkerStep(i) == TakeRequest(i) \/ OnExecute(i) \/ SetDone(i) \/ Notify(i)

StopperStep(s) == StopLock(s) \/ StopPost(s) \/ StopJoin(s) \/ StopReturn(s)

ExecutorStep ==
  \/ \E r \in Requests : HandleRequest(r) \/ CallerStep(r) \/ SpuriousWakeup(r)
  \/ \E i \in Slots : WorkerStep(i)
  \/ \E s \in Stoppers : StopBegin(s) \/ StopperStep(s)

Next == ExecutorStep /\ UNCHANGED lateCalls

Spec == Init /\ [][Next]_<<vars, lateCalls>>

\* Threads that can run are scheduled, and the mutex is granted to a thread
\* that keeps asking for it.  No thread is obliged to call HandleRequest or
\* Stop, and no spurious wake-up is relied upon.
Fairness ==
  /\ \A r \in Requests :
       /\ SF_vars(Enqueue(r))
       /\ WF_vars(PutRequest(r) \/ CheckDone(r) \/ Block(r))
  /\ \A i \in Slots : WF_vars(WorkerStep(i))
  /\ \A s \in Stoppers :
       /\ SF_vars(StopLock(s))
       /\ WF_vars(StopPost(s) \/ StopJoin(s) \/ StopReturn(s))

FairSpec == Spec /\ Fairness

-----------------------------------------------------------------------------
(* Properties. *)

Accepted == {r \in Requests : caller[r] \notin {"start", "enqueue", "put"}}

\* When Stop() has completed, every request put before its null requests has
\* been executed: the null is queued behind it and the thread is joined. If
\* no call came after it, moreover, nothing is left that the destruction of
\* executors_ would wait for or terminate on: no queued request (whose
\* destructor waits for done_) and no joinable thread. And a thread that
\* blocks in Put with mtx_ held, and so blocks every other caller and Stop(),
\* blocks on the queue of a worker that is still there to make room.
StopDrains ==
  /\ TypeOK
  /\ stopped_ => \A r \in Accepted \ late : done_[r]
  /\ stopped_ /\ ~lateCalls => \A i \in executors_ : queue[i] = <<>> /\ i \in joined
  /\ \A r \in Requests :
       caller[r] = "put" /\ ~lateCalls => worker[target[r]] \notin {"none", "exited"}

\* Every request accepted before Stop() is executed in the end, and Stop()
\* returns (or throws, when a second Stop() joins a joined thread).
ExecutedAndStopped ==
  /\ \A r \in Requests : (r \in Accepted \ late) ~> done_[r]
  /\ \A s \in Stoppers :
       stopper[s] # "start" /\ ~lateCalls ~> stopper[s] \in {"returned", "threw"}

\* A synchronous HandleRequest returns once its request has been executed.
SyncCallReturns ==
  \A r \in Requests : (done_[r] /\ r \notin Async) ~> caller[r] = "returned"
=============================================================================
