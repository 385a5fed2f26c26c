----------------------------- MODULE ThreadPool -----------------------------
(***************************************************************************)
(* ThreadPool of duckdb_lab (ThreadPool.h): a bounded queue of tasks, the  *)
(* workers that run them, and a destructor that stops and joins them.      *)
(*                                                                         *)
(* Everybody waits on the one condition_: workers for a task or for stop,  *)
(* callers of enqueue for room.  The evaluation of a predicate and what    *)
(* follows it up to the end of the locked block are one step; notify_all   *)
(* comes after the lock was given up and is a step of its own.             *)
(*                                                                         *)
(* A task stands for its packaged_task: what it throws ends up in the      *)
(* future, so running it always returns to the worker's loop.              *)
(***************************************************************************)
EXTENDS Naturals, Sequences, Functions

CONSTANTS
  Clients,        \* threads that call enqueue
  Workers,        \* threads of the pool
  Owner,          \* the thread that destroys the pool
  Tasks,          \* tasks; each is enqueued at most once
  max_queue_size_

Threads == Clients \cup Workers \cup {Owner}

ASSUME PoolAssumption ==
  /\ Clients \cap Workers = {} /\ Owner \notin Clients \cup Workers
  /\ Workers # {}
  /\ max_queue_size_ \in Nat \ {0}

VARIABLES
  tasks_,    \* the queue
  stop,
  pc,        \* where each thread is
  asleep,    \* threads blocked in condition_.wait
  task,      \* the task a client enqueues or a worker runs
  accepted,  \* history: tasks enqueued, in order
  started,   \* history: tasks dequeued, in order
  ran        \* history: tasks whose run has ended

vars == <<tasks_, stop, pc, asleep, task, accepted, started, ran>>

ClientPCs == {"idle", "enqueue", "notify"}
WorkerPCs == {"loop", "notify", "run", "exit"}
OwnerPCs == {"alive", "notify", "join", "done"}

TypeOK ==
  /\ tasks_ \in Seq(Tasks) /\ Len(tasks_) <= max_queue_size_
  /\ stop \in BOOLEAN
  /\ pc \in [Threads -> ClientPCs \cup WorkerPCs \cup OwnerPCs]
  /\ asleep \subseteq Threads
  /\ task \in [Clients \cup Workers -> Tasks]
  /\ accepted \in Seq(Tasks)
  /\ started \in Seq(Tasks)
  /\ ran \subseteq Tasks

Init ==
  /\ tasks_ = <<>>
  /\ stop = FALSE
  /\ pc = [t \in Threads |-> IF t \in Clients THEN "idle"
                             ELSE IF t \in Workers THEN "loop" ELSE "alive"]
  /\ asleep = {}
  /\ task \in {[t \in Clients \cup Workers |-> x] : x \in Tasks}
  /\ accepted = <<>>
  /\ started = <<>>
  /\ ran = {}

Goto(t, to) == pc' = [pc EXCEPT ![t] = to]

\* The predicate is false: wait() gives up queue_mutex_ and blocks.
Sleep(t) ==
  /\ asleep' = asleep \cup {t}
  /\ UNCHANGED <<tasks_, stop, pc, task, accepted, started, ran>>

-----------------------------------------------------------------------------
(* enqueue. *)

Full == Len(tasks_) >= max_queue_size_

\* if (stop) throw ...
Refused == stop

CallEnqueue(c, x) ==
  /\ pc[c] = "idle"
  /\ x \notin Range(accepted)
  /\ \A d \in Clients : pc[d] = "enqueue" => task[d] # x
  /\ task' = [task EXCEPT ![c] = x]
  /\ Goto(c, "enqueue")
  /\ UNCHANGED <<tasks_, stop, asleep, accepted, started, ran>>

\* The locked block: wait for room, throw when stopped, else push the task.
Enqueue(c) ==
  /\ pc[c] = "enqueue" /\ c \notin asleep
  /\ \/ Full /\ Sleep(c)
     \/ /\ ~Full /\ Refused
        /\ Goto(c, "idle")
        /\ UNCHANGED <<tasks_, stop, asleep, task, accepted, started, ran>>
     \/ /\ ~Full /\ ~Refused
        /\ tasks_' = Append(tasks_, task[c])
        /\ accepted' = Append(accepted, task[c])
        /\ Goto(c, "notify")
        /\ UNCHANGED <<stop, asleep, task, started, ran>>

-----------------------------------------------------------------------------
(* Workers. *)

Empty == tasks_ = <<>>

\* Variant: a worker returns as soon as it sees stop.
QuitsAtStop == stop

\* if (stop && tasks_.empty()) return;
Quits == stop /\ Empty

Pop == Tail(tasks_)

\* Wait for a task or stop; return once stopped and drained, else pop one.
Take(w) ==
  /\ pc[w] = "loop" /\ w \notin asleep
  /\ \/ ~stop /\ Empty /\ Sleep(w)
     \/ /\ Quits
        /\ Goto(w, "exit")
        /\ UNCHANGED <<tasks_, stop, asleep, task, accepted, started, ran>>
     \/ /\ ~Quits /\ ~Empty
        /\ task' = [task EXCEPT ![w] = Head(tasks_)]
        /\ tasks_' = Pop
        /\ started' = Append(started, Head(tasks_))
        /\ Goto(w, "notify")
        /\ UNCHANGED <<stop, asleep, accepted, ran>>

Run(w) ==
  /\ pc[w] = "run"
  /\ ran' = ran \cup {task[w]}
  /\ Goto(w, "loop")
  /\ UNCHANGED <<tasks_, stop, asleep, task, accepted, started>>

-----------------------------------------------------------------------------
(* The destructor, and the notifications of everybody. *)

Stop ==
  /\ pc[Owner] = "alive"
  /\ stop' = TRUE
  /\ Goto(Owner, "notify")
  /\ UNCHANGED <<tasks_, asleep, task, accepted, started, ran>>

Join ==
  /\ pc[Owner] = "join"
  /\ \A w \in Workers : pc[w] = "exit"
  /\ Goto(Owner, "done")
  /\ UNCHANGED <<tasks_, stop, asleep, task, accepted, started, ran>>

\* Variant: notify_one.
NotifyOne(t) ==
  /\ pc[t] = "notify"
  /\ asleep' = IF asleep = {} THEN {} ELSE asleep \ {CHOOSE s \in asleep : TRUE}
  /\ Goto(t, IF t \in Clients THEN "idle" ELSE IF t \in Workers THEN "run" ELSE "join")
  /\ UNCHANGED <<tasks_, stop, task, accepted, started, ran>>

NotifyAll(t) ==
  /\ pc[t] = "notify"
  /\ asleep' = {}
  /\ Goto(t, IF t \in Clients THEN "idle" ELSE IF t \in Workers THEN "run" ELSE "join")
  /\ UNCHANGED <<tasks_, stop, task, accepted, started, ran>>

SpuriousWakeup(t) ==
  /\ t \in asleep
  /\ asleep' = asleep \ {t}
  /\ UNCHANGED <<tasks_, stop, pc, task, accepted, started, ran>>

-----------------------------------------------------------------------------
Next ==
  \/ \E c \in Clients : Enqueue(c) \/ \E x \in Tasks : CallEnqueue(c, x)
  \/ \E w \in Workers : Take(w) \/ Run(w)
  \/ Stop \/ Join
  \/ \E t \in Threads : NotifyAll(t) \/ SpuriousWakeup(t)

Spec == Init /\ [][Next]_vars

\* Every thread inside the pool's code is scheduled; nobody has to enqueue or
\* to destroy the pool.
Fairness ==
  /\ \A c \in Clients : WF_vars(Enqueue(c))
  /\ \A w \in Workers : WF_vars(Take(w)) /\ WF_vars(Run(w))
  /\ WF_vars(Join)
  /\ \A t \in Threads : WF_vars(NotifyAll(t))

FairSpec == Spec /\ Fairness

-----------------------------------------------------------------------------
(* Properties. *)

\* A thread sleeps although what it waits for is there only while some
\* notify_all is still to come: no wake-up is lost in the gap between the
\* end of the locked block and notify_all.
NoLostWakeup ==
  \A t \in asleep :
    \/ t \in Clients /\ Full
    \/ t \in Workers /\ Empty /\ ~stop
    \/ \E s \in Threads : pc[s] = "notify"

\* Tasks are started in the order in which they were accepted, none is lost
\* and none is started twice.
StartedInOrder == accepted = started \o tasks_

\* When the destructor returns, everything enqueue() accepted has run.
DestroyedAfterRun ==
  pc[Owner] = "done" => ran = Range(accepted)

\* Tasks run in the order of their acceptance, and the destructor waits for
\* the last of them, whoever sleeps, wakes or stops the pool meanwhile; the
\* queue never grows past its size.
TasksKept == TypeOK /\ StartedInOrder /\ DestroyedAfterRun

\* A call of enqueue returns or throws, also when it waits for room while
\* the pool is stopped.
EnqueueReturns ==
  \A c \in Clients : pc[c] = "enqueue" ~> pc[c] = "idle"

\* The destructor returns.
DestructorReturns == stop ~> pc[Owner] = "done"

\* No call of the pool waits for ever: not enqueue, not the destructor.
CallsReturn == EnqueueReturns /\ DestructorReturns
=============================================================================
