----------------------------- MODULE TimerPool -----------------------------
(***************************************************************************)
(* Server, TimerContext and Pool of asio_lab (main.cpp): the main thread   *)
(* runs the io_service, whose expired timers hand their handlers to a pool *)
(* of threads over a bounded queue and are armed again; when run() returns *)
(* it destroys the pool.                                                   *)
(*                                                                         *)
(* The pool has one condition variable for the full and the empty queue,   *)
(* and notify_one wakes any of those that sleep on it. A locked block is a *)
(* step. The io_service (external) runs expired timers first in first out. *)
(***************************************************************************)
EXTENDS Naturals, Sequences, FiniteSets

CONSTANTS
  PoolWorkers,
  MainThread,
  Timers,
  QueueBound     \* 8 in Enqueue

\* The code has 4 workers and room for 8.
ASSUME TimerPoolAssumption ==
  /\ MainThread \notin PoolWorkers /\ IsFiniteSet(PoolWorkers) /\ PoolWorkers # {}
  /\ QueueBound \in Nat /\ QueueBound >= Cardinality(PoolWorkers)

VARIABLES
  queue,       \* queue_: the timers whose handlers are to run
  terminated,  \* terminated_
  sleepers,    \* threads in cond_.wait
  workerAt,    \* each worker: "loop", "run" or "exit"
  handling,    \* the timer whose handler it runs or ran last
  mainAt,      \* the main thread: "poll", "enqueue", "notify", "ended", "terminated", "join", "destroyed"
  ready        \* expired timers; while the main thread is at one, it is the first

poolVars == <<queue, terminated, sleepers, workerAt, handling, mainAt, ready>>

\* notify_one: any one of those asleep, if there is one.
NotifyOne(s) == IF s = {} THEN sleepers' = s ELSE \E t \in s : sleepers' = s \ {t}

\* Variant: the queue is full one element too early.
FullEarly == Len(queue) >= QueueBound - 1

Full == Len(queue) >= QueueBound

-----------------------------------------------------------------------------
(* The main thread *)

Expire(x) ==
  /\ \A k \in DOMAIN ready : ready[k] # x
  /\ mainAt \in {"poll", "enqueue", "notify"}
  /\ ready' = Append(ready, x)
  /\ UNCHANGED <<queue, terminated, sleepers, workerAt, handling, mainAt>>

\* Reschedule begins with Enqueue.
Reschedule ==
  /\ mainAt = "poll" /\ ready # <<>>
  /\ mainAt' = "enqueue"
  /\ UNCHANGED <<queue, terminated, sleepers, workerAt, handling, ready>>

\* A terminated pool makes it throw; here the one thread that enqueues is the one that terminates.
Enqueue ==
  /\ mainAt = "enqueue" /\ MainThread \notin sleepers /\ ~terminated
  /\ \/ Full /\ sleepers' = sleepers \cup {MainThread} /\ UNCHANGED <<queue, mainAt>>
     \/ ~Full /\ queue' = Append(queue, Head(ready)) /\ mainAt' = "notify" /\ UNCHANGED sleepers
  /\ UNCHANGED <<terminated, workerAt, handling, ready>>

\* notify_one outside the lock, then the timer is armed again.
NotifyAndRearm ==
  /\ mainAt = "notify"
  /\ NotifyOne(sleepers)
  /\ mainAt' = "poll" /\ ready' = Tail(ready)
  /\ UNCHANGED <<queue, terminated, workerAt, handling>>

\* run() comes back with an error; the handlers still to be run are dropped with the io_service.
RunEnds ==
  /\ mainAt = "poll" /\ mainAt' = "ended"
  /\ UNCHANGED <<queue, terminated, sleepers, workerAt, handling, ready>>

\* ~Pool
Terminate ==
  /\ mainAt = "ended"
  /\ terminated' = TRUE /\ mainAt' = "terminated"
  /\ UNCHANGED <<queue, sleepers, workerAt, handling, ready>>

NotifyAll ==
  /\ mainAt = "terminated"
  /\ sleepers' = {} /\ mainAt' = "join"
  /\ UNCHANGED <<queue, terminated, workerAt, handling, ready>>

JoinWorkers ==
  /\ mainAt = "join" /\ \A w \in PoolWorkers : workerAt[w] = "exit"
  /\ mainAt' = "destroyed"
  /\ UNCHANGED <<queue, terminated, sleepers, workerAt, handling, ready>>

MainStep == Reschedule \/ Enqueue \/ NotifyAndRearm \/ Terminate \/ NotifyAll \/ JoinWorkers

-----------------------------------------------------------------------------
(* Workers: terminated_ ends them even when the queue is not empty. *)

WorkThread(w) ==
  /\ workerAt[w] = "loop" /\ w \notin sleepers
  /\ \/ /\ ~terminated /\ queue = <<>>
        /\ sleepers' = sleepers \cup {w} /\ UNCHANGED <<queue, workerAt, handling>>
     \/ /\ terminated
        /\ workerAt' = [workerAt EXCEPT ![w] = "exit"] /\ UNCHANGED <<queue, sleepers, handling>>
     \/ /\ ~terminated /\ queue # <<>>
        /\ workerAt' = [workerAt EXCEPT ![w] = "run"]
        /\ handling' = [handling EXCEPT ![w] = Head(queue)] /\ queue' = Tail(queue)
        /\ NotifyOne(sleepers)
  /\ UNCHANGED <<terminated, mainAt, ready>>

Handle(w) ==
  /\ workerAt[w] = "run"
  /\ workerAt' = [workerAt EXCEPT ![w] = "loop"]
  /\ UNCHANGED <<queue, terminated, sleepers, handling, mainAt, ready>>

WorkerStep(w) == WorkThread(w) \/ Handle(w)

-----------------------------------------------------------------------------
PoolInit ==
  /\ queue = <<>> /\ terminated = FALSE /\ sleepers = {} /\ ready = <<>>
  /\ workerAt = [w \in PoolWorkers |-> "loop"] /\ mainAt = "poll"
  /\ handling \in {[w \in PoolWorkers |-> x] : x \in Timers}

PoolNext == MainStep \/ RunEnds \/ (\E x \in Timers : Expire(x)) \/ \E w \in PoolWorkers : WorkerStep(w)

PoolSpec == PoolInit /\ [][PoolNext]_poolVars

-----------------------------------------------------------------------------
\* notify_one may wake a sleeper that has nothing to do, and the wakeup is then lost. With room
\* for as many handlers as there are workers that never leaves work and nobody awake: before the
\* pool is terminated, a handler in the queue has a worker that is awake or a notify that is
\* still to come, and the main thread sleeps only while a worker is awake.
PoolAwake ==
  ~terminated =>
    /\ queue # <<>> => mainAt = "notify" \/ \E w \in PoolWorkers : w \notin sleepers
    /\ MainThread \in sleepers => \E w \in PoolWorkers : w \notin sleepers

\* Reschedule gets its handler into the queue, a queued handler runs unless the pool is
\* terminated first, and ~Pool returns.
TimersRun ==
  /\ (mainAt = "enqueue") ~> (mainAt = "notify")
  /\ \A x \in Timers :
       (\E k \in DOMAIN queue : queue[k] = x)
         ~> (terminated \/ \E w \in PoolWorkers : workerAt[w] = "run" /\ handling[w] = x)
  /\ (mainAt = "ended") ~> (mainAt = "destroyed")
=============================================================================
