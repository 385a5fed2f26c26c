--------------------------- MODULE BlockingQueue ---------------------------
(***************************************************************************)
(* BlockingQueue<T> (rocksdb_lab/BlockingQueue.{h,inl}, and the identical  *)
(* copy in duckdb_lab): a std::queue behind one mutex and two condition    *)
(* variables, full_ (waited on by Put) and empty_ (waited on by Take,      *)
(* Front and Back).                                                        *)
(*                                                                         *)
(* Every evaluation of a wait predicate and the code that follows it run   *)
(* under mtx, so one atomic step is either "predicate false: go to sleep"  *)
(* or "predicate true: do the operation, notify, release".  A thread that  *)
(* was notified, or woken spuriously, evaluates its predicate again.       *)
(* SetCapacity takes no lock and notifies nobody.                          *)
(***************************************************************************)
EXTENDS Naturals, Sequences

CONSTANTS
  Producers,    \* threads that call Put
  Consumers,    \* threads that call Take in a loop
  Observers,    \* threads that call Front or Back
  Items,        \* values put; each is put at most once
  InitCapacity, \* capacity_ of a new queue (32 in the code)
  Capacities    \* arguments SetCapacity is called with

Threads == Producers \cup Consumers \cup Observers

ASSUME ThreadAssumption ==
  /\ Producers \cap Consumers = {}
  /\ Producers \cap Observers = {}
  /\ Consumers \cap Observers = {}
ASSUME CapacityAssumption ==
  /\ InitCapacity \in Nat \ {0}
  /\ Capacities \subseteq Nat

VARIABLES
  queue_,     \* std::queue<T> queue_
  capacity_,  \* size_t capacity_
  op,         \* the call each thread is inside of, "Idle" outside
  arg,        \* the argument of each producer's Put
  asleep,     \* threads blocked in full_.wait or empty_.wait
  puts,       \* history: items pushed, in order
  taken       \* history: items returned by Take, in order

vars == <<queue_, capacity_, op, arg, asleep, puts, taken>>

Ops == {"Idle", "Put", "Take", "Front", "Back"}

TypeOK ==
  /\ queue_ \in Seq(Items)
  /\ capacity_ \in Nat \ {0}
  /\ op \in [Threads -> Ops]
  /\ arg \in [Producers -> Items]
  /\ asleep \subseteq Threads
  /\ puts \in Seq(Items)
  /\ taken \in Seq(Items)

Init ==
  /\ queue_ = <<>>
  /\ capacity_ = InitCapacity
  /\ op = [t \in Threads |-> "Idle"]
  /\ arg \in [Producers -> Items]
  /\ asleep = {}
  /\ puts = <<>>
  /\ taken = <<>>

-----------------------------------------------------------------------------
(* Condition variables. *)

Size == Len(queue_)
Empty == queue_ = <<>>

WaitsOnFull(t) == op[t] = "Put"

\* The sleepers left after full_.notify_all().
NotifyFull(S) == {t \in S : ~WaitsOnFull(t)}

\* Variant: notify_one, which wakes a single waiter of empty_.
NotifyEmptyOne(S) ==
  LET W == {t \in S : ~WaitsOnFull(t)}
  IN  IF W = {} THEN S ELSE S \ {CHOOSE t \in W : TRUE}

\* The sleepers left after empty_.notify_all().
NotifyEmpty(S) == {t \in S : WaitsOnFull(t)}

-----------------------------------------------------------------------------
(* Calls. *)

Call(t, name) ==
  /\ op[t] = "Idle"
  /\ op' = [op EXCEPT ![t] = name]

CallPut(p, x) ==
  /\ Call(p, "Put")
  /\ arg' = [arg EXCEPT ![p] = x]
  /\ \A i \in DOMAIN puts : puts[i] # x
  /\ \A q \in Producers : op[q] = "Put" => arg[q] # x
  /\ UNCHANGED <<queue_, capacity_, asleep, puts, taken>>

CallTake(c) ==
  /\ Call(c, "Take")
  /\ UNCHANGED <<queue_, capacity_, arg, asleep, puts, taken>>

CallPeek(o) ==
  /\ Call(o, "Front") \/ Call(o, "Back")
  /\ UNCHANGED <<queue_, capacity_, arg, asleep, puts, taken>>

Return(t) == op' = [op EXCEPT ![t] = "Idle"]

\* The predicate of t's wait is false: wait() releases mtx and blocks.
Sleep(t) ==
  /\ asleep' = asleep \cup {t}
  /\ UNCHANGED <<queue_, capacity_, op, arg, puts, taken>>

CanPut == Size < capacity_

Put(p) ==
  /\ op[p] = "Put" /\ p \notin asleep
  /\ \/ ~CanPut /\ Sleep(p)
     \/ /\ CanPut
        /\ queue_' = Append(queue_, arg[p])
        /\ puts' = Append(puts, arg[p])
        /\ asleep' = NotifyEmpty(asleep)
        /\ Return(p)
        /\ UNCHANGED <<capacity_, arg, taken>>

\* Variant: full_ is notified only when the queue was full.
TakeNotifiesIfFull(c) ==
  /\ op[c] = "Take" /\ c \notin asleep
  /\ \/ Empty /\ Sleep(c)
     \/ /\ ~Empty
        /\ taken' = Append(taken, Head(queue_))
        /\ queue_' = Tail(queue_)
        /\ asleep' = IF Size = capacity_ THEN NotifyFull(asleep) ELSE asleep
        /\ Return(c)
        /\ UNCHANGED <<capacity_, arg, puts>>

\* Variant: Take returns back() and pops the front.
TakeBack(c) ==
  /\ op[c] = "Take" /\ c \notin asleep
  /\ \/ Empty /\ Sleep(c)
     \/ /\ ~Empty
        /\ taken' = Append(taken, queue_[Len(queue_)])
        /\ queue_' = Tail(queue_)
        /\ asleep' = NotifyFull(asleep)
        /\ Return(c)
        /\ UNCHANGED <<capacity_, arg, puts>>

Take(c) ==
  /\ op[c] = "Take" /\ c \notin asleep
  /\ \/ Empty /\ Sleep(c)
     \/ /\ ~Empty
        /\ taken' = Append(taken, Head(queue_))
        /\ queue_' = Tail(queue_)
        /\ asleep' = NotifyFull(asleep)
        /\ Return(c)
        /\ UNCHANGED <<capacity_, arg, puts>>

\* Front() and Back(): wait for an item, copy it, leave the queue alone.
Peek(o) ==
  /\ op[o] \in {"Front", "Back"} /\ o \notin asleep
  /\ \/ Empty /\ Sleep(o)
     \/ /\ ~Empty
        /\ Return(o)
        /\ UNCHANGED <<queue_, capacity_, arg, asleep, puts, taken>>

SetCapacity(n) ==
  /\ capacity_' = IF n > 0 THEN n ELSE capacity_
  /\ UNCHANGED <<queue_, op, arg, asleep, puts, taken>>

SpuriousWakeup(t) ==
  /\ t \in asleep
  /\ asleep' = asleep \ {t}
  /\ UNCHANGED <<queue_, capacity_, op, arg, puts, taken>>

Next ==
  \/ \E p \in Producers : Put(p) \/ \E x \in Items : CallPut(p, x)
  \/ \E c \in Consumers : CallTake(c) \/ Take(c)
  \/ \E o \in Observers : CallPeek(o) \/ Peek(o)
  \/ \E n \in Capacities : SetCapacity(n)
  \/ \E t \in Threads : SpuriousWakeup(t)

Spec == Init /\ [][Next]_vars

\* A thread inside a call is scheduled again, and a consumer, as the
\* WorkingThread loop of the executor, calls Take again and again.
Fairness ==
  /\ \A p \in Producers : WF_vars(Put(p))
  /\ \A c \in Consumers : WF_vars(Take(c)) /\ WF_vars(CallTake(c))
  /\ \A o \in Observers : WF_vars(Peek(o))

FairSpec == Spec /\ Fairness

-----------------------------------------------------------------------------
(* Properties. *)

\* No taker sleeps on empty_ while an item is queued: every push is followed
\* by a notify_all under the mutex, so no wake-up is lost, and a peeking
\* thread cannot swallow the one meant for a taker.
NoTakerSleepsOnItem ==
  \A t \in asleep : ~WaitsOnFull(t) => Empty

\* A producer sleeps on full_ only while some item is queued, so that a Take
\* that will wake it is still to come; SetCapacity, which notifies nobody,
\* does not break this.
NoPutterSleepsOnEmpty ==
  \A t \in asleep : WaitsOnFull(t) => ~Empty

\* No wake-up is lost: never does a thread sleep for what is already there,
\* nor a producer together with a consumer.
WakeupsKept == NoTakerSleepsOnItem /\ NoPutterSleepsOnEmpty

\* The queue holds exactly what was put and not yet taken, in order.
Conservation == puts = taken \o queue_

Channel == INSTANCE FifoChannel WITH sent <- puts, received <- taken

\* The queue implements a first-in first-out channel.
ImplementsChannel == Channel!Spec

\* Every Put returns, whatever SetCapacity does meanwhile, as long as the
\* consumers keep taking.
PutReturns == \A p \in Producers : op[p] = "Put" ~> op[p] = "Idle"
=============================================================================
