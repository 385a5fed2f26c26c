----------------------------- MODULE TpccTasks -----------------------------
(***************************************************************************)
(* The benchmark of duckdb_lab: main() makes TPC-C contexts with the       *)
(* TpccFactory and enqueues a Task for each; the workers of the ThreadPool *)
(* run the tasks (Task.cpp), each with a Driver borrowed from the Runner   *)
(* (runner.h), and count the outcome in the Collector (Collector.h), whose *)
(* summary is printed once the pool is destroyed.                          *)
(*                                                                         *)
(* The pool is the bounded first-in first-out queue that ThreadPool is     *)
(* shown to be.  Of a transaction only its course is kept: the statements  *)
(* succeed, one of them fails, or an exception is thrown; TpccDriver has   *)
(* their effect.  A connection of DuckDB (external) is in a transaction or *)
(* not: COMMIT and ROLLBACK throw outside of one, and a COMMIT that fails  *)
(* ends the transaction.                                                   *)
(***************************************************************************)
EXTENDS Naturals, Sequences, FiniteSets, FiniteSetsExt, Functions

CONSTANTS
  Workers,        \* threads of the pool
  Drivers,        \* one is registered for each worker
  Warehouses,     \* 1 .. scale factor; wh_start_ is 1
  Percent,        \* how many contexts of 100 are of each type
  NumTasks,       \* FLAGS_num
  QueueSize,      \* max_queue_size_ of the pool
  CommitMayFail   \* can a COMMIT fail?

Types == {"STOCK_LEVEL", "DELIVERY", "ORDER_STATUS", "PAYMENT", "NEW_ORDER"}
TaskIds == 1 .. NumTasks
wh_start_ == 1

ASSUME TpccAssumption ==
  /\ IsFiniteSet(Workers) /\ IsFiniteSet(Drivers)
  /\ Cardinality(Drivers) = Cardinality(Workers) /\ Workers # {}
  /\ wh_start_ \in Warehouses
  /\ NumTasks \in Nat /\ QueueSize \in Nat \ {0}
  /\ CommitMayFail \in BOOLEAN

\* TpccSettings::IsValid, without which TpccFactory::Build returns nullptr.
IsValid ==
  /\ Percent \in [Types -> 0 .. 100]
  /\ FoldFunction(+, 0, Percent) = 100

ASSUME SettingsAssumption == IsValid

VARIABLES
  main,        \* where main() is
  type,        \* type_ of each context made, in order
  w_id,        \* w_id of the context for which a warehouse is looked for
  queue,       \* the pool's queue of task ids
  in_idle_,    \* the Runner's drivers that nobody uses
  tx,          \* is the connection of a driver in a transaction?
  pc,          \* where each worker is
  job,         \* the task each worker runs
  driver,      \* the driver each worker uses, {} for none
  rolledback,  \* tasks with has_rollbacked_
  metric,      \* entries_ of each Metric: [commits, rollbacks]
  committed,   \* history: tasks whose transaction was committed
  thrown       \* history: tasks whose Run was left by an exception

vars == <<main, type, w_id, queue, in_idle_, tx, pc, job, driver, rolledback,
          metric, committed, thrown>>

TypeOK ==
  /\ main \in {"next", "pick", "enqueue", "join", "done"}
  /\ type \in Seq(Types) /\ Len(type) <= NumTasks
  /\ w_id \in Warehouses
  /\ queue \in Seq(TaskIds) /\ Len(queue) <= QueueSize
  /\ in_idle_ \in Seq(Drivers)
  /\ tx \in [Drivers -> BOOLEAN]
  /\ pc \in [Workers -> {"pool", "use", "begin", "query", "commit", "catch",
                         "record", "release", "exit"}]
  /\ job \in [Workers -> TaskIds \cup {0}]
  /\ driver \in [Workers -> SUBSET Drivers]
  /\ \A w \in Workers : Cardinality(driver[w]) <= 1
  /\ rolledback \subseteq TaskIds
  /\ metric \in [Types -> [commits : Nat, rollbacks : Nat]]
  /\ committed \subseteq TaskIds /\ thrown \subseteq TaskIds

Init ==
  /\ main = "next"
  /\ type = <<>>
  /\ w_id = wh_start_
  /\ queue = <<>>
  /\ in_idle_ \in {s \in [1 .. Cardinality(Drivers) -> Drivers] : IsInjective(s)}
  /\ tx = [d \in Drivers |-> FALSE]
  /\ pc = [w \in Workers |-> "pool"]
  /\ job = [w \in Workers |-> 0]
  /\ driver = [w \in Workers |-> {}]
  /\ rolledback = {}
  /\ metric = [t \in Types |-> [commits |-> 0, rollbacks |-> 0]]
  /\ committed = {}
  /\ thrown = {}

-----------------------------------------------------------------------------
(* main() and the factory. *)

SlUpper == Percent["STOCK_LEVEL"]
DUpper == SlUpper + Percent["DELIVERY"]
OsUpper == DUpper + Percent["ORDER_STATUS"]
PUpper == OsUpper + Percent["PAYMENT"]

TypeOf(rand_val) ==
  CASE rand_val <= SlUpper -> "STOCK_LEVEL"
    [] rand_val > SlUpper /\ rand_val <= DUpper -> "DELIVERY"
    [] rand_val > DUpper /\ rand_val <= OsUpper -> "ORDER_STATUS"
    [] rand_val > OsUpper /\ rand_val <= PUpper -> "PAYMENT"
    [] OTHER -> "NEW_ORDER"

\* A payment goes through another warehouse in 15 of 100 cases.
NextContext ==
  /\ main = "next" /\ Len(type) < NumTasks
  /\ \E rand_val \in 1 .. 100, w \in Warehouses, remote \in BOOLEAN :
       LET t == TypeOf(rand_val) IN
       /\ type' = Append(type, t)
       /\ remote => t = "PAYMENT" /\ Cardinality(Warehouses) # 1
       /\ w_id' = IF remote THEN w ELSE wh_start_
       /\ main' = IF remote THEN "pick" ELSE "enqueue"
  /\ UNCHANGED <<queue, in_idle_, tx, pc, job, driver, rolledback, metric,
                 committed, thrown>>

\* One turn of the loop that looks for another warehouse: the random number
\* is drawn between wh_start_ and wh_start_.
PickWarehouse ==
  /\ main = "pick"
  /\ IF wh_start_ # w_id
       THEN main' = "enqueue" /\ w_id' = wh_start_
       ELSE UNCHANGED <<main, w_id>>
  /\ UNCHANGED <<type, queue, in_idle_, tx, pc, job, driver, rolledback,
                 metric, committed, thrown>>

Enqueue ==
  /\ main = "enqueue" /\ Len(queue) < QueueSize
  /\ queue' = Append(queue, Len(type))
  /\ main' = "next"
  /\ UNCHANGED <<type, w_id, in_idle_, tx, pc, job, driver, rolledback, metric,
                 committed, thrown>>

DestroyPool ==
  /\ main = "next" /\ Len(type) = NumTasks
  /\ main' = "join"
  /\ UNCHANGED <<type, w_id, queue, in_idle_, tx, pc, job, driver, rolledback,
                 metric, committed, thrown>>

\* The workers are joined; main prints the summary and returns.
Joined ==
  /\ main = "join"
  /\ \A w \in Workers : pc[w] = "exit"
  /\ main' = "done"
  /\ UNCHANGED <<type, w_id, queue, in_idle_, tx, pc, job, driver, rolledback,
                 metric, committed, thrown>>

-----------------------------------------------------------------------------
(* The pool's workers and the Runner. *)

Goto(w, to) == pc' = [pc EXCEPT ![w] = to]

Take(w) ==
  /\ pc[w] = "pool"
  /\ \/ /\ queue # <<>>
        /\ job' = [job EXCEPT ![w] = Head(queue)]
        /\ queue' = Tail(queue)
        /\ Goto(w, "use")
     \/ /\ queue = <<>> /\ main \in {"join", "done"}
        /\ Goto(w, "exit")
        /\ UNCHANGED <<job, queue>>
  /\ UNCHANGED <<main, type, w_id, in_idle_, tx, driver, rolledback, metric,
                 committed, thrown>>

Back == in_idle_[Len(in_idle_)]

\* Task::Run asks until Runner::Use returns a driver.
Use(w) ==
  /\ pc[w] = "use" /\ in_idle_ # <<>>
  /\ driver' = [driver EXCEPT ![w] = {Back}]
  /\ in_idle_' = SubSeq(in_idle_, 1, Len(in_idle_) - 1)
  /\ Goto(w, "begin")
  /\ UNCHANGED <<main, type, w_id, queue, tx, job, rolledback, metric,
                 committed, thrown>>

-----------------------------------------------------------------------------
(* The course of a transaction. *)

Conn(w) == CHOOSE d \in Drivers : d \in driver[w]

\* START TRANSACTION.
Begin(w) ==
  /\ pc[w] = "begin"
  /\ tx' = [tx EXCEPT ![Conn(w)] = TRUE]
  /\ Goto(w, "query")
  /\ UNCHANGED <<main, type, w_id, queue, in_idle_, job, driver, rolledback,
                 metric, committed, thrown>>

\* Variant: the rollback is recorded and not sent.
ForceRollBackFlagOnly(w, ok, throws) ==
  /\ UNCHANGED tx
  /\ rolledback' = rolledback \cup {job[w]}
  /\ Goto(w, ok)

\* Driver::ForceRollBack: Rollback() throws outside of a transaction.
ForceRollBack(w, ok, throws) ==
  \/ /\ tx[Conn(w)]
     /\ tx' = [tx EXCEPT ![Conn(w)] = FALSE]
     /\ rolledback' = rolledback \cup {job[w]}
     /\ Goto(w, ok)
  \/ /\ ~tx[Conn(w)]
     /\ Goto(w, throws)
     /\ UNCHANGED <<tx, rolledback>>

\* The statements of the transaction: all succeed, or one fails and
\* CHECK_ROLLBACK rolls back, or an exception leaves the Do function.
Query(w) ==
  /\ pc[w] = "query"
  /\ \/ Goto(w, "commit") /\ UNCHANGED <<tx, rolledback>>
     \/ ForceRollBack(w, "record", "catch")
     \/ Goto(w, "catch") /\ UNCHANGED <<tx, rolledback>>
  /\ UNCHANGED <<main, type, w_id, queue, in_idle_, job, driver, metric,
                 committed, thrown>>

Commit(w) ==
  /\ pc[w] = "commit"
  /\ tx' = [tx EXCEPT ![Conn(w)] = FALSE]
  /\ \/ Goto(w, "record") /\ committed' = committed \cup {job[w]}
     \/ CommitMayFail /\ Goto(w, "catch") /\ UNCHANGED committed
  /\ UNCHANGED <<main, type, w_id, queue, in_idle_, job, driver, rolledback,
                 metric, thrown>>

\* catch (std::exception&): what ForceRollBack throws there leaves Run() and
\* ends in the task's future; neither the entry nor the release happens.
Catch(w) ==
  /\ pc[w] = "catch"
  /\ ForceRollBack(w, "record", "pool")
  /\ IF tx[Conn(w)]
       THEN UNCHANGED <<driver, thrown>>
       ELSE /\ driver' = [driver EXCEPT ![w] = {}]
            /\ thrown' = thrown \cup {job[w]}
  /\ UNCHANGED <<main, type, w_id, queue, in_idle_, job, metric, committed>>

-----------------------------------------------------------------------------
(* The Collector. *)

\* The Metric an entry of each type is recorded in.
MetricOf(t) == IF t = "PAYMENT" THEN "DELIVERY" ELSE t

\* Variant: is_commit_ keeps its default.
RecordCommit(w) ==
  /\ pc[w] = "record"
  /\ metric' = [metric EXCEPT ![MetricOf(type[job[w]])].commits = @ + 1]
  /\ Goto(w, "release")
  /\ UNCHANGED <<main, type, w_id, queue, in_idle_, tx, job, driver, rolledback,
                 committed, thrown>>

Record(w) ==
  LET t == MetricOf(type[job[w]]) IN
  /\ pc[w] = "record"
  /\ metric' = IF job[w] \in rolledback
               THEN [metric EXCEPT ![t].rollbacks = @ + 1]
               ELSE [metric EXCEPT ![t].commits = @ + 1]
  /\ Goto(w, "release")
  /\ UNCHANGED <<main, type, w_id, queue, in_idle_, tx, job, driver, rolledback,
                 committed, thrown>>

\* Variant: a driver whose transaction was rolled back is not returned.
ReleaseCommitted(w) ==
  /\ pc[w] = "release"
  /\ in_idle_' = IF job[w] \in rolledback THEN in_idle_ ELSE Append(in_idle_, Conn(w))
  /\ driver' = [driver EXCEPT ![w] = {}]
  /\ Goto(w, "pool")
  /\ UNCHANGED <<main, type, w_id, queue, tx, job, rolledback, metric, committed,
                 thrown>>

Release(w) ==
  /\ pc[w] = "release"
  /\ in_idle_' = Append(in_idle_, Conn(w))
  /\ driver' = [driver EXCEPT ![w] = {}]
  /\ Goto(w, "pool")
  /\ UNCHANGED <<main, type, w_id, queue, tx, job, rolledback, metric, committed,
                 thrown>>

-----------------------------------------------------------------------------
MainStep == NextContext \/ PickWarehouse \/ Enqueue \/ DestroyPool \/ Joined

WorkerStep(w) ==
  \/ Take(w) \/ Use(w) \/ Begin(w) \/ Query(w) \/ Commit(w) \/ Catch(w)
  \/ Record(w) \/ Release(w)

Next == MainStep \/ \E w \in Workers : WorkerStep(w)

Spec == Init /\ [][Next]_vars

-----------------------------------------------------------------------------
(* Properties. *)

Places(d) ==
  Cardinality({i \in DOMAIN in_idle_ : in_idle_[i] = d})
    + Cardinality({w \in Workers : d \in driver[w]})

\* A driver is idle or used by one worker, never both: no two transactions
\* share a connection.  A driver is lost only where the handler of Run throws,
\* one for each time it does.
DriverExclusive ==
  /\ \A d \in Drivers : Places(d) <= 1
  /\ Cardinality({d \in Drivers : Places(d) = 0}) = Cardinality(thrown)

\* Drivers are borrowed by one worker at a time and go back to the Runner
\* outside of a transaction, so that the next task does not start inside the
\* remains of the previous one.
DriversSound ==
  /\ TypeOK
  /\ DriverExclusive
  /\ \A d \in Range(in_idle_) : ~tx[d]

\* The sum of a field over all metrics.
Total(F(_)) ==
  F(metric["STOCK_LEVEL"]) + F(metric["DELIVERY"]) + F(metric["ORDER_STATUS"])
    + F(metric["PAYMENT"]) + F(metric["NEW_ORDER"])

\* When main() prints the summary every task that came to an end has one
\* entry, and the entries that count as commits are the transactions that were
\* committed, on whichever of the rollback paths the others ended.
SummaryCorrect ==
  main = "done" =>
    /\ Total(LAMBDA m : m.commits + m.rollbacks) = NumTasks - Cardinality(thrown)
    /\ Total(LAMBDA m : m.commits) = Cardinality(committed)

\* Once it has made a context, main() returns, all threads joined and no task
\* spinning for a driver, unless the handler of Run threw or the factory looks
\* for another warehouse.
MainReturns == main = "enqueue" ~> (main = "done" \/ thrown # {} \/ main = "pick")
=============================================================================
