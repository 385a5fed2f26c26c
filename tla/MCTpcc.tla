------------------------------- MODULE MCTpcc -------------------------------
(***************************************************************************)
(* The benchmark on two levels: the tasks of the thread pool, of which a   *)
(* transaction is only its course, and the statements of transactions that *)
(* are open at once.  A behaviour follows one of them.                     *)
(***************************************************************************)
EXTENDS TpccTasks, TpccDriver

VARIABLE part

allVars == <<part, vars, driverVars>>

\* Two kinds of contexts: those that may need another warehouse, and others.
MCPercent == [t \in Types |-> CASE t = "PAYMENT" -> 43 [] t = "NEW_ORDER" -> 57
                                [] OTHER -> 0]

\* Amounts small enough to follow: a float has four bits, a stream one digit,
\* and an int is a multiple of ten.
Sign(x) == IF x < 0 THEN -1 ELSE 1
MCFloatOf(x) == LET a == Sign(x) * x IN IF a < 16 THEN x ELSE Sign(x) * 2 * ((a + 1) \div 2)
MCSixDigits(x) == LET a == Sign(x) * x IN IF a < 10 THEN x ELSE Sign(x) * 10 * ((a + 5) \div 10)
MCIntOf(x) == 10 * (x \div 10)

\* Every part starts as its module says and only the chosen one moves.
AllInit ==
  /\ part \in {"tasks", "transactions"}
  /\ Init
  /\ DriverInit

TasksPart == part = "tasks" /\ Next /\ UNCHANGED <<part, driverVars>>
DriverPart == part = "transactions" /\ DriverNext /\ UNCHANGED <<part, vars>>

AllNext == TasksPart \/ DriverPart

\* The threads run; a worker that asks for a driver is not passed over for
\* ever while there is one.
AllSpec ==
  /\ AllInit /\ [][AllNext]_allVars
  /\ WF_allVars(part = "tasks" /\ MainStep /\ UNCHANGED <<part, driverVars>>)
  /\ \A w \in Workers :
       WF_allVars(part = "tasks" /\ WorkerStep(w) /\ UNCHANGED <<part, driverVars>>)
=============================================================================
