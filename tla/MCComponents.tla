---------------------------- MODULE MCComponents ----------------------------
(* The smaller concurrent components, one at a time: part says which of     *)
(* them moves, the others stay as they start.                               *)
EXTENDS Ports, HierarchyGuard, AsyncCalls, TracedCalls, TimerPool, Outbox, TableService

SameIndex == [i \in Calls |-> i]

\* Configuration files with and without an address, and with no tracer, one that loads, and one
\* that does not; and no file at all.
LibraryThatFails == <<8>>
Files ==
  {NoFile} \cup
  {[ConfigClear EXCEPT !.host = h, !.tracer_library = l] : h \in {<<>>, <<1>>}, l \in {<<>>, <<9>>, LibraryThatFails}}
\* One client asks for a type the server knows, the others for one it does not.
Types == [c \in Clients |-> IF c = CHOOSE x \in Clients : TRUE THEN 1 ELSE 3]

\* The names of tables are interchangeable, so that they may be made in the order of their names;
\* once two calls have overlapped there are at most three calls and three starts.
TablesBound ==
  /\ DOMAIN tableOf = 1 .. Cardinality(DOMAIN tableOf)
  /\ overlap => rpcCount <= 3 /\ starts <= 3

VARIABLE part

allVars == <<portVars, guardVars, asyncVars, tracedVars, poolVars, outVars, serviceVars, part>>

Init ==
  /\ part \in {"ports", "guards", "async", "traced", "timers", "outbox", "tables"}
  /\ PortInit /\ GuardInit /\ AsyncInit /\ TracedInit /\ PoolInit /\ OutInit /\ ServiceInit
  /\ part # "timers" => \A w \in PoolWorkers : handling[w] = CHOOSE x \in Timers : TRUE

Next ==
  \/ part = "ports" /\ PortNext
     /\ UNCHANGED <<guardVars, asyncVars, tracedVars, poolVars, outVars, serviceVars, part>>
  \/ part = "guards" /\ GuardNext
     /\ UNCHANGED <<portVars, asyncVars, tracedVars, poolVars, outVars, serviceVars, part>>
  \/ part = "async" /\ AsyncNext
     /\ UNCHANGED <<portVars, guardVars, tracedVars, poolVars, outVars, serviceVars, part>>
  \/ part = "traced" /\ TracedNext
     /\ UNCHANGED <<portVars, guardVars, asyncVars, poolVars, outVars, serviceVars, part>>
  \/ part = "timers" /\ PoolNext
     /\ UNCHANGED <<portVars, guardVars, asyncVars, tracedVars, outVars, serviceVars, part>>
  \/ part = "outbox" /\ OutNext
     /\ UNCHANGED <<portVars, guardVars, asyncVars, tracedVars, poolVars, serviceVars, part>>
  \/ part = "tables" /\ ServiceNext /\ TablesBound'
     /\ UNCHANGED <<portVars, guardVars, asyncVars, tracedVars, poolVars, outVars, part>>

\* Threads that can go on do. A free mutex need not go to the thread that waited longest; gRPC
\* delivers what it has, and that calls fail is not assumed; neither is it that timers expire,
\* nor that run() of the io_service ends.
GuardFairness == \A t \in GuardThreads : WF_guardVars(part = "guards" /\ GuardStep(t))

AsyncFairness ==
  /\ WF_asyncVars(part = "async" /\ \E e \in events : HandleRpcs(e))
  /\ WF_asyncVars(part = "async" /\ Answer)
  /\ \A i \in Calls : /\ WF_asyncVars(part = "async" /\ \E c \in DOMAIN data : MatchRequest(i, c))
                      /\ WF_asyncVars(part = "async" /\ Complete(i))
                      /\ WF_asyncVars(part = "async" /\ DoRun(i))
  /\ WF_asyncVars(part = "async" /\ (AsyncGetIndex \/ Stop \/ Join))
  /\ WF_asyncVars(part = "async" /\ LoopEnds)

PoolFairness ==
  /\ WF_poolVars(part = "timers" /\ MainStep)
  /\ \A w \in PoolWorkers : WF_poolVars(part = "timers" /\ WorkerStep(w))

Spec == Init /\ [][Next]_allVars /\ GuardFairness /\ AsyncFairness /\ PoolFairness
=============================================================================
