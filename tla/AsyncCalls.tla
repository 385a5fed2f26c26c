----------------------------- MODULE AsyncCalls -----------------------------
(***************************************************************************)
(* The asynchronous client and server of grpc_lab. The client's main       *)
(* thread issues calls and shuts its completion queue down while a loop    *)
(* thread takes the answers out of it; the server's one thread takes tags, *)
(* which are CallData objects, out of its own queue. gRPC, which matches a *)
(* call with a RequestGet, carries messages and fails calls, is external.  *)
(***************************************************************************)
EXTENDS DemoMessages, FiniteSets

CONSTANTS
  NumCalls,      \* calls the client issues (9 in main)
  QueryIndex,    \* the index each call asks for
  CallDatas,     \* addresses of CallData objects
  NoCallData     \* no CallData is being processed

Calls == 1 .. NumCalls

ASSUME CallAssumption ==
  /\ NumCalls \in Nat /\ DOMAIN QueryIndex = Calls
  /\ IsFiniteSet(CallDatas) /\ Cardinality(CallDatas) > NumCalls /\ NoCallData \notin CallDatas

VARIABLES
  issued,    \* calls the main thread has issued
  clientPc,  \* the main thread: "issuing", "stopped" (cq_.Shutdown called), "returned"
  loop,      \* the loop thread: "running" or "ended"
  responses, \* RpcResponse objects that are alive, one per call
  call,      \* each call: where it is, its request, its answer
  dumped,    \* what the loop has printed: call -> status and reply
  data,      \* live CallData: address -> status_, the call, request_
  events,    \* tags in the server's completion queue: <<CallData, ok>>
  current    \* the CallData that is answering, while it sleeps

clientVars == <<issued, clientPc, loop, responses, dumped>>
serverVars == <<data, events, current>>
asyncVars == <<clientVars, call, serverVars>>

-----------------------------------------------------------------------------
(* The messages *)

IndexName(n) == <<"index_", n>>
Query(i) == QuerySerialize([QueryClear EXCEPT !.index_type = QueryIndex[i]])
Reply(n) == IndexSerialize([IndexClear EXCEPT !.index_type = n, !.index_name = IndexName(n)])
QueryReceived(m, wire) == FoldLeft(QueryParse, m, wire)
ReplyReceived(wire) == FoldLeft(IndexParse, IndexClear, wire)

\* The indexes asked for are numbers that the messages can carry, as those of main are.
ASSUME CarriedAssumption ==
  \A i \in Calls :
    /\ QueryReceived(QueryClear, Query(i)).index_type = QueryIndex[i]
    /\ ReplyReceived(Reply(QueryIndex[i])).index_type = QueryIndex[i]
    /\ ReplyReceived(Reply(QueryIndex[i])).index_name = IndexName(QueryIndex[i])

-----------------------------------------------------------------------------
(* The server *)

NewCallData(d, c) == [x \in DOMAIN d \cup {c} |-> IF x = c THEN [status |-> "PROCESS", serves |-> 0, request |-> QueryClear] ELSE d[x]]

\* Variant: no further CallData asks for the next request.
OnProcessAlone(c) ==
  /\ data[c].status = "PROCESS"
  /\ UNCHANGED data
  /\ current' = c

\* OnProcess: the next CallData, which asks for a request; then the answer.
OnProcess(c) ==
  /\ data[c].status = "PROCESS"
  /\ data' = NewCallData(data, CHOOSE n \in CallDatas \ DOMAIN data : TRUE)
  /\ current' = c

\* OnFinish deletes the object.
OnFinish(c) ==
  /\ data[c].status = "FINISH"
  /\ data' = [x \in DOMAIN data \ {c} |-> data[x]]
  /\ UNCHANGED current

\* HandleRpcs takes a tag; one that is not ok is only reported.
HandleRpcs(e) ==
  /\ current = NoCallData /\ e \in events
  /\ events' = events \ {e}
  /\ IF ~e[2] THEN UNCHANGED <<data, current>> ELSE OnProcess(e[1]) \/ OnFinish(e[1])
  /\ UNCHANGED <<clientVars, call>>

\* After the sleep the answer is written and Finish gives it to gRPC, for whom the call may be
\* gone.
Answer ==
  /\ current # NoCallData
  /\ LET n == data[current].request.index_type
         i == data[current].serves
     IN /\ data' = [data EXCEPT ![current].status = "FINISH"]
        /\ IF call[i].at = "serving"
           THEN /\ call' = [call EXCEPT ![i].at = "answered", ![i].wire = Reply(n)]
                /\ events' = events \cup {<<current, TRUE>>}
           ELSE \E ok \in BOOLEAN : events' = events \cup {<<current, ok>>} /\ UNCHANGED call
  /\ current' = NoCallData
  /\ UNCHANGED clientVars

-----------------------------------------------------------------------------
(* gRPC *)

\* A call reaches the server and is matched with a RequestGet.
MatchRequest(i, c) ==
  /\ call[i].at = "sent" /\ data[c].status = "PROCESS" /\ data[c].serves = 0
  /\ data' = [data EXCEPT ![c].serves = i, ![c].request = QueryReceived(@, call[i].wire)]
  /\ call' = [call EXCEPT ![i].at = "serving"]
  /\ events' = events \cup {<<c, TRUE>>}
  /\ UNCHANGED <<clientVars, current>>

\* The answer, or a status that is not OK, reaches the client: its tag is in the queue.
Complete(i) ==
  /\ call[i].at = "answered"
  /\ call' = [call EXCEPT ![i].at = "done"]
  /\ UNCHANGED <<clientVars, serverVars>>
Fail(i) ==
  /\ call[i].at \in {"sent", "serving", "answered"}
  /\ call' = [call EXCEPT ![i].at = "failed"]
  /\ UNCHANGED <<clientVars, serverVars>>

-----------------------------------------------------------------------------
(* The client *)

AsyncGetIndex ==
  /\ clientPc = "issuing" /\ Cardinality(issued) < NumCalls
  /\ LET i == Cardinality(issued) + 1
     IN /\ issued' = issued \cup {i} /\ responses' = responses \cup {i}
        /\ call' = [call EXCEPT ![i] = [at |-> "sent", wire |-> Query(i)]]
  /\ UNCHANGED <<clientPc, loop, dumped, serverVars>>

Stop ==
  /\ clientPc = "issuing" /\ issued = Calls
  /\ clientPc' = "stopped"
  /\ UNCHANGED <<issued, loop, responses, dumped, call, serverVars>>

\* DoRun prints and deletes the response behind each tag.
DoRun(i) ==
  /\ loop = "running" /\ call[i].at \in {"done", "failed"}
  /\ dumped' = [dumped EXCEPT ![i] = Append(@, [ok    |-> call[i].at = "done",
                                                alive |-> i \in responses,
                                                reply |-> ReplyReceived(IF call[i].at = "done" THEN call[i].wire ELSE <<>>)])]
  /\ responses' = responses \ {i}
  /\ call' = [call EXCEPT ![i].at = "gone"]
  /\ UNCHANGED <<issued, clientPc, loop, serverVars>>

\* Next returns false once the queue is shut down and empty.
LoopEnds ==
  /\ loop = "running" /\ clientPc = "stopped" /\ \A i \in issued : call[i].at = "gone"
  /\ loop' = "ended"
  /\ UNCHANGED <<issued, clientPc, responses, dumped, call, serverVars>>

\* ~AsyncClient joins the loop.
Join ==
  /\ clientPc = "stopped" /\ loop = "ended"
  /\ clientPc' = "returned"
  /\ UNCHANGED <<issued, loop, responses, dumped, call, serverVars>>

-----------------------------------------------------------------------------
\* HandleRpcs has made the first CallData; the client's loop is running.
AsyncInit ==
  /\ issued = {} /\ clientPc = "issuing" /\ loop = "running" /\ responses = {}
  /\ call = [i \in Calls |-> [at |-> "none", wire |-> <<>>]]
  /\ dumped = [i \in Calls |-> <<>>]
  /\ data = NewCallData([x \in {} |-> 0], CHOOSE c \in CallDatas : TRUE)
  /\ events = {} /\ current = NoCallData

AsyncNext ==
  \/ \E e \in events : HandleRpcs(e)
  \/ Answer
  \/ \E i \in Calls, c \in DOMAIN data : MatchRequest(i, c)
  \/ \E i \in Calls : Complete(i) \/ Fail(i) \/ DoRun(i)
  \/ AsyncGetIndex \/ Stop \/ LoopEnds \/ Join

AsyncSpec == AsyncInit /\ [][AsyncNext]_asyncVars

-----------------------------------------------------------------------------
\* While requests, answers and failures of several calls are mixed: exactly one CallData waits
\* for the next request, every tag in the server's queue is a live object, each CallData has at
\* most one tag there, every response whose tag is still out is alive, and a call that ends well
\* has the answer to its own question and is printed once.
AsyncCallsSound ==
  /\ Cardinality({c \in DOMAIN data : data[c].status = "PROCESS" /\ c # current}) = 1
  /\ \A e, f \in events : e[1] \in DOMAIN data /\ e[1] # current /\ (e[1] = f[1] => e = f)
  /\ responses = {i \in issued : call[i].at # "gone"}
  /\ \A i \in Calls :
       /\ Len(dumped[i]) <= 1
       /\ \A k \in DOMAIN dumped[i] :
            /\ dumped[i][k].alive
            /\ dumped[i][k].ok => /\ dumped[i][k].reply.index_type = QueryIndex[i]
                                  /\ dumped[i][k].reply.index_name = IndexName(QueryIndex[i])

\* The client that has issued a call ends: every call is printed and its destructor returns.
ClientReturns == (issued # {}) ~> (clientPc = "returned")
=============================================================================
