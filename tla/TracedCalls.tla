---------------------------- MODULE TracedCalls -----------------------------
(***************************************************************************)
(* tracing_lab: clients and a server that each load a configuration, and   *)
(* the calls between them, whose span context travels in the metadata to   *)
(* the server's interceptor. Tracers, their library and gRPC are external: *)
(* a real tracer records spans and can be injected into text, the no-op    *)
(* one records nothing and injects nothing.                                *)
(***************************************************************************)
EXTENDS DemoMessages, FiniteSets

CONSTANTS
  Clients,       \* client processes, which call Get once
  TheServer,     \* the server process
  GetType,       \* the type each client asks for
  ConfigFiles,   \* contents of configuration files: Config messages, or NoFile
  BadLibrary,    \* a tracer library that cannot be loaded
  NoFile         \* a file that cannot be read or is not the JSON of a Config

Processes == Clients \cup {TheServer}

VARIABLES
  conf,    \* each process: "start", "failed" or its tracer and address
  spans,   \* the spans real tracers have recorded: [name, parent, open]
  get,     \* each client: pc, its span, its result
  rpc,     \* the call of each client: at the server, given up, message, span context, server span
  serving  \* the server is up

tracedVars == <<conf, spans, get, rpc, serving>>

NoSpan == 0
Traces(p) == conf[p].tracer = "real"
Started(name, parent) == Append(spans, [name |-> name, parent |-> parent, open |-> TRUE])
FinishedSpan(s, n) == IF n = NoSpan THEN s ELSE [s EXCEPT ![n].open = FALSE]

-----------------------------------------------------------------------------
(* The messages *)

QueryOf(c) == QuerySerialize([QueryClear EXCEPT !.index_type = GetType[c]])
IndexNameOf == <<"IndexName">>
AnswerTo(wire) == LET q == FoldLeft(QueryParse, QueryClear, wire)
                  IN IndexSerialize([IndexClear EXCEPT !.index_type = q.index_type, !.index_name = IndexNameOf])
ResultOf(wire) == FoldLeft(IndexParse, IndexClear, wire)

\* The types asked for are numbers that the messages can carry, as those of main are.
ASSUME GetTypeAssumption ==
  \A c \in Clients : /\ ResultOf(AnswerTo(QueryOf(c))).index_type = GetType[c]
                     /\ ResultOf(AnswerTo(QueryOf(c))).index_name = IndexNameOf

-----------------------------------------------------------------------------
\* Configuration::Load throws, or takes the tracer, the host and the port of the file; host and
\* port replace the built-in ones even when the file has none.
LoadConfig(p, file) ==
  /\ conf[p].state = "start"
  /\ conf' = [conf EXCEPT ![p] =
       IF file = NoFile \/ file.tracer_library = BadLibrary THEN [state |-> "failed"]
       ELSE [state |-> "loaded", address |-> <<file.host, file.port>>,
             tracer |-> IF file.tracer_library = <<>> THEN "noop" ELSE "real"]]
  /\ serving' = IF p = TheServer THEN conf'[p].state = "loaded" ELSE serving
  /\ UNCHANGED <<spans, get, rpc>>

\* Client::Get starts its span;
StartGet(c) ==
  /\ get[c].pc = "start" /\ conf[c].state = "loaded"
  /\ spans' = IF Traces(c) THEN Started("ClientGet", NoSpan) ELSE spans
  /\ get' = [get EXCEPT ![c].pc = "calling", ![c].span = IF Traces(c) THEN Len(spans') ELSE NoSpan]
  /\ UNCHANGED <<conf, rpc, serving>>

\* ClientCallC is a child span that starts and ends.
CallC(c) == IF Traces(c) THEN Append(spans, [name |-> "ClientCallC", parent |-> get[c].span, open |-> FALSE]) ELSE spans

\* runs ClientCallC, injects its context into the metadata and makes the call;
SendQuery(c) ==
  /\ get[c].pc = "calling"
  /\ spans' = CallC(c)
  /\ get' = [get EXCEPT ![c].pc = "waiting"]
  /\ rpc' = [rpc EXCEPT ![c] = [at |-> "sent", gone |-> FALSE, context |-> get[c].span, span |-> NoSpan,
                                wire |-> QueryOf(c)]]
  /\ UNCHANGED <<conf, serving>>

\* and ends: after a failed call the span ends with its object, after an answer with Finish.
EndGet(c) ==
  /\ get[c].pc = "waiting" /\ (rpc[c].gone \/ rpc[c].at = "answered")
  /\ IF rpc[c].gone
     THEN /\ spans' = FinishedSpan(spans, get[c].span)
          /\ get' = [get EXCEPT ![c].pc = "failed"]
     ELSE /\ spans' = FinishedSpan(CallC(c), get[c].span)
          /\ get' = [get EXCEPT ![c].pc = "answered", ![c].result = ResultOf(rpc[c].wire)]
  /\ UNCHANGED <<conf, rpc, serving>>

\* gRPC gives up on a call at any time; the server goes on with what has reached it.
FailRpc(c) ==
  /\ get[c].pc = "waiting" /\ ~rpc[c].gone
  /\ rpc' = [rpc EXCEPT ![c].gone = TRUE]
  /\ UNCHANGED <<conf, spans, get, serving>>

\* SpanInterceptor at POST_RECV_INITIAL_METADATA. Without a context in the text Extract of a real
\* tracer returns an error, which is dereferenced: the server dies or goes on with no parent.
Intercept(c) ==
  /\ rpc[c].at = "sent" /\ serving /\ conf[c].address = conf[TheServer].address
  /\ \/ /\ spans' = IF Traces(TheServer) THEN Started("Get", rpc[c].context) ELSE spans
        /\ rpc' = [rpc EXCEPT ![c].at = "intercepted", ![c].span = IF Traces(TheServer) THEN Len(spans') ELSE NoSpan]
        /\ UNCHANGED serving
     \/ /\ Traces(TheServer) /\ rpc[c].context = NoSpan
        /\ serving' = FALSE /\ UNCHANGED <<spans, rpc>>
  /\ UNCHANGED <<conf, get>>

\* Variant: the span of the server is not finished.
ServeOpen(c) ==
  /\ rpc[c].at = "intercepted" /\ serving
  /\ rpc' = [rpc EXCEPT ![c].at = "answered", ![c].wire = AnswerTo(rpc[c].wire)]
  /\ UNCHANGED <<spans, conf, get, serving>>

\* ServiceImpl::Get, and the interceptor at PRE_SEND_MESSAGE: the span is finished, then sent.
Serve(c) ==
  /\ rpc[c].at = "intercepted" /\ serving
  /\ spans' = FinishedSpan(spans, rpc[c].span)
  /\ rpc' = [rpc EXCEPT ![c].at = "answered", ![c].wire = AnswerTo(rpc[c].wire)]
  /\ UNCHANGED <<conf, get, serving>>

-----------------------------------------------------------------------------
TracedInit ==
  /\ conf = [p \in Processes |-> [state |-> "start"]]
  /\ spans = <<>> /\ serving = FALSE
  /\ get = [c \in Clients |-> [pc |-> "start", span |-> NoSpan, result |-> IndexClear]]
  /\ rpc = [c \in Clients |-> [at |-> "none", gone |-> FALSE, context |-> NoSpan, span |-> NoSpan, wire |-> <<>>]]

TracedNext ==
  \/ \E p \in Processes, file \in ConfigFiles : LoadConfig(p, file)
  \/ \E c \in Clients : StartGet(c) \/ SendQuery(c) \/ EndGet(c) \/ FailRpc(c) \/ Intercept(c) \/ Serve(c)

TracedSpec == TracedInit /\ [][TracedNext]_tracedVars

-----------------------------------------------------------------------------
\* With calls of several clients in the server at once, some of them given up, a trace is put
\* together right: a server span is a child of the span of the call it serves; once a traced call
\* has been answered it has exactly one server span, and everything below the client's span ended
\* before that span did; and each client is answered what it asked.
TraceNested ==
  /\ \A c \in Clients : rpc[c].span # NoSpan => spans[rpc[c].span].parent = get[c].span
  /\ \A c \in Clients :
       get[c].pc = "answered" =>
         /\ get[c].result.index_type = GetType[c] /\ get[c].result.index_name = IndexNameOf
         /\ Traces(c) =>
              LET below == {n \in DOMAIN spans : spans[n].parent = get[c].span}
              IN /\ \A n \in below \cup {get[c].span} : ~spans[n].open
                 /\ Cardinality({n \in below : spans[n].name = "Get"}) = IF Traces(TheServer) THEN 1 ELSE 0
=============================================================================
