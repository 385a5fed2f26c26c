------------------------------- MODULE Pipes -------------------------------
(***************************************************************************)
(* Pipes, pipelines and the processor graph of ck_lab. A processor has     *)
(* lists of input and output ports; Connect joins an output to an input; a *)
(* Pipe keeps its processors and the outputs still open; a Pipeline owns a *)
(* pipe; a Graph numbers the processors and keeps an edge at both ends of  *)
(* every connection. The macro STATUS_CHECK(func) never evaluates func, so *)
(* CheckSource, AddSink's do_add and MakeSureInitilizedAndNotCompleted are *)
(* not called. A caller hands a processor to one pipe only; MergePipes     *)
(* leaves the pipes it merged with the caller, next to the merged one.     *)
(***************************************************************************)
EXTENDS Integers, Sequences, FiniteSets, SequencesExt, FiniteSetsExt

CONSTANTS
  Processors,   \* processor objects
  PortCounts,   \* processor -> <<inputs, outputs>>
  Locals,       \* PipePtr variables of the caller
  Pipelines,    \* Pipeline objects, each with its pipe_
  NoPipe        \* a null PipePtr

ASSUME PipeAssumption == IsFiniteSet(Processors) /\ PortCounts \in [Processors -> Nat \X Nat]

VARIABLES
  links,    \* connections: <<output port, input port>>, a port being <<processor, position>>
  pipe,     \* the pipe each PipePtr owns, or NoPipe
  used,     \* processors handed to a pipe
  graph,    \* the nodes of the Graph built last, in order, or <<>>
  dead,     \* an assertion, a null PipePtr or a stray iterator ended the program
  misused   \* history: a pipe was extended or merged although a merged pipe has its ports too

pipeVars == <<links, pipe, used, graph, dead, misused>>

Inputs(p) == {<<p, i>> : i \in 0 .. PortCounts[p][1] - 1}
Outputs(p) == {<<p, i>> : i \in 0 .. PortCounts[p][2] - 1}
InputSeq(p) == [i \in 1 .. PortCounts[p][1] |-> <<p, i - 1>>]
OutputSeq(p) == [i \in 1 .. PortCounts[p][2] |-> <<p, i - 1>>]

OutConnected(l, o) == \E c \in l : c[1] = o
InConnected(l, i) == \E c \in l : c[2] = i

\* Connect asserts that neither end is connected yet.
Connectable(l, outs, ins) ==
  /\ IsInjective(outs) /\ \A k \in DOMAIN outs : ~OutConnected(l, outs[k]) /\ ~InConnected(l, ins[k])
ConnectAll(l, outs, ins) == l \cup {<<outs[k], ins[k]>> : k \in DOMAIN outs}

-----------------------------------------------------------------------------
(* Pipe *)

\* A pipe, with as history whether MergePipes has copied its ports to another one.
EmptyPipe == [procs |-> <<>>, outs |-> <<>>, max |-> 0, merged |-> FALSE]
Empty(x) == x.procs = <<>>
IsCompleted(x) == ~Empty(x) /\ x.outs = <<>>
Unconnected(l, p) ==
  LET open[i \in 0 .. PortCounts[p][2]] ==
        IF i = 0 THEN <<>>
        ELSE IF OutConnected(l, <<p, i - 1>>) THEN open[i - 1] ELSE Append(open[i - 1], <<p, i - 1>>)
  IN open[PortCounts[p][2]]
OpenOutputs(l, ps) ==
  LET outs[k \in 0 .. Len(ps)] == IF k = 0 THEN <<>> ELSE outs[k - 1] \o Unconnected(l, ps[k])
  IN outs[Len(ps)]

NewPipe(h) ==
  /\ pipe[h] = NoPipe
  /\ pipe' = [pipe EXCEPT ![h] = EmptyPipe]
  /\ UNCHANGED <<links, used, graph, dead, misused>>

\* Pipe(Processors): the inputs lead to, and the connected outputs from, processors of the pipe.
PipeOfAsserts(ps) ==
  /\ \A p \in Range(ps) : \A i \in Inputs(p) : \E c \in links : c[2] = i /\ c[1][1] \in Range(ps)
  /\ \A c \in links : c[1][1] \in Range(ps) => c[2][1] \in Range(ps)
  /\ \E p \in Range(ps) : Unconnected(links, p) # <<>>

PipeOf(h, ps) ==
  /\ pipe[h] = NoPipe
  /\ IF PipeOfAsserts(ps)
     THEN LET outs == OpenOutputs(links, ps)
          IN /\ pipe' = [pipe EXCEPT ![h] = [procs |-> ps, outs |-> outs, max |-> Len(outs), merged |-> FALSE]]
             /\ UNCHANGED dead
     ELSE dead' = TRUE /\ UNCHANGED pipe
  /\ used' = used \cup Range(ps)
  /\ UNCHANGED <<links, graph, misused>>

\* AddSource: only the first output is looked at, and there must be one.
WithSource(x, p) ==
  LET outs == Append(x.outs, <<p, 0>>)
  IN [x EXCEPT !.procs = Append(@, p), !.outs = outs, !.max = Max({@, Len(outs)})]

AddSource(h, p) ==
  /\ pipe[h] # NoPipe /\ Outputs(p) # {}
  /\ IF OutConnected(links, <<p, 0>>) THEN UNCHANGED <<pipe, used>>
     ELSE pipe' = [pipe EXCEPT ![h] = WithSource(@, p)] /\ used' = used \cup {p}
  /\ UNCHANGED <<links, graph, dead, misused>>

\* AddTransform refuses a transform whose inputs do not match the open outputs, or that has none
\* of its own; the pipe takes the outputs of the transform in place of its own.
Matches(x, t) == x.outs # <<>> /\ PortCounts[t][1] = Len(x.outs) /\ PortCounts[t][2] # 0

\* Variant: the outputs that are connected now are kept among the pipe's.
TransformedKeeping(x, t, l) ==
  LET outs == x.outs \o Unconnected(l, t)
  IN [x EXCEPT !.procs = Append(@, t), !.outs = outs, !.max = Max({@, Len(outs)})]

Transformed(x, t, l) ==
  LET outs == Unconnected(l, t)
  IN [x EXCEPT !.procs = Append(@, t), !.outs = outs, !.max = Max({@, Len(outs)})]

AddTransform(h, t) ==
  /\ pipe[h] # NoPipe
  /\ IF ~Matches(pipe[h], t) THEN UNCHANGED <<links, pipe, used, dead, misused>>
     ELSE /\ used' = used \cup {t} /\ misused' = (misused \/ pipe[h].merged)
          /\ IF Connectable(links, pipe[h].outs, InputSeq(t))
             THEN LET l == ConnectAll(links, pipe[h].outs, InputSeq(t))
                  IN /\ links' = l /\ pipe' = [pipe EXCEPT ![h] = Transformed(@, t, l)]
                     /\ UNCHANGED dead
             ELSE dead' = TRUE /\ UNCHANGED <<links, pipe>>
  /\ UNCHANGED graph

\* AddSink: do_add, which makes and connects a sink, is the argument of STATUS_CHECK.
AddSink(h) ==
  /\ pipe[h] # NoPipe
  /\ pipe' = [pipe EXCEPT ![h].outs = <<>>]
  /\ UNCHANGED <<links, used, graph, dead, misused>>

\* MergePipes of the caller's pipes h and g, in this order, into r: several are put end to end, and
\* stay what they are; one that is left is moved from. RemoveEmptyPipes erases an empty pipe and
\* steps over the next one, or past the end when there is none.
MergedPipes(a, b) == [procs |-> a.procs \o b.procs, outs |-> a.outs \o b.outs, max |-> a.max + b.max, merged |-> FALSE]
MovedFrom(x) == [EmptyPipe EXCEPT !.max = x.max]

MergePipes(r, h, g) ==
  /\ pipe[r] = NoPipe /\ h # g /\ pipe[h] # NoPipe /\ pipe[g] # NoPipe
  /\ \/ /\ ~Empty(pipe[h]) /\ ~Empty(pipe[g])
        /\ pipe' = [pipe EXCEPT ![r] = MergedPipes(pipe[h], pipe[g]), ![h].merged = TRUE, ![g].merged = TRUE]
        /\ misused' = (misused \/ pipe[h].merged \/ pipe[g].merged)
        /\ UNCHANGED dead
     \/ /\ Empty(pipe[h])
        /\ pipe' = [pipe EXCEPT ![r] = pipe[g], ![h] = NoPipe, ![g] = MovedFrom(@)]
        /\ UNCHANGED <<dead, misused>>
     \/ /\ ~Empty(pipe[h]) /\ Empty(pipe[g])
        /\ dead' = TRUE /\ UNCHANGED <<pipe, misused>>
  /\ UNCHANGED <<links, used, graph>>

-----------------------------------------------------------------------------
(* Pipeline *)

IsInitialized(pl) == pipe[pl] # NoPipe /\ ~Empty(pipe[pl])

Initialize(pl, h) ==
  /\ ~IsInitialized(pl) /\ pipe[h] # NoPipe /\ ~Empty(pipe[h])
  /\ pipe' = [pipe EXCEPT ![pl] = pipe[h], ![h] = NoPipe]
  /\ UNCHANGED <<links, used, graph, dead, misused>>

Reset(pl) ==
  /\ pipe' = [pipe EXCEPT ![pl] = NoPipe]
  /\ UNCHANGED <<links, used, graph, dead, misused>>

DetachPipe(pl, h) ==
  /\ pipe[h] = NoPipe
  /\ pipe' = [pipe EXCEPT ![h] = pipe[pl], ![pl] = NoPipe]
  /\ UNCHANGED <<links, used, graph, dead, misused>>

\* Pipeline::AddTransform and MergePipelineBefore go on with whatever pipe_ is.
PipelineAddTransform(pl, t) ==
  \/ pipe[pl] # NoPipe /\ AddTransform(pl, t)
  \/ pipe[pl] = NoPipe /\ dead' = TRUE /\ UNCHANGED <<links, pipe, used, graph, misused>>

\* Both pipes, which Initialize found not to be empty, are moved to a vector that does not outlive
\* the call; a pipeline given to itself has no pipe left to give.
MergePipelineBefore(pl, other) ==
  \/ /\ pl # other /\ IsInitialized(pl) /\ IsInitialized(other)
     /\ pipe' = [pipe EXCEPT ![pl] = MergedPipes(@, pipe[other]), ![other] = NoPipe]
     /\ misused' = (misused \/ pipe[pl].merged \/ pipe[other].merged)
     /\ UNCHANGED <<links, used, graph, dead>>
  \/ /\ pl = other \/ pipe[pl] = NoPipe \/ pipe[other] = NoPipe
     /\ dead' = TRUE /\ UNCHANGED <<links, pipe, used, graph, misused>>

\* NumThreads with a limit of n (0: none) for a pipe.
NumThreads(x, n) == Max({1, IF n = 0 THEN x.max ELSE Min({n, x.max})})

-----------------------------------------------------------------------------
(* Processors and their graph *)

\* IProcessor::AsFromConnect.
AsFromConnect(p, q) ==
  /\ PortCounts[p][2] = PortCounts[q][1]
  /\ IF Connectable(links, OutputSeq(p), InputSeq(q))
     THEN links' = ConnectAll(links, OutputSeq(p), InputSeq(q)) /\ UNCHANGED dead
     ELSE dead' = TRUE /\ UNCHANGED links
  /\ UNCHANGED <<pipe, used, graph, misused>>

\* Graph::AddEdges: for each port of a processor, in order, an edge to the processor at the
\* other end, with the positions of both ports.
NodeOf(ps, p) == Max({k \in DOMAIN ps : ps[k] = p}) - 1

Edge(ps, c, to) == [to |-> NodeOf(ps, to), input |-> c[2][2], output |-> c[1][2]]
AddEdges(ps, p) ==
  [proc   |-> p,
   back   |-> [i \in 1 .. PortCounts[p][1] |-> LET c == CHOOSE x \in links : x[2] = <<p, i - 1>> IN Edge(ps, c, c[1][1])],
   direct |-> [i \in 1 .. PortCounts[p][2] |-> LET c == CHOOSE x \in links : x[1] = <<p, i - 1>> IN Edge(ps, c, c[2][1])]]

\* Graph(processors): every port is connected, and to one of the processors.
Closed(S) ==
  \A p \in S : /\ \A i \in Inputs(p) : \E c \in links : c[2] = i /\ c[1][1] \in S
               /\ \A o \in Outputs(p) : \E c \in links : c[1] = o /\ c[2][1] \in S

BuildGraph(ps) ==
  /\ Closed(Range(ps))
  /\ graph' = [k \in DOMAIN ps |-> AddEdges(ps, ps[k])]
  /\ UNCHANGED <<links, pipe, used, dead, misused>>

-----------------------------------------------------------------------------
PipeInit ==
  /\ links = {} /\ used = {} /\ graph = <<>> /\ dead = FALSE /\ misused = FALSE
  /\ pipe = [h \in Locals \cup Pipelines |-> NoPipe]

Fresh == Processors \ used
\* The lists of two or three processors that a pipe is made of. A graph is made of any
\* processors, in a pipe or not: it keeps pointers to them, and the caller shares them.
Chains(ps) == {s \in (ps \X ps) \cup (ps \X ps \X ps) : IsInjective(s)}

PipeNext ==
  /\ ~dead
  /\ \/ \E h \in Locals : NewPipe(h) \/ AddSink(h)
     \/ \E h \in Locals, p \in Fresh : AddSource(h, p) \/ AddTransform(h, p)
     \/ \E r, h, g \in Locals : MergePipes(r, h, g)
     \/ \E h \in Locals, ps \in Chains(Fresh) : PipeOf(h, ps)
     \/ \E pl \in Pipelines, h \in Locals : Initialize(pl, h) \/ DetachPipe(pl, h)
     \/ \E pl \in Pipelines : Reset(pl)
     \/ \E pl \in Pipelines, t \in Fresh : PipelineAddTransform(pl, t)
     \/ \E pl, other \in Pipelines : MergePipelineBefore(pl, other)
     \/ \E p, q \in Fresh : AsFromConnect(p, q)
     \/ graph = <<>> /\ \E S \in {T \in SUBSET Processors : T # {} /\ Closed(T)} : \E ps \in SetToSeqs(S) : BuildGraph(ps)

PipeSpec == PipeInit /\ [][PipeNext]_pipeVars

-----------------------------------------------------------------------------
\* A connection is in the graph twice, once at each end, with the same two port positions.
Mirrored(nodes) ==
  \A n \in DOMAIN nodes :
    /\ \A k \in DOMAIN nodes[n].direct :
         LET e == nodes[n].direct[k]
         IN /\ e.output = k - 1 /\ e.to + 1 \in DOMAIN nodes
            /\ e.input + 1 \in DOMAIN nodes[e.to + 1].back
            /\ nodes[e.to + 1].back[e.input + 1] = [to |-> n - 1, input |-> e.input, output |-> e.output]
    /\ \A k \in DOMAIN nodes[n].back :
         LET e == nodes[n].back[k]
         IN e.input = k - 1 /\ nodes[e.to + 1].direct[e.output + 1] = [to |-> n - 1, input |-> e.input, output |-> e.output]
EdgesMirrored == Mirrored(graph)

Held == {h \in DOMAIN pipe : pipe[h] # NoPipe}
\* The pipes whose ports no merged pipe has too.
Sole == {h \in Held : ~pipe[h].merged}

\* Through additions, merges, moves and refusals, what a pipe thinks is open is: each of its
\* output ports is unconnected, is listed once, and belongs to a processor of the pipe, and no two
\* pipes share a processor. MergePipes leaves pipes behind that share theirs with the merged one:
\* they are not asked about, and nothing is once a caller goes on with one of them. No pipe has more
\* streams than the threads it may ask for, and the graph built of the processors mirrors their
\* connections.
PipesSound ==
  /\ EdgesMirrored
  /\ \A h \in Held : Len(pipe[h].outs) <= NumThreads(pipe[h], 0)
  /\ ~misused =>
       \A h \in Sole :
         /\ IsInjective(pipe[h].outs) /\ IsInjective(pipe[h].procs)
         /\ \A k \in DOMAIN pipe[h].outs :
              ~OutConnected(links, pipe[h].outs[k]) /\ pipe[h].outs[k][1] \in Range(pipe[h].procs)
         /\ \A g \in Sole \ {h} : Range(pipe[h].procs) \cap Range(pipe[g].procs) = {}
=============================================================================
