---------------------------- MODULE MCStructures ----------------------------
(* The modules of documents, messages, pipes and scanners, one at a time: part *)
(* says which of them moves, the others stay as they start.                   *)
EXTENDS DocFields, Documents, AdvancedDocs, Pipes, DbMessages,
        DemoObjects, FlexScanner

Values == -1 .. 3

\* Contents of messages, and the bytes of a response with unknown fields.
Statuses == {[code |-> 3, error_message |-> e, unknown |-> <<>>] : e \in {<<>>, <<7>>}}
TableContents ==
  {[id |-> 5, name |-> n, dimension |-> 3, unknown |-> <<>>] : n \in {<<>>, <<7, 7>>}}
ForeignResponses ==
  {LengthDelimited(1, Varint(1, 6) \o Varint(9, 1), 5) \o Varint(2, 1)}
SomeStrings == {<<7>>}

\* A terminal delivers a line at a time, a file all it has.
Texts ==
  [example6 |-> [f \in Streams |-> IF f \in Tty THEN <<"e", "x", "d">>
                                   ELSE <<"e", "x", "f", "d", ".", "=", "d", ".", "d", "n">>],
   tokens   |-> [f \in Streams |-> IF f \in Tty THEN <<"d", "NUL">> ELSE <<>>]]
SomeScanStrings == {<<"e", "NUL">>}

\* One field name is too long for its size to be written.
NameSizes == [n \in FieldNames |-> IF n = 2 THEN 2^ByteBits ELSE 1]

\* Two sources, a transform that joins them and splits again, and a sink with two inputs.
Counts ==
  [p \in Processors |-> CASE p \in {"s1", "s2"} -> <<0, 1>>
                          [] p = "t" -> <<2, 2>>
                          [] p = "k" -> <<2, 0>>]

\* One name may get fields of two types; another is too long for its size to be written.
SomeAdvFields == [name : AdvNames, type : {1}] \cup [name : {"n1"}, type : {2}]
AdvSizes == [n \in AdvNames |-> IF n = "n4" THEN FidCount ELSE 1]

\* Values are interchangeable, and so are two of the names.
DocBound == doc.fields[1] # <<>> => doc.fields[1][1][2] = 5
AdvOrder == "n3" \in DOMAIN advSchema.fidOf => "n2" \in DOMAIN advSchema.fidOf

\* A name changes its type, or two threads have a field to add, only where no id has wrapped.
AdvBound ==
  \/ Len(advSchema.byFid) <= FidCount
  \/ /\ \A d \in {advSchema, advDoc} : \A n \in DOMAIN d.byName : d.byName[n].type = 1
     /\ \E t \in AdvThreads : checked[t] = NoField

\* At most three pipes at a time, two of them with ports of their own, p3 for one made of others;
\* pipes that were merged stay as they are, but for a misuse, which is the last step, as is the graph.
PipeBound ==
  /\ ~misused /\ graph = <<>>
  /\ \/ misused'
     \/ /\ Cardinality(Held') <= 3 /\ Cardinality(Sole') <= 2
        /\ \A h \in Held \ Sole : pipe'[h] = pipe[h]
        /\ pipe["p3"] = NoPipe /\ pipe'["p3"] # NoPipe => \E h \in Held : pipe'[h] # pipe[h]

VARIABLE part

allVars == <<fieldVars, docVars, advVars, pipeVars, msgVars, demoVars, flexVars, part>>

AllInit ==
  /\ part \in {"fields", "documents", "advanced", "pipes", "messages", "objects", "scanner"}
  /\ FieldInit /\ DocInit /\ AdvInit /\ PipeInit /\ MsgInit /\ DemoInit /\ FlexInit
  /\ part # "objects" => kind = "index"
  /\ part # "scanner" => scanner = "tokens"

AllNext ==
  \/ part = "fields" /\ FieldNext
     /\ UNCHANGED <<docVars, advVars, pipeVars, msgVars, demoVars, flexVars, part>>
  \/ part = "documents" /\ DocNext /\ DocBound'
     /\ UNCHANGED <<fieldVars, advVars, pipeVars, msgVars, demoVars, flexVars, part>>
  \/ part = "advanced" /\ AdvNext /\ AdvBound' /\ AdvOrder'
     /\ UNCHANGED <<fieldVars, docVars, pipeVars, msgVars, demoVars, flexVars, part>>
  \/ part = "pipes" /\ PipeNext /\ PipeBound
     /\ UNCHANGED <<fieldVars, docVars, advVars, msgVars, demoVars, flexVars, part>>
  \/ part = "messages" /\ MsgNext
     /\ UNCHANGED <<fieldVars, docVars, advVars, pipeVars, demoVars, flexVars, part>>
  \/ part = "objects" /\ DemoNext
     /\ UNCHANGED <<fieldVars, docVars, advVars, pipeVars, msgVars, flexVars, part>>
  \/ part = "scanner" /\ FlexNext
     /\ UNCHANGED <<fieldVars, docVars, advVars, pipeVars, msgVars, demoVars, part>>

AllSpec == AllInit /\ [][AllNext]_allVars
=============================================================================
