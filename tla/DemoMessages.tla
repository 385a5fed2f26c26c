---------------------------- MODULE DemoMessages ----------------------------
(***************************************************************************)
(* The messages of the demo service, which grpc_lab and tracing_lab share  *)
(* (demo.pb), and the configuration of tracing_lab (config.pb), as values: *)
(* cleared, parsed field by field, written, measured and merged. The       *)
(* tracer configuration is a Struct of the protobuf library: a sequence of *)
(* key and value entries, the last entry of a key being its value.         *)
(***************************************************************************)
EXTENDS WireFormat

-----------------------------------------------------------------------------
(* Index *)

IndexClear == [index_type |-> 0, index_name |-> <<>>, unknown |-> <<>>]

IndexParse(m, f) ==
  IF f.num = 1 /\ f.wt = 0 THEN [m EXCEPT !.index_type = f.val % 2^W32]
  ELSE IF f.num = 2 /\ f.wt = 2 THEN [m EXCEPT !.index_name = f.val]
  ELSE [m EXCEPT !.unknown = Append(@, f)]

IndexSerialize(m) ==
  (IF m.index_type # 0 THEN Varint(1, SignExtend(m.index_type)) ELSE <<>>)
  \o (IF m.index_name # <<>> THEN LengthDelimited(2, m.index_name, Len(m.index_name)) ELSE <<>>)
  \o m.unknown

IndexByteSize(m) ==
  (IF m.index_name # <<>> THEN 1 + LengthSize(Len(m.index_name)) ELSE 0)
  + (IF m.index_type # 0 THEN 1 + VarintSize(SignExtend(m.index_type)) ELSE 0)
  + FlatLen(m.unknown)

IndexMerge(m, from) ==
  [index_type |-> IF from.index_type # 0 THEN from.index_type ELSE m.index_type,
   index_name |-> IF from.index_name # <<>> THEN from.index_name ELSE m.index_name,
   unknown    |-> m.unknown \o from.unknown]

\* CopyFrom: Clear, then MergeFrom.
IndexCopy(from) == IndexMerge(IndexClear, from)

-----------------------------------------------------------------------------
(* QueryParam *)

QueryClear == [index_type |-> 0, unknown |-> <<>>]

\* Variant: unknown fields are skipped.
QueryParseDropping(m, f) == IF f.num = 1 /\ f.wt = 0 THEN [m EXCEPT !.index_type = f.val % 2^W32] ELSE m

QueryParse(m, f) ==
  IF f.num = 1 /\ f.wt = 0 THEN [m EXCEPT !.index_type = f.val % 2^W32]
  ELSE [m EXCEPT !.unknown = Append(@, f)]

QuerySerialize(m) ==
  (IF m.index_type # 0 THEN Varint(1, SignExtend(m.index_type)) ELSE <<>>) \o m.unknown

QueryByteSize(m) ==
  (IF m.index_type # 0 THEN 1 + VarintSize(SignExtend(m.index_type)) ELSE 0) + FlatLen(m.unknown)

QueryMerge(m, from) ==
  [index_type |-> IF from.index_type # 0 THEN from.index_type ELSE m.index_type,
   unknown    |-> m.unknown \o from.unknown]

QueryCopy(from) == QueryMerge(QueryClear, from)

-----------------------------------------------------------------------------
(* Config *)

ConfigClear == [host |-> <<>>, port |-> <<>>, tracer_library |-> <<>>, tracer_configuration |-> Null, unknown |-> <<>>]

ConfigParse(m, f) ==
  IF f.num = 1 /\ f.wt = 2 THEN [m EXCEPT !.host = f.val]
  ELSE IF f.num = 2 /\ f.wt = 2 THEN [m EXCEPT !.port = f.val]
  ELSE IF f.num = 3 /\ f.wt = 2 THEN [m EXCEPT !.tracer_library = f.val]
  ELSE IF f.num = 4 /\ f.wt = 2 THEN [m EXCEPT !.tracer_configuration = (IF @ = Null THEN <<>> ELSE @) \o f.val]
  ELSE [m EXCEPT !.unknown = Append(@, f)]

ConfigSerialize(m) ==
  (IF m.host # <<>> THEN LengthDelimited(1, m.host, Len(m.host)) ELSE <<>>)
  \o (IF m.port # <<>> THEN LengthDelimited(2, m.port, Len(m.port)) ELSE <<>>)
  \o (IF m.tracer_library # <<>> THEN LengthDelimited(3, m.tracer_library, Len(m.tracer_library)) ELSE <<>>)
  \o (IF m.tracer_configuration # Null
      THEN LengthDelimited(4, m.tracer_configuration, Len(m.tracer_configuration)) ELSE <<>>)
  \o m.unknown

ConfigByteSize(m) ==
  (IF m.host # <<>> THEN 1 + LengthSize(Len(m.host)) ELSE 0)
  + (IF m.port # <<>> THEN 1 + LengthSize(Len(m.port)) ELSE 0)
  + (IF m.tracer_library # <<>> THEN 1 + LengthSize(Len(m.tracer_library)) ELSE 0)
  + (IF m.tracer_configuration # Null THEN 1 + LengthSize(Len(m.tracer_configuration)) ELSE 0)
  + FlatLen(m.unknown)

ConfigMerge(m, from) ==
  [host                 |-> IF from.host # <<>> THEN from.host ELSE m.host,
   port                 |-> IF from.port # <<>> THEN from.port ELSE m.port,
   tracer_library       |-> IF from.tracer_library # <<>> THEN from.tracer_library ELSE m.tracer_library,
   tracer_configuration |-> IF from.tracer_configuration = Null THEN m.tracer_configuration
                            ELSE (IF m.tracer_configuration = Null THEN <<>> ELSE m.tracer_configuration)
                                 \o from.tracer_configuration,
   unknown              |-> m.unknown \o from.unknown]

ConfigCopy(from) == ConfigMerge(ConfigClear, from)
=============================================================================
