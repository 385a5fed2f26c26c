---------------------------- MODULE DemoObjects -----------------------------
(***************************************************************************)
(* Two message objects of one of the kinds of DemoMessages, and what       *)
(* callers do with them: fields set, moved and cleared, messages merged,   *)
(* copied, swapped and parsed from what another kind of message wrote.     *)
(***************************************************************************)
EXTENDS DemoMessages

CONSTANTS
  Numbers,        \* the numbers callers set
  Strings,        \* the strings callers set
  MaxDemoFields   \* bound on the unknown fields and Struct entries a message collects

VARIABLES
  kind,           \* "index", "query" or "config"
  msg             \* the two message objects

demoVars == <<kind, msg>>

ClearOf(k) == CASE k = "index" -> IndexClear [] k = "query" -> QueryClear [] k = "config" -> ConfigClear
ParseOf(k, w) ==
  CASE k = "index"  -> FoldLeft(IndexParse, IndexClear, w)
    [] k = "query"  -> FoldLeft(QueryParse, QueryClear, w)
    [] k = "config" -> FoldLeft(ConfigParse, ConfigClear, w)
SerializeOf(k, m) ==
  CASE k = "index" -> IndexSerialize(m) [] k = "query" -> QuerySerialize(m) [] k = "config" -> ConfigSerialize(m)
ByteSizeOf(k, m) ==
  CASE k = "index" -> IndexByteSize(m) [] k = "query" -> QueryByteSize(m) [] k = "config" -> ConfigByteSize(m)
MergeOf(k, m, from) ==
  CASE k = "index" -> IndexMerge(m, from) [] k = "query" -> QueryMerge(m, from) [] k = "config" -> ConfigMerge(m, from)
CopyOf(k, from) ==
  CASE k = "index" -> IndexCopy(from) [] k = "query" -> QueryCopy(from) [] k = "config" -> ConfigCopy(from)

Kinds == {"index", "query", "config"}
StringFields == [k \in Kinds |-> CASE k = "index" -> {"index_name"} [] k = "query" -> {} [] k = "config" -> {"host", "port", "tracer_library"}]
Small(m) == /\ Len(m.unknown) <= MaxDemoFields
            /\ "tracer_configuration" \in DOMAIN m /\ m.tracer_configuration # Null => Len(m.tracer_configuration) <= MaxDemoFields
Become(i, m) == Small(m) /\ msg' = [msg EXCEPT ![i] = m] /\ UNCHANGED kind

\* set_index_type; set_X of a string; mutable_tracer_configuration and an entry added to it.
SetNumber(i, n) == kind # "config" /\ Become(i, [msg[i] EXCEPT !.index_type = n])
SetString(i, f, v) == Become(i, [msg[i] EXCEPT ![f] = v])
AddEntry(i, v) ==
  kind = "config" /\ Become(i, [msg[i] EXCEPT !.tracer_configuration = IF @ = Null THEN v ELSE @ \o v])

\* release_X of one message, set_allocated_X of another: the string or Struct moves.
MoveField(i, j, f) ==
  /\ msg' = [msg EXCEPT ![j][f] = msg[i][f], ![i][f] = ClearOf(kind)[f]]
  /\ UNCHANGED kind

ClearMessage(i) == Become(i, ClearOf(kind))
MergeMessage(i, j) == Become(i, MergeOf(kind, msg[i], msg[j]))
CopyMessage(i, j) == Become(i, CopyOf(kind, msg[j]))
\* Swap, and assignment from a message that is going away.
SwapMessages(i, j) == msg' = [msg EXCEPT ![i] = msg[j], ![j] = msg[i]] /\ UNCHANGED kind

\* A message written as another kind is parsed: unknown fields, or the wrong type for a number.
ParseForeign(i, k, f) == Become(i, ParseOf(kind, SerializeOf(kind, msg[i]) \o SerializeOf(k, f)))
Foreign(k) ==
  CASE k = "index" -> {[IndexClear EXCEPT !.index_type = n, !.index_name = v] : n \in Numbers, v \in Strings}
    [] k = "query" -> {[QueryClear EXCEPT !.index_type = n] : n \in Numbers}
    [] k = "config" -> {[ConfigClear EXCEPT !.host = v] : v \in Strings}

DemoInit == kind \in Kinds /\ msg = [i \in 1 .. 2 |-> ClearOf(kind)]

DemoNext ==
  \/ \E i \in 1 .. 2 :
       \/ \E n \in Numbers \cup {0} : SetNumber(i, n)
       \/ \E f \in StringFields[kind], v \in Strings \cup {<<>>} : SetString(i, f, v)
       \/ \E v \in Strings : AddEntry(i, v)
       \/ ClearMessage(i)
       \/ \E k \in Kinds : \E f \in Foreign(k) : ParseForeign(i, k, f)
       \/ LET j == 3 - i
          IN \/ MergeMessage(i, j) \/ CopyMessage(i, j) \/ SwapMessages(i, j)
             \/ \E f \in StringFields[kind] \cup (DOMAIN msg[i] \cap {"tracer_configuration"}) : MoveField(i, j, f)

-----------------------------------------------------------------------------
\* No field is lost between the two ends of a call. What a message writes is what it reads, and
\* takes the bytes ByteSizeLong says; a copy is the message; reading two messages one after the
\* other is merging them; and a peer that knows an Index only as a QueryParam hands every field
\* on, known to it or not.
MessagesSurvive ==
  \A i \in 1 .. 2 :
    LET w == SerializeOf(kind, msg[i])
    IN /\ ParseOf(kind, w) = msg[i] /\ CopyOf(kind, msg[i]) = msg[i]
       /\ ByteSizeOf(kind, msg[i]) = FlatLen(w)
       /\ \A j \in 1 .. 2 : ParseOf(kind, w \o SerializeOf(kind, msg[j])) = MergeOf(kind, msg[i], msg[j])
       /\ kind = "index" => ParseOf(kind, QuerySerialize(ParseOf("query", w))) = msg[i]
=============================================================================
