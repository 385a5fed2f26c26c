----------------------------- MODULE DbMessages -----------------------------
(***************************************************************************)
(* The messages of the RocksDB service (db.pb.cc, db.pb.h): what a field   *)
(* holds, how a message is cleared, merged, swapped, written and parsed,   *)
(* and who owns the sub-messages of a CreateTableResponse.                 *)
(***************************************************************************)
EXTENDS WireFormat, FiniteSets

CONSTANTS
  Responses,      \* CreateTableResponse objects
  SubIds,         \* addresses of Status and Table objects on the heap
  StatusInputs,   \* contents a Status is given
  TableInputs,    \* contents a Table is given
  WireInputs,     \* responses that arrive from other writers
  MaxUnknown      \* bound on the unknown fields a message collects

ASSUME MsgAssumption == Null \notin SubIds

VARIABLES
  resp,   \* each response: status_, table_ (addresses) and its unknown fields
  heap,   \* the live sub-messages: address -> contents
  held,   \* sub-messages the caller owns
  misuse  \* a sub-message was deleted twice

msgVars == <<resp, heap, held, misuse>>

-----------------------------------------------------------------------------
(* Status *)

StatusClear == [code |-> 0, error_message |-> <<>>, unknown |-> <<>>]

StatusParse(m, f) ==
  IF f.num = 1 /\ f.wt = 0 THEN [m EXCEPT !.code = f.val % 2^W32]
  ELSE IF f.num = 2 /\ f.wt = 2 THEN [m EXCEPT !.error_message = f.val]
  ELSE [m EXCEPT !.unknown = Append(@, f)]

StatusByteSize(m) ==
  (IF m.error_message # <<>> THEN 1 + LengthSize(Len(m.error_message)) ELSE 0)
  + (IF m.code # 0 THEN 1 + VarintSize(SignExtend(m.code)) ELSE 0)
  + FlatLen(m.unknown)

StatusSerialize(m) ==
  (IF m.code # 0 THEN Varint(1, SignExtend(m.code)) ELSE <<>>)
  \o (IF m.error_message # <<>> THEN LengthDelimited(2, m.error_message, Len(m.error_message)) ELSE <<>>)
  \o m.unknown

\* MergeFrom: a field that has its default value in from keeps the old one.
StatusMerge(m, from) ==
  [code          |-> IF from.code # 0 THEN from.code ELSE m.code,
   error_message |-> IF from.error_message # <<>> THEN from.error_message ELSE m.error_message,
   unknown       |-> m.unknown \o from.unknown]

-----------------------------------------------------------------------------
(* CreateTableParam *)

ParamClear == [name |-> <<>>, dimension |-> 0, unknown |-> <<>>]

ParamParse(m, f) ==
  IF f.num = 1 /\ f.wt = 2 THEN [m EXCEPT !.name = f.val]
  ELSE IF f.num = 2 /\ f.wt = 0 THEN [m EXCEPT !.dimension = f.val % 2^W32]
  ELSE [m EXCEPT !.unknown = Append(@, f)]

ParamSerialize(m) ==
  (IF m.name # <<>> THEN LengthDelimited(1, m.name, Len(m.name)) ELSE <<>>)
  \o (IF m.dimension # 0 THEN Varint(2, SignExtend(m.dimension)) ELSE <<>>)
  \o m.unknown

ParamByteSize(m) ==
  (IF m.name # <<>> THEN 1 + LengthSize(Len(m.name)) ELSE 0)
  + (IF m.dimension # 0 THEN 1 + VarintSize(SignExtend(m.dimension)) ELSE 0)
  + FlatLen(m.unknown)

ParamMerge(m, from) ==
  [name      |-> IF from.name # <<>> THEN from.name ELSE m.name,
   dimension |-> IF from.dimension # 0 THEN from.dimension ELSE m.dimension,
   unknown   |-> m.unknown \o from.unknown]

-----------------------------------------------------------------------------
(* Table *)

TableClear == [id |-> 0, name |-> <<>>, dimension |-> 0, unknown |-> <<>>]

TableParse(m, f) ==
  IF f.num = 1 /\ f.wt = 0 THEN [m EXCEPT !.id = f.val % 2^W64]
  ELSE IF f.num = 2 /\ f.wt = 2 THEN [m EXCEPT !.name = f.val]
  ELSE IF f.num = 3 /\ f.wt = 0 THEN [m EXCEPT !.dimension = f.val % 2^W32]
  ELSE [m EXCEPT !.unknown = Append(@, f)]

TableSerialize(m) ==
  (IF m.id # 0 THEN Varint(1, m.id) ELSE <<>>)
  \o (IF m.name # <<>> THEN LengthDelimited(2, m.name, Len(m.name)) ELSE <<>>)
  \o (IF m.dimension # 0 THEN Varint(3, SignExtend(m.dimension)) ELSE <<>>)
  \o m.unknown

\* Variant: a negative dimension is counted as 32 bits.
TableByteSizeUnsigned(m) ==
  (IF m.name # <<>> THEN 1 + LengthSize(Len(m.name)) ELSE 0)
  + (IF m.id # 0 THEN 1 + VarintSize(m.id) ELSE 0)
  + (IF m.dimension # 0 THEN 1 + VarintSize(m.dimension) ELSE 0)
  + FlatLen(m.unknown)

TableByteSize(m) ==
  (IF m.name # <<>> THEN 1 + LengthSize(Len(m.name)) ELSE 0)
  + (IF m.id # 0 THEN 1 + VarintSize(m.id) ELSE 0)
  + (IF m.dimension # 0 THEN 1 + VarintSize(SignExtend(m.dimension)) ELSE 0)
  + FlatLen(m.unknown)

TableMerge(m, from) ==
  [id        |-> IF from.id # 0 THEN from.id ELSE m.id,
   name      |-> IF from.name # <<>> THEN from.name ELSE m.name,
   dimension |-> IF from.dimension # 0 THEN from.dimension ELSE m.dimension,
   unknown   |-> m.unknown \o from.unknown]

-----------------------------------------------------------------------------
(* CreateTableResponse, as a value: sub-messages in place of their addresses *)

ResponseClear == [status |-> Null, table |-> Null, unknown |-> <<>>]

\* A sub-message is parsed into the one that is there; mutable_X makes one otherwise.
ResponseParse(m, f) ==
  IF f.num = 1 /\ f.wt = 2
  THEN [m EXCEPT !.status = FoldLeft(StatusParse, IF @ = Null THEN StatusClear ELSE @, f.val)]
  ELSE IF f.num = 2 /\ f.wt = 2
  THEN [m EXCEPT !.table = FoldLeft(TableParse, IF @ = Null THEN TableClear ELSE @, f.val)]
  ELSE [m EXCEPT !.unknown = Append(@, f)]

ResponseSerialize(m) ==
  (IF m.status # Null THEN LengthDelimited(1, StatusSerialize(m.status), StatusByteSize(m.status)) ELSE <<>>)
  \o (IF m.table # Null THEN LengthDelimited(2, TableSerialize(m.table), TableByteSize(m.table)) ELSE <<>>)
  \o m.unknown

ResponseByteSize(m) ==
  (IF m.status # Null THEN 1 + LengthSize(StatusByteSize(m.status)) ELSE 0)
  + (IF m.table # Null THEN 1 + LengthSize(TableByteSize(m.table)) ELSE 0)
  + NestedLen(m.unknown)

ResponseMerge(m, from) ==
  [status  |-> IF from.status = Null THEN m.status
               ELSE StatusMerge(IF m.status = Null THEN StatusClear ELSE m.status, from.status),
   table   |-> IF from.table = Null THEN m.table
               ELSE TableMerge(IF m.table = Null THEN TableClear ELSE m.table, from.table),
   unknown |-> m.unknown \o from.unknown]

-----------------------------------------------------------------------------
(* CreateTableResponse objects and the heap *)

Contents(r) == [status  |-> IF resp[r].status = Null THEN Null ELSE heap[resp[r].status],
                table   |-> IF resp[r].table = Null THEN Null ELSE heap[resp[r].table],
                unknown |-> resp[r].unknown]

Free == SubIds \ DOMAIN heap
Delete(h, ids) == [i \in DOMAIN h \ ids |-> h[i]]
Put(h, i, m) == [j \in DOMAIN h \cup {i} |-> IF j = i THEN m ELSE h[j]]

\* mutable_status and mutable_table make the sub-message when there is none; the caller then
\* sets its fields.
SetField(r, field, m) ==
  /\ IF resp[r][field] # Null
     THEN heap' = Put(heap, resp[r][field], [m EXCEPT !.unknown = heap[resp[r][field]].unknown]) /\ UNCHANGED resp
     ELSE \E i \in Free : heap' = Put(heap, i, m) /\ resp' = [resp EXCEPT ![r][field] = i]
  /\ UNCHANGED <<held, misuse>>

MutableStatus(r, m) == SetField(r, "status", m)
MutableTable(r, m) == SetField(r, "table", m)

\* release_status, release_table: the caller owns the sub-message from now on.
Release(r, field) ==
  /\ resp[r][field] # Null
  /\ held' = held \cup {<<field, resp[r][field]>>}
  /\ resp' = [resp EXCEPT ![r][field] = Null]
  /\ UNCHANGED <<heap, misuse>>
ReleaseStatus(r) == Release(r, "status")
ReleaseTable(r) == Release(r, "table")

\* Variant: the caller keeps its ownership of the message.
SetAllocatedShared(r, field, i) ==
  /\ heap' = Delete(heap, {resp[r][field]})
  /\ misuse' = (misuse \/ resp[r][field] \notin DOMAIN heap \cup {Null})
  /\ resp' = [resp EXCEPT ![r][field] = i]
  /\ UNCHANGED held

\* set_allocated_status, set_allocated_table: the old one is deleted, the response owns the new.
SetAllocated(r, field, i) ==
  /\ heap' = Delete(heap, {resp[r][field]})
  /\ misuse' = (misuse \/ resp[r][field] \notin DOMAIN heap \cup {Null})
  /\ resp' = [resp EXCEPT ![r][field] = i]
  /\ held' = held \ {<<field, i>>}
SetAllocatedStatus(r, i) == <<"status", i>> \in held /\ SetAllocated(r, "status", i)
SetAllocatedTable(r, i) == <<"table", i>> \in held /\ SetAllocated(r, "table", i)

\* clear_status, clear_table.
ClearField(r, field) ==
  /\ resp[r][field] # Null
  /\ heap' = Delete(heap, {resp[r][field]})
  /\ resp' = [resp EXCEPT ![r][field] = Null]
  /\ UNCHANGED <<held, misuse>>
ClearStatus(r) == ClearField(r, "status")
ClearTable(r) == ClearField(r, "table")

\* Clear deletes both.
Clear(r) ==
  /\ heap' = Delete(heap, {resp[r].status, resp[r].table})
  /\ resp' = [resp EXCEPT ![r] = ResponseClear]
  /\ UNCHANGED <<held, misuse>>

\* InternalSwap exchanges the addresses.
Swap(r, q) ==
  /\ r # q
  /\ resp' = [resp EXCEPT ![r] = resp[q], ![q] = resp[r]]
  /\ UNCHANGED <<heap, held, misuse>>

\* Where contents m go: into the sub-message that is there, or else into a new one.
Home(old, m) == IF old # Null THEN {old} ELSE IF m = Null THEN {Null} ELSE Free

\* r takes the contents m, in the sub-messages it has or in new ones.
Store(r, m) ==
  /\ Len(m.unknown) <= MaxUnknown /\ (m.status # Null => Len(m.status.unknown) <= MaxUnknown)
  /\ \E s \in Home(resp[r].status, m.status), t \in Home(resp[r].table, m.table) :
       /\ s # t \/ s = Null
       /\ resp' = [resp EXCEPT ![r] = [status |-> s, table |-> t, unknown |-> m.unknown]]
       /\ heap' = [i \in DOMAIN heap \cup ({s, t} \ {Null}) |-> IF i = s THEN m.status ELSE IF i = t THEN m.table ELSE heap[i]]
  /\ UNCHANGED <<held, misuse>>

MergeFrom(r, q) == r # q /\ Store(r, ResponseMerge(Contents(r), Contents(q)))

\* MergeFromString and the like: what arrives is parsed into the response.
ParseFrom(r, w) == Store(r, FoldLeft(ResponseParse, Contents(r), w))

\* The caller deletes what it holds.
DeleteHeld(h) ==
  /\ heap' = Delete(heap, {h[2]}) /\ held' = held \ {h}
  /\ misuse' = (misuse \/ h[2] \notin DOMAIN heap)
  /\ UNCHANGED resp

MsgInit ==
  /\ resp = [r \in Responses |-> ResponseClear]
  /\ heap = [i \in {} |-> 0] /\ held = {} /\ misuse = FALSE

MsgNext ==
  \/ \E r \in Responses :
       \/ \E m \in StatusInputs : MutableStatus(r, m)
       \/ \E m \in TableInputs : MutableTable(r, m)
       \/ ReleaseStatus(r) \/ ReleaseTable(r) \/ ClearStatus(r) \/ ClearTable(r) \/ Clear(r)
       \/ \E i \in SubIds : SetAllocatedStatus(r, i) \/ SetAllocatedTable(r, i)
       \/ \E w \in WireInputs : ParseFrom(r, w)
  \/ \E r, q \in Responses : Swap(r, q) \/ MergeFrom(r, q)
  \/ \E h \in held : DeleteHeld(h)

MsgSpec == MsgInit /\ [][MsgNext]_msgVars

-----------------------------------------------------------------------------
\* Through release, set_allocated, swap, merge, parse and clear, every sub-message on the heap
\* has exactly one owner, nobody owns one that was deleted, and none is deleted twice.
SubMessagesOwned ==
  /\ ~misuse
  /\ LET owners(i) == {o \in Responses \X {"status", "table"} : resp[o[1]][o[2]] = i} \cup {h \in held : h[2] = i}
     IN \A i \in SubIds : Cardinality(owners(i)) = IF i \in DOMAIN heap THEN 1 ELSE 0

\* What is written is read back: a response, and a param with the fields of a table, survive the
\* wire, negative numbers and unknown fields included; the sizes written in front of
\* sub-messages and given by ByteSizeLong are the ones the fields take; and parsing one response
\* after another is merging the second into the first.
WireRoundTrip ==
  \A r \in Responses :
    LET m == Contents(r)
        w == ResponseSerialize(m)
        p == IF m.table = Null THEN ParamClear ELSE [name |-> m.table.name, dimension |-> m.table.dimension, unknown |-> m.table.unknown]
    IN /\ FoldLeft(ResponseParse, ResponseClear, w) = m
       /\ ResponseByteSize(m) = NestedLen(w)
       /\ \A k \in DOMAIN w : w[k].wt = 2 => w[k].len = FlatLen(w[k].val)
       /\ FoldLeft(ParamParse, ParamClear, ParamSerialize(p)) = p /\ ParamByteSize(p) = FlatLen(ParamSerialize(p))
       /\ FoldLeft(ParamParse, p, ParamSerialize(p)) = ParamMerge(p, p)
       /\ \A q \in Responses :
            FoldLeft(ResponseParse, ResponseClear, w \o ResponseSerialize(Contents(q))) = ResponseMerge(m, Contents(q))
=============================================================================
