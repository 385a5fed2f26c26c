------------------------------ MODULE DocStore ------------------------------
(***************************************************************************)
(* The document store of rocksdb_lab: RocksDBImpl over a RocksDB (external *)
(* here: Get, Write of a batch as a whole, iterators in key order) and the *)
(* DBCache in memory, used by several threads, with crashes and restarts.  *)
(*                                                                         *)
(* A key of the database is a tuple that starts with its prefix:           *)
(*   <<"TSK">>                the next table id                            *)
(*   <<"TTP", name>>          table id        <<"TMP", tid>>  schema       *)
(*   <<"TSP", tid>>           current segment                              *)
(*   <<"TSS", tid>>           <<segment, offset>> of the next document     *)
(*   <<"TID", tid, uid>>      <<segment, offset>> of a document            *)
(*   <<"TFV", tid, sid, id, fid>>        value of a field                  *)
(*   <<"TFI", tid, fid, val, sid, id>>   index entry, no value             *)
(* A document has the primary key, field 0, and the fields of FieldIds.    *)
(* DBCache has its own lock for every access, so each access is a step.    *)
(* The write-ahead log is on, so the end of the process loses no batch.    *)
(***************************************************************************)
EXTENDS Integers, Sequences, FiniteSets

CONSTANTS
  Threads,             \* the threads that call the store
  Names,               \* names of tables
  FieldIds,            \* ids of the fields other than the primary key
  Batches,             \* the sequences of documents a caller may pass
  Bits,                \* width of a serialized long
  ByteBits,            \* width of its first byte
  Limits,              \* the limits of filters
  DBTableSegmentSize,  \* documents in a segment
  MaxCalls,            \* bound: calls of AddDoc and AddDocs
  Disciplined,         \* callers do not overlap in CreateTable, nor in one table
  Deleted, None        \* a key that a batch deletes; the value of an index entry

\* The values of a document are signed longs.
Long == -(2^Bits \div 2) .. 2^Bits \div 2 - 1

ASSUME StoreAssumption ==
  /\ FieldIds \subseteq 1 .. 254
  /\ Limits \subseteq Nat
  /\ DBTableSegmentSize \in Nat \ {0}
  /\ MaxCalls \in Nat /\ Disciplined \in BOOLEAN
  /\ Batches \subseteq Seq([uid : Int, val : [FieldIds -> Long]])

ASSUME WidthAssumption == 2^Bits \in Nat \ {0, 1}

ASSUME MarkAssumption ==
  /\ None \notin Names
  /\ Deleted \notin Int /\ Deleted \notin Nat \X Nat /\ Deleted \notin Names \cup {None}

VARIABLES
  db,      \* the database: a function from keys to values
  up,      \* the process runs
  cache,   \* DBCache
  pc,      \* the next step of each thread
  call,    \* its locals
  calls    \* calls of AddDoc(s) so far

vars == <<db, up, cache, pc, call, calls>>

Docs == UNION {{b[i] : i \in DOMAIN b} : b \in Batches}
Uids == {d.uid : d \in Docs}
Vals == {d.val[f] : d \in Docs, f \in FieldIds}
Fids == {0} \cup FieldIds

NoCall == [name |-> None, docs |-> <<>>, tid |-> 0, sid |-> 0, offset |-> 0,
           updated |-> FALSE, wb |-> <<>>]

EmptyCache == [tid |-> 0, seg |-> <<>>, offset |-> <<>>, tidOf |-> <<>>,
               nameOf |-> <<>>, schema |-> <<>>]

-----------------------------------------------------------------------------
(* Keys, batches and iterators *)

\* Serializer: big-endian bytes, so that the order is that of the unsigned number.
Serialize(v) == v % 2^Bits

SequenceKey == <<"TSK">>
TableKey(n) == <<"TTP", n>>
MappingKey(tid) == <<"TMP", tid>>
SegmentKey(tid) == <<"TSP", tid>>
NextIdKey(tid) == <<"TSS", tid>>
UidKey(tid, uid) == <<"TID", tid, uid>>
ValueKey(tid, addr, f) == <<"TFV", tid, addr[1], addr[2], f>>
IndexKey(tid, f, v, addr) == <<"TFI", tid, f, Serialize(v), addr[1], addr[2]>>

Has(d, k) == k \in DOMAIN d
Keys(d, prefix) == {k \in DOMAIN d : k[1] = prefix}

\* One entry of a map or batch, and a map whose entries come before those of another.
Entry(k, v) == [x \in {k} |-> v]
Over(f, g) == [x \in DOMAIN f \cup DOMAIN g |-> IF x \in DOMAIN f THEN f[x] ELSE g[x]]
With(f, k, v) == Over(Entry(k, v), f)

\* The database after a batch: a key the batch deletes is gone.
Apply(d, wb) ==
  LET all == Over(wb, d)
  IN [k \in {x \in DOMAIN all : all[x] # Deleted} |-> all[k]]

-----------------------------------------------------------------------------
(* Init() of RocksDBImpl: the cache of a process that starts *)

\* Variant: the stored offset is not loaded.
StoredOffsetSkipped(d, tid) == 0

StoredOffset(d, tid) == d[NextIdKey(tid)][2]

Recovered(d) ==
  LET names == {k[2] : k \in Keys(d, "TTP")}
      seq == d[SequenceKey]
      tidOf == [n \in names |-> d[TableKey(n)]]
      ids == {k[2] : k \in {x \in Keys(d, "TSS") : x[2] < seq}}
      nameOf == [i \in {tidOf[n] : n \in names} |->
                   CHOOSE n \in names : tidOf[n] = i]
      schemas == {k[2] : k \in {x \in Keys(d, "TMP") : x[2] < seq}}
  IN [tid    |-> seq,
      tidOf  |-> tidOf,
      nameOf |-> nameOf,
      seg    |-> [i \in ids |-> d[NextIdKey(i)][1]],
      offset |-> [i \in ids |-> StoredOffset(d, i)],
      schema |-> [n \in {nameOf[i] : i \in schemas} |->
                    d[MappingKey(CHOOSE i \in schemas : nameOf[i] = n)]]]

\* DB::Open and the constructor of RocksDBImpl.
Open ==
  /\ ~up
  /\ up' = TRUE
  /\ IF Has(db, SequenceKey)
     THEN cache' = Recovered(db) /\ UNCHANGED db
     ELSE cache' = EmptyCache /\ db' = With(db, SequenceKey, 0)
  /\ UNCHANGED <<pc, call, calls>>

\* The process ends, at any moment; a batch is written as a whole or not at all.
Down ==
  /\ up' = FALSE
  /\ cache' = EmptyCache
  /\ pc' = [t \in Threads |-> "idle"]
  /\ call' = [t \in Threads |-> NoCall]
  /\ UNCHANGED <<db, calls>>

Crash == up /\ Down

-----------------------------------------------------------------------------
Goto(t, label) == pc' = [pc EXCEPT ![t] = label]
Return(t) == Goto(t, "idle") /\ call' = [call EXCEPT ![t] = NoCall]

CreateSteps == {"GetTid", "WriteTable", "TableSeg", "TableOffset", "SetTid", "Mapping"}
AddSteps == {"GetSegId", "GetTidOffset", "Build", "Write", "UpdateSegMap", "UpdateTidOffset"}

MayCreate == Disciplined => \A t \in Threads : pc[t] \notin CreateSteps
MayAdd(n) == Disciplined => \A t \in Threads : pc[t] \in AddSteps => call[t].name # n

-----------------------------------------------------------------------------
(* CreateTable *)

\* The table's key is looked up in the database; a table that exists is left alone.
CreateTable(t, n) ==
  /\ up /\ pc[t] = "idle" /\ MayCreate
  /\ ~Has(db, TableKey(n))
  /\ call' = [call EXCEPT ![t] = [NoCall EXCEPT !.name = n]]
  /\ Goto(t, "GetTid")
  /\ UNCHANGED <<db, up, cache, calls>>

GetTid(t) ==
  /\ pc[t] = "GetTid"
  /\ call' = [call EXCEPT ![t].tid = cache.tid]
  /\ Goto(t, "WriteTable")
  /\ UNCHANGED <<db, up, cache, calls>>

\* The batch of a new table; when Write fails an assertion ends the process.
NewTable(n, tid) ==
  LET named == With(Entry(SequenceKey, tid + 1), TableKey(n), tid)
      segment == With(With(named, SegmentKey(tid), 0), NextIdKey(tid), <<0, 0>>)
  IN With(segment, MappingKey(tid), n)

WriteTable(t) ==
  /\ pc[t] = "WriteTable"
  /\ db' = Apply(db, NewTable(call[t].name, call[t].tid))
  /\ Goto(t, "TableSeg")
  /\ UNCHANGED <<up, cache, call, calls>>

TableSeg(t) ==
  /\ pc[t] = "TableSeg"
  /\ cache' = [cache EXCEPT !.seg = With(@, call[t].tid, 0)]
  /\ Goto(t, "TableOffset")
  /\ UNCHANGED <<db, up, call, calls>>

TableOffset(t) ==
  /\ pc[t] = "TableOffset"
  /\ cache' = [cache EXCEPT !.offset = With(@, call[t].tid, 0)]
  /\ Goto(t, "SetTid")
  /\ UNCHANGED <<db, up, call, calls>>

\* DBCache::SetTid maps the name to the tid_ of that moment.
SetTid(t) ==
  /\ pc[t] = "SetTid"
  /\ LET n == call[t].name
     IN cache' = [cache EXCEPT !.tidOf = With(@, n, cache.tid),
                               !.nameOf = With(@, cache.tid, n),
                               !.schema = With(@, n, n),
                               !.tid = call[t].tid + 1]
  /\ Goto(t, "Mapping")
  /\ UNCHANGED <<db, up, call, calls>>

\* UpdateTableMapping(tid, schema); tidnamemap_[tid] is an empty name when missing.
Mapping(t) ==
  /\ pc[t] = "Mapping"
  /\ LET tid == call[t].tid
         name == IF Has(cache.nameOf, tid) THEN cache.nameOf[tid] ELSE None
     IN cache' = [cache EXCEPT !.schema = With(@, name, call[t].name)]
  /\ Return(t)
  /\ UNCHANGED <<db, up, calls>>

-----------------------------------------------------------------------------
(* AddDoc, AddDocs *)

\* GetSchema and GetTidByTname: a table the cache does not know is NotFound.
AddDocs(t, n, batch) ==
  /\ up /\ pc[t] = "idle" /\ MayAdd(n)
  /\ calls < MaxCalls
  /\ Has(cache.schema, n) /\ Has(cache.tidOf, n)
  /\ call' = [call EXCEPT ![t] = [NoCall EXCEPT !.name = n, !.docs = batch,
                                                !.tid = cache.tidOf[n]]]
  /\ calls' = calls + 1
  /\ Goto(t, "GetSegId")
  /\ UNCHANGED <<db, up, cache>>

GetSegId(t) ==
  /\ pc[t] = "GetSegId"
  /\ IF Has(cache.seg, call[t].tid)
     THEN /\ call' = [call EXCEPT ![t].sid = cache.seg[call[t].tid]]
          /\ Goto(t, "GetTidOffset")
     ELSE Return(t)
  /\ UNCHANGED <<db, up, cache, calls>>

\* The loop over the documents, then the batch is written.
Loop(docs) == IF docs = <<>> THEN "Write" ELSE "Build"

\* tidoffsetmap_[tid] is 0 when missing.
GetTidOffset(t) ==
  /\ pc[t] = "GetTidOffset"
  /\ LET tid == call[t].tid
     IN call' = [call EXCEPT ![t].offset = IF Has(cache.offset, tid) THEN cache.offset[tid] ELSE 0]
  /\ Goto(t, Loop(call[t].docs))
  /\ UNCHANGED <<db, up, cache, calls>>

\* Doc::Serialize: the bytes of each field, the uid being field 0.
Serialized(doc) == [f \in Fids |-> IF f = 0 THEN doc.uid ELSE doc.val[f]]

\* The address a uid has in the database, when it has one.
Found(tid, doc) == Has(db, UidKey(tid, doc.uid))
OldAddr(tid, doc) == db[UidKey(tid, doc.uid)]

\* A document of an earlier segment moves to the current one.
Moves(tid, acc, doc) == Found(tid, doc) /\ OldAddr(tid, doc)[1] # acc.sid

\* A document of the current segment is overwritten in its place.
StaysAt(tid, acc, doc) == Found(tid, doc) /\ OldAddr(tid, doc)[1] = acc.sid

OffsetUsed(tid, acc, doc) ==
  IF StaysAt(tid, acc, doc) THEN OldAddr(tid, doc)[2] ELSE acc.offset

\* What is deleted of a document that moves: its values and their index entries.
Deletes(tid, doc) ==
  LET old == OldAddr(tid, doc)
      keys == UNION {{ValueKey(tid, old, f), IndexKey(tid, f, db[ValueKey(tid, old, f)], old)}
                       : f \in Fids}
  IN [k \in keys |-> Deleted]

Puts(tid, addr, doc) ==
  LET vals == [k \in {ValueKey(tid, addr, f) : f \in Fids} |-> Serialized(doc)[k[5]]]
      inds == [k \in {IndexKey(tid, f, Serialized(doc)[f], addr) : f \in Fids} |-> None]
  IN Over(vals, With(inds, UidKey(tid, doc.uid), addr))

\* Where the document after this one goes: a full segment is left for the next.
Advance(sid, offset, isNew) ==
  LET next == IF isNew THEN offset + 1 ELSE offset
  IN IF isNew /\ next >= DBTableSegmentSize
     THEN [sid |-> sid + 1, offset |-> 0, rolled |-> TRUE]
     ELSE [sid |-> sid, offset |-> next, rolled |-> FALSE]

\* The assertion that every field of a document that moves is found.
AddDocFinds(tid, doc) == \A f \in Fids : Has(db, ValueKey(tid, OldAddr(tid, doc), f))

\* AddDoc with the batch: it reads the database, never what is in the batch so far.
AddDoc(tid, acc, doc) ==
  LET addr == <<acc.sid, OffsetUsed(tid, acc, doc)>>
      dels == IF Moves(tid, acc, doc) THEN Deletes(tid, doc) ELSE <<>>
      adv  == Advance(acc.sid, acc.offset, ~StaysAt(tid, acc, doc))
      put  == Over(Puts(tid, addr, doc), Over(dels, acc.wb))
      segs == IF adv.rolled THEN With(put, SegmentKey(tid), adv.sid) ELSE put
  IN [sid |-> adv.sid, offset |-> adv.offset, updated |-> acc.updated \/ adv.rolled,
      wb |-> With(segs, NextIdKey(tid), <<adv.sid, adv.offset>>)]

\* One document of the loop; a failed assertion ends the process, as Crash does at any moment.
Build(t) ==
  /\ pc[t] = "Build"
  /\ LET tid == call[t].tid
         doc == Head(call[t].docs)
         rest == Tail(call[t].docs)
         acc == AddDoc(tid, call[t], doc)
     IN /\ Moves(tid, call[t], doc) => AddDocFinds(tid, doc)
        /\ call' = [call EXCEPT ![t] = [@ EXCEPT !.docs = rest, !.sid = acc.sid,
                                    !.offset = acc.offset, !.updated = acc.updated, !.wb = acc.wb]]
        /\ Goto(t, Loop(rest))
  /\ UNCHANGED <<db, up, cache, calls>>

\* Variant: the cache is not told of the new segment.
WriteKeepsSegment(t) ==
  /\ pc[t] = "Write"
  /\ db' = Apply(db, call[t].wb)
  /\ Goto(t, "UpdateTidOffset")
  /\ UNCHANGED <<up, cache, call, calls>>

Write(t) ==
  /\ pc[t] = "Write"
  /\ db' = Apply(db, call[t].wb)
  /\ Goto(t, IF call[t].updated THEN "UpdateSegMap" ELSE "UpdateTidOffset")
  /\ UNCHANGED <<up, cache, call, calls>>

\* Write reports an error: the call returns it and leaves the cache alone.
WriteFails(t) ==
  /\ pc[t] = "Write"
  /\ Return(t)
  /\ UNCHANGED <<db, up, cache, calls>>

UpdateSegMap(t) ==
  /\ pc[t] = "UpdateSegMap"
  /\ cache' = [cache EXCEPT !.seg = With(@, call[t].tid, call[t].sid)]
  /\ Goto(t, "UpdateTidOffset")
  /\ UNCHANGED <<db, up, call, calls>>

UpdateTidOffset(t) ==
  /\ pc[t] = "UpdateTidOffset"
  /\ cache' = [cache EXCEPT !.offset = With(@, call[t].tid, call[t].offset)]
  /\ Return(t)
  /\ UNCHANGED <<db, up, calls>>

-----------------------------------------------------------------------------
(* Reads: they change nothing, unless an assertion ends the process *)

\* GetTables: name, id and current segment of every table.
GetTables == {[name |-> k[2], id |-> db[k], sid |-> db[SegmentKey(db[k])]] : k \in Keys(db, "TTP")}

\* GetDoc: the fields stored at the address of a uid, those before the last id of a byte.
GetDoc(tid, uid) ==
  LET addr == db[UidKey(tid, uid)]
      keys == {k \in Keys(db, "TFV") : k[2] = tid /\ <<k[3], k[4]>> = addr /\ k[5] < 255}
  IN [f \in {k[5] : k \in keys} |-> db[ValueKey(tid, addr, f)]]

\* Variant: the current segment is left out.
LoadedSegmentsShort(current_sid) == 0 .. current_sid - 1

\* LoadField goes segment by segment up to the current one.
LoadedSegments(current_sid) == 0 .. current_sid

\* A byte of a key as the code compares it, and the byte of a value that is loaded.
SignedChar(b) == IF b < 128 THEN b ELSE b - 256
FirstByte(v) == Serialize(v) \div 2^(Bits - ByteBits)

\* The addresses whose field is loaded and the byte that is loaded, once for each byte
\* of the value, in the order of the addresses.
LoadSegment(tid, sid, f) ==
  {<<<<k[3], k[4]>>, FirstByte(db[k])>> :
     k \in {x \in Keys(db, "TFV") : x[2] = tid /\ x[3] = sid /\ SignedChar(x[5]) = f}}

LoadField(tid, f) ==
  UNION {LoadSegment(tid, sid, f) : sid \in LoadedSegments(db[SegmentKey(tid)])}

\* The index entries for the values from lower up to upper, and their order.
Indexed(tid, f, lower, upper) ==
  {k \in Keys(db, "TFI") : k[2] = tid /\ k[3] = f /\ Serialize(lower) <= k[4] /\ k[4] < Serialize(upper)}

Before(j, k) ==
  \/ j[4] < k[4]
  \/ j[4] = k[4] /\ (j[5] < k[5] \/ (j[5] = k[5] /\ j[6] < k[6]))

\* Whether the loop over the entries reaches one before the limit of the filter.
Reached(entries, k, number) == Cardinality({j \in entries : Before(j, k)}) < number

\* GetDocs: the addresses of the first entries of the index.
Filtered(tid, f, lower, upper, number) ==
  LET entries == Indexed(tid, f, lower, upper)
  IN {<<k[5], k[6]>> : k \in {x \in entries : Reached(entries, x, number)}}

\* The assertion of GetDocs that the value an index entry is about is found.
GetDocsFinds(tid, f, lower, upper, number) ==
  \A addr \in Filtered(tid, f, lower, upper, number) : Has(db, ValueKey(tid, addr, f))

GetDocs(t, n) ==
  /\ up /\ pc[t] = "idle" /\ Has(cache.tidOf, n)
  /\ \E f \in FieldIds, lower \in Vals, upper \in Vals, number \in Limits :
       ~GetDocsFinds(cache.tidOf[n], f, lower, upper, number)
  /\ Down

-----------------------------------------------------------------------------
Init ==
  /\ db = <<>> /\ up = FALSE /\ cache = EmptyCache
  /\ pc = [t \in Threads |-> "idle"]
  /\ call = [t \in Threads |-> NoCall]
  /\ calls = 0

Next ==
  \/ Open \/ Crash
  \/ \E t \in Threads :
       \/ \E n \in Names :
            \/ CreateTable(t, n) \/ GetDocs(t, n)
            \/ \E batch \in Batches : AddDocs(t, n, batch)
       \/ GetTid(t) \/ WriteTable(t) \/ TableSeg(t) \/ TableOffset(t) \/ SetTid(t) \/ Mapping(t)
       \/ GetSegId(t) \/ GetTidOffset(t) \/ Build(t) \/ Write(t) \/ WriteFails(t)
       \/ UpdateSegMap(t) \/ UpdateTidOffset(t)

Spec == Init /\ [][Next]_vars

-----------------------------------------------------------------------------
(* Properties *)

TypeOK ==
  /\ up \in BOOLEAN
  /\ pc \in [Threads -> {"idle"} \cup CreateSteps \cup AddSteps]
  /\ calls \in 0 .. MaxCalls
  /\ DOMAIN cache.tidOf \subseteq Names
  /\ \A t \in Threads : call[t].name \in Names \cup {None} /\ call[t].offset < DBTableSegmentSize

Tables == {k[2] : k \in Keys(db, "TTP")}
Tid(n) == db[TableKey(n)]
Live(tid) == {k[3] : k \in {x \in Keys(db, "TID") : x[2] = tid}}
AddrOf(tid, uid) == db[UidKey(tid, uid)]

Settled(n) == \A t \in Threads : call[t].name # n

\* Whatever the threads, failed writes and restarts did, for a table no call is working
\* on the cache of rocksdb_impl.h says exactly what a restart would read back.
CacheIsStored ==
  up =>
    /\ (\A t \in Threads : pc[t] \notin CreateSteps) => cache.tid = db[SequenceKey]
    /\ \A n \in Names : Settled(n) =>
         /\ Has(cache.tidOf, n) <=> n \in Tables
         /\ n \in Tables =>
              LET tid == Tid(n)
                  rec == Recovered(db)
              IN /\ cache.tidOf[n] = tid /\ cache.nameOf[tid] = n
                 /\ cache.schema[n] = rec.schema[n]
                 /\ <<cache.seg[tid], cache.offset[tid]>> = <<rec.seg[tid], rec.offset[tid]>>

\* AddDoc never gives out an address twice: tables have different ids, the uids of a table
\* different addresses, all below the stored next id, each with every field of that uid,
\* and the current segment is the one of the next id (so no assertion of AddDoc fails).
AddressesSound ==
  /\ TypeOK
  /\ \A n \in Tables :
       LET tid == Tid(n)
           next == db[NextIdKey(tid)]
       IN /\ tid < db[SequenceKey] /\ \A m \in Tables \ {n} : Tid(m) # tid
          /\ db[SegmentKey(tid)] = next[1]
          /\ \A u \in Live(tid) :
               LET addr == AddrOf(tid, u)
               IN /\ addr[1] < next[1] \/ (addr[1] = next[1] /\ addr[2] < next[2])
                  /\ \A w \in Live(tid) \ {u} : AddrOf(tid, w) # addr
                  /\ DOMAIN GetDoc(tid, u) = Fids /\ GetDoc(tid, u)[0] = u

\* Cache, store and addresses stay consistent with each other.
StoreSound == CacheIsStored /\ AddressesSound

\* What LoadField and GetDocs miss of the live documents.  LoadField loads the first byte of
\* the field of every one if the id of the field is a positive char.  A filter with
\* non-negative bounds finds every one whose field lies in its range, unless as many index
\* entries as its limit, the stale ones counted, come before the one of the document.
ReadsComplete ==
  \A n \in Tables : \A u \in Live(Tid(n)), f \in FieldIds :
    LET tid == Tid(n)
        addr == AddrOf(tid, u)
        v == GetDoc(tid, u)[f]
    IN /\ f < 128 => <<addr, FirstByte(v)>> \in LoadField(tid, f)
       /\ \A lower, upper \in Vals, number \in Limits :
            (/\ 0 <= lower /\ lower <= v /\ v < upper
             /\ Reached(Indexed(tid, f, lower, upper), IndexKey(tid, f, v, addr), number))
              => addr \in Filtered(tid, f, lower, upper, number)

\* The values read back through GetDoc.
StoredDocs ==
  [k \in UNION {{<<n, u>> : u \in Live(Tid(n))} : n \in Tables} |->
     [f \in FieldIds |-> GetDoc(Tid(k[1]), k[2])[f]]]

DM == INSTANCE DocMap WITH tables <- Tables, docs <- StoredDocs

\* What GetTables and GetDoc see only changes as a document map does: CreateTable adds one
\* name, AddDocs a whole batch of which the last document of a uid counts, and neither a
\* crash, a failed write, a segment change nor another thread changes or loses a document.
ImplementsDocMap == DM!MapSpec

\* `assert(s.ok())` of GetDocs: the value of every location the index yields is stored.
IndexedValueStored ==
  \A n \in Tables, f \in FieldIds, lower, upper \in Vals, number \in Limits :
    GetDocsFinds(Tid(n), f, lower, upper, number)
=============================================================================
