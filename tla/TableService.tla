---------------------------- MODULE TableService ----------------------------
(***************************************************************************)
(* The table service of rocksdb_service: ServiceImpl::CreateTable, run by  *)
(* threads of the gRPC server, over RocksDBImpl, its DBCache in memory and *)
(* a RocksDB (external: a batch is written as a whole, the write-ahead log *)
(* is on, so the end of the process loses nothing written).                *)
(*                                                                         *)
(* CreateTable stores numbers as decimal text, Init reads the next table   *)
(* id as the bytes of a long: the first bytes of a long text, what is      *)
(* behind the text for a short one.                                        *)
(***************************************************************************)
EXTENDS Naturals, Sequences, FiniteSets

CONSTANTS
  RpcThreads, TableNames,
  Radix,         \* of the text of a number
  DigitZero,     \* the character of the digit 0
  ByteSize,      \* values of a byte
  LongSize,      \* bytes of a long
  MaxStarts,     \* bound on the starts of the process
  MaxRpcs,       \* bound on the calls
  NotThere       \* no value

Top == ByteSize^LongSize
TableIds == 0 .. Top - 1

ASSUME ServiceAssumption ==
  /\ Radix \in Nat \ {0, 1} /\ DigitZero \in Nat \ {0} /\ ByteSize \in Nat /\ LongSize \in Nat
  /\ DigitZero + Radix <= ByteSize
  /\ MaxRpcs \in Nat /\ Top \in Nat /\ MaxRpcs < Top

VARIABLES
  seqKey,      \* (TSK): is it there, as text, and the id in it
  tableOf,     \* (T:name): name -> id
  segmentOf,   \* (TS:id): id -> its first segment and offset
  starts,      \* starts of the process so far
  running,     \* the process runs
  tid,         \* DBCache::tid_
  segmap,      \* DBCache::segmap_
  lastId,      \* the static ID
  rpcs,        \* each thread: step and locals
  rpcCount,    \* calls so far
  era,         \* history: the id this process started with and the tables it has made
  made,        \* history: name -> the start it was made in, its first id and the tables made before
  answers,     \* history: names and ids answered, with the start they were answered in
  overlap      \* history: two calls have overlapped

storeVars == <<seqKey, tableOf, segmentOf>>
processVars == <<tid, segmap, lastId>>
historyVars == <<era, made>>
serviceVars == <<storeVars, processVars, historyVars, starts, running, rpcs, rpcCount, answers, overlap>>

Idle == [at |-> "idle", name |-> NotThere, id |-> NotThere, answer |-> 0]
NextTid(id) == (id + 1) % Top
SetAt(f, k, v) == [x \in DOMAIN f \cup {k} |-> IF x = k THEN v ELSE f[x]]
Goes(t, r) == rpcs' = [rpcs EXCEPT ![t] = r]

\* The text of an id: its length, and its characters from the left.
Width(id) == CHOOSE w \in 1 .. LongSize * ByteSize : id < Radix^w /\ (w > 1 => Radix^(w - 1) <= id)
Character(id, i) == DigitZero + ((id \div Radix^(Width(id) - i)) % Radix)

\* A byte of a long, the lowest first.
ByteOf(n, i) == (n \div ByteSize^(i - 1)) % ByteSize

\* The long at the address of the text of an id: the text as far as it goes, the NUL
\* behind it, and then anything.
ReadAs(id, n) ==
  \A i \in 1 .. LongSize :
    /\ i <= Width(id) => ByteOf(n, i) = Character(id, i)
    /\ i = Width(id) + 1 => ByteOf(n, i) = 0

\* ServiceImpl, then RocksDBImpl::Init.
Start ==
  /\ ~running /\ starts < MaxStarts
  /\ running' = TRUE /\ starts' = starts + 1
  /\ segmap' = [i \in {} |-> 0] /\ lastId' = 0
  /\ \/ /\ ~seqKey.there
        /\ seqKey' = [there |-> TRUE, text |-> FALSE, id |-> 0] /\ tid' = 0
     \/ /\ seqKey.there /\ UNCHANGED seqKey
        /\ \/ ~seqKey.text /\ tid' = seqKey.id
           \/ seqKey.text /\ tid' \in {n \in TableIds : ReadAs(seqKey.id, n)}
  /\ era' = [first |-> tid', count |-> 0]
  /\ UNCHANGED <<tableOf, segmentOf, made, rpcs, rpcCount, answers, overlap>>

\* A failed Get or Write, a race on segmap_ and a signal all end the process; callers get an
\* error, and an empty response.
Crash ==
  /\ running /\ running' = FALSE
  /\ rpcs' = [t \in RpcThreads |-> Idle]
  /\ UNCHANGED <<storeVars, historyVars, processVars, starts, rpcCount, answers, overlap>>

\* CreateTable: Get of the name.
CreateTable(t, n) ==
  /\ running /\ rpcs[t].at = "idle" /\ rpcCount < MaxRpcs
  /\ rpcCount' = rpcCount + 1
  /\ overlap' = (overlap \/ \E u \in RpcThreads : rpcs[u].at # "idle")
  /\ Goes(t, [Idle EXCEPT !.name = n, !.at = IF n \in DOMAIN tableOf THEN "answer" ELSE "tid"])
  /\ UNCHANGED <<storeVars, historyVars, processVars, starts, running, answers>>

GetTid(t) ==
  /\ rpcs[t].at = "tid"
  /\ Goes(t, [rpcs[t] EXCEPT !.id = tid, !.at = "write"])
  /\ UNCHANGED <<storeVars, historyVars, processVars, starts, running, rpcCount, answers, overlap>>

\* Variant: the batch leaves the segment out.
WriteNoSegment(t) ==
  /\ rpcs[t].at = "write"
  /\ seqKey' = [there |-> TRUE, text |-> TRUE, id |-> NextTid(rpcs[t].id)]
  /\ tableOf' = SetAt(tableOf, rpcs[t].name, rpcs[t].id)
  /\ UNCHANGED segmentOf
  /\ made' = SetAt(made, rpcs[t].name, [start |-> starts, first |-> era.first, nth |-> era.count])
  /\ era' = [era EXCEPT !.count = @ + 1]
  /\ Goes(t, [rpcs[t] EXCEPT !.at = "segmap"])
  /\ UNCHANGED <<processVars, starts, running, rpcCount, answers, overlap>>

\* The batch.
WriteTable(t) ==
  /\ rpcs[t].at = "write"
  /\ seqKey' = [there |-> TRUE, text |-> TRUE, id |-> NextTid(rpcs[t].id)]
  /\ tableOf' = SetAt(tableOf, rpcs[t].name, rpcs[t].id)
  /\ segmentOf' = SetAt(segmentOf, rpcs[t].id, <<rpcs[t].id, 0>>)
  /\ made' = SetAt(made, rpcs[t].name, [start |-> starts, first |-> era.first, nth |-> era.count])
  /\ era' = [era EXCEPT !.count = @ + 1]
  /\ Goes(t, [rpcs[t] EXCEPT !.at = "segmap"])
  /\ UNCHANGED <<processVars, starts, running, rpcCount, answers, overlap>>

\* UpdateSegMap; the GetSegId that follows finds the entry.
UpdateSegMap(t) ==
  /\ rpcs[t].at = "segmap"
  /\ segmap' = SetAt(segmap, rpcs[t].id, 0)
  /\ Goes(t, [rpcs[t] EXCEPT !.at = "settid"])
  /\ UNCHANGED <<storeVars, historyVars, tid, lastId, starts, running, rpcCount, answers, overlap>>

SetTid(t) ==
  /\ rpcs[t].at = "settid"
  /\ tid' = NextTid(rpcs[t].id)
  /\ Goes(t, [rpcs[t] EXCEPT !.at = "answer"])
  /\ UNCHANGED <<storeVars, historyVars, segmap, lastId, starts, running, rpcCount, answers, overlap>>

\* ID++ of a static int: a read, then a write.
ReadId(t) ==
  /\ rpcs[t].at = "answer"
  /\ Goes(t, [rpcs[t] EXCEPT !.answer = lastId, !.at = "return"])
  /\ UNCHANGED <<storeVars, historyVars, processVars, starts, running, rpcCount, answers, overlap>>

Return(t) ==
  /\ rpcs[t].at = "return"
  /\ lastId' = rpcs[t].answer + 1
  /\ answers' = answers \cup {[name |-> rpcs[t].name, id |-> rpcs[t].answer, start |-> starts, nth |-> Cardinality(answers)]}
  /\ Goes(t, Idle)
  /\ UNCHANGED <<storeVars, historyVars, tid, segmap, starts, running, rpcCount, overlap>>

ServiceInit ==
  /\ seqKey = [there |-> FALSE, text |-> FALSE, id |-> 0] /\ tableOf = [n \in {} |-> 0] /\ segmentOf = [i \in {} |-> 0]
  /\ starts = 0 /\ running = FALSE /\ tid = 0 /\ segmap = [i \in {} |-> 0] /\ lastId = 0
  /\ rpcs = [t \in RpcThreads |-> Idle] /\ rpcCount = 0 /\ era = [first |-> 0, count |-> 0] /\ made = [n \in {} |-> 0] /\ answers = {} /\ overlap = FALSE

ServiceNext ==
  \/ Start \/ Crash
  \/ \E t \in RpcThreads :
       \/ \E n \in TableNames : CreateTable(t, n)
       \/ GetTid(t) \/ WriteTable(t) \/ UpdateSegMap(t) \/ SetTid(t) \/ ReadId(t) \/ Return(t)

ServiceSpec == ServiceInit /\ [][ServiceNext]_serviceVars

-----------------------------------------------------------------------------
\* Over crashes, restarts and races: a table that was answered is stored, every stored table has
\* its segment record, and so has every segment in memory. When no two calls have overlapped,
\* moreover, no two tables made by one process have one id, whatever it has read as its first
\* id and even if the ids pass the largest one, the next id in memory is of none of them once
\* the call that took it has ended, and no two answers of a process have one number. Tables
\* made by different processes may have one id: a start does not read the id that was stored.
TablesRecorded ==
  /\ \A a \in answers : a.name \in DOMAIN tableOf
  /\ \A n \in DOMAIN tableOf : tableOf[n] \in DOMAIN segmentOf /\ segmentOf[tableOf[n]] = <<tableOf[n], 0>>
  /\ DOMAIN segmap \subseteq DOMAIN segmentOf
  /\ ~overlap =>
       /\ \A m, n \in DOMAIN tableOf : made[m].start = made[n].start /\ tableOf[m] = tableOf[n] => m = n
       /\ running /\ (\A t \in RpcThreads : rpcs[t].at = "idle") =>
            \A n \in DOMAIN tableOf : made[n].start = starts => tableOf[n] # tid
       /\ \A a, b \in answers : a.start = b.start /\ a.id = b.id => a = b
=============================================================================
