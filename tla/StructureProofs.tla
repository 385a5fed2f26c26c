-------------------------- MODULE StructureProofs --------------------------
(***************************************************************************)
(* Proofs about the documents of rocksdb_lab and the messages of its       *)
(* service: the limits of a field and the sub-messages of a response,      *)
(* which one thread changes by a long series of calls, and the document    *)
(* store with its cache, for any threads, tables, fields and batches,      *)
(* crashes and restarts at any moment, and writes that fail.               *)
(***************************************************************************)
EXTENDS DocFields, DbMessages, DocStore, FiniteSetTheorems, SequenceTheorems, TLAPS

-----------------------------------------------------------------------------
(* Fields *)

FieldRecords == [fixed : BOOLEAN, mixinFixed : BOOLEAN, readonly : BOOLEAN, initialized : BOOLEAN,
                 value : Int, max : Int, min : Int]

\* The limits of one field.
LimitsOK(f) ==
  /\ f \in FieldRecords
  /\ f.min <= f.max
  /\ IsLength => 0 <= f.min /\ f.max <= MaxStart
  /\ f.fixed => f.initialized
  /\ f.fixed = f.mixinFixed

\* A call on a field keeps its limits.
LEMMA SetKeepsLimits ==
  ASSUME LimitsOK(field), NEW v \in Int, SetMax(v) \/ SetMin(v) \/ SetValue(v)
  PROVE  LimitsOK(field')
BY FieldAssumption DEF LimitsOK, FieldRecords, SetMax, SetMin, SetValue, LengthOK

\* Whatever the order of the calls, a field and its copy have ordered limits inside those of a
\* new field, and a built field is built in both parts: fields.h for any limits and values.
THEOREM FieldSafe == FieldSpec => []FieldLimitsSound
<1> DEFINE Inv == LimitsOK(field) /\ LimitsOK(copied)
<1>1. FieldInit => Inv
  BY FieldAssumption DEF FieldInit, NewField, LimitsOK, FieldRecords
<1>2. Inv /\ [FieldNext]_fieldVars => Inv'
  <2> SUFFICES ASSUME Inv, [FieldNext]_fieldVars PROVE Inv'
    OBVIOUS
  <2>1. ASSUME NEW v \in FieldValues, SetMax(v) \/ SetMin(v) \/ SetValue(v) PROVE Inv'
    <3>1. v \in Int /\ copied' = copied
      BY <2>1, FieldAssumption DEF SetMax, SetMin, SetValue
    <3>2. LimitsOK(field')
      BY <2>1, <3>1, SetKeepsLimits
    <3> QED BY <3>1, <3>2 DEF LimitsOK
  <2>2. ASSUME NEW ro \in BOOLEAN, SetReadonly(ro) PROVE Inv'
    BY <2>2 DEF SetReadonly, LimitsOK, FieldRecords
  <2>3. CASE BuildField
    BY <2>3 DEF BuildField, LimitsOK, FieldRecords
  <2>4. CASE CopyField
    BY <2>4 DEF CopyField, LimitsOK
  <2>5. CASE UNCHANGED fieldVars
    BY <2>5 DEF fieldVars, LimitsOK
  <2> QED BY <2>1, <2>2, <2>3, <2>4, <2>5 DEF FieldNext
<1>3. Inv => FieldLimitsSound
  BY DEF FieldLimitsSound, LimitsOK
<1> QED BY <1>1, <1>2, <1>3, PTL DEF FieldSpec

-----------------------------------------------------------------------------
(* Responses and their sub-messages *)

Fields == {"status", "table"}

\* Addresses a field may hold; Record(U) are the responses with unknown fields from U.
Addresses == SubIds \cup {Null}
Record(U) == [status : Addresses, table : Addresses, unknown : U]

RespOK == resp \in [Responses -> Record({resp[r].unknown : r \in Responses})]

\* The responses point to live sub-messages, each to its own.
FieldsOwn ==
  /\ \A r \in Responses, f \in Fields : resp[r][f] \in DOMAIN heap \cup {Null}
  /\ \A r, q \in Responses, f, g \in Fields : resp[r][f] = resp[q][g] /\ resp[r][f] # Null => r = q /\ f = g

\* The caller holds live sub-messages that no response points to.
HeldOwn ==
  /\ held \subseteq Fields \X SubIds
  /\ \A h \in held : h[2] \in DOMAIN heap
  /\ \A h, k \in held : h[2] = k[2] => h = k
  /\ \A h \in held, r \in Responses, f \in Fields : resp[r][f] # h[2]

\* No live sub-message is lost.
NoneLost ==
  \A i \in DOMAIN heap :
    /\ i \in SubIds
    /\ (\E r \in Responses, f \in Fields : resp[r][f] = i) \/ (\E h \in held : h[2] = i)

OwnInv == misuse = FALSE /\ RespOK /\ FieldsOwn /\ HeldOwn /\ NoneLost

\* The type only asks that every response is a record with addresses.
LEMMA RespType ==
  ASSUME NEW U, resp \in [Responses -> Record(U)]
  PROVE  RespOK
BY DEF RespOK, Record

\* One field of one response is made to point elsewhere, and no other.
SetPointer(r, f, i) == resp' = [resp EXCEPT ![r][f] = i]
OnlyMoves(r, f, i) == \A q \in Responses, g \in Fields : resp'[q][g] = IF q = r /\ g = f THEN i ELSE resp[q][g]

\* A pointer field assigned in a setter.
LEMMA SetOne ==
  ASSUME RespOK, NEW r \in Responses, NEW f \in Fields, NEW i \in Addresses, SetPointer(r, f, i)
  PROVE  RespOK' /\ OnlyMoves(r, f, i)
<1>1. PICK U : resp \in [Responses -> Record(U)]
  BY DEF RespOK
<1>2. PICK m : m = [resp[r] EXCEPT ![f] = i]
  OBVIOUS
<1>3. m \in Record(U) /\ m[f] = i /\ \A g \in Fields : g # f => m[g] = resp[r][g]
  <2>1. resp[r] \in Record(U)
    BY <1>1
  <2>2. CASE f = "status"
    BY <1>2, <2>1, <2>2 DEF Record, Fields
  <2>3. CASE f = "table"
    BY <1>2, <2>1, <2>3 DEF Record, Fields
  <2> QED BY <2>2, <2>3 DEF Fields
<1>4. resp' = [resp EXCEPT ![r] = m]
  BY <1>1, <1>2 DEF SetPointer
<1>5. resp' \in [Responses -> Record(U)]
  BY <1>1, <1>3, <1>4
<1>6. RespOK'
  BY <1>5 DEF RespOK, Record
<1> QED BY <1>1, <1>3, <1>4, <1>6 DEF OnlyMoves

\* An empty field gets a new sub-message.
LEMMA PointToNew ==
  ASSUME OwnInv, NEW r \in Responses, NEW f \in Fields, NEW i \in Free, SetPointer(r, f, i),
         resp[r][f] = Null, DOMAIN heap' = DOMAIN heap \cup {i}, UNCHANGED <<held, misuse>>
  PROVE  OwnInv'
<1>1. i \in SubIds /\ i \notin DOMAIN heap /\ i \in Addresses /\ i # Null
  BY MsgAssumption DEF Free, Addresses
<1>2. RespOK' /\ OnlyMoves(r, f, i)
  BY <1>1, SetOne DEF OwnInv
<1>3. FieldsOwn'
  BY <1>1, <1>2 DEF OwnInv, FieldsOwn, OnlyMoves
<1>4. HeldOwn'
  BY <1>1, <1>2 DEF OwnInv, HeldOwn, OnlyMoves
<1>5. NoneLost'
  <2> SUFFICES ASSUME NEW j \in DOMAIN heap'
               PROVE  j \in SubIds /\ ((\E q \in Responses, g \in Fields : resp'[q][g] = j) \/ (\E h \in held' : h[2] = j))
    BY DEF NoneLost
  <2>1. CASE j = i
    BY <1>1, <1>2, <2>1 DEF OnlyMoves
  <2>2. CASE j \in DOMAIN heap
    <3>1. j \in SubIds /\ ((\E q \in Responses, g \in Fields : resp[q][g] = j) \/ (\E h \in held : h[2] = j))
      BY <2>2 DEF OwnInv, NoneLost
    <3>2. j # Null
      BY <3>1, MsgAssumption
    <3> QED BY <1>2, <3>1, <3>2 DEF OnlyMoves
  <2> QED BY <2>1, <2>2
<1> QED BY <1>2, <1>3, <1>4, <1>5 DEF OwnInv

\* A sub-message is released to the caller.
LEMMA ReleaseKeeps ==
  ASSUME OwnInv, NEW r \in Responses, NEW f \in Fields, Release(r, f)
  PROVE  OwnInv'
<1> DEFINE i == resp[r][f]
<1>1. i \in DOMAIN heap /\ i \in SubIds /\ i # Null
  BY DEF Release, OwnInv, FieldsOwn, NoneLost
<1>2. RespOK' /\ OnlyMoves(r, f, Null)
  BY SetOne DEF OwnInv, Release, SetPointer, Addresses
<1>3. held' = held \cup {<<f, i>>} /\ heap' = heap /\ misuse' = misuse
  BY DEF Release
<1>4. \A q \in Responses, g \in Fields : resp'[q][g] # i
  BY <1>1, <1>2 DEF OwnInv, FieldsOwn, OnlyMoves
<1>5. FieldsOwn'
  BY <1>2, <1>3 DEF OwnInv, FieldsOwn, OnlyMoves
<1>6. HeldOwn'
  <2> HIDE DEF i
  <2>1. /\ held' \subseteq Fields \X SubIds
        /\ \A h \in held' : h[2] \in DOMAIN heap'
    BY <1>1, <1>3 DEF OwnInv, HeldOwn
  <2>2. \A h \in held : h[2] # i
    BY DEF i, OwnInv, HeldOwn
  <2>3. \A h, k \in held' : h[2] = k[2] => h = k
    BY <1>3, <2>2 DEF OwnInv, HeldOwn
  <2>4. \A h \in held', q \in Responses, g \in Fields : resp'[q][g] # h[2]
    <3> SUFFICES ASSUME NEW h \in held', NEW q \in Responses, NEW g \in Fields PROVE resp'[q][g] # h[2]
      OBVIOUS
    <3>1. CASE h = <<f, i>>
      BY <1>4, <3>1
    <3>2. CASE h \in held
      <4>1. h[2] \in SubIds /\ h[2] # Null /\ resp[q][g] # h[2]
        BY <3>2, MsgAssumption DEF OwnInv, HeldOwn
      <4> QED BY <1>2, <4>1 DEF OnlyMoves
    <3> QED BY <1>3, <3>1, <3>2
  <2> QED BY <2>1, <2>3, <2>4 DEF HeldOwn
<1>7. NoneLost'
  <2> SUFFICES ASSUME NEW j \in DOMAIN heap'
               PROVE  j \in SubIds /\ ((\E q \in Responses, g \in Fields : resp'[q][g] = j) \/ (\E h \in held' : h[2] = j))
    BY DEF NoneLost
  <2>1. j \in SubIds /\ ((\E q \in Responses, g \in Fields : resp[q][g] = j) \/ (\E h \in held : h[2] = j))
    BY <1>3 DEF OwnInv, NoneLost
  <2> HIDE DEF i
  <2>2. CASE j = i
    <3>1. <<f, i>> \in held' /\ <<f, i>>[2] = j
      BY <1>3, <2>2
    <3> QED BY <2>1, <3>1
  <2>3. CASE \E h \in held : h[2] = j
    BY <1>3, <2>1, <2>3
  <2>4. CASE j # i /\ \E q \in Responses, g \in Fields : resp[q][g] = j
    BY <1>2, <2>1, <2>4 DEF OnlyMoves, i
  <2> QED BY <2>1, <2>2, <2>3, <2>4
<1> QED BY <1>2, <1>3, <1>5, <1>6, <1>7 DEF OwnInv

\* The caller hands a sub-message over; the one it replaces is live, and deleted once.
LEMMA SetAllocatedKeeps ==
  ASSUME OwnInv, NEW r \in Responses, NEW f \in Fields, NEW i, <<f, i>> \in held, SetAllocated(r, f, i)
  PROVE  OwnInv'
<1> DEFINE old == resp[r][f]
<1>1. i \in DOMAIN heap /\ i \in SubIds /\ i \in Addresses /\ i # Null /\ i # old /\ old \in DOMAIN heap \cup {Null}
  <2>1. i \in SubIds /\ i \in DOMAIN heap /\ i # old
    BY DEF OwnInv, HeldOwn
  <2> QED BY <2>1, MsgAssumption DEF OwnInv, FieldsOwn, Addresses
<1>2. RespOK' /\ OnlyMoves(r, f, i)
  BY <1>1, SetOne DEF OwnInv, SetAllocated, SetPointer
<1>3. held' = held \ {<<f, i>>} /\ DOMAIN heap' = DOMAIN heap \ {old} /\ misuse' = FALSE
  BY <1>1 DEF SetAllocated, Delete, OwnInv
<1>4. /\ \A q \in Responses, g \in Fields : resp[q][g] # i
      /\ \A h \in held' : h \in held /\ h[2] # i /\ h[2] # old /\ h[2] # Null
  <2>1. \A q \in Responses, g \in Fields : resp[q][g] # i
    BY DEF OwnInv, HeldOwn
  <2>2. ASSUME NEW h \in held' PROVE h \in held /\ h[2] # i /\ h[2] # old /\ h[2] # Null
    BY <1>3, MsgAssumption DEF OwnInv, HeldOwn
  <2> QED BY <2>1, <2>2
<1> HIDE DEF old
<1>5. FieldsOwn'
  <2>1. ASSUME NEW q \in Responses, NEW g \in Fields PROVE resp'[q][g] \in DOMAIN heap' \cup {Null}
    <3>1. CASE q = r /\ g = f
      BY <1>1, <1>2, <1>3, <3>1 DEF OnlyMoves
    <3>2. CASE ~(q = r /\ g = f)
      <4>1. resp'[q][g] = resp[q][g] /\ (resp[q][g] = old => old = Null)
        BY <1>2, <3>2 DEF OnlyMoves, OwnInv, FieldsOwn, old
      <4> QED BY <1>3, <4>1 DEF OwnInv, FieldsOwn
    <3> QED BY <3>1, <3>2
  <2>2. ASSUME NEW q \in Responses, NEW k \in Responses, NEW g \in Fields, NEW e \in Fields,
               resp'[q][g] = resp'[k][e], resp'[q][g] # Null
        PROVE  q = k /\ g = e
    BY <1>2, <1>4, <2>2 DEF OnlyMoves, OwnInv, FieldsOwn
  <2> QED BY <2>1, <2>2 DEF FieldsOwn
<1>6. HeldOwn'
  <2>1. held' \subseteq Fields \X SubIds /\ \A h, k \in held' : h[2] = k[2] => h = k
    BY <1>3 DEF OwnInv, HeldOwn
  <2>2. \A h \in held' : h[2] \in DOMAIN heap'
    BY <1>3, <1>4 DEF OwnInv, HeldOwn
  <2>3. \A h \in held', q \in Responses, g \in Fields : resp'[q][g] # h[2]
    BY <1>2, <1>4 DEF OnlyMoves, OwnInv, HeldOwn
  <2> QED BY <2>1, <2>2, <2>3 DEF HeldOwn
<1>7. NoneLost'
  <2> SUFFICES ASSUME NEW j \in DOMAIN heap'
               PROVE  j \in SubIds /\ ((\E q \in Responses, g \in Fields : resp'[q][g] = j) \/ (\E h \in held' : h[2] = j))
    BY DEF NoneLost
  <2>1. j # old /\ j \in SubIds /\ ((\E q \in Responses, g \in Fields : resp[q][g] = j) \/ (\E h \in held : h[2] = j))
    BY <1>3 DEF OwnInv, NoneLost
  <2>2. CASE j = i
    BY <1>2, <2>1, <2>2 DEF OnlyMoves
  <2>3. CASE j # i /\ \E h \in held : h[2] = j
    <3>1. PICK h \in held : h[2] = j
      BY <2>3
    <3>2. h # <<f, i>>
      BY <2>3, <3>1
    <3> QED BY <1>3, <2>1, <3>1, <3>2
  <2>4. CASE \E q \in Responses, g \in Fields : resp[q][g] = j
    BY <1>2, <2>1, <2>4 DEF OnlyMoves, old
  <2> QED BY <2>1, <2>2, <2>3, <2>4
<1> QED BY <1>2, <1>3, <1>5, <1>6, <1>7 DEF OwnInv

\* clear_status and clear_table delete what the field owned.
LEMMA ClearFieldKeeps ==
  ASSUME OwnInv, NEW r \in Responses, NEW f \in Fields, ClearField(r, f)
  PROVE  OwnInv'
<1> DEFINE old == resp[r][f]
<1>1. old \in DOMAIN heap /\ old # Null
  BY DEF ClearField, OwnInv, FieldsOwn
<1>2. RespOK' /\ OnlyMoves(r, f, Null)
  BY SetOne DEF OwnInv, ClearField, SetPointer, Addresses
<1>3. held' = held /\ DOMAIN heap' = DOMAIN heap \ {old} /\ misuse' = misuse
  BY DEF ClearField, Delete
<1> HIDE DEF old
<1>4. FieldsOwn'
  <2>1. ASSUME NEW q \in Responses, NEW g \in Fields PROVE resp'[q][g] \in DOMAIN heap' \cup {Null}
    <3>1. ~(q = r /\ g = f) => resp'[q][g] = resp[q][g] /\ resp[q][g] # old
      BY <1>1, <1>2 DEF OnlyMoves, OwnInv, FieldsOwn, old
    <3> QED BY <1>2, <1>3, <3>1 DEF OwnInv, FieldsOwn, OnlyMoves
  <2> QED BY <1>2, <2>1 DEF OnlyMoves, OwnInv, FieldsOwn
<1>5. HeldOwn'
  <2>1. \A h \in held : h[2] # old /\ h[2] # Null
    BY MsgAssumption DEF OwnInv, HeldOwn, old
  <2> QED BY <1>2, <1>3, <2>1 DEF OnlyMoves, OwnInv, HeldOwn
<1>6. NoneLost'
  BY <1>2, <1>3 DEF OwnInv, NoneLost, OnlyMoves, old
<1> QED BY <1>2, <1>3, <1>4, <1>5, <1>6 DEF OwnInv

\* A response gets other sub-messages and unknown fields; the other responses keep theirs.
OnlyReplaced(r, s, t) ==
  \A q \in Responses, g \in Fields : resp'[q][g] = IF q = r THEN (IF g = "status" THEN s ELSE t) ELSE resp[q][g]

\* A whole response assigned at once.
LEMMA SetBoth ==
  ASSUME RespOK, NEW r \in Responses, NEW s \in Addresses, NEW t \in Addresses, NEW u,
         resp' = [resp EXCEPT ![r] = [status |-> s, table |-> t, unknown |-> u]]
  PROVE  RespOK' /\ OnlyReplaced(r, s, t)
<1>1. PICK U : resp \in [Responses -> Record(U)]
  BY DEF RespOK
<1>2. PICK m : m = [status |-> s, table |-> t, unknown |-> u]
  OBVIOUS
<1>3. m \in Record(U \cup {u}) /\ m["status"] = s /\ m["table"] = t
  BY <1>2 DEF Record
<1>4. resp \in [Responses -> Record(U \cup {u})]
  BY <1>1 DEF Record
<1>5. resp' \in [Responses -> Record(U \cup {u})]
  BY <1>2, <1>3, <1>4
<1>6. RespOK'
  BY <1>5 DEF RespOK, Record
<1> QED BY <1>2, <1>3, <1>4, <1>6 DEF OnlyReplaced, Fields

\* Clear deletes what both fields owned.
LEMMA ClearKeeps ==
  ASSUME OwnInv, NEW r \in Responses, Clear(r)
  PROVE  OwnInv'
<1>1. RespOK' /\ OnlyReplaced(r, Null, Null)
  BY SetBoth DEF OwnInv, Clear, ResponseClear, Addresses
<1>2. held' = held /\ DOMAIN heap' = DOMAIN heap \ {resp[r].status, resp[r].table} /\ misuse' = misuse
  BY DEF Clear, Delete
<1>3. resp[r].status = resp[r]["status"] /\ resp[r].table = resp[r]["table"] /\ {"status", "table"} = Fields
  BY DEF Fields
<1>4. \A q \in Responses, g \in Fields : q # r => resp'[q][g] = resp[q][g]
                                         /\ (resp[q][g] # Null => resp[q][g] \notin {resp[r].status, resp[r].table})
  BY <1>1, <1>3 DEF OnlyReplaced, OwnInv, FieldsOwn
<1>5. \A g \in Fields : resp'[r][g] = Null
  BY <1>1 DEF OnlyReplaced
<1>6. FieldsOwn'
  <2>1. ASSUME NEW q \in Responses, NEW g \in Fields PROVE resp'[q][g] \in DOMAIN heap' \cup {Null}
    BY <1>2, <1>4, <1>5 DEF OwnInv, FieldsOwn
  <2>2. \A q, k \in Responses, g, e \in Fields : resp'[q][g] = resp'[k][e] /\ resp'[q][g] # Null => q = k /\ g = e
    BY <1>4, <1>5 DEF OwnInv, FieldsOwn
  <2> QED BY <2>1, <2>2 DEF FieldsOwn
<1>7. HeldOwn'
  <2>1. \A h \in held : h[2] \notin {resp[r].status, resp[r].table} /\ h[2] # Null
    BY <1>3, MsgAssumption DEF OwnInv, HeldOwn
  <2> QED BY <1>2, <1>4, <1>5, <2>1 DEF OwnInv, HeldOwn
<1>8. NoneLost'
  <2> SUFFICES ASSUME NEW j \in DOMAIN heap'
               PROVE  j \in SubIds /\ ((\E q \in Responses, g \in Fields : resp'[q][g] = j) \/ (\E h \in held' : h[2] = j))
    BY DEF NoneLost
  <2>1. j \in SubIds /\ ((\E q \in Responses, g \in Fields : resp[q][g] = j) \/ (\E h \in held : h[2] = j))
    BY <1>2 DEF OwnInv, NoneLost
  <2>2. \A g \in Fields : resp[r][g] # j
    BY <1>2, <1>3
  <2> QED BY <1>2, <1>4, <2>1, <2>2
<1> QED BY <1>1, <1>2, <1>6, <1>7, <1>8 DEF OwnInv

\* Swap exchanges what two responses own.
LEMMA SwapKeeps ==
  ASSUME OwnInv, NEW r \in Responses, NEW q \in Responses, Swap(r, q)
  PROVE  OwnInv'
<1>1. held' = held /\ heap' = heap /\ misuse' = misuse
  BY DEF Swap
<1>2. PICK U : resp \in [Responses -> Record(U)]
  BY DEF OwnInv, RespOK
<1>3. resp' \in [Responses -> Record(U)]
  BY <1>2 DEF Swap
<1>4. RespOK'
  BY <1>3 DEF RespOK, Record
<1> DEFINE other(k) == IF k = r THEN q ELSE IF k = q THEN r ELSE k
<1>5. \A k \in Responses : other(k) \in Responses /\ other(other(k)) = k /\ resp'[k] = resp[other(k)]
  BY <1>2 DEF Swap
<1> HIDE DEF other
<1>6. FieldsOwn'
  <2>1. ASSUME NEW k \in Responses, NEW e \in Responses, NEW g \in Fields, NEW f \in Fields,
               resp'[k][g] = resp'[e][f], resp'[k][g] # Null
        PROVE  k = e /\ g = f
    <3>1. other(k) = other(e) /\ g = f
      BY <1>5, <2>1 DEF OwnInv, FieldsOwn
    <3> QED BY <1>5, <3>1
  <2> QED BY <1>1, <1>5, <2>1 DEF OwnInv, FieldsOwn
<1>7. HeldOwn'
  BY <1>1, <1>5 DEF OwnInv, HeldOwn
<1>8. NoneLost'
  <2> SUFFICES ASSUME NEW j \in DOMAIN heap
               PROVE  j \in SubIds /\ ((\E k \in Responses, g \in Fields : resp'[k][g] = j) \/ (\E h \in held : h[2] = j))
    BY <1>1 DEF NoneLost
  <2>1. j \in SubIds /\ ((\E k \in Responses, g \in Fields : resp[k][g] = j) \/ (\E h \in held : h[2] = j))
    BY DEF OwnInv, NoneLost
  <2>2. ASSUME NEW k \in Responses, NEW g \in Fields, resp[k][g] = j
        PROVE  other(k) \in Responses /\ resp'[other(k)][g] = j
    BY <1>5, <2>2
  <2> QED BY <2>1, <2>2
<1> QED BY <1>1, <1>4, <1>6, <1>7, <1>8 DEF OwnInv

\* The caller deletes a sub-message it holds, which is live.
LEMMA DeleteKeeps ==
  ASSUME OwnInv, NEW h \in held, DeleteHeld(h)
  PROVE  OwnInv'
<1>1. /\ resp' = resp /\ held' = held \ {h} /\ DOMAIN heap' = DOMAIN heap \ {h[2]} /\ misuse' = FALSE
  BY DEF DeleteHeld, Delete, OwnInv, HeldOwn
<1>2. RespOK'
  BY <1>1 DEF OwnInv, RespOK, Record
<1>3. FieldsOwn'
  BY <1>1 DEF OwnInv, FieldsOwn, HeldOwn
<1>4. HeldOwn'
  BY <1>1 DEF OwnInv, HeldOwn
<1>5. NoneLost'
  BY <1>1 DEF OwnInv, NoneLost
<1> QED BY <1>1, <1>2, <1>3, <1>4, <1>5 DEF OwnInv

\* Merging and parsing keep the sub-messages that are there and make the missing ones.
LEMMA StoreKeeps ==
  ASSUME OwnInv, NEW r \in Responses, NEW m, Store(r, m)
  PROVE  OwnInv'
<1>1. PICK s \in Home(resp[r].status, m.status), t \in Home(resp[r].table, m.table) :
        /\ s # t \/ s = Null
        /\ resp' = [resp EXCEPT ![r] = [status |-> s, table |-> t, unknown |-> m.unknown]]
        /\ heap' = [i \in DOMAIN heap \cup ({s, t} \ {Null}) |-> IF i = s THEN m.status ELSE IF i = t THEN m.table ELSE heap[i]]
  BY DEF Store
<1>2. DOMAIN heap' = DOMAIN heap \cup ({s, t} \ {Null}) /\ held' = held /\ misuse' = misuse
  BY <1>1 DEF Store
<1> DEFINE os == resp[r]["status"]
           ot == resp[r]["table"]
<1>3. /\ os # Null => s = os
      /\ os = Null => s = Null \/ s \in SubIds \ DOMAIN heap
      /\ ot # Null => t = ot
      /\ ot = Null => t = Null \/ t \in SubIds \ DOMAIN heap
  BY <1>1 DEF Home, Free
<1>4. os \in DOMAIN heap \cup {Null} /\ ot \in DOMAIN heap \cup {Null} /\ DOMAIN heap \subseteq SubIds /\ Null \notin SubIds
  BY MsgAssumption DEF OwnInv, FieldsOwn, NoneLost, Fields
<1>5. s \in Addresses /\ t \in Addresses
  BY <1>3, <1>4 DEF Addresses
<1>6. RespOK' /\ OnlyReplaced(r, s, t)
  BY <1>1, <1>5, SetBoth DEF OwnInv
<1>7. /\ \A q \in Responses, g \in Fields : q # r => resp'[q][g] = resp[q][g]
      /\ resp'[r]["status"] = s /\ resp'[r]["table"] = t
  BY <1>6 DEF OnlyReplaced, Fields
<1>8. ASSUME NEW q \in Responses, NEW g \in Fields, q # r
      PROVE  resp[q][g] \in DOMAIN heap \cup {Null} /\ (resp[q][g] # Null => resp[q][g] # s /\ resp[q][g] # t)
  <2>1. resp[q][g] # Null => resp[q][g] # os /\ resp[q][g] # ot
    BY <1>8 DEF OwnInv, FieldsOwn, Fields
  <2> QED BY <1>3, <2>1 DEF OwnInv, FieldsOwn
<1>9. FieldsOwn'
  <2>1. ASSUME NEW q \in Responses, NEW g \in Fields PROVE resp'[q][g] \in DOMAIN heap' \cup {Null}
    BY <1>2, <1>7, <1>8 DEF Fields
  <2>2. ASSUME NEW q \in Responses, NEW k \in Responses, NEW g \in Fields, NEW e \in Fields,
               resp'[q][g] = resp'[k][e], resp'[q][g] # Null
        PROVE  q = k /\ g = e
    <3>1. CASE q = r /\ k = r
      <4>1. g = "status" \/ g = "table"
        BY DEF Fields
      <4>2. e = "status" \/ e = "table"
        BY DEF Fields
      <4> QED BY <1>1, <1>7, <2>2, <3>1, <4>1, <4>2, Zenon
    <3>2. CASE q = r /\ k # r
      <4>1. resp'[q][g] = s \/ resp'[q][g] = t
        BY <1>7, <3>2 DEF Fields
      <4> QED BY <1>7, <1>8, <2>2, <3>2, <4>1
    <3>3. CASE q # r /\ k = r
      <4>1. resp'[k][e] = s \/ resp'[k][e] = t
        BY <1>7, <3>3 DEF Fields
      <4> QED BY <1>7, <1>8, <2>2, <3>3, <4>1
    <3>4. CASE q # r /\ k # r
      BY <1>7, <2>2, <3>4 DEF OwnInv, FieldsOwn
    <3> QED BY <3>1, <3>2, <3>3, <3>4
  <2> QED BY <2>1, <2>2 DEF FieldsOwn
<1>10. HeldOwn'
  <2>1. ASSUME NEW h \in held PROVE h[2] # s /\ h[2] # t
    <3>1. h[2] \in DOMAIN heap /\ h[2] # Null /\ h[2] # os /\ h[2] # ot
      BY <1>4 DEF OwnInv, HeldOwn, Fields
    <3> QED BY <1>3, <3>1
  <2>2. ASSUME NEW h \in held, NEW q \in Responses, NEW g \in Fields PROVE resp'[q][g] # h[2]
    <3>1. q = r => resp'[q][g] = s \/ resp'[q][g] = t
      BY <1>7 DEF Fields
    <3> QED BY <1>7, <2>1, <3>1 DEF OwnInv, HeldOwn
  <2> QED BY <1>2, <2>2 DEF OwnInv, HeldOwn
<1>11. NoneLost'
  <2> SUFFICES ASSUME NEW j \in DOMAIN heap'
               PROVE  j \in SubIds /\ ((\E q \in Responses, g \in Fields : resp'[q][g] = j) \/ (\E h \in held' : h[2] = j))
    BY DEF NoneLost
  <2>1. CASE j \in {s, t}
    BY <1>2, <1>4, <1>5, <1>7, <2>1 DEF Fields, Addresses
  <2>2. CASE j \in DOMAIN heap /\ j \notin {s, t}
    <3>1. j \in SubIds /\ ((\E q \in Responses, g \in Fields : resp[q][g] = j) \/ (\E h \in held : h[2] = j))
      BY <2>2 DEF OwnInv, NoneLost
    <3>2. \A g \in Fields : resp[r][g] # j
      BY <1>3, <1>4, <2>2 DEF Fields
    <3> QED BY <1>2, <1>7, <3>1, <3>2
  <2> QED BY <1>2, <2>1, <2>2
<1> QED BY <1>2, <1>6, <1>9, <1>10, <1>11 DEF OwnInv

\* mutable_status and mutable_table keep the sub-message that is there or make one.
LEMMA SetFieldKeeps ==
  ASSUME OwnInv, NEW r \in Responses, NEW f \in Fields, NEW m, SetField(r, f, m)
  PROVE  OwnInv'
<1>1. CASE resp[r][f] # Null
  <2>1. resp' = resp /\ held' = held /\ misuse' = misuse /\ DOMAIN heap' = DOMAIN heap \cup {resp[r][f]}
    BY <1>1 DEF SetField, Put
  <2>2. DOMAIN heap' = DOMAIN heap
    BY <1>1, <2>1 DEF OwnInv, FieldsOwn
  <2>3. RespOK'
    BY <2>1 DEF OwnInv, RespOK, Record
  <2>4. FieldsOwn' /\ HeldOwn'
    BY <2>1, <2>2 DEF OwnInv, FieldsOwn, HeldOwn
  <2>5. NoneLost'
    BY <2>1, <2>2 DEF OwnInv, NoneLost
  <2> QED BY <2>1, <2>3, <2>4, <2>5 DEF OwnInv
<1>2. CASE resp[r][f] = Null
  <2>1. PICK i \in Free : heap' = Put(heap, i, m) /\ resp' = [resp EXCEPT ![r][f] = i]
    BY <1>2 DEF SetField
  <2>2. SetPointer(r, f, i) /\ DOMAIN heap' = DOMAIN heap \cup {i} /\ UNCHANGED <<held, misuse>>
    BY <2>1 DEF SetPointer, Put, SetField
  <2> QED BY <1>2, <2>2, PointToNew
<1> QED BY <1>1, <1>2

\* Owning each live sub-message once, and no other, as SubMessagesOwned counts it.
LEMMA OwnMeans ==
  ASSUME OwnInv
  PROVE  SubMessagesOwned
<1> DEFINE owners(i) == {o \in Responses \X {"status", "table"} : resp[o[1]][o[2]] = i} \cup {h \in held : h[2] = i}
<1>1. ASSUME NEW i \in SubIds PROVE Cardinality(owners(i)) = IF i \in DOMAIN heap THEN 1 ELSE 0
  <2>1. i # Null
    BY MsgAssumption
  <2>2. ASSUME NEW o \in owners(i)
        PROVE  \/ o \in held /\ o[2] = i
               \/ o \in Responses \X Fields /\ o[1] \in Responses /\ o[2] \in Fields /\ o = <<o[1], o[2]>> /\ resp[o[1]][o[2]] = i
    BY DEF Fields
  <2>3. ASSUME NEW o \in owners(i), NEW p \in owners(i) PROVE o = p
    BY <2>1, <2>2 DEF OwnInv, FieldsOwn, HeldOwn
  <2>4. CASE i \in DOMAIN heap
    <3>1. (\E r \in Responses, f \in Fields : resp[r][f] = i) \/ (\E h \in held : h[2] = i)
      BY <2>4 DEF OwnInv, NoneLost
    <3>2. ASSUME NEW r \in Responses, NEW f \in Fields, resp[r][f] = i PROVE <<r, f>> \in owners(i)
      BY <3>2 DEF Fields
    <3>3. PICK o : o \in owners(i)
      BY <3>1, <3>2
    <3> HIDE DEF owners
    <3>4. owners(i) = {o}
      BY <2>3, <3>3
    <3> QED BY <2>4, <3>4, FS_Singleton
  <2>5. CASE i \notin DOMAIN heap
    <3>1. \A o \in owners(i) : FALSE
      BY <2>1, <2>2, <2>5 DEF OwnInv, FieldsOwn, HeldOwn
    <3> HIDE DEF owners
    <3>2. owners(i) = {}
      BY <3>1
    <3> QED BY <2>5, <3>2, FS_EmptySet
  <2> QED BY <2>4, <2>5
<1> QED BY <1>1 DEF SubMessagesOwned, OwnInv

\* Through release, set_allocated, swap, merge, parse and clear each live sub-message of
\* db.pb.cc's responses has one owner and none is deleted twice: for any number of responses and
\* addresses.
THEOREM MessagesSafe == MsgSpec => []SubMessagesOwned
<1>1. MsgInit => OwnInv
  <2> SUFFICES ASSUME MsgInit PROVE OwnInv
    OBVIOUS
  <2>1. resp \in [Responses -> Record({<<>>})]
    BY DEF MsgInit, ResponseClear, Record, Addresses
  <2>2. RespOK
    BY <2>1, RespType
  <2>3. DOMAIN heap = {} /\ held = {} /\ misuse = FALSE
    BY DEF MsgInit
  <2>4. \A r \in Responses, f \in Fields : resp[r][f] = Null
    BY DEF MsgInit, ResponseClear, Fields
  <2> QED BY <2>2, <2>3, <2>4 DEF OwnInv, FieldsOwn, HeldOwn, NoneLost
<1>2. OwnInv /\ [MsgNext]_msgVars => OwnInv'
  <2> SUFFICES ASSUME OwnInv, [MsgNext]_msgVars PROVE OwnInv'
    OBVIOUS
  <2>1. "status" \in Fields /\ "table" \in Fields
    BY DEF Fields
  <2>2. ASSUME NEW r \in Responses, NEW m, MutableStatus(r, m) \/ MutableTable(r, m) PROVE OwnInv'
    BY <2>1, <2>2, SetFieldKeeps DEF MutableStatus, MutableTable
  <2>3. ASSUME NEW r \in Responses, ReleaseStatus(r) \/ ReleaseTable(r) PROVE OwnInv'
    BY <2>1, <2>3, ReleaseKeeps DEF ReleaseStatus, ReleaseTable
  <2>4. ASSUME NEW r \in Responses, ClearStatus(r) \/ ClearTable(r) PROVE OwnInv'
    BY <2>1, <2>4, ClearFieldKeeps DEF ClearStatus, ClearTable
  <2>5. ASSUME NEW r \in Responses, Clear(r) PROVE OwnInv'
    BY <2>5, ClearKeeps
  <2>6. ASSUME NEW r \in Responses, NEW i \in SubIds, SetAllocatedStatus(r, i) \/ SetAllocatedTable(r, i) PROVE OwnInv'
    BY <2>1, <2>6, SetAllocatedKeeps DEF SetAllocatedStatus, SetAllocatedTable
  <2>7. ASSUME NEW r \in Responses, NEW w, ParseFrom(r, w) PROVE OwnInv'
    BY <2>7, StoreKeeps DEF ParseFrom
  <2>8. ASSUME NEW r \in Responses, NEW q \in Responses, Swap(r, q) \/ MergeFrom(r, q) PROVE OwnInv'
    BY <2>8, SwapKeeps, StoreKeeps DEF MergeFrom
  <2>9. ASSUME NEW h \in held, DeleteHeld(h) PROVE OwnInv'
    BY <2>9, DeleteKeeps
  <2>10. CASE UNCHANGED msgVars
    BY <2>10 DEF msgVars, OwnInv, RespOK, Record, FieldsOwn, HeldOwn, NoneLost
  <2> QED BY <2>2, <2>3, <2>4, <2>5, <2>6, <2>7, <2>8, <2>9, <2>10 DEF MsgNext
<1> QED BY <1>1, <1>2, OwnMeans, PTL DEF MsgSpec
-----------------------------------------------------------------------------
(* The document store *)

Addr == Nat \X Nat
UidSet == Int
ValSet == Int

\* The order in which AddDoc gives out addresses.
Below(a, b) == a[1] < b[1] \/ (a[1] = b[1] /\ a[2] < b[2])

KeyShape(k) ==
  \/ k = SequenceKey
  \/ \E n \in Names : k = TableKey(n)
  \/ \E i \in Nat : k = MappingKey(i) \/ k = SegmentKey(i) \/ k = NextIdKey(i)
  \/ \E i \in Nat, u \in UidSet : k = UidKey(i, u)
  \/ \E i \in Nat, a \in Addr, f \in Fids : k = ValueKey(i, a, f)
  \/ \E i \in Nat, a \in Addr, f \in Fids, v \in ValSet : k = IndexKey(i, f, v, a)

\* Every key is one the code writes, and no marker of a batch is stored.
Shapes(d) == \A k \in DOMAIN d : KeyShape(k) /\ d[k] # Deleted

IsTable(d, n) == n \in Names /\ Has(d, TableKey(n))
IsTid(d, i) == \E n \in Names : Has(d, TableKey(n)) /\ d[TableKey(n)] = i

\* The next table id is stored before the first table.
SeqOK(d) ==
  /\ Has(d, SequenceKey) => d[SequenceKey] \in Nat
  /\ \A n \in Names : Has(d, TableKey(n)) => Has(d, SequenceKey)

NameOK(d, n) ==
  LET i == d[TableKey(n)]
  IN /\ i \in Nat /\ i < d[SequenceKey]
     /\ \A m \in Names : Has(d, TableKey(m)) /\ d[TableKey(m)] = i => m = n
     /\ Has(d, MappingKey(i)) /\ d[MappingKey(i)] = n

NamesOK(d) == \A n \in Names : Has(d, TableKey(n)) => NameOK(d, n)

\* Nothing is stored for a table id that has not been given out.
IdsOK(d) ==
  \A i \in Nat :
    /\ Has(d, MappingKey(i)) => IsTid(d, i)
    /\ Has(d, NextIdKey(i)) => IsTid(d, i)
    /\ \A u \in UidSet : Has(d, UidKey(i, u)) => IsTid(d, i)

\* A field of the document at an address: its value and the index entry of that value.
FieldOK(d, i, a, f) ==
  /\ Has(d, ValueKey(i, a, f)) /\ d[ValueKey(i, a, f)] \in ValSet
  /\ Has(d, IndexKey(i, f, d[ValueKey(i, a, f)], a))

NextOK(d, i) ==
  /\ Has(d, NextIdKey(i)) /\ d[NextIdKey(i)] \in Addr
  /\ d[NextIdKey(i)][2] < DBTableSegmentSize
  /\ Has(d, SegmentKey(i)) /\ d[SegmentKey(i)] = d[NextIdKey(i)][1]

\* The document of a uid has an address of its own, already given out, with every field.
UidOK(d, i, u) ==
  LET a == d[UidKey(i, u)]
  IN /\ a \in Addr /\ Below(a, d[NextIdKey(i)])
     /\ \A w \in UidSet : Has(d, UidKey(i, w)) /\ d[UidKey(i, w)] = a => w = u
     /\ \A f \in Fids : FieldOK(d, i, a, f)
     /\ d[ValueKey(i, a, 0)] = u

TableOK(d, i) == NextOK(d, i) /\ \A u \in UidSet : Has(d, UidKey(i, u)) => UidOK(d, i, u)

TablesOK(d) == \A n \in Names : Has(d, TableKey(n)) => TableOK(d, d[TableKey(n)])

DbOK(d) == Shapes(d) /\ SeqOK(d) /\ NamesOK(d) /\ IdsOK(d) /\ TablesOK(d)

-----------------------------------------------------------------------------
(* What a batch of AddDocs would do to the table of the call *)

\* The keys of a batch belong to the table.
OwnKey(i, k) ==
  \/ k = SegmentKey(i) \/ k = NextIdKey(i)
  \/ \E u \in UidSet : k = UidKey(i, u)
  \/ \E a \in Addr, f \in Fids : k = ValueKey(i, a, f)
  \/ \E a \in Addr, f \in Fids, v \in ValSet : k = IndexKey(i, f, v, a)

\* Addresses the batch may touch: new ones, and those of the documents it replaces.
Touched(d, c, a) ==
  \/ ~Below(a, d[NextIdKey(c.tid)])
  \/ \E u \in UidSet : /\ Has(c.wb, UidKey(c.tid, u)) /\ Has(d, UidKey(c.tid, u))
                       /\ d[UidKey(c.tid, u)] = a

TouchesOK(d, c) ==
  \A a \in Addr, f \in Fids :
    /\ Has(c.wb, ValueKey(c.tid, a, f)) => Touched(d, c, a)
    /\ \A v \in ValSet : Has(c.wb, IndexKey(c.tid, f, v, a)) => Touched(d, c, a)

\* Where the batch puts a document: at a new address, or where it is.
PlaceOK(d, c, u) ==
  LET a == c.wb[UidKey(c.tid, u)]
  IN /\ a \in Addr /\ Below(a, <<c.sid, c.offset>>)
     /\ Below(a, d[NextIdKey(c.tid)]) => Has(d, UidKey(c.tid, u)) /\ d[UidKey(c.tid, u)] = a
     /\ \A w \in UidSet : Has(c.wb, UidKey(c.tid, w)) /\ c.wb[UidKey(c.tid, w)] = a => w = u
     /\ \A f \in Fids : /\ FieldOK(c.wb, c.tid, a, f)
                        /\ c.wb[IndexKey(c.tid, f, c.wb[ValueKey(c.tid, a, f)], a)] = None
     /\ c.wb[ValueKey(c.tid, a, 0)] = u

\* The counters of the call are those the batch stores, and start from the stored ones.
CountersOK(d, c) ==
  /\ c.sid \in Nat /\ c.offset \in Nat /\ c.offset < DBTableSegmentSize
  /\ ~Below(<<c.sid, c.offset>>, d[NextIdKey(c.tid)])
  /\ IF Has(c.wb, NextIdKey(c.tid)) THEN c.wb[NextIdKey(c.tid)] = <<c.sid, c.offset>>
     ELSE d[NextIdKey(c.tid)] = <<c.sid, c.offset>>
  /\ Has(c.wb, SegmentKey(c.tid)) <=> c.updated
  /\ IF c.updated THEN c.wb[SegmentKey(c.tid)] = c.sid
     ELSE d[SegmentKey(c.tid)] = c.sid

BatchOK(d, c) ==
  /\ \A k \in DOMAIN c.wb : OwnKey(c.tid, k)
  /\ TouchesOK(d, c)
  /\ \A u \in UidSet : Has(c.wb, UidKey(c.tid, u)) => PlaceOK(d, c, u)
  /\ CountersOK(d, c)

-----------------------------------------------------------------------------

CacheFields == {"tid", "seg", "offset", "tidOf", "nameOf", "schema"}
CallFields == {"name", "docs", "tid", "sid", "offset", "updated", "wb"}
Document == [uid : Int, val : [FieldIds -> Long]]

HalfCreated == {"TableSeg", "TableOffset", "SetTid"}
HalfAdded == {"UpdateSegMap", "UpdateTidOffset"}

Shape ==
  /\ up \in BOOLEAN /\ calls \in 0 .. MaxCalls
  /\ pc \in [Threads -> {"idle"} \cup CreateSteps \cup AddSteps]
  /\ DOMAIN call = Threads
  /\ \A t \in Threads : DOMAIN call[t] = CallFields
  /\ DOMAIN cache = CacheFields /\ DOMAIN cache.tidOf \subseteq Names

\* The threads: a call in progress works for a table, one creates and one adds per table.
CallsOK ==
  /\ \A t \in Threads :
       /\ pc[t] = "idle" => call[t] = NoCall
       /\ pc[t] # "idle" => up /\ call[t].name \in Names
       /\ pc[t] \in AddSteps => call[t].docs \in Seq(Document)
       /\ pc[t] \in CreateSteps \cup {"GetSegId", "GetTidOffset"} => call[t].offset = 0
  /\ \A s, t \in Threads :
       /\ pc[s] \in CreateSteps /\ pc[t] \in CreateSteps => s = t
       /\ pc[s] \in AddSteps /\ pc[t] \in AddSteps /\ call[s].name = call[t].name => s = t

\* A table the cache knows is stored under the same id, and what the cache knows of it is
\* stored too, unless a call has written its batch and not yet told the cache.
Known(n) ==
  LET i == cache.tidOf[n]
      next == db[NextIdKey(i)]
  IN /\ Has(db, TableKey(n)) /\ db[TableKey(n)] = i
     /\ Has(cache.nameOf, i) /\ cache.nameOf[i] = n
     /\ Has(cache.schema, n) /\ cache.schema[n] = n
     /\ Has(cache.seg, i) /\ Has(cache.offset, i)
     /\ \/ cache.seg[i] = next[1] /\ cache.offset[i] = next[2]
        \/ \E t \in Threads : pc[t] \in HalfAdded /\ call[t].name = n

CacheInv ==
  /\ Has(db, SequenceKey)
  /\ (\A t \in Threads : pc[t] \notin HalfCreated) => cache.tid = db[SequenceKey]
  /\ \A n \in DOMAIN cache.tidOf : Known(n)
  /\ \A n \in Names : Has(db, TableKey(n)) =>
       \/ Has(cache.tidOf, n)
       \/ \E t \in Threads : pc[t] \in HalfCreated /\ call[t].name = n

\* What a thread in CreateTable has done so far.
CreateInv(t) ==
  LET c == call[t]
  IN /\ pc[t] \in {"GetTid", "WriteTable"} => ~Has(db, TableKey(c.name))
     /\ pc[t] = "WriteTable" => c.tid = db[SequenceKey]
     /\ pc[t] \in HalfCreated =>
          /\ Has(db, TableKey(c.name)) /\ db[TableKey(c.name)] = c.tid
          /\ cache.tid = c.tid /\ db[SequenceKey] = c.tid + 1
          /\ db[NextIdKey(c.tid)] = <<0, 0>>
          /\ ~Has(cache.tidOf, c.name)
     /\ pc[t] \in {"TableOffset", "SetTid"} => Has(cache.seg, c.tid) /\ cache.seg[c.tid] = 0
     /\ pc[t] = "SetTid" => Has(cache.offset, c.tid) /\ cache.offset[c.tid] = 0
     /\ pc[t] = "Mapping" => Has(cache.tidOf, c.name) /\ cache.tidOf[c.name] = c.tid

\* What a thread in AddDocs has done so far.
AddInv(t) ==
  LET c == call[t]
      next == db[NextIdKey(c.tid)]
  IN /\ pc[t] \in AddSteps => Has(cache.tidOf, c.name) /\ cache.tidOf[c.name] = c.tid
     /\ pc[t] \in {"GetSegId", "GetTidOffset"} => c.wb = <<>> /\ ~c.updated
     /\ pc[t] = "GetTidOffset" => c.sid = next[1]
     /\ pc[t] \in {"Build", "Write"} => BatchOK(db, c)
     /\ pc[t] = "Build" => c.docs # <<>>
     /\ pc[t] \in HalfAdded => next = <<c.sid, c.offset>>
     /\ pc[t] = "UpdateTidOffset" => cache.seg[c.tid] = c.sid

StoreInv ==
  /\ Shape /\ DbOK(db) /\ CallsOK
  /\ up => CacheInv
  /\ \A t \in Threads : CreateInv(t) /\ AddInv(t)
-----------------------------------------------------------------------------
(* Keys, maps and batches *)

\* Keys of different kinds differ by their prefix, keys of one kind by their parts.
LEMMA KeysDiffer ==
  /\ \A n : TableKey(n) # SequenceKey
  /\ \A i : MappingKey(i) # SequenceKey /\ SegmentKey(i) # SequenceKey /\ NextIdKey(i) # SequenceKey
  /\ \A i, u : UidKey(i, u) # SequenceKey
  /\ \A i, a, f : ValueKey(i, a, f) # SequenceKey
  /\ \A i, f, v, a : IndexKey(i, f, v, a) # SequenceKey
  /\ \A n, i : MappingKey(i) # TableKey(n) /\ SegmentKey(i) # TableKey(n) /\ NextIdKey(i) # TableKey(n)
  /\ \A n, i, u : UidKey(i, u) # TableKey(n)
  /\ \A n, i, a, f : ValueKey(i, a, f) # TableKey(n)
  /\ \A n, i, f, v, a : IndexKey(i, f, v, a) # TableKey(n)
BY DEF SequenceKey, TableKey, MappingKey, SegmentKey, NextIdKey, UidKey, ValueKey, IndexKey

\* The same for the keys of tables.
LEMMA TableKeysDiffer ==
  /\ \A i, j : /\ MappingKey(i) # SegmentKey(j) /\ MappingKey(i) # NextIdKey(j)
               /\ SegmentKey(i) # NextIdKey(j)
  /\ \A i, j, u : UidKey(i, u) # MappingKey(j) /\ UidKey(i, u) # SegmentKey(j) /\ UidKey(i, u) # NextIdKey(j)
  /\ \A i, j, a, f : /\ ValueKey(i, a, f) # MappingKey(j) /\ ValueKey(i, a, f) # SegmentKey(j)
                     /\ ValueKey(i, a, f) # NextIdKey(j)
  /\ \A i, j, a, f, v : /\ IndexKey(i, f, v, a) # MappingKey(j) /\ IndexKey(i, f, v, a) # SegmentKey(j)
                        /\ IndexKey(i, f, v, a) # NextIdKey(j)
  /\ \A i, j, u, a, f : ValueKey(i, a, f) # UidKey(j, u)
  /\ \A i, j, u, a, f, v : IndexKey(i, f, v, a) # UidKey(j, u)
  /\ \A i, j, a, b, f, g, v : IndexKey(i, f, v, a) # ValueKey(j, b, g)
BY DEF MappingKey, SegmentKey, NextIdKey, UidKey, ValueKey, IndexKey

\* A key determines the parts it was made from.
LEMMA KeysInjective ==
  /\ \A n, m : TableKey(n) = TableKey(m) => n = m
  /\ \A i, j : MappingKey(i) = MappingKey(j) => i = j
  /\ \A i, j : SegmentKey(i) = SegmentKey(j) => i = j
  /\ \A i, j : NextIdKey(i) = NextIdKey(j) => i = j
  /\ \A i, j, u, w : UidKey(i, u) = UidKey(j, w) => i = j /\ u = w
BY DEF TableKey, MappingKey, SegmentKey, NextIdKey, UidKey

\* A value or index key determines the address.
LEMMA AddressInjective ==
  ASSUME NEW a \in Addr, NEW b \in Addr, NEW i, NEW j, NEW f, NEW g, NEW v, NEW w
  PROVE  /\ ValueKey(i, a, f) = ValueKey(j, b, g) => i = j /\ a = b /\ f = g
         /\ IndexKey(i, f, v, a) = IndexKey(j, g, w, b) => i = j /\ a = b /\ f = g
<1>1. a = <<a[1], a[2]>> /\ b = <<b[1], b[2]>>
  BY DEF Addr
<1>2. ValueKey(i, a, f) = ValueKey(j, b, g) => i = j /\ a[1] = b[1] /\ a[2] = b[2] /\ f = g
  BY DEF ValueKey
<1>3. IndexKey(i, f, v, a) = IndexKey(j, g, w, b) => i = j /\ a[1] = b[1] /\ a[2] = b[2] /\ f = g
  BY DEF IndexKey
<1>4. a[1] = b[1] /\ a[2] = b[2] => a = b
  BY <1>1
<1> QED
  BY <1>2, <1>3, <1>4

\* What a map holds after an entry is put into it.
LEMMA WithFacts ==
  ASSUME NEW f, NEW k, NEW v
  PROVE  /\ \A x : Has(With(f, k, v), x) <=> x = k \/ Has(f, x)
         /\ With(f, k, v)[k] = v
         /\ \A x : Has(f, x) /\ x # k => With(f, k, v)[x] = f[x]
BY DEF With, Over, Entry, Has

\* What two maps hold when the first comes before the second.
LEMMA OverFacts ==
  ASSUME NEW f, NEW g
  PROVE  /\ \A x : Has(Over(f, g), x) <=> Has(f, x) \/ Has(g, x)
         /\ \A x : Has(f, x) => Over(f, g)[x] = f[x]
         /\ \A x : Has(g, x) /\ ~Has(f, x) => Over(f, g)[x] = g[x]
BY DEF Over, Has

\* What the database holds after a batch.
LEMMA ApplyFacts ==
  ASSUME NEW d, NEW wb
  PROVE  /\ \A x : Has(wb, x) /\ wb[x] # Deleted => Has(Apply(d, wb), x) /\ Apply(d, wb)[x] = wb[x]
         /\ \A x : Has(wb, x) /\ wb[x] = Deleted => ~Has(Apply(d, wb), x)
         /\ \A x : ~Has(wb, x) /\ Has(d, x) /\ d[x] # Deleted
                      => Has(Apply(d, wb), x) /\ Apply(d, wb)[x] = d[x]
         /\ \A x : Has(Apply(d, wb), x) => Apply(d, wb)[x] # Deleted /\ (Has(wb, x) \/ Has(d, x))
<1> DEFINE all == Over(wb, d)
<1>1. \A x : Has(Apply(d, wb), x) <=> Has(all, x) /\ all[x] # Deleted
  BY DEF Apply, Has
<1>2. \A x : Has(Apply(d, wb), x) => Apply(d, wb)[x] = all[x]
  BY DEF Apply, Has
<1> HIDE DEF all
<1>3. /\ \A x : Has(all, x) <=> Has(wb, x) \/ Has(d, x)
      /\ \A x : Has(wb, x) => all[x] = wb[x]
      /\ \A x : Has(d, x) /\ ~Has(wb, x) => all[x] = d[x]
  BY OverFacts DEF all
<1> QED
  BY <1>1, <1>2, <1>3
-----------------------------------------------------------------------------
(* What AddDoc adds to the batch *)

\* The keys a document that moves leaves behind.
LEMMA DeletesFacts ==
  ASSUME NEW i, NEW doc
  PROVE  /\ \A k : Has(Deletes(i, doc), k) =>
                      \E f \in Fids : \/ k = ValueKey(i, OldAddr(i, doc), f)
                                      \/ k = IndexKey(i, f, db[ValueKey(i, OldAddr(i, doc), f)], OldAddr(i, doc))
         /\ \A k : Has(Deletes(i, doc), k) => Deletes(i, doc)[k] = Deleted
BY DEF Deletes, Has

\* The values, the index entries and the address of a document.
LEMMA PutsFacts ==
  ASSUME NEW i, NEW a \in Addr, NEW doc
  PROVE  /\ \A k : Has(Puts(i, a, doc), k) =>
                      \/ k = UidKey(i, doc.uid)
                      \/ \E f \in Fids : \/ k = ValueKey(i, a, f)
                                         \/ k = IndexKey(i, f, Serialized(doc)[f], a)
         /\ Has(Puts(i, a, doc), UidKey(i, doc.uid)) /\ Puts(i, a, doc)[UidKey(i, doc.uid)] = a
         /\ \A f \in Fids :
              /\ Has(Puts(i, a, doc), ValueKey(i, a, f))
              /\ Puts(i, a, doc)[ValueKey(i, a, f)] = Serialized(doc)[f]
              /\ Has(Puts(i, a, doc), IndexKey(i, f, Serialized(doc)[f], a))
              /\ Puts(i, a, doc)[IndexKey(i, f, Serialized(doc)[f], a)] = None
<1> DEFINE vals == [k \in {ValueKey(i, a, f) : f \in Fids} |-> Serialized(doc)[k[5]]]
           inds == [k \in {IndexKey(i, f, Serialized(doc)[f], a) : f \in Fids} |-> None]
           rest == With(inds, UidKey(i, doc.uid), a)
<1>1. Puts(i, a, doc) = Over(vals, rest)
  BY DEF Puts
<1>2. \A f : ValueKey(i, a, f)[5] = f
  BY DEF ValueKey
<1>3. /\ \A k : Has(vals, k) <=> \E f \in Fids : k = ValueKey(i, a, f)
      /\ \A f \in Fids : vals[ValueKey(i, a, f)] = Serialized(doc)[f]
  BY <1>2 DEF Has
<1>4. /\ \A k : Has(inds, k) <=> \E f \in Fids : k = IndexKey(i, f, Serialized(doc)[f], a)
      /\ \A k : Has(inds, k) => inds[k] = None
  BY DEF Has
<1> HIDE DEF vals, inds
<1>5. /\ \A k : Has(rest, k) <=> k = UidKey(i, doc.uid) \/ Has(inds, k)
      /\ rest[UidKey(i, doc.uid)] = a
      /\ \A k : Has(inds, k) /\ k # UidKey(i, doc.uid) => rest[k] = inds[k]
  BY WithFacts
<1> HIDE DEF rest
<1>6. /\ \A k : Has(Puts(i, a, doc), k) <=> Has(vals, k) \/ Has(rest, k)
      /\ \A k : Has(vals, k) => Puts(i, a, doc)[k] = vals[k]
      /\ \A k : Has(rest, k) /\ ~Has(vals, k) => Puts(i, a, doc)[k] = rest[k]
  BY <1>1, OverFacts
<1>7. ASSUME NEW f \in Fids
      PROVE  /\ Has(Puts(i, a, doc), ValueKey(i, a, f))
             /\ Puts(i, a, doc)[ValueKey(i, a, f)] = Serialized(doc)[f]
  BY <1>3, <1>6
<1>8. ~Has(vals, UidKey(i, doc.uid))
  BY <1>3, TableKeysDiffer
<1>9. Has(Puts(i, a, doc), UidKey(i, doc.uid)) /\ Puts(i, a, doc)[UidKey(i, doc.uid)] = a
  BY <1>8, <1>5, <1>6
<1>10. ASSUME NEW f \in Fids
       PROVE  /\ Has(Puts(i, a, doc), IndexKey(i, f, Serialized(doc)[f], a))
              /\ Puts(i, a, doc)[IndexKey(i, f, Serialized(doc)[f], a)] = None
  <2> DEFINE x == IndexKey(i, f, Serialized(doc)[f], a)
  <2>1. x # UidKey(i, doc.uid) /\ \A g : x # ValueKey(i, a, g)
    BY TableKeysDiffer
  <2>2. Has(inds, x) /\ inds[x] = None
    BY <1>4
  <2> HIDE DEF x
  <2>3. ~Has(vals, x)
    BY <2>1, <1>3
  <2>4. Has(rest, x) /\ rest[x] = None
    BY <2>1, <2>2, <1>5
  <2>5. Has(Puts(i, a, doc), x) /\ Puts(i, a, doc)[x] = None
    BY <2>3, <2>4, <1>6
  <2> QED
    BY <2>5 DEF x
<1>11. \A k : Has(Puts(i, a, doc), k) =>
                      \/ k = UidKey(i, doc.uid)
                      \/ \E f \in Fids : \/ k = ValueKey(i, a, f)
                                         \/ k = IndexKey(i, f, Serialized(doc)[f], a)
  BY <1>3, <1>4, <1>5, <1>6
<1> QED
  BY <1>7, <1>9, <1>10, <1>11
NewAddr(i, c, doc) == <<c.sid, OffsetUsed(i, c, doc)>>
NewPlace(i, c, doc) == Advance(c.sid, c.offset, ~StaysAt(i, c, doc))
NewBatch(i, c, doc) == AddDoc(i, c, doc).wb

\* The keys of one address are none of another.
LEMMA AddressesApart ==
  ASSUME NEW a \in Addr, NEW b \in Addr, a # b, NEW i, NEW f, NEW x,
         x = ValueKey(i, b, f) \/ \E v : x = IndexKey(i, f, v, b)
  PROVE  \A g : x # ValueKey(i, a, g) /\ \A v : x # IndexKey(i, g, v, a)
<1>1. CASE x = ValueKey(i, b, f)
  <2>1. ASSUME NEW g PROVE x # ValueKey(i, a, g)
    BY <1>1, AddressInjective
  <2>2. ASSUME NEW g, NEW v PROVE x # IndexKey(i, g, v, a)
    BY <1>1, TableKeysDiffer
  <2> QED
    BY <2>1, <2>2
<1>2. ASSUME NEW y, x = IndexKey(i, f, y, b)
      PROVE  \A g : x # ValueKey(i, a, g) /\ \A v : x # IndexKey(i, g, v, a)
  <2>1. ASSUME NEW g PROVE x # ValueKey(i, a, g)
    BY <1>2, TableKeysDiffer
  <2>2. ASSUME NEW g, NEW v PROVE x # IndexKey(i, g, v, a)
    <3>1. IndexKey(i, f, y, b) = IndexKey(i, g, v, a) => b = a
      BY AddressInjective
    <3> QED
      BY <3>1, <1>2
  <2> QED
    BY <2>1, <2>2
<1> QED
  BY <1>1, <1>2

\* The batch after AddDoc, key by key: the counters, what is put, what is deleted, the rest.
LEMMA NewBatchFacts ==
  ASSUME NEW i, NEW c, NEW doc
  PROVE  LET w == NewBatch(i, c, doc)
             adv == NewPlace(i, c, doc)
             puts == Puts(i, NewAddr(i, c, doc), doc)
             dels == Deletes(i, doc)
         IN /\ Has(w, NextIdKey(i)) /\ w[NextIdKey(i)] = <<adv.sid, adv.offset>>
            /\ adv.rolled => Has(w, SegmentKey(i)) /\ w[SegmentKey(i)] = adv.sid
            /\ \A k : k # NextIdKey(i) /\ ~(adv.rolled /\ k = SegmentKey(i)) =>
                 /\ Has(w, k) <=> \/ Has(puts, k) \/ Has(c.wb, k)
                                  \/ Moves(i, c, doc) /\ Has(dels, k)
                 /\ Has(puts, k) => w[k] = puts[k]
                 /\ ~Has(puts, k) /\ ~(Moves(i, c, doc) /\ Has(dels, k)) /\ Has(c.wb, k) => w[k] = c.wb[k]
<1> DEFINE adv == NewPlace(i, c, doc)
           puts == Puts(i, NewAddr(i, c, doc), doc)
           dels == IF Moves(i, c, doc) THEN Deletes(i, doc) ELSE <<>>
           old == Over(dels, c.wb)
           put == Over(puts, old)
           segs == IF adv.rolled THEN With(put, SegmentKey(i), adv.sid) ELSE put
           w == With(segs, NextIdKey(i), <<adv.sid, adv.offset>>)
<1>1. NewBatch(i, c, doc) = w
  BY DEF NewBatch, AddDoc, NewAddr, NewPlace
<1>2. \A k : Has(dels, k) <=> Moves(i, c, doc) /\ Has(Deletes(i, doc), k)
  BY DEF Has
<1> HIDE DEF adv, puts, dels
<1>3. /\ \A k : Has(old, k) <=> Has(dels, k) \/ Has(c.wb, k)
      /\ \A k : ~Has(dels, k) /\ Has(c.wb, k) => old[k] = c.wb[k]
  BY OverFacts
<1> HIDE DEF old
<1>4. /\ \A k : Has(put, k) <=> Has(puts, k) \/ Has(old, k)
      /\ \A k : Has(puts, k) => put[k] = puts[k]
      /\ \A k : ~Has(puts, k) /\ Has(old, k) => put[k] = old[k]
  BY OverFacts
<1> HIDE DEF put
<1>5. /\ adv.rolled => Has(segs, SegmentKey(i)) /\ segs[SegmentKey(i)] = adv.sid
      /\ \A k : ~(adv.rolled /\ k = SegmentKey(i)) => (Has(segs, k) <=> Has(put, k))
      /\ \A k : ~(adv.rolled /\ k = SegmentKey(i)) /\ Has(put, k) => segs[k] = put[k]
  BY WithFacts
<1> HIDE DEF segs
<1>6. /\ Has(w, NextIdKey(i)) /\ w[NextIdKey(i)] = <<adv.sid, adv.offset>>
      /\ \A k : k # NextIdKey(i) => (Has(w, k) <=> Has(segs, k))
      /\ \A k : k # NextIdKey(i) /\ Has(segs, k) => w[k] = segs[k]
  BY WithFacts
<1> HIDE DEF w
<1>7. SegmentKey(i) # NextIdKey(i)
  BY TableKeysDiffer
<1>8. /\ Has(w, NextIdKey(i)) /\ w[NextIdKey(i)] = <<adv.sid, adv.offset>>
      /\ adv.rolled => Has(w, SegmentKey(i)) /\ w[SegmentKey(i)] = adv.sid
  BY <1>5, <1>6, <1>7
<1>9. ASSUME NEW k, k # NextIdKey(i), ~(adv.rolled /\ k = SegmentKey(i))
      PROVE  /\ Has(w, k) <=> \/ Has(puts, k) \/ Has(c.wb, k)
                              \/ Moves(i, c, doc) /\ Has(Deletes(i, doc), k)
             /\ Has(puts, k) => w[k] = puts[k]
             /\ ~Has(puts, k) /\ ~(Moves(i, c, doc) /\ Has(Deletes(i, doc), k)) /\ Has(c.wb, k) => w[k] = c.wb[k]
  BY <1>2, <1>3, <1>4, <1>5, <1>6, <1>9
<1> QED
  BY <1>1, <1>8, <1>9 DEF adv, puts

\* The same by kind of key: only the document's uid, its new address and, when it moves,
\* its old address are touched.
LEMMA NewBatchKeys ==
  ASSUME NEW i, NEW c, NEW doc \in Document, NewAddr(i, c, doc) \in Addr,
         Moves(i, c, doc) => OldAddr(i, doc) \in Addr
  PROVE  LET w == NewBatch(i, c, doc)
             a == NewAddr(i, c, doc)
             adv == NewPlace(i, c, doc)
             s == Serialized(doc)
         IN /\ Has(w, NextIdKey(i)) /\ w[NextIdKey(i)] = <<adv.sid, adv.offset>>
            /\ adv.rolled => Has(w, SegmentKey(i)) /\ w[SegmentKey(i)] = adv.sid
            /\ ~adv.rolled => /\ Has(w, SegmentKey(i)) <=> Has(c.wb, SegmentKey(i))
                              /\ Has(c.wb, SegmentKey(i)) => w[SegmentKey(i)] = c.wb[SegmentKey(i)]
            /\ Has(w, UidKey(i, doc.uid)) /\ w[UidKey(i, doc.uid)] = a
            /\ \A u : u # doc.uid =>
                 /\ Has(w, UidKey(i, u)) <=> Has(c.wb, UidKey(i, u))
                 /\ Has(c.wb, UidKey(i, u)) => w[UidKey(i, u)] = c.wb[UidKey(i, u)]
            /\ \A f \in Fids :
                 /\ Has(w, ValueKey(i, a, f)) /\ w[ValueKey(i, a, f)] = s[f]
                 /\ Has(w, IndexKey(i, f, s[f], a)) /\ w[IndexKey(i, f, s[f], a)] = None
            /\ \A b \in Addr : b # a /\ ~(Moves(i, c, doc) /\ b = OldAddr(i, doc)) =>
                 \A f \in Fids :
                   /\ Has(w, ValueKey(i, b, f)) <=> Has(c.wb, ValueKey(i, b, f))
                   /\ Has(c.wb, ValueKey(i, b, f)) => w[ValueKey(i, b, f)] = c.wb[ValueKey(i, b, f)]
                   /\ \A v : /\ Has(w, IndexKey(i, f, v, b)) <=> Has(c.wb, IndexKey(i, f, v, b))
                             /\ Has(c.wb, IndexKey(i, f, v, b))
                                  => w[IndexKey(i, f, v, b)] = c.wb[IndexKey(i, f, v, b)]
<1> DEFINE w == NewBatch(i, c, doc)
           a == NewAddr(i, c, doc)
           adv == NewPlace(i, c, doc)
           s == Serialized(doc)
           puts == Puts(i, a, doc)
           dels == Deletes(i, doc)
           old == OldAddr(i, doc)
<1>1. /\ Has(w, NextIdKey(i)) /\ w[NextIdKey(i)] = <<adv.sid, adv.offset>>
      /\ adv.rolled => Has(w, SegmentKey(i)) /\ w[SegmentKey(i)] = adv.sid
      /\ \A k : k # NextIdKey(i) /\ ~(adv.rolled /\ k = SegmentKey(i)) =>
           /\ Has(w, k) <=> \/ Has(puts, k) \/ Has(c.wb, k)
                            \/ Moves(i, c, doc) /\ Has(dels, k)
           /\ Has(puts, k) => w[k] = puts[k]
           /\ ~Has(puts, k) /\ ~(Moves(i, c, doc) /\ Has(dels, k)) /\ Has(c.wb, k) => w[k] = c.wb[k]
  BY NewBatchFacts
<1>2. /\ \A k : Has(puts, k) =>
                   \/ k = UidKey(i, doc.uid)
                   \/ \E f \in Fids : k = ValueKey(i, a, f) \/ k = IndexKey(i, f, s[f], a)
      /\ Has(puts, UidKey(i, doc.uid)) /\ puts[UidKey(i, doc.uid)] = a
      /\ \A f \in Fids :
           /\ Has(puts, ValueKey(i, a, f)) /\ puts[ValueKey(i, a, f)] = s[f]
           /\ Has(puts, IndexKey(i, f, s[f], a)) /\ puts[IndexKey(i, f, s[f], a)] = None
  BY PutsFacts
<1>3. \A k : Has(dels, k) => \E f \in Fids : \/ k = ValueKey(i, old, f)
                                            \/ k = IndexKey(i, f, db[ValueKey(i, old, f)], old)
  BY DeletesFacts
<1> HIDE DEF w, a, adv, s, puts, dels, old
<1>4. ~adv.rolled => /\ Has(w, SegmentKey(i)) <=> Has(c.wb, SegmentKey(i))
                     /\ Has(c.wb, SegmentKey(i)) => w[SegmentKey(i)] = c.wb[SegmentKey(i)]
  <2> DEFINE x == SegmentKey(i)
  <2>1. x # NextIdKey(i) /\ (\A u : x # UidKey(i, u))
        /\ \A b, f : x # ValueKey(i, b, f) /\ \A v : x # IndexKey(i, f, v, b)
    BY TableKeysDiffer
  <2> HIDE DEF x
  <2>2. ~Has(puts, x) /\ ~Has(dels, x)
    BY <2>1, <1>2, <1>3
  <2>3. ~adv.rolled => /\ Has(w, x) <=> Has(c.wb, x)
                       /\ Has(c.wb, x) => w[x] = c.wb[x]
    BY <2>1, <2>2, <1>1
  <2> QED
    BY <2>3 DEF x
<1>5. ASSUME NEW u
      PROVE  /\ u = doc.uid => Has(w, UidKey(i, u)) /\ w[UidKey(i, u)] = a
             /\ u # doc.uid => /\ Has(w, UidKey(i, u)) <=> Has(c.wb, UidKey(i, u))
                               /\ Has(c.wb, UidKey(i, u)) => w[UidKey(i, u)] = c.wb[UidKey(i, u)]
  <2> DEFINE x == UidKey(i, u)
  <2>1. x # NextIdKey(i) /\ x # SegmentKey(i)
        /\ \A b, f : x # ValueKey(i, b, f) /\ \A v : x # IndexKey(i, f, v, b)
    BY TableKeysDiffer
  <2>2. u # doc.uid => x # UidKey(i, doc.uid)
    BY KeysInjective
  <2>3. CASE u = doc.uid
    BY <2>3, <2>1, <1>1, <1>2
  <2>4. CASE u # doc.uid
    <3> HIDE DEF x
    <3>1. ~Has(puts, x) /\ ~Has(dels, x)
      BY <2>1, <2>2, <2>4, <1>2, <1>3
    <3>2. (Has(w, x) <=> Has(c.wb, x)) /\ (Has(c.wb, x) => w[x] = c.wb[x])
      BY <2>1, <3>1, <1>1
    <3> QED
      BY <3>2, <2>4 DEF x
  <2> QED
    BY <2>3, <2>4
<1>6. ASSUME NEW f \in Fids
      PROVE  /\ Has(w, ValueKey(i, a, f)) /\ w[ValueKey(i, a, f)] = s[f]
             /\ Has(w, IndexKey(i, f, s[f], a)) /\ w[IndexKey(i, f, s[f], a)] = None
  <2>1. /\ ValueKey(i, a, f) # NextIdKey(i) /\ ValueKey(i, a, f) # SegmentKey(i)
        /\ IndexKey(i, f, s[f], a) # NextIdKey(i) /\ IndexKey(i, f, s[f], a) # SegmentKey(i)
    BY TableKeysDiffer
  <2> QED
    BY <2>1, <1>1, <1>2
<1>7. ASSUME NEW b \in Addr, b # a, ~(Moves(i, c, doc) /\ b = old), NEW f \in Fids, NEW x,
             x = ValueKey(i, b, f) \/ \E v : x = IndexKey(i, f, v, b)
      PROVE  (Has(w, x) <=> Has(c.wb, x)) /\ (Has(c.wb, x) => w[x] = c.wb[x])
  <2>1. x # NextIdKey(i) /\ x # SegmentKey(i) /\ x # UidKey(i, doc.uid)
    BY <1>7, TableKeysDiffer
  <2>2. a \in Addr /\ (Moves(i, c, doc) => old \in Addr)
    BY DEF a, old
  <2>3. \A g \in Fids : x # ValueKey(i, a, g) /\ \A v : x # IndexKey(i, g, v, a)
    BY <1>7, <2>2, AddressesApart
  <2>4. Moves(i, c, doc) => \A g \in Fids : x # ValueKey(i, old, g) /\ \A v : x # IndexKey(i, g, v, old)
    BY <1>7, <2>2, AddressesApart
  <2>5. ~Has(puts, x)
    BY <2>1, <2>3, <1>2
  <2>6. ~(Moves(i, c, doc) /\ Has(dels, x))
    BY <2>4, <1>3
  <2> QED
    BY <2>1, <2>5, <2>6, <1>1
<1>8. \A b \in Addr : b # a /\ ~(Moves(i, c, doc) /\ b = old) =>
        \A f \in Fids :
          /\ Has(w, ValueKey(i, b, f)) <=> Has(c.wb, ValueKey(i, b, f))
          /\ Has(c.wb, ValueKey(i, b, f)) => w[ValueKey(i, b, f)] = c.wb[ValueKey(i, b, f)]
          /\ \A v : /\ Has(w, IndexKey(i, f, v, b)) <=> Has(c.wb, IndexKey(i, f, v, b))
                    /\ Has(c.wb, IndexKey(i, f, v, b))
                         => w[IndexKey(i, f, v, b)] = c.wb[IndexKey(i, f, v, b)]
  BY <1>7
<1>9. Has(w, UidKey(i, doc.uid)) /\ w[UidKey(i, doc.uid)] = a
  BY <1>5
<1>10. \A u : u # doc.uid =>
                 /\ Has(w, UidKey(i, u)) <=> Has(c.wb, UidKey(i, u))
                 /\ Has(c.wb, UidKey(i, u)) => w[UidKey(i, u)] = c.wb[UidKey(i, u)]
  BY <1>5
<1> QED
  BY <1>1, <1>4, <1>6, <1>8, <1>9, <1>10 DEF w, a, adv, s, old
-----------------------------------------------------------------------------
(* AddDoc keeps the batch sound *)

\* The address given to a document: new ones are above all others, kept ones are its own.
LEMMA NewAddress ==
  ASSUME NEW c, NEW doc \in Document, TableOK(db, c.tid), CountersOK(db, c)
  PROVE  LET i == c.tid
             a == NewAddr(i, c, doc)
             next == db[NextIdKey(i)]
             adv == NewPlace(i, c, doc)
         IN /\ a \in Addr /\ next \in Addr
            /\ adv.sid \in Nat /\ adv.offset \in Nat /\ adv.offset < DBTableSegmentSize
            /\ adv.rolled \in BOOLEAN
            /\ ~adv.rolled => adv.sid = c.sid
            /\ Below(a, <<adv.sid, adv.offset>>)
            /\ \A b \in Addr : Below(b, <<c.sid, c.offset>>) => Below(b, <<adv.sid, adv.offset>>)
            /\ ~Below(<<adv.sid, adv.offset>>, next)
            /\ Found(i, doc) => OldAddr(i, doc) \in Addr /\ Below(OldAddr(i, doc), next)
            /\ StaysAt(i, c, doc) => a = OldAddr(i, doc)
            /\ ~StaysAt(i, c, doc) => a = <<c.sid, c.offset>> /\ ~Below(a, next)
<1> DEFINE i == c.tid
           a == NewAddr(i, c, doc)
           next == db[NextIdKey(i)]
           adv == NewPlace(i, c, doc)
           old == OldAddr(i, doc)
<1>1. /\ c.sid \in Nat /\ c.offset \in Nat /\ c.offset < DBTableSegmentSize
      /\ ~Below(<<c.sid, c.offset>>, next)
  BY DEF CountersOK
<1>2. next \in Addr /\ next[1] \in Nat /\ next[2] \in Nat
  BY DEF TableOK, NextOK, Addr
<1>3. DBTableSegmentSize \in Nat /\ 0 < DBTableSegmentSize
  BY StoreAssumption
<1>4. doc.uid \in UidSet
  BY DEF Document, UidSet
<1>5. Found(i, doc) => old \in Addr /\ Below(old, next)
  BY <1>4 DEF TableOK, UidOK, Found, OldAddr
<1>6. old \in Addr => old[1] \in Nat /\ old[2] \in Nat /\ old = <<old[1], old[2]>>
  BY DEF Addr
<1>7. CASE StaysAt(i, c, doc)
  <2>1. old \in Addr /\ old[1] = c.sid /\ Below(old, next)
    BY <1>7, <1>5 DEF StaysAt
  <2>2. a = <<c.sid, old[2]>>
    BY <1>7 DEF NewAddr, OffsetUsed
  <2>3. a = old
    BY <2>1, <2>2, <1>6
  <2>4. adv = [sid |-> c.sid, offset |-> c.offset, rolled |-> FALSE]
    BY <1>7 DEF NewPlace, Advance
  <2>5. adv.sid = c.sid /\ adv.offset = c.offset /\ adv.rolled = FALSE
    BY <2>4
  <2> HIDE DEF i, a, next, adv, old
  <2>6. Below(old, <<c.sid, c.offset>>)
    BY <2>1, <1>1, <1>2, <1>6 DEF Below
  <2> QED
    BY <1>1, <1>2, <1>3, <1>5, <1>7, <2>1, <2>3, <2>5, <2>6 DEF i, a, next, adv, old
<1>8. CASE ~StaysAt(i, c, doc)
  <2>1. a = <<c.sid, c.offset>>
    BY <1>8 DEF NewAddr, OffsetUsed
  <2>2. adv = IF c.offset + 1 >= DBTableSegmentSize
              THEN [sid |-> c.sid + 1, offset |-> 0, rolled |-> TRUE]
              ELSE [sid |-> c.sid, offset |-> c.offset + 1, rolled |-> FALSE]
    BY <1>8 DEF NewPlace, Advance
  <2>3. \/ adv.sid = c.sid + 1 /\ adv.offset = 0 /\ adv.rolled = TRUE
        \/ /\ adv.sid = c.sid /\ adv.offset = c.offset + 1 /\ adv.rolled = FALSE
           /\ ~(c.offset + 1 >= DBTableSegmentSize)
    BY <2>2
  <2> HIDE DEF i, a, next, adv, old
  <2>4. adv.sid \in Nat /\ adv.offset \in Nat /\ adv.offset < DBTableSegmentSize
    BY <2>3, <1>1, <1>3
  <2>9. adv.rolled \in BOOLEAN
    BY <2>3
  <2>5. Below(a, <<adv.sid, adv.offset>>)
    BY <2>1, <2>3, <1>1 DEF Below
  <2>6. ASSUME NEW b \in Addr, Below(b, <<c.sid, c.offset>>) PROVE Below(b, <<adv.sid, adv.offset>>)
    <3>1. b[1] \in Nat /\ b[2] \in Nat
      BY DEF Addr
    <3> QED
      BY <2>6, <3>1, <2>3, <1>1 DEF Below
  <2>7. ~Below(<<adv.sid, adv.offset>>, next)
    BY <2>3, <1>1, <1>2 DEF Below
  <2>8. a \in Addr
    BY <2>1, <1>1 DEF Addr
  <2> QED
    BY <1>1, <1>2, <1>5, <1>8, <2>1, <2>3, <2>4, <2>5, <2>6, <2>7, <2>8, <2>9 DEF i, a, next, adv, old
<1> QED
  BY <1>7, <1>8

\* The other documents of the batch are neither where this one goes nor where it comes from.
LEMMA OthersApart ==
  ASSUME NEW c, NEW doc \in Document, TableOK(db, c.tid), BatchOK(db, c),
         NEW u \in UidSet, u # doc.uid, Has(c.wb, UidKey(c.tid, u))
  PROVE  LET b == c.wb[UidKey(c.tid, u)]
         IN /\ b \in Addr /\ b # NewAddr(c.tid, c, doc)
            /\ ~(Moves(c.tid, c, doc) /\ b = OldAddr(c.tid, doc))
<1> DEFINE i == c.tid
           b == c.wb[UidKey(i, u)]
           a == NewAddr(i, c, doc)
           next == db[NextIdKey(i)]
           old == OldAddr(i, doc)
<1>1. /\ b \in Addr /\ Below(b, <<c.sid, c.offset>>)
      /\ Below(b, next) => Has(db, UidKey(i, u)) /\ db[UidKey(i, u)] = b
  BY DEF BatchOK, PlaceOK
<1>2. /\ Found(i, doc) => Below(old, next)
      /\ StaysAt(i, c, doc) => a = old
      /\ ~StaysAt(i, c, doc) => a = <<c.sid, c.offset>>
  BY NewAddress DEF BatchOK
<1>3. ~Below(<<c.sid, c.offset>>, <<c.sid, c.offset>>)
  <2>1. c.sid \in Nat /\ c.offset \in Nat
    BY DEF BatchOK, CountersOK
  <2> QED
    BY <2>1 DEF Below
<1>4. doc.uid \in UidSet
  BY DEF Document, UidSet
<1>5. ASSUME Found(i, doc), b = old PROVE FALSE
  <2>1. Has(db, UidKey(i, u)) /\ db[UidKey(i, u)] = old
    BY <1>1, <1>2, <1>5
  <2>2. UidOK(db, i, doc.uid)
    BY <1>4, <1>5 DEF TableOK, Found
  <2> QED
    BY <2>1, <2>2 DEF UidOK, OldAddr
<1>6. b # a
  BY <1>1, <1>2, <1>3, <1>5 DEF StaysAt
<1> QED
  BY <1>1, <1>5, <1>6 DEF Moves

\* AddDoc keeps the batch sound: the call after it, with the place and the batch it returns.
LEMMA NewBatchOK ==
  ASSUME NEW c, NEW doc \in Document, TableOK(db, c.tid), BatchOK(db, c), c.tid \in Nat,
         NEW e, e.tid = c.tid, e.wb = NewBatch(c.tid, c, doc),
         e.sid = NewPlace(c.tid, c, doc).sid, e.offset = NewPlace(c.tid, c, doc).offset,
         e.updated = (c.updated \/ NewPlace(c.tid, c, doc).rolled)
  PROVE  BatchOK(db, e)
<1> DEFINE i == c.tid
           a == NewAddr(i, c, doc)
           next == db[NextIdKey(i)]
           adv == NewPlace(i, c, doc)
           old == OldAddr(i, doc)
           s == Serialized(doc)
           w == NewBatch(i, c, doc)
<1>1. /\ a \in Addr /\ next \in Addr
      /\ adv.sid \in Nat /\ adv.offset \in Nat /\ adv.offset < DBTableSegmentSize
      /\ adv.rolled \in BOOLEAN
      /\ ~adv.rolled => adv.sid = c.sid
      /\ Below(a, <<adv.sid, adv.offset>>)
      /\ \A b \in Addr : Below(b, <<c.sid, c.offset>>) => Below(b, <<adv.sid, adv.offset>>)
      /\ ~Below(<<adv.sid, adv.offset>>, next)
      /\ Found(i, doc) => old \in Addr /\ Below(old, next)
      /\ StaysAt(i, c, doc) => a = old
      /\ ~StaysAt(i, c, doc) => a = <<c.sid, c.offset>> /\ ~Below(a, next)
  BY NewAddress DEF BatchOK
<1>2. \A u \in UidSet : u # doc.uid /\ Has(c.wb, UidKey(i, u)) =>
        LET b == c.wb[UidKey(i, u)]
        IN b \in Addr /\ b # a /\ ~(Moves(i, c, doc) /\ b = old)
  BY OthersApart
<1>3. Moves(i, c, doc) => Found(i, doc)
  BY DEF Moves
<1>4. /\ Has(w, NextIdKey(i)) /\ w[NextIdKey(i)] = <<adv.sid, adv.offset>>
      /\ adv.rolled => Has(w, SegmentKey(i)) /\ w[SegmentKey(i)] = adv.sid
      /\ ~adv.rolled => /\ Has(w, SegmentKey(i)) <=> Has(c.wb, SegmentKey(i))
                        /\ Has(c.wb, SegmentKey(i)) => w[SegmentKey(i)] = c.wb[SegmentKey(i)]
      /\ Has(w, UidKey(i, doc.uid)) /\ w[UidKey(i, doc.uid)] = a
      /\ \A u : u # doc.uid =>
           /\ Has(w, UidKey(i, u)) <=> Has(c.wb, UidKey(i, u))
           /\ Has(c.wb, UidKey(i, u)) => w[UidKey(i, u)] = c.wb[UidKey(i, u)]
      /\ \A f \in Fids :
           /\ Has(w, ValueKey(i, a, f)) /\ w[ValueKey(i, a, f)] = s[f]
           /\ Has(w, IndexKey(i, f, s[f], a)) /\ w[IndexKey(i, f, s[f], a)] = None
      /\ \A b \in Addr : b # a /\ ~(Moves(i, c, doc) /\ b = old) =>
           \A f \in Fids :
             /\ Has(w, ValueKey(i, b, f)) <=> Has(c.wb, ValueKey(i, b, f))
             /\ Has(c.wb, ValueKey(i, b, f)) => w[ValueKey(i, b, f)] = c.wb[ValueKey(i, b, f)]
             /\ \A v : /\ Has(w, IndexKey(i, f, v, b)) <=> Has(c.wb, IndexKey(i, f, v, b))
                       /\ Has(c.wb, IndexKey(i, f, v, b))
                            => w[IndexKey(i, f, v, b)] = c.wb[IndexKey(i, f, v, b)]
  BY <1>1, <1>3, NewBatchKeys
<1>5. /\ doc.uid \in UidSet /\ 0 \in Fids /\ s[0] = doc.uid
      /\ \A f \in Fids : s[f] \in ValSet
  <2>1. doc.uid \in UidSet /\ \A f \in FieldIds : doc.val[f] \in ValSet
    BY DEF Document, Long, UidSet, ValSet
  <2> QED
    BY <2>1 DEF Serialized, Fids, UidSet, ValSet
<1>6. Found(i, doc) => UidOK(db, i, doc.uid)
  BY <1>5 DEF TableOK, Found
<1>7. ASSUME NEW k, Has(w, k) PROVE OwnKey(i, k)
  <2>1. k = NextIdKey(i) \/ k = SegmentKey(i) => OwnKey(i, k)
    BY DEF OwnKey
  <2>2. CASE k # NextIdKey(i) /\ k # SegmentKey(i)
    <3>1. \/ Has(Puts(i, a, doc), k) \/ Has(c.wb, k)
          \/ Moves(i, c, doc) /\ Has(Deletes(i, doc), k)
      BY <2>2, <1>7, NewBatchFacts
    <3>2. CASE Has(Puts(i, a, doc), k)
      <4>0. a \in Addr
        BY <1>1
      <4>1. \A x : Has(Puts(i, a, doc), x) =>
               \/ x = UidKey(i, doc.uid)
               \/ \E f \in Fids : x = ValueKey(i, a, f) \/ x = IndexKey(i, f, s[f], a)
        BY <4>0, PutsFacts
      <4> QED
        BY <3>2, <4>0, <4>1, <1>5 DEF OwnKey
    <3>3. CASE Has(c.wb, k)
      BY <3>3 DEF BatchOK, Has
    <3>4. CASE Moves(i, c, doc) /\ Has(Deletes(i, doc), k)
      <4>1. \E f \in Fids : \/ k = ValueKey(i, old, f)
                            \/ k = IndexKey(i, f, db[ValueKey(i, old, f)], old)
        BY <3>4, DeletesFacts
      <4>2. old \in Addr /\ \A f \in Fids : db[ValueKey(i, old, f)] \in ValSet
        BY <3>4, <1>1, <1>3, <1>6 DEF UidOK, FieldOK, OldAddr
      <4> QED
        BY <4>1, <4>2 DEF OwnKey
    <3> QED
      BY <3>1, <3>2, <3>3, <3>4
  <2> QED
    BY <2>1, <2>2
<1> HIDE DEF i, a, next, adv, old, s, w
<1>8. e.tid = i /\ e.wb = w /\ e.sid = adv.sid /\ e.offset = adv.offset /\ e.updated = (c.updated \/ adv.rolled)
  BY DEF i, w, adv
<1>9. ASSUME NEW b \in Addr, NEW f \in Fids, NEW x, Has(w, x),
             x = ValueKey(i, b, f) \/ \E v \in ValSet : x = IndexKey(i, f, v, b)
      PROVE  Touched(db, e, b)
  <2>1. CASE b = a /\ ~StaysAt(i, c, doc)
    BY <2>1, <1>1, <1>8 DEF Touched, next
  <2>2. CASE (b = a /\ StaysAt(i, c, doc)) \/ (Moves(i, c, doc) /\ b = old)
    <3>1. Found(i, doc) /\ b = old
      BY <2>2, <1>1 DEF StaysAt, Moves
    <3>2. Has(db, UidKey(i, doc.uid)) /\ db[UidKey(i, doc.uid)] = b
      BY <3>1 DEF Found, OldAddr, old
    <3> QED
      BY <3>2, <1>4, <1>5, <1>8 DEF Touched
  <2>3. CASE b # a /\ ~(Moves(i, c, doc) /\ b = old)
    <3>1. Has(c.wb, x)
      BY <2>3, <1>4, <1>9
    <3>2. Touched(db, c, b)
      BY <3>1, <1>9 DEF BatchOK, TouchesOK, i
    <3>3. CASE ~Below(b, next)
      BY <3>3, <1>8 DEF Touched, next
    <3>4. CASE Below(b, next)
      <4>1. PICK u \in UidSet : Has(c.wb, UidKey(i, u)) /\ Has(db, UidKey(i, u)) /\ db[UidKey(i, u)] = b
        BY <3>2, <3>4 DEF Touched, next, i
      <4>2. Has(w, UidKey(i, u))
        BY <4>1, <1>4
      <4> QED
        BY <4>1, <4>2, <1>8 DEF Touched
    <3> QED
      BY <3>3, <3>4
  <2> QED
    BY <2>1, <2>2, <2>3
<1>10. TouchesOK(db, e)
  BY <1>8, <1>9 DEF TouchesOK
<1>11. PlaceOK(db, e, doc.uid)
  <2>1. Below(a, <<e.sid, e.offset>>)
    BY <1>1, <1>8
  <2>2. Below(a, next) => Has(db, UidKey(i, doc.uid)) /\ db[UidKey(i, doc.uid)] = a
    BY <1>1 DEF StaysAt, Found, OldAddr, old
  <2>3. \A v \in UidSet : Has(w, UidKey(i, v)) /\ w[UidKey(i, v)] = a => v = doc.uid
    BY <1>2, <1>4
  <2>4. \A f \in Fids : FieldOK(w, i, a, f) /\ w[IndexKey(i, f, w[ValueKey(i, a, f)], a)] = None
    BY <1>4, <1>5 DEF FieldOK
  <2>5. w[ValueKey(i, a, 0)] = doc.uid
    BY <1>4, <1>5
  <2> QED
    BY <1>1, <1>4, <1>8, <2>1, <2>2, <2>3, <2>4, <2>5 DEF PlaceOK, next
<1>12. ASSUME NEW u \in UidSet, u # doc.uid, Has(w, UidKey(i, u)) PROVE PlaceOK(db, e, u)
  <2> DEFINE b == c.wb[UidKey(i, u)]
  <2>1. Has(c.wb, UidKey(i, u)) /\ w[UidKey(i, u)] = b
    BY <1>4, <1>12
  <2>2. PlaceOK(db, c, u)
    BY <2>1 DEF BatchOK, i
  <2>3. /\ b \in Addr /\ Below(b, <<c.sid, c.offset>>)
        /\ Below(b, next) => Has(db, UidKey(i, u)) /\ db[UidKey(i, u)] = b
        /\ \A v \in UidSet : Has(c.wb, UidKey(i, v)) /\ c.wb[UidKey(i, v)] = b => v = u
        /\ \A f \in Fids : /\ FieldOK(c.wb, i, b, f)
                           /\ c.wb[IndexKey(i, f, c.wb[ValueKey(i, b, f)], b)] = None
        /\ c.wb[ValueKey(i, b, 0)] = u
    BY <2>2 DEF PlaceOK, i, next
  <2>4. b # a /\ ~(Moves(i, c, doc) /\ b = old)
    BY <2>1, <1>2, <1>12
  <2> HIDE DEF b
  <2>5. \A v \in UidSet : Has(w, UidKey(i, v)) /\ w[UidKey(i, v)] = b => v = u
    BY <1>4, <2>3, <2>4
  <2>6. ASSUME NEW f \in Fids
        PROVE  /\ FieldOK(w, i, b, f) /\ w[IndexKey(i, f, w[ValueKey(i, b, f)], b)] = None
               /\ w[ValueKey(i, b, f)] = c.wb[ValueKey(i, b, f)]
    <3>1. Has(c.wb, ValueKey(i, b, f)) /\ c.wb[ValueKey(i, b, f)] \in ValSet
          /\ Has(c.wb, IndexKey(i, f, c.wb[ValueKey(i, b, f)], b))
      BY <2>3 DEF FieldOK
    <3>2. Has(w, ValueKey(i, b, f)) /\ w[ValueKey(i, b, f)] = c.wb[ValueKey(i, b, f)]
      BY <3>1, <2>3, <2>4, <1>4
    <3>3. PICK v : v = c.wb[ValueKey(i, b, f)]
      OBVIOUS
    <3>4. Has(w, IndexKey(i, f, v, b)) /\ w[IndexKey(i, f, v, b)] = c.wb[IndexKey(i, f, v, b)]
      BY <3>1, <3>3, <2>3, <2>4, <1>4
    <3> QED
      BY <3>1, <3>2, <3>3, <3>4, <2>3 DEF FieldOK
  <2>7. w[ValueKey(i, b, 0)] = u
    BY <2>6, <2>3, <1>5
  <2>8. Below(b, <<adv.sid, adv.offset>>)
    BY <1>1, <2>3
  <2> QED
    BY <1>8, <2>1, <2>3, <2>5, <2>6, <2>7, <2>8 DEF PlaceOK, next
<1>13. CountersOK(db, e)
  <2>1. /\ Has(c.wb, SegmentKey(i)) <=> c.updated
        /\ IF c.updated THEN c.wb[SegmentKey(i)] = c.sid ELSE db[SegmentKey(i)] = c.sid
    BY DEF BatchOK, CountersOK, i
  <2>2. CASE adv.rolled
    <3>1. e.updated
      BY <2>2, <1>8
    <3> QED
      BY <3>1, <2>2, <1>1, <1>4, <1>8 DEF CountersOK, next
  <2>3. CASE ~adv.rolled
    <3>1. (e.updated <=> c.updated) /\ e.sid = c.sid
      BY <2>3, <1>1, <1>8
    <3>2. /\ Has(w, SegmentKey(i)) <=> c.updated
          /\ IF c.updated THEN w[SegmentKey(i)] = c.sid ELSE db[SegmentKey(i)] = c.sid
      BY <2>1, <2>3, <1>4
    <3> QED
      BY <3>1, <3>2, <2>3, <1>1, <1>4, <1>8 DEF CountersOK, next
  <2> QED
    BY <2>2, <2>3
<1>14. \A k \in DOMAIN e.wb : OwnKey(e.tid, k)
  BY <1>7, <1>8 DEF Has
<1> QED
  BY <1>8, <1>10, <1>11, <1>12, <1>13, <1>14 DEF BatchOK
-----------------------------------------------------------------------------
(* Writing a batch *)

\* A sound batch leaves a sound table, whose next address is the one of the call.
LEMMA WrittenTable ==
  ASSUME NEW d, NEW c, Shapes(d), TableOK(d, c.tid), BatchOK(d, c)
  PROVE  /\ TableOK(Apply(d, c.wb), c.tid)
         /\ Apply(d, c.wb)[NextIdKey(c.tid)] = <<c.sid, c.offset>>
<1> DEFINE i == c.tid
           w == c.wb
           e == Apply(d, w)
           next == d[NextIdKey(i)]
           after == <<c.sid, c.offset>>
<1>1. /\ \A x : Has(w, x) /\ w[x] # Deleted => Has(e, x) /\ e[x] = w[x]
      /\ \A x : Has(w, x) /\ w[x] = Deleted => ~Has(e, x)
      /\ \A x : ~Has(w, x) /\ Has(d, x) /\ d[x] # Deleted => Has(e, x) /\ e[x] = d[x]
      /\ \A x : Has(e, x) => Has(w, x) \/ Has(d, x)
  BY ApplyFacts
<1> HIDE DEF e
<1>2. \A x : Has(d, x) => d[x] # Deleted
  BY DEF Shapes, Has
<1>3. /\ Deleted \notin ValSet /\ Deleted \notin Addr /\ Deleted # None
  BY MarkAssumption DEF Addr, ValSet
<1>4. /\ Has(d, NextIdKey(i)) /\ next \in Addr /\ next[2] < DBTableSegmentSize
      /\ Has(d, SegmentKey(i)) /\ d[SegmentKey(i)] = next[1]
  BY DEF TableOK, NextOK
<1>5. /\ c.sid \in Nat /\ c.offset \in Nat /\ c.offset < DBTableSegmentSize
      /\ ~Below(after, next)
      /\ IF Has(w, NextIdKey(i)) THEN w[NextIdKey(i)] = after ELSE next = after
      /\ Has(w, SegmentKey(i)) <=> c.updated
      /\ IF c.updated THEN w[SegmentKey(i)] = c.sid ELSE d[SegmentKey(i)] = c.sid
  BY DEF BatchOK, CountersOK
<1>6. /\ after \in Addr /\ after[1] = c.sid /\ after[2] = c.offset
  BY <1>5 DEF Addr
<1> HIDE DEF after
<1>7. Has(e, NextIdKey(i)) /\ e[NextIdKey(i)] = after
  BY <1>1, <1>2, <1>3, <1>4, <1>5, <1>6
<1>8. Has(e, SegmentKey(i)) /\ e[SegmentKey(i)] = c.sid
  <2>1. c.sid # Deleted
    BY <1>3, <1>5 DEF ValSet
  <2> QED
    BY <2>1, <1>1, <1>2, <1>4, <1>5
<1>9. NextOK(e, i)
  BY <1>5, <1>6, <1>7, <1>8 DEF NextOK
<1>10. \A u \in UidSet : Has(w, UidKey(i, u)) => PlaceOK(d, c, u)
  BY DEF BatchOK
<1>11. \A u \in UidSet : Has(d, UidKey(i, u)) => UidOK(d, i, u)
  BY DEF TableOK
<1>12. \A u \in UidSet : Has(w, UidKey(i, u)) =>
         /\ w[UidKey(i, u)] \in Addr /\ Below(w[UidKey(i, u)], after)
         /\ Below(w[UidKey(i, u)], next) => Has(d, UidKey(i, u)) /\ d[UidKey(i, u)] = w[UidKey(i, u)]
         /\ \A v \in UidSet : Has(w, UidKey(i, v)) /\ w[UidKey(i, v)] = w[UidKey(i, u)] => v = u
  BY <1>10 DEF PlaceOK, after
<1>13. \A u \in UidSet : Has(d, UidKey(i, u)) =>
         /\ d[UidKey(i, u)] \in Addr /\ Below(d[UidKey(i, u)], next)
         /\ \A v \in UidSet : Has(d, UidKey(i, v)) /\ d[UidKey(i, v)] = d[UidKey(i, u)] => v = u
  BY <1>11 DEF UidOK
<1> HIDE DEF i, w, next
<1>14. \A u \in UidSet : /\ Has(w, UidKey(i, u)) => Has(e, UidKey(i, u)) /\ e[UidKey(i, u)] = w[UidKey(i, u)]
                         /\ ~Has(w, UidKey(i, u)) /\ Has(d, UidKey(i, u))
                              => Has(e, UidKey(i, u)) /\ e[UidKey(i, u)] = d[UidKey(i, u)]
                         /\ Has(e, UidKey(i, u)) => Has(w, UidKey(i, u)) \/ Has(d, UidKey(i, u))
  <2>1. \A u \in UidSet : Has(w, UidKey(i, u)) => w[UidKey(i, u)] # Deleted
    BY <1>3, <1>12
  <2> QED
    BY <2>1, <1>1, <1>2
<1>15. ASSUME NEW u \in UidSet, NEW v \in UidSet, Has(e, UidKey(i, u)), Has(e, UidKey(i, v)),
              e[UidKey(i, v)] = e[UidKey(i, u)]
       PROVE  v = u
  BY <1>12, <1>13, <1>14, <1>15
<1>16. ASSUME NEW u \in UidSet, Has(w, UidKey(i, u)) PROVE UidOK(e, i, u)
  <2> DEFINE a == w[UidKey(i, u)]
  <2>1. /\ a \in Addr /\ Below(a, after) /\ e[UidKey(i, u)] = a /\ Has(e, UidKey(i, u))
    BY <1>12, <1>14, <1>16
  <2>2. /\ \A f \in Fids : FieldOK(w, i, a, f) /\ w[IndexKey(i, f, w[ValueKey(i, a, f)], a)] = None
        /\ w[ValueKey(i, a, 0)] = u
    BY <1>10, <1>16 DEF PlaceOK, i, w
  <2> HIDE DEF a
  <2>3. ASSUME NEW f \in Fids
        PROVE  FieldOK(e, i, a, f) /\ e[ValueKey(i, a, f)] = w[ValueKey(i, a, f)]
    <3>1. PICK v : v = w[ValueKey(i, a, f)]
      OBVIOUS
    <3>2. /\ Has(w, ValueKey(i, a, f)) /\ v \in ValSet
          /\ Has(w, IndexKey(i, f, v, a)) /\ w[IndexKey(i, f, v, a)] = None
      BY <2>2, <3>1 DEF FieldOK
    <3>3. Has(e, ValueKey(i, a, f)) /\ e[ValueKey(i, a, f)] = v
      BY <3>1, <3>2, <1>1, <1>3
    <3>4. Has(e, IndexKey(i, f, v, a))
      BY <3>2, <1>1, <1>3
    <3> QED
      BY <3>1, <3>2, <3>3, <3>4 DEF FieldOK
  <2>4. e[ValueKey(i, a, 0)] = u
    BY <2>2, <2>3 DEF Fids
  <2>5. \A v \in UidSet : Has(e, UidKey(i, v)) /\ e[UidKey(i, v)] = a => v = u
    BY <2>1, <1>15
  <2> QED
    BY <2>1, <2>3, <2>4, <2>5, <1>7 DEF UidOK
<1>17. ASSUME NEW u \in UidSet, ~Has(w, UidKey(i, u)), Has(d, UidKey(i, u)) PROVE UidOK(e, i, u)
  <2> DEFINE a == d[UidKey(i, u)]
  <2>1. /\ a \in Addr /\ Below(a, next) /\ e[UidKey(i, u)] = a /\ Has(e, UidKey(i, u))
    BY <1>13, <1>14, <1>17
  <2>2. /\ \A f \in Fids : FieldOK(d, i, a, f)
        /\ d[ValueKey(i, a, 0)] = u
    BY <1>11, <1>17 DEF UidOK
  <2>3. ~Touched(d, c, a)
    BY <2>1, <1>13, <1>17 DEF Touched, i, w, next
  <2>4. \A f \in Fids : ~Has(w, ValueKey(i, a, f)) /\ \A v \in ValSet : ~Has(w, IndexKey(i, f, v, a))
    BY <2>1, <2>3 DEF BatchOK, TouchesOK, i, w
  <2>5. Below(a, after)
    <3>1. a[1] \in Nat /\ a[2] \in Nat /\ next[1] \in Nat /\ next[2] \in Nat /\ after[1] \in Nat /\ after[2] \in Nat
      BY <2>1, <1>4, <1>6 DEF Addr
    <3> HIDE DEF a
    <3> QED
      BY <3>1, <2>1, <1>5 DEF Below
  <2> HIDE DEF a
  <2>6. ASSUME NEW f \in Fids
        PROVE  FieldOK(e, i, a, f) /\ e[ValueKey(i, a, f)] = d[ValueKey(i, a, f)]
    <3>1. PICK v : v = d[ValueKey(i, a, f)]
      OBVIOUS
    <3>2. /\ Has(d, ValueKey(i, a, f)) /\ v \in ValSet /\ Has(d, IndexKey(i, f, v, a))
      BY <2>2, <3>1 DEF FieldOK
    <3>3. Has(e, ValueKey(i, a, f)) /\ e[ValueKey(i, a, f)] = v
      BY <3>1, <3>2, <2>4, <1>1, <1>2
    <3>4. Has(e, IndexKey(i, f, v, a))
      BY <3>2, <2>4, <1>1, <1>2
    <3> QED
      BY <3>1, <3>2, <3>3, <3>4 DEF FieldOK
  <2>7. e[ValueKey(i, a, 0)] = u
    BY <2>2, <2>6 DEF Fids
  <2>8. \A v \in UidSet : Has(e, UidKey(i, v)) /\ e[UidKey(i, v)] = a => v = u
    BY <2>1, <1>15
  <2> QED
    BY <2>1, <2>5, <2>6, <2>7, <2>8, <1>7 DEF UidOK
<1>18. \A u \in UidSet : Has(e, UidKey(i, u)) => UidOK(e, i, u)
  BY <1>14, <1>16, <1>17
<1>19. TableOK(e, i) /\ e[NextIdKey(i)] = <<c.sid, c.offset>>
  BY <1>7, <1>9, <1>18 DEF TableOK, after, i
<1> QED
  BY <1>19 DEF e, i, w

Agree(d, e, i) ==
  \A k : OwnKey(i, k) => (Has(d, k) <=> Has(e, k)) /\ (Has(d, k) => e[k] = d[k])

\* A write that leaves the keys of a table alone keeps it sound.
LEMMA TableFrame ==
  ASSUME NEW d, NEW e, NEW i, Agree(d, e, i), TableOK(d, i)
  PROVE  TableOK(e, i)
<1>1. /\ Has(d, NextIdKey(i)) => Has(e, NextIdKey(i)) /\ e[NextIdKey(i)] = d[NextIdKey(i)]
      /\ Has(d, SegmentKey(i)) => Has(e, SegmentKey(i)) /\ e[SegmentKey(i)] = d[SegmentKey(i)]
      /\ \A u \in UidSet : /\ Has(d, UidKey(i, u)) <=> Has(e, UidKey(i, u))
                           /\ Has(d, UidKey(i, u)) => e[UidKey(i, u)] = d[UidKey(i, u)]
  BY DEF Agree, OwnKey
<1>2. \A a \in Addr, f \in Fids :
        Has(d, ValueKey(i, a, f)) => Has(e, ValueKey(i, a, f)) /\ e[ValueKey(i, a, f)] = d[ValueKey(i, a, f)]
  BY DEF Agree, OwnKey
<1>3. \A a \in Addr, f \in Fids, v \in ValSet : Has(d, IndexKey(i, f, v, a)) => Has(e, IndexKey(i, f, v, a))
  BY DEF Agree, OwnKey
<1>4. NextOK(e, i) /\ e[NextIdKey(i)] = d[NextIdKey(i)]
  BY <1>1 DEF TableOK, NextOK
<1>5. ASSUME NEW u \in UidSet, Has(e, UidKey(i, u)) PROVE UidOK(e, i, u)
  <2>1. PICK a : a = d[UidKey(i, u)]
    OBVIOUS
  <2>2. Has(d, UidKey(i, u)) /\ e[UidKey(i, u)] = a
    BY <1>1, <1>5, <2>1
  <2>3. UidOK(d, i, u)
    BY <2>2 DEF TableOK
  <2>4. /\ a \in Addr /\ Below(a, d[NextIdKey(i)])
        /\ \A w \in UidSet : Has(d, UidKey(i, w)) /\ d[UidKey(i, w)] = a => w = u
        /\ \A f \in Fids : FieldOK(d, i, a, f)
        /\ d[ValueKey(i, a, 0)] = u
    BY <2>1, <2>3 DEF UidOK
  <2>5. ASSUME NEW f \in Fids PROVE FieldOK(e, i, a, f) /\ e[ValueKey(i, a, f)] = d[ValueKey(i, a, f)]
    BY <2>4, <1>2, <1>3 DEF FieldOK
  <2>6. e[ValueKey(i, a, 0)] = u
    BY <2>4, <2>5 DEF Fids
  <2>7. \A w \in UidSet : Has(e, UidKey(i, w)) /\ e[UidKey(i, w)] = a => w = u
    BY <2>4, <1>1
  <2> QED
    BY <2>2, <2>4, <2>5, <2>6, <2>7, <1>4 DEF UidOK
<1> QED
  BY <1>4, <1>5 DEF TableOK

\* And it keeps a batch for that table sound.
LEMMA BatchFrame ==
  ASSUME NEW d, NEW e, NEW c, Agree(d, e, c.tid), NextOK(d, c.tid), BatchOK(d, c)
  PROVE  BatchOK(e, c)
<1>1. /\ Has(d, NextIdKey(c.tid)) => e[NextIdKey(c.tid)] = d[NextIdKey(c.tid)]
      /\ Has(d, SegmentKey(c.tid)) => e[SegmentKey(c.tid)] = d[SegmentKey(c.tid)]
      /\ \A u \in UidSet : /\ Has(d, UidKey(c.tid, u)) <=> Has(e, UidKey(c.tid, u))
                           /\ Has(d, UidKey(c.tid, u)) => e[UidKey(c.tid, u)] = d[UidKey(c.tid, u)]
  BY DEF Agree, OwnKey
<1>2. e[NextIdKey(c.tid)] = d[NextIdKey(c.tid)] /\ e[SegmentKey(c.tid)] = d[SegmentKey(c.tid)]
  BY <1>1 DEF NextOK
<1>3. CountersOK(e, c)
  BY <1>2 DEF BatchOK, CountersOK
<1>4. \A a : Touched(d, c, a) => Touched(e, c, a)
  BY <1>1, <1>2 DEF Touched
<1>5. TouchesOK(e, c)
  BY <1>4 DEF BatchOK, TouchesOK
<1>6. ASSUME NEW u \in UidSet, Has(c.wb, UidKey(c.tid, u)) PROVE PlaceOK(e, c, u)
  <2>1. PlaceOK(d, c, u)
    BY <1>6 DEF BatchOK
  <2> QED
    BY <2>1, <1>1, <1>2 DEF PlaceOK
<1> QED
  BY <1>3, <1>5, <1>6 DEF BatchOK

\* The keys of a table name its id, so they are none of another table's.
LEMMA OwnKeysApart ==
  ASSUME NEW i, NEW j, i # j, NEW k, OwnKey(i, k)
  PROVE  ~OwnKey(j, k)
<1>1. ASSUME NEW x, OwnKey(x, k) PROVE k[2] = x
  BY <1>1 DEF OwnKey, SegmentKey, NextIdKey, UidKey, ValueKey, IndexKey
<1> QED
  BY <1>1

\* What a write does to the tables it is not about.
LEMMA ApplyAgrees ==
  ASSUME NEW d, NEW wb, Shapes(d), NEW i, \A k \in DOMAIN wb : ~OwnKey(i, k)
  PROVE  Agree(d, Apply(d, wb), i)
<1>1. ASSUME NEW k, OwnKey(i, k)
      PROVE  (Has(d, k) <=> Has(Apply(d, wb), k)) /\ (Has(d, k) => Apply(d, wb)[k] = d[k])
  <2>1. ~Has(wb, k)
    BY <1>1 DEF Has
  <2>2. Has(d, k) => d[k] # Deleted
    BY DEF Shapes, Has
  <2> QED
    BY <2>1, <2>2, ApplyFacts
<1> QED
  BY <1>1 DEF Agree

\* The keys that name tables and ids belong to no table's batches.
LEMMA NotOwn ==
  ASSUME NEW i
  PROVE  /\ ~OwnKey(i, SequenceKey)
         /\ \A n : ~OwnKey(i, TableKey(n))
         /\ \A j : ~OwnKey(i, MappingKey(j))
<1>1. ~OwnKey(i, SequenceKey)
  BY KeysDiffer DEF OwnKey
<1>2. ASSUME NEW n PROVE ~OwnKey(i, TableKey(n))
  BY KeysDiffer DEF OwnKey
<1>3. ASSUME NEW j PROVE ~OwnKey(i, MappingKey(j))
  BY TableKeysDiffer DEF OwnKey
<1> QED
  BY <1>1, <1>2, <1>3

Same(d, e, k) == (Has(d, k) <=> Has(e, k)) /\ (Has(d, k) => e[k] = d[k])

\* A write leaves the keys it does not name alone.
LEMMA ApplySame ==
  ASSUME NEW d, NEW wb, Shapes(d), NEW k, ~Has(wb, k)
  PROVE  Same(d, Apply(d, wb), k)
<1>1. Has(d, k) => d[k] # Deleted
  BY DEF Shapes, Has
<1> QED
  BY <1>1, ApplyFacts DEF Same

\* A sound batch for a table leaves a sound database and touches no other table.
LEMMA WrittenBatch ==
  ASSUME NEW d, NEW c, NEW n \in Names, DbOK(d), BatchOK(d, c),
         Has(d, TableKey(n)), d[TableKey(n)] = c.tid
  PROVE  LET e == Apply(d, c.wb)
         IN /\ DbOK(e)
            /\ e[NextIdKey(c.tid)] = <<c.sid, c.offset>>
            /\ Same(d, e, SequenceKey) /\ \A m : Same(d, e, TableKey(m))
            /\ \A j : j # c.tid => Agree(d, e, j)
<1> DEFINE i == c.tid
           e == Apply(d, c.wb)
<1>1. i \in Nat /\ TableOK(d, i)
  BY DEF DbOK, NamesOK, NameOK, TablesOK
<1>2. TableOK(e, i) /\ e[NextIdKey(i)] = <<c.sid, c.offset>>
  BY <1>1, WrittenTable DEF DbOK
<1>3. \A k \in DOMAIN c.wb : OwnKey(i, k)
  BY DEF BatchOK
<1>4. \A k : ~OwnKey(i, k) => Same(d, e, k)
  BY <1>3, ApplySame DEF DbOK, Has
<1>5. ASSUME NEW j, j # i PROVE Agree(d, e, j)
  <2>1. \A k \in DOMAIN c.wb : ~OwnKey(j, k)
    BY <1>3, <1>5, OwnKeysApart
  <2> QED
    BY <2>1, ApplyAgrees DEF DbOK
<1>6. /\ Same(d, e, SequenceKey)
      /\ \A m : Same(d, e, TableKey(m))
      /\ \A j : Same(d, e, MappingKey(j))
  BY <1>4, NotOwn
<1>7. Shapes(e)
  <2>1. \A k : Has(e, k) => e[k] # Deleted /\ (Has(c.wb, k) \/ Has(d, k))
    BY ApplyFacts
  <2>2. \A k : OwnKey(i, k) => KeyShape(k)
    BY <1>1 DEF OwnKey, KeyShape
  <2>3. \A k : Has(c.wb, k) => OwnKey(i, k)
    BY <1>3 DEF Has
  <2>4. \A k : Has(d, k) => KeyShape(k)
    BY DEF DbOK, Shapes, Has
  <2> HIDE DEF e
  <2>5. \A k : Has(e, k) => KeyShape(k) /\ e[k] # Deleted
    BY <2>1, <2>2, <2>3, <2>4
  <2> QED
    BY <2>5 DEF Shapes, Has
<1> HIDE DEF e, i
<1>8. SeqOK(e)
  BY <1>6 DEF DbOK, SeqOK, Same
<1>9. ASSUME NEW m \in Names, Has(e, TableKey(m)) PROVE NameOK(e, m)
  <2>1. Has(d, TableKey(m)) /\ e[TableKey(m)] = d[TableKey(m)]
    BY <1>6, <1>9 DEF Same
  <2>2. NameOK(d, m) /\ Has(d, SequenceKey)
    BY <2>1 DEF DbOK, NamesOK, SeqOK
  <2> QED
    BY <2>1, <2>2, <1>6 DEF NameOK, Same
<1>10. \A j : IsTid(d, j) => IsTid(e, j)
  BY <1>6 DEF IsTid, Same
<1>11. IsTid(e, i)
  <2>1. IsTid(d, i)
    BY DEF IsTid, i
  <2> QED
    BY <2>1, <1>10
<1>12. ASSUME NEW j \in Nat
       PROVE  /\ Has(e, MappingKey(j)) => IsTid(e, j)
              /\ Has(e, NextIdKey(j)) => IsTid(e, j)
              /\ \A u \in UidSet : Has(e, UidKey(j, u)) => IsTid(e, j)
  <2>1. Has(e, MappingKey(j)) => IsTid(e, j)
    BY <1>6, <1>10 DEF DbOK, IdsOK, Same
  <2>2. CASE j = i
    BY <2>1, <2>2, <1>11
  <2>3. CASE j # i
    <3>1. /\ Has(e, NextIdKey(j)) => Has(d, NextIdKey(j))
          /\ \A u \in UidSet : Has(e, UidKey(j, u)) => Has(d, UidKey(j, u))
      BY <2>3, <1>5 DEF Agree, OwnKey
    <3> QED
      BY <2>1, <3>1, <1>10 DEF DbOK, IdsOK
  <2> QED
    BY <2>2, <2>3
<1>13. ASSUME NEW m \in Names, Has(e, TableKey(m)) PROVE TableOK(e, e[TableKey(m)])
  <2>1. Has(d, TableKey(m)) /\ e[TableKey(m)] = d[TableKey(m)]
    BY <1>6, <1>13 DEF Same
  <2>2. PICK j : j = d[TableKey(m)]
    OBVIOUS
  <2>3. TableOK(d, j)
    BY <2>1, <2>2 DEF DbOK, TablesOK
  <2>4. TableOK(e, j)
    BY <2>3, <1>2, <1>5, TableFrame
  <2> QED
    BY <2>1, <2>2, <2>4
<1>14. DbOK(e)
  BY <1>7, <1>8, <1>9, <1>12, <1>13 DEF DbOK, NamesOK, IdsOK, TablesOK
<1> QED
  BY <1>2, <1>5, <1>6, <1>14 DEF e, i

\* The five entries of a new table.
LEMMA NewTableFacts ==
  ASSUME NEW n, NEW i
  PROVE  LET w == NewTable(n, i)
         IN /\ \A k : Has(w, k) <=> \/ k = SequenceKey \/ k = TableKey(n) \/ k = SegmentKey(i)
                                    \/ k = NextIdKey(i) \/ k = MappingKey(i)
            /\ w[SequenceKey] = i + 1 /\ w[TableKey(n)] = i /\ w[SegmentKey(i)] = 0
            /\ w[NextIdKey(i)] = <<0, 0>> /\ w[MappingKey(i)] = n
<1> DEFINE w1 == Entry(SequenceKey, i + 1)
           w2 == With(w1, TableKey(n), i)
           w3 == With(w2, SegmentKey(i), 0)
           w4 == With(w3, NextIdKey(i), <<0, 0>>)
           w5 == With(w4, MappingKey(i), n)
<1>1. NewTable(n, i) = w5
  BY DEF NewTable
<1>2. (\A k : Has(w1, k) <=> k = SequenceKey) /\ w1[SequenceKey] = i + 1
  BY DEF Entry, Has
<1> HIDE DEF w1
<1>3. /\ \A k : Has(w2, k) <=> k = TableKey(n) \/ Has(w1, k)
      /\ w2[TableKey(n)] = i
      /\ \A k : Has(w1, k) /\ k # TableKey(n) => w2[k] = w1[k]
  BY WithFacts
<1> HIDE DEF w2
<1>4. /\ \A k : Has(w3, k) <=> k = SegmentKey(i) \/ Has(w2, k)
      /\ w3[SegmentKey(i)] = 0
      /\ \A k : Has(w2, k) /\ k # SegmentKey(i) => w3[k] = w2[k]
  BY WithFacts
<1> HIDE DEF w3
<1>5. /\ \A k : Has(w4, k) <=> k = NextIdKey(i) \/ Has(w3, k)
      /\ w4[NextIdKey(i)] = <<0, 0>>
      /\ \A k : Has(w3, k) /\ k # NextIdKey(i) => w4[k] = w3[k]
  BY WithFacts
<1> HIDE DEF w4
<1>6. /\ \A k : Has(w5, k) <=> k = MappingKey(i) \/ Has(w4, k)
      /\ w5[MappingKey(i)] = n
      /\ \A k : Has(w4, k) /\ k # MappingKey(i) => w5[k] = w4[k]
  BY WithFacts
<1> HIDE DEF w5
<1>7. /\ SequenceKey # TableKey(n) /\ SequenceKey # SegmentKey(i) /\ SequenceKey # NextIdKey(i)
      /\ SequenceKey # MappingKey(i) /\ TableKey(n) # SegmentKey(i) /\ TableKey(n) # NextIdKey(i)
      /\ TableKey(n) # MappingKey(i) /\ SegmentKey(i) # NextIdKey(i) /\ SegmentKey(i) # MappingKey(i)
      /\ NextIdKey(i) # MappingKey(i)
  BY KeysDiffer, TableKeysDiffer
<1>8. \A k : Has(w5, k) <=> \/ k = SequenceKey \/ k = TableKey(n) \/ k = SegmentKey(i)
                            \/ k = NextIdKey(i) \/ k = MappingKey(i)
  BY <1>2, <1>3, <1>4, <1>5, <1>6
<1>9. w5[SequenceKey] = i + 1
  BY <1>2, <1>3, <1>4, <1>5, <1>6, <1>7
<1>10. w5[TableKey(n)] = i
  BY <1>3, <1>4, <1>5, <1>6, <1>7
<1>11. w5[SegmentKey(i)] = 0 /\ w5[NextIdKey(i)] = <<0, 0>> /\ w5[MappingKey(i)] = n
  BY <1>4, <1>5, <1>6, <1>7
<1> QED
  BY <1>1, <1>8, <1>9, <1>10, <1>11

\* The database e is d with the table n entered under the id i.
Entered(d, e, n, i) ==
  /\ DbOK(e) /\ i \in Nat
  /\ Has(e, SequenceKey) /\ e[SequenceKey] = i + 1
  /\ Has(e, TableKey(n)) /\ e[TableKey(n)] = i
  /\ e[NextIdKey(i)] = <<0, 0>>
  /\ \A m : m # n => Same(d, e, TableKey(m))
  /\ \A j : j # i => Agree(d, e, j)

\* A new table under the next id leaves a sound database and touches no other table.
LEMMA WrittenTableEntry ==
  ASSUME NEW d, NEW n \in Names, NEW i, DbOK(d), Has(d, SequenceKey), d[SequenceKey] = i,
         ~Has(d, TableKey(n))
  PROVE  Entered(d, Apply(d, NewTable(n, i)), n, i)
<1> DEFINE w == NewTable(n, i)
           e == Apply(d, w)
<1>1. /\ \A k : Has(w, k) <=> \/ k = SequenceKey \/ k = TableKey(n) \/ k = SegmentKey(i)
                              \/ k = NextIdKey(i) \/ k = MappingKey(i)
      /\ w[SequenceKey] = i + 1 /\ w[TableKey(n)] = i /\ w[SegmentKey(i)] = 0
      /\ w[NextIdKey(i)] = <<0, 0>> /\ w[MappingKey(i)] = n
  BY NewTableFacts
<1>2. i \in Nat /\ i + 1 \in Nat
  <2>1. i \in Nat
    BY DEF DbOK, SeqOK
  <2> QED
    BY <2>1
<1>3. i + 1 # Deleted /\ i # Deleted /\ 0 # Deleted /\ <<0, 0>> # Deleted /\ n # Deleted
  <2>1. i + 1 \in Int /\ i \in Int /\ 0 \in Int /\ <<0, 0>> \in Nat \X Nat
    BY <1>2
  <2> QED
    BY <2>1, MarkAssumption
<1>4. /\ \A x : Has(w, x) /\ w[x] # Deleted => Has(e, x) /\ e[x] = w[x]
      /\ \A x : Has(e, x) => e[x] # Deleted /\ (Has(w, x) \/ Has(d, x))
  BY ApplyFacts
<1>5. \A k : ~Has(w, k) => Same(d, e, k)
  BY ApplySame DEF DbOK
<1> HIDE DEF w, e
<1>6. /\ Has(e, SequenceKey) /\ e[SequenceKey] = i + 1
      /\ Has(e, TableKey(n)) /\ e[TableKey(n)] = i
      /\ Has(e, SegmentKey(i)) /\ e[SegmentKey(i)] = 0
      /\ Has(e, NextIdKey(i)) /\ e[NextIdKey(i)] = <<0, 0>>
      /\ Has(e, MappingKey(i)) /\ e[MappingKey(i)] = n
  BY <1>1, <1>3, <1>4
<1>7. ASSUME NEW m, m # n PROVE Same(d, e, TableKey(m))
  <2>1. ~Has(w, TableKey(m))
    BY <1>1, <1>7, KeysDiffer, KeysInjective
  <2> QED
    BY <2>1, <1>5
<1>8. ASSUME NEW j, j # i PROVE Same(d, e, MappingKey(j))
  <2>1. ~Has(w, MappingKey(j))
    BY <1>1, <1>8, KeysDiffer, TableKeysDiffer, KeysInjective
  <2> QED
    BY <2>1, <1>5
<1>9. ASSUME NEW j, j # i PROVE Agree(d, e, j)
  <2>1. OwnKey(i, SegmentKey(i)) /\ OwnKey(i, NextIdKey(i))
    BY DEF OwnKey
  <2>2. \A k \in DOMAIN w : ~OwnKey(j, k)
    <3>1. ~OwnKey(j, SegmentKey(i)) /\ ~OwnKey(j, NextIdKey(i))
      BY <2>1, <1>9, OwnKeysApart
    <3> QED
      BY <3>1, <1>1, NotOwn DEF Has
  <2> QED
    BY <2>2, ApplyAgrees DEF DbOK, e
<1>10. ASSUME NEW u PROVE Same(d, e, UidKey(i, u))
  <2>1. ~Has(w, UidKey(i, u))
    BY <1>1, KeysDiffer, TableKeysDiffer
  <2> QED
    BY <2>1, <1>5
<1>11. Shapes(e)
  <2>1. \A k : Has(w, k) => KeyShape(k)
    BY <1>1, <1>2 DEF KeyShape
  <2>2. \A k : Has(d, k) => KeyShape(k)
    BY DEF DbOK, Shapes, Has
  <2>3. \A k : Has(e, k) => KeyShape(k) /\ e[k] # Deleted
    BY <2>1, <2>2, <1>4
  <2> QED
    BY <2>3 DEF Shapes, Has
<1>12. SeqOK(e)
  BY <1>2, <1>6 DEF SeqOK
<1>13. ASSUME NEW m \in Names, Has(e, TableKey(m)), m # n
       PROVE  /\ Has(d, TableKey(m)) /\ e[TableKey(m)] = d[TableKey(m)]
              /\ NameOK(d, m) /\ d[TableKey(m)] \in Nat /\ d[TableKey(m)] < i
  <2>1. Has(d, TableKey(m)) /\ e[TableKey(m)] = d[TableKey(m)]
    BY <1>7, <1>13 DEF Same
  <2>2. NameOK(d, m)
    BY <2>1 DEF DbOK, NamesOK
  <2> QED
    BY <2>1, <2>2 DEF NameOK
<1>14. ASSUME NEW m \in Names, Has(e, TableKey(m)) PROVE NameOK(e, m)
  <2>1. CASE m = n
    <3>1. \A x \in Names : Has(e, TableKey(x)) /\ e[TableKey(x)] = i => x = n
      BY <1>2, <1>13
    <3> QED
      BY <2>1, <3>1, <1>2, <1>6 DEF NameOK
  <2>2. CASE m # n
    <3>1. PICK j : j = d[TableKey(m)]
      OBVIOUS
    <3>2. /\ e[TableKey(m)] = j /\ NameOK(d, m) /\ j \in Nat /\ j < i /\ Has(d, TableKey(m))
      BY <2>2, <3>1, <1>13, <1>14
    <3>3. j # i /\ j < i + 1
      BY <3>2, <1>2
    <3>4. Has(e, MappingKey(j)) /\ e[MappingKey(j)] = m
      BY <3>1, <3>2, <3>3, <1>8 DEF NameOK, Same
    <3>5. \A x \in Names : Has(e, TableKey(x)) /\ e[TableKey(x)] = j => x = m
      BY <3>1, <3>2, <3>3, <1>6, <1>13 DEF NameOK
    <3> QED
      BY <3>2, <3>3, <3>4, <3>5, <1>6 DEF NameOK
  <2> QED
    BY <2>1, <2>2
<1>15. IsTid(e, i) /\ \A j : IsTid(d, j) => IsTid(e, j)
  <2>1. IsTid(e, i)
    BY <1>6 DEF IsTid
  <2>2. ASSUME NEW j, IsTid(d, j) PROVE IsTid(e, j)
    <3>1. PICK m \in Names : Has(d, TableKey(m)) /\ d[TableKey(m)] = j
      BY <2>2 DEF IsTid
    <3>2. m # n
      BY <3>1
    <3> QED
      BY <3>1, <3>2, <1>7 DEF IsTid, Same
  <2> QED
    BY <2>1, <2>2
<1>16. ASSUME NEW j \in Nat
       PROVE  /\ Has(e, MappingKey(j)) => IsTid(e, j)
              /\ Has(e, NextIdKey(j)) => IsTid(e, j)
              /\ \A u \in UidSet : Has(e, UidKey(j, u)) => IsTid(e, j)
  <2>1. CASE j = i
    BY <2>1, <1>15
  <2>2. CASE j # i
    <3>1. /\ Has(e, NextIdKey(j)) => Has(d, NextIdKey(j))
          /\ \A u \in UidSet : Has(e, UidKey(j, u)) => Has(d, UidKey(j, u))
      BY <2>2, <1>9 DEF Agree, OwnKey
    <3>2. Has(e, MappingKey(j)) => Has(d, MappingKey(j))
      BY <2>2, <1>8 DEF Same
    <3> QED
      BY <3>1, <3>2, <1>15 DEF DbOK, IdsOK
  <2> QED
    BY <2>1, <2>2
<1>17. ~IsTid(d, i)
  <2>1. ASSUME NEW m \in Names, Has(d, TableKey(m)), d[TableKey(m)] = i PROVE FALSE
    <3>1. NameOK(d, m)
      BY <2>1 DEF DbOK, NamesOK
    <3> QED
      BY <3>1, <2>1, <1>2 DEF NameOK
  <2> QED
    BY <2>1 DEF IsTid
<1>18. TableOK(e, i)
  <2>1. \A u \in UidSet : ~Has(e, UidKey(i, u))
    BY <1>2, <1>10, <1>17 DEF DbOK, IdsOK, Same
  <2>2. 0 < DBTableSegmentSize
    BY StoreAssumption
  <2>3. <<0, 0>> \in Addr /\ <<0, 0>>[1] = 0 /\ <<0, 0>>[2] = 0
    BY DEF Addr
  <2> QED
    BY <2>1, <2>2, <2>3, <1>6 DEF TableOK, NextOK
<1>19. ASSUME NEW m \in Names, Has(e, TableKey(m)) PROVE TableOK(e, e[TableKey(m)])
  <2>1. CASE m = n
    BY <2>1, <1>6, <1>18
  <2>2. CASE m # n
    <3>1. PICK j : j = d[TableKey(m)]
      OBVIOUS
    <3>2. e[TableKey(m)] = j /\ j \in Nat /\ j < i /\ Has(d, TableKey(m))
      BY <2>2, <3>1, <1>13, <1>19
    <3>3. j # i
      BY <3>2, <1>2
    <3>4. TableOK(d, j)
      BY <3>1, <3>2 DEF DbOK, TablesOK
    <3> QED
      BY <3>2, <3>3, <3>4, <1>9, TableFrame
  <2> QED
    BY <2>1, <2>2
<1>20. DbOK(e)
  BY <1>11, <1>12, <1>14, <1>16, <1>19 DEF DbOK, NamesOK, IdsOK, TablesOK
<1> QED
  <2>1. Entered(d, e, n, i)
    BY <1>2, <1>6, <1>7, <1>9, <1>20 DEF Entered
  <2> QED
    BY <2>1 DEF e, w
-----------------------------------------------------------------------------
(* Iterators and recovery *)

\* The parts an iterator takes from a key.
LEMMA KeyParts ==
  /\ SequenceKey[1] = "TSK"
  /\ \A n : TableKey(n)[1] = "TTP" /\ TableKey(n)[2] = n
  /\ \A i : /\ MappingKey(i)[1] = "TMP" /\ MappingKey(i)[2] = i
            /\ SegmentKey(i)[1] = "TSP" /\ NextIdKey(i)[1] = "TSS" /\ NextIdKey(i)[2] = i
  /\ \A i, u : UidKey(i, u)[1] = "TID" /\ UidKey(i, u)[2] = i /\ UidKey(i, u)[3] = u
  /\ \A i, a, f : /\ ValueKey(i, a, f)[1] = "TFV" /\ ValueKey(i, a, f)[2] = i
                  /\ ValueKey(i, a, f)[3] = a[1] /\ ValueKey(i, a, f)[4] = a[2] /\ ValueKey(i, a, f)[5] = f
  /\ \A i, f, v, a : /\ IndexKey(i, f, v, a)[1] = "TFI" /\ IndexKey(i, f, v, a)[2] = i
                     /\ IndexKey(i, f, v, a)[3] = f /\ IndexKey(i, f, v, a)[4] = Serialize(v)
                     /\ IndexKey(i, f, v, a)[5] = a[1] /\ IndexKey(i, f, v, a)[6] = a[2]
BY DEF SequenceKey, TableKey, MappingKey, SegmentKey, NextIdKey, UidKey, ValueKey, IndexKey

\* A prefix determines the kind of a key.
LEMMA KeyKinds ==
  ASSUME NEW k, KeyShape(k)
  PROVE  /\ k[1] = "TTP" => \E n \in Names : k = TableKey(n)
         /\ k[1] = "TMP" => \E i \in Nat : k = MappingKey(i)
         /\ k[1] = "TSS" => \E i \in Nat : k = NextIdKey(i)
         /\ k[1] = "TID" => \E i \in Nat, u \in UidSet : k = UidKey(i, u)
         /\ k[1] = "TFV" => \E i \in Nat, a \in Addr, f \in Fids : k = ValueKey(i, a, f)
<1>1. CASE k = SequenceKey
  BY <1>1, KeyParts
<1>2. CASE \E n \in Names : k = TableKey(n)
  BY <1>2, KeyParts
<1>3. CASE \E i \in Nat : k = MappingKey(i)
  BY <1>3, KeyParts
<1>4. CASE \E i \in Nat : k = SegmentKey(i)
  BY <1>4, KeyParts
<1>5. CASE \E i \in Nat : k = NextIdKey(i)
  BY <1>5, KeyParts
<1>6. CASE \E i \in Nat, u \in UidSet : k = UidKey(i, u)
  BY <1>6, KeyParts
<1>7. CASE \E i \in Nat, a \in Addr, f \in Fids : k = ValueKey(i, a, f)
  BY <1>7, KeyParts
<1>8. CASE \E i \in Nat, a \in Addr, f \in Fids, v \in ValSet : k = IndexKey(i, f, v, a)
  BY <1>8, KeyParts
<1> QED
  BY <1>1, <1>2, <1>3, <1>4, <1>5, <1>6, <1>7, <1>8 DEF KeyShape

\* What the iterators over names, segments and schemas yield.
LEMMA IteratorFacts ==
  ASSUME NEW d, Shapes(d)
  PROVE  /\ \A n : n \in {k[2] : k \in Keys(d, "TTP")} <=> n \in Names /\ Has(d, TableKey(n))
         /\ \A q, i : i \in {k[2] : k \in {x \in Keys(d, "TSS") : x[2] < q}}
                        <=> i \in Nat /\ i < q /\ Has(d, NextIdKey(i))
         /\ \A q, i : i \in {k[2] : k \in {x \in Keys(d, "TMP") : x[2] < q}}
                        <=> i \in Nat /\ i < q /\ Has(d, MappingKey(i))
<1>1. \A k \in DOMAIN d : KeyShape(k)
  BY DEF Shapes
<1>2. ASSUME NEW n
      PROVE  n \in {k[2] : k \in Keys(d, "TTP")} <=> n \in Names /\ Has(d, TableKey(n))
  <2>1. ASSUME NEW k \in Keys(d, "TTP"), n = k[2] PROVE n \in Names /\ Has(d, TableKey(n))
    <3>1. k \in DOMAIN d /\ k[1] = "TTP"
      BY DEF Keys
    <3>2. PICK m \in Names : k = TableKey(m)
      BY <3>1, <1>1, KeyKinds
    <3> QED
      BY <2>1, <3>1, <3>2, KeyParts DEF Has
  <2>2. ASSUME n \in Names, Has(d, TableKey(n)) PROVE TableKey(n) \in Keys(d, "TTP") /\ TableKey(n)[2] = n
    BY <2>2, KeyParts DEF Keys, Has
  <2> QED
    BY <2>1, <2>2
<1>3. ASSUME NEW q, NEW i
      PROVE  i \in {k[2] : k \in {x \in Keys(d, "TSS") : x[2] < q}}
               <=> i \in Nat /\ i < q /\ Has(d, NextIdKey(i))
  <2>1. ASSUME NEW k \in Keys(d, "TSS"), k[2] < q, i = k[2] PROVE i \in Nat /\ i < q /\ Has(d, NextIdKey(i))
    <3>1. k \in DOMAIN d /\ k[1] = "TSS"
      BY DEF Keys
    <3>2. PICK j \in Nat : k = NextIdKey(j)
      BY <3>1, <1>1, KeyKinds
    <3> QED
      BY <2>1, <3>1, <3>2, KeyParts DEF Has
  <2>2. ASSUME i \in Nat, i < q, Has(d, NextIdKey(i))
        PROVE  NextIdKey(i) \in Keys(d, "TSS") /\ NextIdKey(i)[2] = i
    BY <2>2, KeyParts DEF Keys, Has
  <2> QED
    BY <2>1, <2>2
<1>4. ASSUME NEW q, NEW i
      PROVE  i \in {k[2] : k \in {x \in Keys(d, "TMP") : x[2] < q}}
               <=> i \in Nat /\ i < q /\ Has(d, MappingKey(i))
  <2>1. ASSUME NEW k \in Keys(d, "TMP"), k[2] < q, i = k[2] PROVE i \in Nat /\ i < q /\ Has(d, MappingKey(i))
    <3>1. k \in DOMAIN d /\ k[1] = "TMP"
      BY DEF Keys
    <3>2. PICK j \in Nat : k = MappingKey(j)
      BY <3>1, <1>1, KeyKinds
    <3> QED
      BY <2>1, <3>1, <3>2, KeyParts DEF Has
  <2>2. ASSUME i \in Nat, i < q, Has(d, MappingKey(i))
        PROVE  MappingKey(i) \in Keys(d, "TMP") /\ MappingKey(i)[2] = i
    BY <2>2, KeyParts DEF Keys, Has
  <2> QED
    BY <2>1, <2>2
<1> QED
  BY <1>2, <1>3, <1>4

\* The cache of a process that starts says what is stored.
LEMMA RecoveredFacts ==
  ASSUME NEW d, DbOK(d), Has(d, SequenceKey)
  PROVE  LET r == Recovered(d)
         IN /\ DOMAIN r = CacheFields
            /\ r.tid = d[SequenceKey]
            /\ \A n : n \in DOMAIN r.tidOf <=> n \in Names /\ Has(d, TableKey(n))
            /\ \A n \in Names : Has(d, TableKey(n)) =>
                 LET i == d[TableKey(n)]
                 IN /\ r.tidOf[n] = i
                    /\ Has(r.nameOf, i) /\ r.nameOf[i] = n
                    /\ Has(r.schema, n) /\ r.schema[n] = n
                    /\ Has(r.seg, i) /\ r.seg[i] = d[NextIdKey(i)][1]
                    /\ Has(r.offset, i) /\ r.offset[i] = d[NextIdKey(i)][2]
<1> DEFINE names == {k[2] : k \in Keys(d, "TTP")}
           seq == d[SequenceKey]
           tidOf == [n \in names |-> d[TableKey(n)]]
           ids == {k[2] : k \in {x \in Keys(d, "TSS") : x[2] < seq}}
           nameOf == [i \in {tidOf[n] : n \in names} |-> CHOOSE n \in names : tidOf[n] = i]
           schemas == {k[2] : k \in {x \in Keys(d, "TMP") : x[2] < seq}}
           schema == [n \in {nameOf[i] : i \in schemas} |->
                        d[MappingKey(CHOOSE i \in schemas : nameOf[i] = n)]]
           seg == [i \in ids |-> d[NextIdKey(i)][1]]
           offset == [i \in ids |-> StoredOffset(d, i)]
           r == Recovered(d)
<1>1. r = [tid |-> seq, tidOf |-> tidOf, nameOf |-> nameOf, seg |-> seg, offset |-> offset, schema |-> schema]
  BY DEF Recovered
<1>2. /\ \A n : n \in names <=> n \in Names /\ Has(d, TableKey(n))
      /\ \A i : i \in ids <=> i \in Nat /\ i < seq /\ Has(d, NextIdKey(i))
      /\ \A i : i \in schemas <=> i \in Nat /\ i < seq /\ Has(d, MappingKey(i))
  BY IteratorFacts DEF DbOK
<1>3. DOMAIN tidOf = names /\ \A n \in names : tidOf[n] = d[TableKey(n)]
  OBVIOUS
<1>4. /\ DOMAIN seg = ids /\ DOMAIN offset = ids
      /\ \A i \in ids : seg[i] = d[NextIdKey(i)][1] /\ offset[i] = d[NextIdKey(i)][2]
  BY DEF StoredOffset
<1> HIDE DEF names, seq, ids, schemas, seg, offset
<1>5. ASSUME NEW n \in names
      PROVE  /\ n \in Names /\ NameOK(d, n) /\ tidOf[n] \in ids /\ tidOf[n] \in schemas
             /\ tidOf[n] = d[TableKey(n)] /\ \A m \in names : tidOf[m] = tidOf[n] => m = n
  <2>1. n \in Names /\ Has(d, TableKey(n)) /\ tidOf[n] = d[TableKey(n)]
    BY <1>2, <1>3
  <2>2. NameOK(d, n) /\ TableOK(d, d[TableKey(n)])
    BY <2>1 DEF DbOK, NamesOK, TablesOK
  <2>3. Has(d, NextIdKey(d[TableKey(n)]))
    BY <2>2 DEF TableOK, NextOK
  <2>4. d[TableKey(n)] \in Nat /\ d[TableKey(n)] < seq /\ Has(d, MappingKey(d[TableKey(n)]))
    BY <2>2 DEF NameOK, seq
  <2>5. \A m \in names : tidOf[m] = tidOf[n] => m = n
    BY <2>1, <2>2, <1>2, <1>3 DEF NameOK
  <2> QED
    BY <2>1, <2>2, <2>3, <2>4, <2>5, <1>2
<1>6. ASSUME NEW n \in names PROVE Has(nameOf, tidOf[n]) /\ nameOf[tidOf[n]] = n
  <2>1. tidOf[n] \in DOMAIN nameOf
    OBVIOUS
  <2>2. nameOf[tidOf[n]] = CHOOSE m \in names : tidOf[m] = tidOf[n]
    OBVIOUS
  <2> HIDE DEF nameOf, tidOf
  <2>3. (CHOOSE m \in names : tidOf[m] = tidOf[n]) = n
    BY <1>5
  <2> QED
    BY <2>1, <2>2, <2>3 DEF Has
<1> HIDE DEF nameOf, tidOf
<1>7. ASSUME NEW i \in schemas PROVE \E n \in names : i = tidOf[n]
  <2>1. i \in Nat /\ Has(d, MappingKey(i))
    BY <1>2
  <2>2. IsTid(d, i)
    BY <2>1 DEF DbOK, IdsOK
  <2> QED
    BY <2>2, <1>2, <1>3 DEF IsTid
<1>8. ASSUME NEW n \in names PROVE Has(schema, n) /\ schema[n] = n
  <2>1. tidOf[n] \in schemas /\ nameOf[tidOf[n]] = n
    BY <1>5, <1>6
  <2>2. n \in DOMAIN schema
    BY <2>1
  <2>3. schema[n] = d[MappingKey(CHOOSE i \in schemas : nameOf[i] = n)]
    BY <2>2
  <2> HIDE DEF schema
  <2>4. \A i \in schemas : nameOf[i] = n => i = tidOf[n]
    BY <1>6, <1>7
  <2>5. (CHOOSE i \in schemas : nameOf[i] = n) = tidOf[n]
    BY <2>1, <2>4
  <2>6. d[MappingKey(tidOf[n])] = n
    BY <1>5 DEF NameOK
  <2> QED
    BY <2>2, <2>3, <2>5, <2>6 DEF Has
<1> HIDE DEF schema
<1>9. DOMAIN r = CacheFields
  BY <1>1 DEF CacheFields
<1>10. /\ r.tid = seq /\ r.tidOf = tidOf /\ r.nameOf = nameOf
       /\ r.seg = seg /\ r.offset = offset /\ r.schema = schema
  BY <1>1
<1> HIDE DEF r
<1>11. \A n : n \in DOMAIN r.tidOf <=> n \in Names /\ Has(d, TableKey(n))
  BY <1>2, <1>3, <1>10
<1>12. ASSUME NEW n \in Names, Has(d, TableKey(n))
       PROVE  LET i == d[TableKey(n)]
              IN /\ r.tidOf[n] = i
                 /\ Has(r.nameOf, i) /\ r.nameOf[i] = n
                 /\ Has(r.schema, n) /\ r.schema[n] = n
                 /\ Has(r.seg, i) /\ r.seg[i] = d[NextIdKey(i)][1]
                 /\ Has(r.offset, i) /\ r.offset[i] = d[NextIdKey(i)][2]
  <2>1. n \in names
    BY <1>2, <1>12
  <2>2. PICK i : i = d[TableKey(n)]
    OBVIOUS
  <2>3. tidOf[n] = i /\ i \in ids
    BY <2>1, <2>2, <1>5
  <2>4. Has(seg, i) /\ seg[i] = d[NextIdKey(i)][1] /\ Has(offset, i) /\ offset[i] = d[NextIdKey(i)][2]
    BY <2>3, <1>4 DEF Has
  <2>5. Has(nameOf, i) /\ nameOf[i] = n
    BY <2>1, <2>3, <1>6
  <2>6. Has(schema, n) /\ schema[n] = n
    BY <2>1, <1>8
  <2> QED
    BY <2>2, <2>3, <2>4, <2>5, <2>6, <1>10
<1> QED
  BY <1>9, <1>10, <1>11, <1>12 DEF r, seq
-----------------------------------------------------------------------------
(* What the inductive invariant says of the reads *)

\* Tables, live uids and documents in terms of keys.
LEMMA Views ==
  ASSUME Shapes(db)
  PROVE  /\ \A n : n \in Tables <=> n \in Names /\ Has(db, TableKey(n))
         /\ \A i \in Nat : \A u : u \in Live(i) <=> u \in UidSet /\ Has(db, UidKey(i, u))
<1>1. \A k \in DOMAIN db : KeyShape(k)
  BY DEF Shapes
<1>2. \A n : n \in Tables <=> n \in Names /\ Has(db, TableKey(n))
  BY IteratorFacts DEF Tables
<1>3. ASSUME NEW i \in Nat, NEW u
      PROVE  u \in Live(i) <=> u \in UidSet /\ Has(db, UidKey(i, u))
  <2>1. ASSUME NEW k \in Keys(db, "TID"), k[2] = i, u = k[3] PROVE u \in UidSet /\ Has(db, UidKey(i, u))
    <3>1. k \in DOMAIN db /\ k[1] = "TID"
      BY DEF Keys
    <3>2. PICK j \in Nat, w \in UidSet : k = UidKey(j, w)
      BY <3>1, <1>1, KeyKinds
    <3> QED
      BY <2>1, <3>1, <3>2, KeyParts DEF Has
  <2>2. ASSUME u \in UidSet, Has(db, UidKey(i, u))
        PROVE  UidKey(i, u) \in Keys(db, "TID") /\ UidKey(i, u)[2] = i /\ UidKey(i, u)[3] = u
    BY <2>2, KeyParts DEF Keys, Has
  <2> QED
    BY <2>1, <2>2 DEF Live
<1> QED
  BY <1>2, <1>3

\* GetDoc reads the fields stored at the address of the uid.
LEMMA GetDocFacts ==
  ASSUME Shapes(db), NEW i \in Nat, NEW u, db[UidKey(i, u)] \in Addr
  PROVE  LET a == db[UidKey(i, u)]
         IN /\ \A f : f \in DOMAIN GetDoc(i, u) <=> f \in Fids /\ Has(db, ValueKey(i, a, f))
            /\ \A f \in DOMAIN GetDoc(i, u) : GetDoc(i, u)[f] = db[ValueKey(i, a, f)]
<1> DEFINE a == db[UidKey(i, u)]
           keys == {k \in Keys(db, "TFV") : k[2] = i /\ <<k[3], k[4]>> = a /\ k[5] < 255}
<1>1. GetDoc(i, u) = [f \in {k[5] : k \in keys} |-> db[ValueKey(i, a, f)]]
  BY DEF GetDoc
<1>2. ASSUME NEW f PROVE f \in {k[5] : k \in keys} <=> f \in Fids /\ Has(db, ValueKey(i, a, f))
  <2>1. ASSUME NEW k \in keys, f = k[5] PROVE f \in Fids /\ Has(db, ValueKey(i, a, f))
    <3>1. k \in DOMAIN db /\ k[1] = "TFV" /\ k[2] = i /\ <<k[3], k[4]>> = a
      BY DEF Keys
    <3>2. PICK j \in Nat, b \in Addr, g \in Fids : k = ValueKey(j, b, g)
      BY <3>1, KeyKinds DEF Shapes
    <3>3. j = i /\ g = f /\ <<b[1], b[2]>> = a
      BY <2>1, <3>1, <3>2, KeyParts
    <3>4. b = a
      BY <3>3 DEF Addr
    <3> QED
      BY <3>1, <3>2, <3>3, <3>4 DEF Has
  <2>2. ASSUME f \in Fids, Has(db, ValueKey(i, a, f)) PROVE ValueKey(i, a, f) \in keys /\ ValueKey(i, a, f)[5] = f
    <3>1. <<a[1], a[2]>> = a
      BY DEF Addr
    <3>2. f < 255
      BY <2>2, StoreAssumption DEF Fids
    <3> HIDE DEF a
    <3> QED
      BY <2>2, <3>1, <3>2, KeyParts DEF Keys, Has
  <2> HIDE DEF keys
  <2> QED
    BY <2>1, <2>2
<1> HIDE DEF keys
<1> QED
  BY <1>1, <1>2

\* Live documents are complete and found by every read.
LEMMA LiveDocument ==
  ASSUME DbOK(db), NEW n \in Tables, NEW u \in Live(Tid(n))
  PROVE  LET i == Tid(n)
             a == AddrOf(i, u)
         IN /\ i \in Nat /\ u \in UidSet /\ Has(db, UidKey(i, u)) /\ UidOK(db, i, u) /\ NextOK(db, i)
            /\ DOMAIN GetDoc(i, u) = Fids
            /\ \A f \in Fids : GetDoc(i, u)[f] = db[ValueKey(i, a, f)]
<1> DEFINE i == Tid(n)
           a == AddrOf(i, u)
<1>1. n \in Names /\ Has(db, TableKey(n))
  BY Views DEF DbOK
<1>2. i \in Nat /\ TableOK(db, i)
  BY <1>1 DEF DbOK, NamesOK, NameOK, TablesOK, Tid
<1> HIDE DEF i
<1>3. u \in UidSet /\ Has(db, UidKey(i, u))
  BY <1>2, Views DEF DbOK, i
<1>4. UidOK(db, i, u) /\ NextOK(db, i)
  BY <1>2, <1>3 DEF TableOK
<1>5. a = db[UidKey(i, u)] /\ a \in Addr /\ \A f \in Fids : Has(db, ValueKey(i, a, f))
  BY <1>4 DEF UidOK, FieldOK, AddrOf
<1> HIDE DEF a
<1>6. /\ \A f : f \in DOMAIN GetDoc(i, u) <=> f \in Fids /\ Has(db, ValueKey(i, a, f))
      /\ \A f \in DOMAIN GetDoc(i, u) : GetDoc(i, u)[f] = db[ValueKey(i, a, f)]
  BY <1>2, <1>5, GetDocFacts DEF DbOK
<1>7. DOMAIN GetDoc(i, u) = Fids
  BY <1>5, <1>6
<1> QED
  BY <1>2, <1>3, <1>4, <1>6, <1>7 DEF i, a

\* The bounds of a filter are signed longs.
LEMMA ValuesLong == ASSUME NEW v \in Vals PROVE v \in Long
<1>1. PICK doc \in Docs, f \in FieldIds : v = doc.val[f]
  BY DEF Vals
<1>2. PICK b \in Batches : doc \in {b[k] : k \in DOMAIN b}
  BY DEF Docs
<1>3. PICK k \in DOMAIN b : doc = b[k]
  BY <1>2
<1>4. b \in Seq(Document)
  BY StoreAssumption DEF Document
<1>5. b[k] \in Document
  BY <1>4
<1> QED
  BY <1>1, <1>3, <1>5 DEF Document

\* A value below a bound of a filter keeps its place when both are serialized.
LEMMA SerializedOrder ==
  ASSUME NEW lower \in Int, NEW v \in Int, NEW upper \in Vals, 0 <= lower, lower <= v, v < upper
  PROVE  Serialize(lower) <= Serialize(v) /\ Serialize(v) < Serialize(upper)
<1>1. upper \in Long
  BY ValuesLong
<1>2. PICK K : K = 2^Bits
  OBVIOUS
<1>3. K \in Nat /\ 1 < K
  BY <1>2, WidthAssumption
<1>4. upper \in Int /\ upper < K
  BY <1>1, <1>2, <1>3 DEF Long
<1>5. lower % K = lower /\ v % K = v /\ upper % K = upper
  BY <1>3, <1>4
<1> QED
  BY <1>2, <1>4, <1>5 DEF Serialize

\* The inductive invariant gives the completeness of the reads.
LEMMA InvReads == DbOK(db) => ReadsComplete
<1> SUFFICES ASSUME DbOK(db), NEW n \in Tables, NEW u \in Live(Tid(n)), NEW f \in FieldIds
             PROVE  LET tid == Tid(n)
                        addr == AddrOf(tid, u)
                        v == GetDoc(tid, u)[f]
                    IN /\ f < 128 => <<addr, FirstByte(v)>> \in LoadField(tid, f)
                       /\ \A lower, upper \in Vals, number \in Limits :
                            (/\ 0 <= lower /\ lower <= v /\ v < upper
                             /\ Reached(Indexed(tid, f, lower, upper), IndexKey(tid, f, v, addr), number))
                              => addr \in Filtered(tid, f, lower, upper, number)
  BY DEF ReadsComplete
<1> DEFINE i == Tid(n)
           a == AddrOf(i, u)
           v == GetDoc(i, u)[f]
<1>1. /\ i \in Nat /\ UidOK(db, i, u) /\ NextOK(db, i)
      /\ \A g \in Fids : GetDoc(i, u)[g] = db[ValueKey(i, a, g)]
  BY LiveDocument
<1>2. f \in Fids
  BY DEF Fids
<1> HIDE DEF i
<1>3. a \in Addr /\ Below(a, db[NextIdKey(i)]) /\ FieldOK(db, i, a, f)
  BY <1>1, <1>2 DEF UidOK, AddrOf
<1>4. v = db[ValueKey(i, a, f)]
  BY <1>1, <1>2
<1> HIDE DEF a, v
<1>5. a = <<a[1], a[2]>> /\ a[1] \in Nat /\ a[2] \in Nat
  BY <1>3 DEF Addr
<1>6. ASSUME f < 128 PROVE <<a, FirstByte(v)>> \in LoadField(i, f)
  <2>1. PICK s : s = db[SegmentKey(i)]
    OBVIOUS
  <2>2. s \in Nat /\ a[1] <= s
    <3>1. PICK q \in Addr : q = db[NextIdKey(i)]
      BY <1>1 DEF NextOK
    <3>2. q[1] \in Nat /\ q[2] \in Nat
      BY DEF Addr
    <3>3. s = q[1]
      BY <2>1, <3>1, <1>1 DEF NextOK
    <3> QED
      BY <3>1, <3>2, <3>3, <1>3, <1>5 DEF Below
  <2>3. a[1] \in LoadedSegments(s)
    BY <2>2, <1>5 DEF LoadedSegments
  <2>3a. SignedChar(f) = f
    BY <1>6 DEF SignedChar
  <2>4. ValueKey(i, a, f) \in {x \in Keys(db, "TFV") : x[2] = i /\ x[3] = a[1] /\ SignedChar(x[5]) = f}
    BY <1>3, <2>3a, KeyParts DEF FieldOK, Has, Keys
  <2>5. <<ValueKey(i, a, f)[3], ValueKey(i, a, f)[4]>> = a
    BY <1>5, KeyParts
  <2>6. <<a, FirstByte(v)>> \in LoadSegment(i, a[1], f)
    BY <1>4, <2>4, <2>5 DEF LoadSegment
  <2> QED
    BY <2>1, <2>3, <2>6 DEF LoadField
<1>7. ASSUME NEW lower \in Vals, NEW upper \in Vals, NEW number \in Limits, 0 <= lower, lower <= v, v < upper,
             Reached(Indexed(i, f, lower, upper), IndexKey(i, f, v, a), number)
      PROVE  a \in Filtered(i, f, lower, upper, number)
  <2>1. v \in Int
    BY <1>3, <1>4 DEF FieldOK, ValSet
  <2>2. lower \in Int
    BY ValuesLong DEF Long
  <2>3. Serialize(lower) <= Serialize(v) /\ Serialize(v) < Serialize(upper)
    BY <1>7, <2>1, <2>2, SerializedOrder
  <2>4. IndexKey(i, f, v, a) \in Indexed(i, f, lower, upper)
    BY <1>3, <1>4, <2>3, KeyParts DEF FieldOK, Has, Keys, Indexed
  <2>5. <<IndexKey(i, f, v, a)[5], IndexKey(i, f, v, a)[6]>> = a
    BY <1>5, KeyParts
  <2> QED
    BY <1>7, <2>4, <2>5 DEF Filtered
<1> QED
  BY <1>6, <1>7 DEF i, a, v

\* The inductive invariant gives the soundness of cache and addresses.
LEMMA InvSound == StoreInv => StoreSound
<1> SUFFICES ASSUME StoreInv PROVE StoreSound
  OBVIOUS
<1>1. Shape /\ DbOK(db) /\ CallsOK
  BY DEF StoreInv
<1>2. \A n : n \in Tables <=> n \in Names /\ Has(db, TableKey(n))
  BY <1>1, Views DEF DbOK
<1>3. CacheIsStored
  <2> SUFFICES ASSUME up PROVE
         /\ (\A t \in Threads : pc[t] \notin CreateSteps) => cache.tid = db[SequenceKey]
         /\ \A n \in Names : Settled(n) =>
              /\ Has(cache.tidOf, n) <=> n \in Tables
              /\ n \in Tables =>
                   LET tid == Tid(n)
                       rec == Recovered(db)
                   IN /\ cache.tidOf[n] = tid /\ cache.nameOf[tid] = n
                      /\ cache.schema[n] = rec.schema[n]
                      /\ <<cache.seg[tid], cache.offset[tid]>> = <<rec.seg[tid], rec.offset[tid]>>
    BY DEF CacheIsStored
  <2>1. CacheInv
    BY DEF StoreInv
  <2>2. (\A t \in Threads : pc[t] \notin CreateSteps) => cache.tid = db[SequenceKey]
    BY <2>1 DEF CacheInv, CreateSteps, HalfCreated
  <2>3. ASSUME NEW n \in Names, Settled(n) PROVE Has(cache.tidOf, n) <=> n \in Tables
    BY <2>1, <2>3, <1>2 DEF CacheInv, Settled, Known, Has
  <2>4. ASSUME NEW n \in Names, Settled(n), n \in Tables
        PROVE  LET tid == Tid(n)
                   rec == Recovered(db)
               IN /\ cache.tidOf[n] = tid /\ cache.nameOf[tid] = n
                  /\ cache.schema[n] = rec.schema[n]
                  /\ <<cache.seg[tid], cache.offset[tid]>> = <<rec.seg[tid], rec.offset[tid]>>
    <3>1. Known(n)
      BY <2>1, <2>3, <2>4 DEF CacheInv, Has
    <3>2. PICK i : i = Tid(n)
      OBVIOUS
    <3>3. /\ cache.tidOf[n] = i /\ cache.nameOf[i] = n /\ cache.schema[n] = n
          /\ cache.seg[i] = db[NextIdKey(i)][1] /\ cache.offset[i] = db[NextIdKey(i)][2]
      BY <3>1, <3>2, <2>4 DEF Known, Tid, Settled
    <3>4. PICK rec : rec = Recovered(db)
      OBVIOUS
    <3>5. Has(db, TableKey(n)) /\ i = db[TableKey(n)]
      BY <3>2, <2>4, <1>2 DEF Tid
    <3>6. rec.schema[n] = n /\ rec.seg[i] = db[NextIdKey(i)][1] /\ rec.offset[i] = db[NextIdKey(i)][2]
      BY <3>4, <3>5, <2>1, <1>1, RecoveredFacts DEF CacheInv
    <3> QED
      BY <3>2, <3>3, <3>4, <3>6
  <2> QED
    BY <2>2, <2>3, <2>4
<1>4. ASSUME NEW t \in Threads
      PROVE  call[t].name \in Names \cup {None} /\ call[t].offset < DBTableSegmentSize
  <2>1. 0 < DBTableSegmentSize
    BY StoreAssumption
  <2>2. CASE pc[t] = "idle"
    <3>1. call[t] = NoCall
      BY <2>2, <1>1 DEF CallsOK
    <3> QED
      BY <3>1, <2>1 DEF NoCall
  <2>3. pc[t] # "idle" => up /\ call[t].name \in Names
    BY <1>1 DEF CallsOK
  <2>4. CASE pc[t] \in CreateSteps \cup {"GetSegId", "GetTidOffset"}
    <3>1. call[t].offset = 0 /\ pc[t] # "idle"
      BY <2>4, <1>1 DEF CallsOK, CreateSteps
    <3> QED
      BY <3>1, <2>1, <2>3
  <2>5. CASE pc[t] \in {"Build", "Write"}
    <3>1. BatchOK(db, call[t])
      BY <2>5 DEF StoreInv, AddInv
    <3> QED
      BY <3>1, <2>3, <2>5 DEF BatchOK, CountersOK
  <2>6. CASE pc[t] \in HalfAdded
    <3>1. up /\ CacheInv /\ call[t].name \in Names
      BY <2>3, <2>6 DEF HalfAdded, StoreInv
    <3>2. /\ Has(cache.tidOf, call[t].name) /\ cache.tidOf[call[t].name] = call[t].tid
          /\ db[NextIdKey(call[t].tid)] = <<call[t].sid, call[t].offset>>
      BY <2>6 DEF StoreInv, AddInv, HalfAdded, AddSteps
    <3>3. Has(db, TableKey(call[t].name)) /\ db[TableKey(call[t].name)] = call[t].tid
      BY <3>1, <3>2 DEF CacheInv, Known, Has
    <3>4. NextOK(db, call[t].tid)
      BY <3>1, <3>3, <1>1 DEF DbOK, TablesOK, TableOK
    <3>5. call[t].offset < DBTableSegmentSize
      BY <3>2, <3>4 DEF NextOK
    <3> QED
      BY <3>1, <3>5
  <2>7. pc[t] \in {"idle"} \cup CreateSteps \cup AddSteps
    BY <1>1 DEF Shape
  <2> QED
    BY <2>2, <2>4, <2>5, <2>6, <2>7 DEF CreateSteps, AddSteps, HalfAdded
<1>5. TypeOK
  BY <1>1, <1>4 DEF TypeOK, Shape
<1>6. ASSUME NEW n \in Tables
      PROVE  LET tid == Tid(n)
             IN tid < db[SequenceKey] /\ (\A m \in Tables \ {n} : Tid(m) # tid)
                /\ db[SegmentKey(tid)] = db[NextIdKey(tid)][1]
  <2>1. n \in Names /\ Has(db, TableKey(n)) /\ NameOK(db, n) /\ TableOK(db, Tid(n))
    BY <1>1, <1>2 DEF DbOK, NamesOK, TablesOK, Tid
  <2> QED
    BY <2>1, <1>2 DEF NameOK, TableOK, NextOK, Tid
<1>7. ASSUME NEW n \in Tables, NEW u \in Live(Tid(n))
      PROVE  LET tid == Tid(n)
                 next == db[NextIdKey(tid)]
                 addr == AddrOf(tid, u)
             IN /\ addr[1] < next[1] \/ (addr[1] = next[1] /\ addr[2] < next[2])
                /\ \A w \in Live(tid) \ {u} : AddrOf(tid, w) # addr
                /\ DOMAIN GetDoc(tid, u) = Fids /\ GetDoc(tid, u)[0] = u
  <2>1. PICK i : i = Tid(n)
    OBVIOUS
  <2>2. /\ i \in Nat /\ u \in UidSet /\ UidOK(db, i, u) /\ DOMAIN GetDoc(i, u) = Fids
        /\ \A f \in Fids : GetDoc(i, u)[f] = db[ValueKey(i, AddrOf(i, u), f)]
    BY <2>1, <1>1, LiveDocument
  <2>3. \A w : w \in Live(i) <=> w \in UidSet /\ Has(db, UidKey(i, w))
    BY <2>2, <1>1, Views DEF DbOK
  <2>4. PICK a : a = AddrOf(i, u)
    OBVIOUS
  <2>5. /\ Below(a, db[NextIdKey(i)]) /\ db[ValueKey(i, a, 0)] = u
        /\ \A w \in UidSet : Has(db, UidKey(i, w)) /\ db[UidKey(i, w)] = a => w = u
    BY <2>2, <2>4 DEF UidOK, AddrOf
  <2>6. \A w \in Live(i) \ {u} : AddrOf(i, w) # a
    BY <2>3, <2>5 DEF AddrOf
  <2>7. GetDoc(i, u)[0] = u
    BY <2>2, <2>4, <2>5 DEF Fids
  <2> QED
    BY <2>1, <2>2, <2>4, <2>5, <2>6, <2>7 DEF Below
<1>8. AddressesSound
  BY <1>5, <1>6, <1>7 DEF AddressesSound
<1> QED
  BY <1>3, <1>8 DEF StoreSound
-----------------------------------------------------------------------------
(* Steps of one thread *)

\* A step of t: where it goes, its locals after it; the other threads are where they were.
StepOf(t, l, c) ==
  /\ pc' = [pc EXCEPT ![t] = l]
  /\ call' = [call EXCEPT ![t] = c]
  /\ UNCHANGED up

\* What a step of a thread leaves of the shape of the state.
LEMMA StepFacts ==
  ASSUME Shape, NEW t \in Threads, NEW l \in {"idle"} \cup CreateSteps \cup AddSteps,
         NEW c, DOMAIN c = CallFields, StepOf(t, l, c)
  PROVE  /\ pc'[t] = l /\ call'[t] = c /\ up' = up
         /\ \A s \in Threads : s # t => pc'[s] = pc[s] /\ call'[s] = call[s]
         /\ pc' \in [Threads -> {"idle"} \cup CreateSteps \cup AddSteps]
         /\ DOMAIN call' = Threads /\ \A s \in Threads : DOMAIN call'[s] = CallFields
<1>1. pc \in [Threads -> {"idle"} \cup CreateSteps \cup AddSteps] /\ DOMAIN call = Threads
      /\ \A s \in Threads : DOMAIN call[s] = CallFields
  BY DEF Shape
<1>2. /\ pc' = [pc EXCEPT ![t] = l]
      /\ call' = [call EXCEPT ![t] = c]
      /\ up' = up
  BY DEF StepOf
<1>3. /\ pc'[t] = l /\ \A s \in Threads : s # t => pc'[s] = pc[s]
      /\ pc' \in [Threads -> {"idle"} \cup CreateSteps \cup AddSteps]
  BY <1>1, <1>2
<1>4. /\ DOMAIN call' = Threads /\ call'[t] = c /\ \A s \in Threads : s # t => call'[s] = call[s]
  BY <1>1, <1>2
<1>5. \A s \in Threads : DOMAIN call'[s] = CallFields
  BY <1>1, <1>4
<1> QED
  BY <1>2, <1>3, <1>4, <1>5

\* What a call in progress is like.
LocalsOK(l, c) ==
  /\ l = "idle" => c = NoCall
  /\ l # "idle" => c.name \in Names
  /\ l \in AddSteps => c.docs \in Seq(Document)
  /\ l \in CreateSteps \cup {"GetSegId", "GetTidOffset"} => c.offset = 0

\* The calls stay apart when the thread goes on with its call, or starts one that may start.
LEMMA StepCalls ==
  ASSUME Shape, CallsOK, up, NEW t \in Threads, NEW l \in {"idle"} \cup CreateSteps \cup AddSteps,
         NEW c, DOMAIN c = CallFields, StepOf(t, l, c), LocalsOK(l, c),
         l \in CreateSteps => pc[t] \in CreateSteps \/ \A s \in Threads : pc[s] \notin CreateSteps,
         l \in AddSteps => \/ pc[t] \in AddSteps /\ call[t].name = c.name
                           \/ \A s \in Threads : pc[s] \in AddSteps => call[s].name # c.name
  PROVE  CallsOK'
<1>1. /\ pc'[t] = l /\ call'[t] = c /\ up' = up
      /\ \A s \in Threads : s # t => pc'[s] = pc[s] /\ call'[s] = call[s]
  <2>1. Shape
    OBVIOUS
  <2> QED
    BY ONLY <2>1, StepFacts, t \in Threads, l \in {"idle"} \cup CreateSteps \cup AddSteps, DOMAIN c = CallFields, StepOf(t, l, c)
<1>2. ASSUME NEW s \in Threads
      PROVE  /\ pc'[s] = "idle" => call'[s] = NoCall
             /\ pc'[s] # "idle" => up' /\ call'[s].name \in Names
             /\ pc'[s] \in AddSteps => call'[s].docs \in Seq(Document)
             /\ pc'[s] \in CreateSteps \cup {"GetSegId", "GetTidOffset"} => call'[s].offset = 0
  <2>1. CASE s = t
    BY <2>1, <1>1 DEF LocalsOK
  <2>2. CASE s # t
    BY <2>2, <1>1 DEF CallsOK
  <2> QED
    BY <2>1, <2>2
<1>3. ASSUME NEW s \in Threads, NEW r \in Threads, pc'[s] \in CreateSteps, pc'[r] \in CreateSteps PROVE s = r
  BY <1>1, <1>3 DEF CallsOK
<1>4. ASSUME NEW s \in Threads, NEW r \in Threads, pc'[s] \in AddSteps, pc'[r] \in AddSteps,
             call'[s].name = call'[r].name
      PROVE  s = r
  BY <1>1, <1>4 DEF CallsOK
<1> QED
  BY <1>2, <1>3, <1>4 DEF CallsOK

\* What another thread knows stays true when neither the database nor the cache change.
LEMMA OtherThread ==
  ASSUME NEW s \in Threads, CreateInv(s), AddInv(s), pc'[s] = pc[s], call'[s] = call[s], UNCHANGED <<db, cache>>
  PROVE  CreateInv(s)' /\ AddInv(s)'
<1>1. db' = db /\ cache' = cache
  OBVIOUS
<1>2. CreateInv(s)'
  BY <1>1 DEF CreateInv
<1>3. AddInv(s)'
  BY <1>1 DEF AddInv
<1> QED
  BY <1>2, <1>3

\* A step that changes neither, by a thread that has not half changed a table.
LEMMA LocalStep ==
  ASSUME StoreInv, up, NEW t \in Threads, NEW l \in {"idle"} \cup CreateSteps \cup AddSteps,
         NEW c, DOMAIN c = CallFields, StepOf(t, l, c), UNCHANGED <<db, cache>>, calls' \in 0 .. MaxCalls,
         pc[t] \notin HalfCreated \cup HalfAdded, l \notin HalfCreated \cup HalfAdded,
         CallsOK', CreateInv(t)', AddInv(t)'
  PROVE  StoreInv'
<1>1. Shape /\ DbOK(db) /\ CacheInv /\ \A s \in Threads : CreateInv(s) /\ AddInv(s)
  BY DEF StoreInv
<1>2. /\ pc'[t] = l /\ call'[t] = c /\ up' = up
      /\ \A s \in Threads : s # t => pc'[s] = pc[s] /\ call'[s] = call[s]
      /\ pc' \in [Threads -> {"idle"} \cup CreateSteps \cup AddSteps]
      /\ DOMAIN call' = Threads /\ \A s \in Threads : DOMAIN call'[s] = CallFields
  BY <1>1, StepFacts
<1>3. db' = db /\ cache' = cache
  OBVIOUS
<1>4. Shape'
  BY <1>1, <1>2, <1>3 DEF Shape
<1>5. DbOK(db)'
  BY <1>1, <1>3
<1>6. CacheInv'
  <2>1. /\ \A s \in Threads : pc'[s] \in HalfCreated <=> pc[s] \in HalfCreated
        /\ \A s \in Threads : pc'[s] \in HalfAdded <=> pc[s] \in HalfAdded
        /\ \A s \in Threads : pc[s] \in HalfCreated \cup HalfAdded => call'[s] = call[s]
    BY <1>2
  <2>2. \A n \in DOMAIN cache.tidOf : Known(n)'
    BY <1>1, <1>3, <2>1 DEF CacheInv, Known
  <2> QED
    BY <1>1, <1>3, <2>1, <2>2 DEF CacheInv
<1>7. ASSUME NEW s \in Threads PROVE CreateInv(s)' /\ AddInv(s)'
  <2>1. CASE s = t
    BY <2>1
  <2>2. CASE s # t
    BY <2>2, <1>1, <1>2, OtherThread
  <2> QED
    BY <2>1, <2>2
<1> QED
  BY <1>4, <1>5, <1>6, <1>7 DEF StoreInv

\* The table of a thread in AddDocs.
LEMMA AdderTable ==
  ASSUME StoreInv, NEW t \in Threads, pc[t] \in AddSteps
  PROVE  LET c == call[t]
         IN /\ up /\ CacheInv /\ c.name \in Names /\ c.docs \in Seq(Document)
            /\ Has(cache.tidOf, c.name) /\ cache.tidOf[c.name] = c.tid /\ Known(c.name)
            /\ Has(db, TableKey(c.name)) /\ db[TableKey(c.name)] = c.tid
            /\ c.tid \in Nat /\ TableOK(db, c.tid)
            /\ pc[t] \notin HalfAdded =>
                 /\ Has(cache.seg, c.tid) /\ cache.seg[c.tid] = db[NextIdKey(c.tid)][1]
                 /\ Has(cache.offset, c.tid) /\ cache.offset[c.tid] = db[NextIdKey(c.tid)][2]
<1> DEFINE c == call[t]
<1>1. up /\ c.name \in Names /\ c.docs \in Seq(Document)
  BY DEF StoreInv, CallsOK, AddSteps
<1>2. CacheInv
  BY <1>1 DEF StoreInv
<1>3. Has(cache.tidOf, c.name) /\ cache.tidOf[c.name] = c.tid
  BY DEF StoreInv, AddInv
<1>4. Known(c.name)
  BY <1>2, <1>3 DEF CacheInv, Has
<1>5. Has(db, TableKey(c.name)) /\ db[TableKey(c.name)] = c.tid
  BY <1>3, <1>4 DEF Known
<1>6. c.tid \in Nat /\ TableOK(db, c.tid)
  BY <1>1, <1>5 DEF StoreInv, DbOK, NamesOK, NameOK, TablesOK
<1>7. ASSUME pc[t] \notin HalfAdded
      PROVE  /\ Has(cache.seg, c.tid) /\ cache.seg[c.tid] = db[NextIdKey(c.tid)][1]
             /\ Has(cache.offset, c.tid) /\ cache.offset[c.tid] = db[NextIdKey(c.tid)][2]
  <2>1. ~\E s \in Threads : pc[s] \in HalfAdded /\ call[s].name = c.name
    BY <1>7 DEF StoreInv, CallsOK, HalfAdded, AddSteps
  <2> QED
    BY <2>1, <1>3, <1>4 DEF Known
<1> QED
  BY <1>1, <1>2, <1>3, <1>4, <1>5, <1>6, <1>7
-----------------------------------------------------------------------------
(* Steps that change neither the database nor the cache *)

\* CreateTable starts for a name that is not stored, when no other thread creates.
LEMMA CreateTableStep ==
  ASSUME StoreInv, Disciplined, NEW t \in Threads, NEW n \in Names, CreateTable(t, n)
  PROVE  StoreInv'
<1> DEFINE c == [NoCall EXCEPT !.name = n]
<1>1. /\ DOMAIN c = CallFields /\ c.name = n /\ c.offset = 0
  BY DEF NoCall, CallFields
<1> HIDE DEF c
<1>2. /\ up /\ pc[t] = "idle" /\ MayCreate /\ ~Has(db, TableKey(n)) /\ StepOf(t, "GetTid", c)
      /\ UNCHANGED <<db, cache>> /\ calls' = calls
  BY DEF CreateTable, Goto, StepOf, c
<1>3. "GetTid" \in {"idle"} \cup CreateSteps \cup AddSteps /\ "GetTid" \in CreateSteps
      /\ "GetTid" \notin AddSteps /\ "GetTid" \notin HalfCreated \cup HalfAdded
      /\ "idle" \notin HalfCreated \cup HalfAdded
  BY DEF CreateSteps, AddSteps, HalfCreated, HalfAdded
<1>4. Shape /\ CallsOK /\ calls' \in 0 .. MaxCalls
  BY <1>2 DEF StoreInv, Shape
<1>5. pc'[t] = "GetTid" /\ call'[t] = c
  BY <1>1, <1>2, <1>3, <1>4, StepFacts
<1>6. CallsOK'
  <2>1. LocalsOK("GetTid", c)
    BY <1>1, <1>3 DEF LocalsOK
  <2>2. \A s \in Threads : pc[s] \notin CreateSteps
    BY <1>2 DEF MayCreate
  <2> QED
    BY <2>1, <2>2, <1>1, <1>2, <1>3, <1>4, StepCalls
<1>7. CreateInv(t)'
  BY <1>1, <1>2, <1>5 DEF CreateInv, HalfCreated
<1>8. AddInv(t)'
  BY <1>5 DEF AddInv, AddSteps, HalfAdded
<1> QED
  BY <1>1, <1>2, <1>3, <1>4, <1>6, <1>7, <1>8, LocalStep

\* GetTid takes the id of the cache, which is the stored one while no table is half created.
LEMMA GetTidStep ==
  ASSUME StoreInv, NEW t \in Threads, GetTid(t)
  PROVE  StoreInv'
<1> DEFINE c == [call[t] EXCEPT !.tid = cache.tid]
<1>1. pc[t] = "GetTid" /\ call' = [call EXCEPT ![t].tid = cache.tid] /\ Goto(t, "WriteTable")
      /\ UNCHANGED <<db, up, cache, calls>>
  BY DEF GetTid
<1>2. Shape /\ CallsOK /\ calls' \in 0 .. MaxCalls /\ up /\ CacheInv /\ call[t].name \in Names
  <2>1. up /\ call[t].name \in Names
    BY <1>1 DEF StoreInv, CallsOK
  <2> QED
    BY <2>1, <1>1 DEF StoreInv, Shape
<1>3. /\ DOMAIN c = CallFields /\ c.tid = cache.tid /\ c.name = call[t].name /\ c.offset = call[t].offset
  <2>1. DOMAIN call[t] = CallFields
    BY <1>2 DEF Shape
  <2> QED
    BY <2>1 DEF CallFields
<1>4. StepOf(t, "WriteTable", c)
  BY <1>1 DEF StepOf, Goto
<1> HIDE DEF c
<1>5. "WriteTable" \in {"idle"} \cup CreateSteps \cup AddSteps /\ "WriteTable" \in CreateSteps
      /\ "WriteTable" \notin AddSteps /\ "WriteTable" \notin HalfCreated \cup HalfAdded
      /\ "GetTid" \notin HalfCreated \cup HalfAdded /\ "GetTid" \in CreateSteps
  BY DEF CreateSteps, AddSteps, HalfCreated, HalfAdded
<1>6. pc'[t] = "WriteTable" /\ call'[t] = c
  <2>1. Shape /\ DOMAIN c = CallFields
    BY <1>2, <1>3
  <2> QED
    BY <2>1, <1>4, <1>5, StepFacts
<1>7. CallsOK'
  <2>1. LocalsOK("WriteTable", c)
    BY <1>1, <1>2, <1>3, <1>5 DEF LocalsOK, CallsOK
  <2> QED
    BY <2>1, <1>1, <1>2, <1>3, <1>4, <1>5, StepCalls
<1>8. CreateInv(t)'
  <2>1. \A s \in Threads : pc[s] \notin HalfCreated
    BY <1>1, <1>2 DEF CallsOK, CreateSteps, HalfCreated
  <2>2. cache.tid = db[SequenceKey]
    BY <2>1, <1>2 DEF CacheInv
  <2>3. ~Has(db, TableKey(call[t].name))
    BY <1>1 DEF StoreInv, CreateInv
  <2> QED
    BY <2>2, <2>3, <1>1, <1>3, <1>6 DEF CreateInv, HalfCreated
<1>9. AddInv(t)'
  BY <1>6 DEF AddInv, AddSteps, HalfAdded
<1> QED
  BY <1>1, <1>2, <1>3, <1>4, <1>5, <1>7, <1>8, <1>9, LocalStep

\* AddDocs starts for a table the cache knows, when no other thread adds to it.
LEMMA AddDocsStep ==
  ASSUME StoreInv, Disciplined, NEW t \in Threads, NEW n \in Names, NEW batch \in Batches, AddDocs(t, n, batch)
  PROVE  StoreInv'
<1> DEFINE c == [NoCall EXCEPT !.name = n, !.docs = batch, !.tid = cache.tidOf[n]]
<1>1. /\ DOMAIN c = CallFields /\ c.name = n /\ c.offset = 0 /\ c.docs = batch
      /\ c.tid = cache.tidOf[n] /\ c.wb = <<>> /\ c.updated = FALSE
  BY DEF NoCall, CallFields
<1> HIDE DEF c
<1>2. /\ up /\ pc[t] = "idle" /\ MayAdd(n) /\ Has(cache.tidOf, n) /\ StepOf(t, "GetSegId", c)
      /\ UNCHANGED <<db, cache>> /\ calls' = calls + 1 /\ calls < MaxCalls
  BY DEF AddDocs, Goto, StepOf, c
<1>3. "GetSegId" \in {"idle"} \cup CreateSteps \cup AddSteps /\ "GetSegId" \in AddSteps
      /\ "GetSegId" \notin CreateSteps /\ "GetSegId" \notin HalfCreated \cup HalfAdded
      /\ "idle" \notin HalfCreated \cup HalfAdded
  BY DEF CreateSteps, AddSteps, HalfCreated, HalfAdded
<1>4. Shape /\ CallsOK
  BY DEF StoreInv
<1>5. calls' \in 0 .. MaxCalls
  <2>1. calls \in 0 .. MaxCalls /\ MaxCalls \in Nat
    BY <1>4, StoreAssumption DEF Shape
  <2> QED
    BY <2>1, <1>2
<1>6. pc'[t] = "GetSegId" /\ call'[t] = c
  BY <1>1, <1>2, <1>3, <1>4, StepFacts
<1>7. CallsOK'
  <2>1. batch \in Seq(Document)
    BY StoreAssumption DEF Document
  <2>2. LocalsOK("GetSegId", c)
    BY <2>1, <1>1, <1>3 DEF LocalsOK
  <2>3. \A s \in Threads : pc[s] \in AddSteps => call[s].name # c.name
    BY <1>1, <1>2 DEF MayAdd
  <2> QED
    BY <2>2, <2>3, <1>1, <1>2, <1>3, <1>4, StepCalls
<1>8. CreateInv(t)'
  BY <1>6 DEF CreateInv, HalfCreated
<1>9. AddInv(t)'
  BY <1>1, <1>2, <1>6 DEF AddInv, HalfAdded
<1> QED
  BY <1>1, <1>2, <1>3, <1>4, <1>5, <1>7, <1>8, <1>9, LocalStep

\* A thread that gives its call up, before the database or the cache is changed.
LEMMA ReturnStep ==
  ASSUME StoreInv, up, NEW t \in Threads, pc[t] \notin HalfCreated \cup HalfAdded, Return(t),
         UNCHANGED <<db, up, cache, calls>>
  PROVE  StoreInv'
<1>1. DOMAIN NoCall = CallFields /\ StepOf(t, "idle", NoCall)
  BY DEF NoCall, CallFields, Return, Goto, StepOf
<1>2. "idle" \in {"idle"} \cup CreateSteps \cup AddSteps /\ "idle" \notin CreateSteps
      /\ "idle" \notin AddSteps /\ "idle" \notin HalfCreated \cup HalfAdded
  BY DEF CreateSteps, AddSteps, HalfCreated, HalfAdded
<1>3. Shape /\ CallsOK /\ calls' \in 0 .. MaxCalls
  BY DEF StoreInv, Shape
<1>4. pc'[t] = "idle" /\ call'[t] = NoCall
  BY <1>1, <1>2, <1>3, StepFacts
<1>5. LocalsOK("idle", NoCall)
  BY <1>2 DEF LocalsOK
<1>6. CallsOK'
  BY <1>1, <1>2, <1>3, <1>5, StepCalls
<1>7. CreateInv(t)' /\ AddInv(t)'
  BY <1>4 DEF CreateInv, AddInv, HalfCreated, HalfAdded, AddSteps
<1> QED
  BY <1>1, <1>2, <1>3, <1>6, <1>7, LocalStep

\* A step inside AddDocs before the write: the call goes on with its name and table.
LEMMA AddingStep ==
  ASSUME StoreInv, NEW t \in Threads, pc[t] \in AddSteps \ HalfAdded, NEW l \in AddSteps \ HalfAdded,
         NEW c, DOMAIN c = CallFields, StepOf(t, l, c), UNCHANGED <<db, cache, calls>>,
         c.name = call[t].name, c.tid = call[t].tid, c.docs \in Seq(Document),
         l \in {"GetSegId", "GetTidOffset"} => c.offset = 0 /\ c.wb = <<>> /\ ~c.updated,
         l = "GetTidOffset" => c.sid = db[NextIdKey(c.tid)][1],
         l \in {"Build", "Write"} => BatchOK(db, c),
         l = "Build" => c.docs # <<>>
  PROVE  StoreInv'
<1>1. l \in {"idle"} \cup CreateSteps \cup AddSteps /\ l \in AddSteps /\ l \notin CreateSteps /\ l # "idle"
      /\ l \notin HalfCreated \cup HalfAdded /\ pc[t] \notin HalfCreated \cup HalfAdded /\ pc[t] \in AddSteps
  BY DEF CreateSteps, AddSteps, HalfCreated, HalfAdded
<1>2. up /\ call[t].name \in Names /\ Has(cache.tidOf, call[t].name) /\ cache.tidOf[call[t].name] = call[t].tid
  BY <1>1, AdderTable
<1>3. Shape /\ CallsOK /\ calls' \in 0 .. MaxCalls
  BY DEF StoreInv, Shape
<1>4. pc'[t] = l /\ call'[t] = c
  <2>1. StepOf(t, l, c) /\ DOMAIN c = CallFields
    OBVIOUS
  <2> QED
    BY ONLY <2>1, <1>1, <1>3, StepFacts, t \in Threads
<1>5. LocalsOK(l, c)
  BY <1>1, <1>2 DEF LocalsOK
<1>6. CallsOK'
  <2>1. StepOf(t, l, c) /\ DOMAIN c = CallFields /\ c.name = call[t].name
    OBVIOUS
  <2> QED
    BY ONLY <2>1, <1>1, <1>2, <1>3, <1>5, StepCalls, t \in Threads
<1>7. CreateInv(t)'
  BY <1>1, <1>4 DEF CreateInv, HalfCreated, CreateSteps
<1>8. AddInv(t)'
  <2>1. db' = db /\ cache' = cache
    OBVIOUS
  <2> QED
    BY <2>1, <1>1, <1>2, <1>4 DEF AddInv, HalfAdded
<1> QED
  <2>1. StepOf(t, l, c) /\ DOMAIN c = CallFields /\ UNCHANGED <<db, cache>> /\ StoreInv
    OBVIOUS
  <2> QED
    BY ONLY <2>1, <1>1, <1>2, <1>3, <1>6, <1>7, <1>8, LocalStep, t \in Threads

\* GetSegId.
LEMMA GetSegIdStep ==
  ASSUME StoreInv, NEW t \in Threads, GetSegId(t)
  PROVE  StoreInv'
<1>1. pc[t] = "GetSegId" /\ UNCHANGED <<db, up, cache, calls>>
  BY DEF GetSegId
<1>2. "GetSegId" \in AddSteps \ HalfAdded /\ "GetTidOffset" \in AddSteps \ HalfAdded
  BY DEF AddSteps, HalfAdded
<1>3. /\ up /\ Has(cache.seg, call[t].tid) /\ cache.seg[call[t].tid] = db[NextIdKey(call[t].tid)][1]
      /\ call[t].docs \in Seq(Document)
  BY <1>1, <1>2, AdderTable
<1> DEFINE c == [call[t] EXCEPT !.sid = cache.seg[call[t].tid]]
<1>4. /\ DOMAIN c = CallFields /\ c.name = call[t].name /\ c.docs = call[t].docs /\ c.tid = call[t].tid
      /\ c.sid = cache.seg[call[t].tid] /\ c.offset = call[t].offset
      /\ c.updated = call[t].updated /\ c.wb = call[t].wb
  <2>1. DOMAIN call[t] = CallFields
    BY DEF StoreInv, Shape
  <2> QED
    BY <2>1 DEF CallFields
<1>5. StepOf(t, "GetTidOffset", c)
  BY <1>1, <1>3 DEF GetSegId, StepOf, Goto
<1> HIDE DEF c
<1>6. call[t].offset = 0 /\ call[t].wb = <<>> /\ ~call[t].updated
  BY <1>1 DEF StoreInv, CallsOK, AddInv
<1>7. c.offset = 0 /\ c.wb = <<>> /\ ~c.updated /\ c.sid = db[NextIdKey(c.tid)][1] /\ c.docs \in Seq(Document)
  BY <1>3, <1>4, <1>6
<1>8. "GetTidOffset" \notin {"Build", "Write"} /\ "GetTidOffset" # "Build"
  OBVIOUS
<1>9. pc[t] \in AddSteps \ HalfAdded
  BY <1>1, <1>2
<1> QED
  BY ONLY StoreInv, t \in Threads, <1>1, <1>2, <1>4, <1>5, <1>7, <1>8, <1>9, AddingStep

\* An empty batch is sound: the counters are the stored ones.
LEMMA EmptyBatch ==
  ASSUME NEW d, NEW c, NextOK(d, c.tid), c.wb = <<>>, ~c.updated,
         c.sid = d[NextIdKey(c.tid)][1], c.offset = d[NextIdKey(c.tid)][2]
  PROVE  BatchOK(d, c)
<1>1. \A k : ~Has(c.wb, k)
  BY DEF Has
<1>2. PICK next : next = d[NextIdKey(c.tid)]
  OBVIOUS
<1>3. next \in Addr /\ next[2] < DBTableSegmentSize /\ d[SegmentKey(c.tid)] = next[1]
  BY <1>2 DEF NextOK
<1>4. next[1] \in Nat /\ next[2] \in Nat /\ next = <<next[1], next[2]>>
  BY <1>3 DEF Addr
<1>5. ~Below(next, next)
  BY <1>4 DEF Below
<1>6. <<c.sid, c.offset>> = next
  BY <1>2, <1>4
<1>7. CountersOK(d, c)
  BY <1>1, <1>2, <1>3, <1>4, <1>5, <1>6 DEF CountersOK
<1> QED
  BY <1>1, <1>7 DEF BatchOK, TouchesOK, Has

\* GetTidOffset.
LEMMA GetTidOffsetStep ==
  ASSUME StoreInv, NEW t \in Threads, GetTidOffset(t)
  PROVE  StoreInv'
<1>1. pc[t] = "GetTidOffset" /\ UNCHANGED <<db, up, cache, calls>> /\ Goto(t, Loop(call[t].docs))
  BY DEF GetTidOffset
<1>2. pc[t] \in AddSteps /\ pc[t] \in AddSteps \ HalfAdded /\ pc[t] \notin HalfAdded
  BY <1>1 DEF AddSteps, HalfAdded
<1>3. /\ Has(cache.offset, call[t].tid) /\ cache.offset[call[t].tid] = db[NextIdKey(call[t].tid)][2]
      /\ call[t].docs \in Seq(Document) /\ TableOK(db, call[t].tid)
  BY <1>2, AdderTable
<1> DEFINE c == [call[t] EXCEPT !.offset = cache.offset[call[t].tid]]
           l == Loop(call[t].docs)
<1>4. /\ DOMAIN c = CallFields /\ c.name = call[t].name /\ c.docs = call[t].docs /\ c.tid = call[t].tid
      /\ c.sid = call[t].sid /\ c.offset = cache.offset[call[t].tid]
      /\ c.updated = call[t].updated /\ c.wb = call[t].wb
  <2>1. DOMAIN call[t] = CallFields
    BY DEF StoreInv, Shape
  <2> QED
    BY <2>1 DEF CallFields
<1>5. StepOf(t, l, c)
  BY <1>1, <1>3 DEF GetTidOffset, StepOf, Goto
<1>6. l \in AddSteps \ HalfAdded /\ l \notin {"GetSegId", "GetTidOffset"} /\ l # "GetTidOffset"
      /\ (l = "Build" => c.docs # <<>>)
  BY <1>4 DEF Loop, AddSteps, HalfAdded
<1> HIDE DEF c, l
<1>7. call[t].wb = <<>> /\ ~call[t].updated /\ call[t].sid = db[NextIdKey(call[t].tid)][1]
  BY <1>1 DEF StoreInv, AddInv
<1>8. c.wb = <<>> /\ ~c.updated /\ c.sid = db[NextIdKey(c.tid)][1] /\ c.offset = db[NextIdKey(c.tid)][2]
      /\ c.docs \in Seq(Document) /\ NextOK(db, c.tid)
  BY <1>3, <1>4, <1>7 DEF TableOK
<1>9. BatchOK(db, c)
  BY <1>8, EmptyBatch
<1> QED
  BY ONLY StoreInv, t \in Threads, <1>1, <1>2, <1>4, <1>5, <1>6, <1>8, <1>9, AddingStep

\* One document of the loop.
LEMMA BuildStep ==
  ASSUME StoreInv, NEW t \in Threads, Build(t)
  PROVE  StoreInv'
<1> DEFINE b == call[t]
           doc == Head(b.docs)
           rest == Tail(b.docs)
           acc == AddDoc(b.tid, b, doc)
           c == [b EXCEPT !.docs = rest, !.sid = acc.sid, !.offset = acc.offset,
                          !.updated = acc.updated, !.wb = acc.wb]
           l == Loop(rest)
<1>1. /\ pc[t] = "Build" /\ UNCHANGED <<db, up, cache, calls>> /\ Goto(t, l)
      /\ call' = [call EXCEPT ![t] = [@ EXCEPT !.docs = rest, !.sid = acc.sid, !.offset = acc.offset,
                                               !.updated = acc.updated, !.wb = acc.wb]]
  BY DEF Build
<1>2. pc[t] \in AddSteps /\ pc[t] \in AddSteps \ HalfAdded /\ pc[t] \notin HalfAdded
  BY <1>1 DEF AddSteps, HalfAdded
<1>3. b.docs \in Seq(Document) /\ TableOK(db, b.tid) /\ b.tid \in Nat
  BY <1>2, AdderTable
<1>4. BatchOK(db, b) /\ b.docs # <<>>
  BY <1>1 DEF StoreInv, AddInv
<1>5. doc \in Document /\ rest \in Seq(Document)
  BY <1>3, <1>4
<1>6. StepOf(t, l, c)
  BY <1>1 DEF StepOf, Goto
<1>7. l \in AddSteps \ HalfAdded /\ l \notin {"GetSegId", "GetTidOffset"} /\ l # "GetTidOffset"
      /\ (l = "Build" => rest # <<>>)
  BY DEF Loop, AddSteps, HalfAdded
<1>8. /\ acc.sid = NewPlace(b.tid, b, doc).sid /\ acc.offset = NewPlace(b.tid, b, doc).offset
      /\ acc.updated = (b.updated \/ NewPlace(b.tid, b, doc).rolled) /\ acc.wb = NewBatch(b.tid, b, doc)
  BY DEF AddDoc, NewPlace, NewBatch
<1> HIDE DEF doc, rest, acc, l
<1>9. /\ DOMAIN c = CallFields /\ c.name = b.name /\ c.docs = rest /\ c.tid = b.tid
      /\ c.sid = acc.sid /\ c.offset = acc.offset /\ c.updated = acc.updated /\ c.wb = acc.wb
  <2>1. DOMAIN call[t] = CallFields
    BY DEF StoreInv, Shape
  <2> QED
    BY <2>1 DEF CallFields
<1> HIDE DEF c
<1>10. BatchOK(db, c)
  <2>1. /\ c.tid = b.tid /\ c.wb = NewBatch(b.tid, b, doc)
        /\ c.sid = NewPlace(b.tid, b, doc).sid /\ c.offset = NewPlace(b.tid, b, doc).offset
        /\ c.updated = (b.updated \/ NewPlace(b.tid, b, doc).rolled)
    BY <1>8, <1>9
  <2> HIDE DEF b
  <2> QED
    BY ONLY <2>1, <1>3, <1>4, <1>5, NewBatchOK
<1> QED
  BY ONLY StoreInv, t \in Threads, <1>1, <1>2, <1>5, <1>6, <1>7, <1>9, <1>10, AddingStep

\* A write that fails ends the call.
LEMMA WriteFailsStep ==
  ASSUME StoreInv, NEW t \in Threads, WriteFails(t)
  PROVE  StoreInv'
<1>1. pc[t] = "Write" /\ Return(t) /\ UNCHANGED <<db, up, cache, calls>>
  BY DEF WriteFails
<1>2. up
  BY <1>1 DEF StoreInv, CallsOK
<1> QED
  BY <1>1, <1>2, ReturnStep DEF HalfCreated, HalfAdded-----------------------------------------------------------------------------
(* Steps that change the database or the cache *)

\* Where t is after a step, and that the other threads are where they were.
Moved(t, l, c) ==
  /\ pc'[t] = l /\ call'[t] = c /\ up' = up
  /\ \A s \in Threads : s # t => pc'[s] = pc[s] /\ call'[s] = call[s]
  /\ pc' \in [Threads -> {"idle"} \cup CreateSteps \cup AddSteps]
  /\ DOMAIN call' = Threads /\ \A s \in Threads : DOMAIN call'[s] = CallFields

\* A thread that goes on with its call, or returns.
LEMMA MovedCalls ==
  ASSUME CallsOK, up, NEW t \in Threads, NEW l, NEW c, Moved(t, l, c), LocalsOK(l, c),
         l \in CreateSteps => pc[t] \in CreateSteps,
         l \in AddSteps => pc[t] \in AddSteps /\ call[t].name = c.name
  PROVE  CallsOK'
<1>1. /\ pc'[t] = l /\ call'[t] = c /\ up' = up
      /\ \A s \in Threads : s # t => pc'[s] = pc[s] /\ call'[s] = call[s]
  BY DEF Moved
<1>2. ASSUME NEW s \in Threads
      PROVE  /\ pc'[s] = "idle" => call'[s] = NoCall
             /\ pc'[s] # "idle" => up' /\ call'[s].name \in Names
             /\ pc'[s] \in AddSteps => call'[s].docs \in Seq(Document)
             /\ pc'[s] \in CreateSteps \cup {"GetSegId", "GetTidOffset"} => call'[s].offset = 0
  <2>1. CASE s = t
    BY <2>1, <1>1 DEF LocalsOK
  <2>2. CASE s # t
    BY <2>2, <1>1 DEF CallsOK
  <2> QED
    BY <2>1, <2>2
<1>3. ASSUME NEW s \in Threads, NEW r \in Threads, pc'[s] \in CreateSteps, pc'[r] \in CreateSteps PROVE s = r
  BY <1>1, <1>3 DEF CallsOK
<1>4. ASSUME NEW s \in Threads, NEW r \in Threads, pc'[s] \in AddSteps, pc'[r] \in AddSteps,
             call'[s].name = call'[r].name
      PROVE  s = r
  BY <1>1, <1>4 DEF CallsOK
<1> QED
  BY <1>2, <1>3, <1>4 DEF CallsOK

\* A thread that goes on with its locals as they are.
LEMMA KeepsCall ==
  ASSUME StoreInv, NEW t \in Threads, pc[t] # "idle", NEW l, Goto(t, l), UNCHANGED <<up, call>>,
         \/ pc[t] \in CreateSteps /\ l \in CreateSteps
         \/ pc[t] \in AddSteps /\ l \in AddSteps \ {"GetSegId", "GetTidOffset"}
  PROVE  Moved(t, l, call[t]) /\ CallsOK'
<1>1. /\ pc \in [Threads -> {"idle"} \cup CreateSteps \cup AddSteps] /\ DOMAIN call = Threads
      /\ \A s \in Threads : DOMAIN call[s] = CallFields
  BY DEF StoreInv, Shape
<1>2. /\ pc' = [pc EXCEPT ![t] = l] /\ call' = call /\ up' = up
      /\ l \in {"idle"} \cup CreateSteps \cup AddSteps
  BY DEF Goto
<1>3. Moved(t, l, call[t])
  BY <1>1, <1>2 DEF Moved
<1>4. CallsOK /\ up
  BY DEF StoreInv, CallsOK
<1>5. /\ l # "idle" /\ (l \in CreateSteps <=> pc[t] \in CreateSteps) /\ (l \in AddSteps <=> pc[t] \in AddSteps)
      /\ (l \in CreateSteps \cup {"GetSegId", "GetTidOffset"} => pc[t] \in CreateSteps)
  BY DEF CreateSteps, AddSteps
<1>6. LocalsOK(l, call[t])
  BY <1>4, <1>5 DEF LocalsOK, CallsOK
<1> QED
  BY <1>3, <1>4, <1>5, <1>6, MovedCalls

\* A thread that returns.
LEMMA ReturnsCall ==
  ASSUME StoreInv, NEW t \in Threads, pc[t] # "idle", Return(t), UNCHANGED up
  PROVE  Moved(t, "idle", NoCall) /\ CallsOK'
<1>1. DOMAIN NoCall = CallFields /\ StepOf(t, "idle", NoCall)
  BY DEF NoCall, CallFields, Return, Goto, StepOf
<1>2. "idle" \in {"idle"} \cup CreateSteps \cup AddSteps /\ "idle" \notin CreateSteps /\ "idle" \notin AddSteps
  BY DEF CreateSteps, AddSteps
<1>3. Shape /\ CallsOK /\ up
  BY DEF StoreInv, CallsOK
<1>4. Moved(t, "idle", NoCall)
  BY <1>1, <1>2, <1>3, StepFacts DEF Moved
<1>5. LocalsOK("idle", NoCall)
  BY <1>2 DEF LocalsOK
<1> QED
  BY <1>2, <1>3, <1>4, <1>5, MovedCalls

\* The parts of the invariant after a step that keeps the number of calls.
LEMMA WholeStep ==
  ASSUME StoreInv, NEW t \in Threads, NEW l, NEW c, Moved(t, l, c), calls' = calls,
         DOMAIN cache' = CacheFields, DOMAIN cache'.tidOf \subseteq Names,
         CallsOK', DbOK(db'), CacheInv', \A s \in Threads : CreateInv(s)' /\ AddInv(s)'
  PROVE  StoreInv'
<1>1. Shape'
  BY DEF StoreInv, Shape, Moved
<1> QED
  BY <1>1 DEF StoreInv

\* A map keeps what it holds under the keys that are not put.
LEMMA WithSame ==
  ASSUME NEW f, NEW k, NEW v, NEW x, x # k
  PROVE  Same(f, With(f, k, v), x)
BY WithFacts DEF Same

\* What the cache knows of a table stays true when neither it nor the table changes.
LEMMA KnownFrame ==
  ASSUME NEW n, Known(n), cache'.tidOf[n] = cache.tidOf[n],
         Same(cache.nameOf, cache'.nameOf, cache.tidOf[n]), Same(cache.schema, cache'.schema, n),
         Same(cache.seg, cache'.seg, cache.tidOf[n]), Same(cache.offset, cache'.offset, cache.tidOf[n]),
         Same(db, db', TableKey(n)), db'[NextIdKey(cache.tidOf[n])] = db[NextIdKey(cache.tidOf[n])],
         \A s \in Threads : pc[s] \in HalfAdded /\ call[s].name = n =>
                              pc'[s] \in HalfAdded /\ call'[s].name = n
  PROVE  Known(n)'
BY DEF Known, Same

\* What another thread knows stays true when the cache changes elsewhere.
LEMMA OtherCache ==
  ASSUME NEW s \in Threads, CreateInv(s), AddInv(s), pc'[s] = pc[s], call'[s] = call[s], db' = db,
         pc[s] # "idle" /\ Has(cache.tidOf, call[s].name) => Same(cache.tidOf, cache'.tidOf, call[s].name),
         pc[s] \in HalfCreated => /\ cache'.tid = cache.tid /\ Same(cache.tidOf, cache'.tidOf, call[s].name)
                                  /\ Same(cache.offset, cache'.offset, call[s].tid),
         pc[s] \in HalfCreated \cup HalfAdded => Same(cache.seg, cache'.seg, call[s].tid),
         pc[s] \in HalfAdded => Has(cache.seg, call[s].tid)
  PROVE  CreateInv(s)' /\ AddInv(s)'
<1>1. CreateInv(s)'
  BY DEF CreateInv, Same, HalfCreated
<1>2. AddInv(s)'
  BY DEF AddInv, Same, HalfAdded, AddSteps
<1> QED
  BY <1>1, <1>2

\* The table of a thread that has written it and not yet told the cache.
LEMMA CreatorTable ==
  ASSUME StoreInv, NEW t \in Threads, pc[t] \in HalfCreated
  PROVE  LET c == call[t]
         IN /\ up /\ CacheInv /\ c.name \in Names
            /\ Has(db, TableKey(c.name)) /\ db[TableKey(c.name)] = c.tid
            /\ cache.tid = c.tid /\ db[SequenceKey] = c.tid + 1 /\ db[NextIdKey(c.tid)] = <<0, 0>>
            /\ ~Has(cache.tidOf, c.name)
            /\ \A n \in DOMAIN cache.tidOf : n \in Names /\ n # c.name /\ cache.tidOf[n] # c.tid
            /\ \A s \in Threads : s # t => pc[s] \notin CreateSteps /\ pc[s] \notin HalfCreated
<1> DEFINE c == call[t]
<1>1. up /\ c.name \in Names /\ pc[t] \in CreateSteps
  BY DEF StoreInv, CallsOK, HalfCreated, CreateSteps
<1>2. CacheInv /\ DOMAIN cache.tidOf \subseteq Names
  BY <1>1 DEF StoreInv, Shape
<1>3. /\ Has(db, TableKey(c.name)) /\ db[TableKey(c.name)] = c.tid
      /\ cache.tid = c.tid /\ db[SequenceKey] = c.tid + 1 /\ db[NextIdKey(c.tid)] = <<0, 0>>
      /\ ~Has(cache.tidOf, c.name)
  BY DEF StoreInv, CreateInv
<1>4. ASSUME NEW n \in DOMAIN cache.tidOf PROVE n \in Names /\ n # c.name /\ cache.tidOf[n] # c.tid
  <2>1. n \in Names /\ n # c.name /\ Has(db, TableKey(n)) /\ db[TableKey(n)] = cache.tidOf[n]
    BY <1>2, <1>3 DEF CacheInv, Known, Has
  <2>2. NamesOK(db)
    BY DEF StoreInv, DbOK
  <2> QED
    BY <2>1, <2>2, <1>1, <1>3 DEF NamesOK, NameOK
<1>5. ASSUME NEW s \in Threads, s # t PROVE pc[s] \notin CreateSteps /\ pc[s] \notin HalfCreated
  BY <1>1, <1>5 DEF StoreInv, CallsOK, HalfCreated, CreateSteps
<1> QED
  BY <1>1, <1>2, <1>3, <1>4, <1>5

\* The two writes of the cache for a half created table touch nothing the cache knows.
LEMMA HalfCreatedStep ==
  ASSUME StoreInv, NEW t \in Threads, pc[t] \in HalfCreated, NEW l \in HalfCreated, Goto(t, l),
         UNCHANGED <<db, up, call, calls>>, DOMAIN cache' = CacheFields,
         cache'.tidOf = cache.tidOf, cache'.nameOf = cache.nameOf, cache'.schema = cache.schema,
         cache'.tid = cache.tid,
         \A i : i # call[t].tid => Same(cache.seg, cache'.seg, i) /\ Same(cache.offset, cache'.offset, i),
         CreateInv(t)'
  PROVE  StoreInv'
<1> DEFINE c == call[t]
<1>1. /\ up /\ CacheInv /\ c.name \in Names
      /\ Has(db, TableKey(c.name)) /\ db[TableKey(c.name)] = c.tid
      /\ ~Has(cache.tidOf, c.name)
      /\ \A n \in DOMAIN cache.tidOf : n \in Names /\ n # c.name /\ cache.tidOf[n] # c.tid
      /\ \A s \in Threads : s # t => pc[s] \notin CreateSteps /\ pc[s] \notin HalfCreated
  BY CreatorTable
<1>2. Moved(t, l, c) /\ CallsOK'
  <2>1. /\ pc[t] # "idle" /\ pc[t] \in CreateSteps /\ l \in CreateSteps
        /\ UNCHANGED <<up, call>> /\ Goto(t, l) /\ StoreInv
    BY DEF CreateSteps, HalfCreated
  <2> QED
    BY ONLY <2>1, KeepsCall, t \in Threads
<1>3. /\ pc'[t] = l /\ \A s \in Threads : s # t => pc'[s] = pc[s]
      /\ call' = call /\ db' = db /\ up' = up /\ calls' = calls
  BY <1>2 DEF Moved
<1>4. \A s \in Threads : pc[s] \in HalfAdded <=> pc'[s] \in HalfAdded
  BY <1>3 DEF HalfAdded, HalfCreated
<1>5. ASSUME NEW n \in DOMAIN cache'.tidOf PROVE Known(n)'
  <2>1. Known(n) /\ cache.tidOf[n] # c.tid /\ cache'.tidOf[n] = cache.tidOf[n]
    BY <1>1 DEF CacheInv
  <2>2. /\ Same(cache.nameOf, cache'.nameOf, cache.tidOf[n]) /\ Same(cache.schema, cache'.schema, n)
        /\ Same(db, db', TableKey(n)) /\ db'[NextIdKey(cache.tidOf[n])] = db[NextIdKey(cache.tidOf[n])]
    BY <1>3 DEF Same
  <2>3. Same(cache.seg, cache'.seg, cache.tidOf[n]) /\ Same(cache.offset, cache'.offset, cache.tidOf[n])
    BY <2>1
  <2>4. \A s \in Threads : pc[s] \in HalfAdded /\ call[s].name = n => pc'[s] \in HalfAdded /\ call'[s].name = n
    BY <1>3, <1>4
  <2> QED
    BY ONLY <2>1, <2>2, <2>3, <2>4, KnownFrame
<1>6. CacheInv'
  <2>1. Has(db', SequenceKey) /\ ~(\A s \in Threads : pc'[s] \notin HalfCreated)
    BY <1>1, <1>3 DEF CacheInv
  <2>2. ASSUME NEW n \in Names, Has(db', TableKey(n))
        PROVE  Has(cache'.tidOf, n) \/ \E s \in Threads : pc'[s] \in HalfCreated /\ call'[s].name = n
    <3>1. Has(cache.tidOf, n) \/ \E s \in Threads : pc[s] \in HalfCreated /\ call[s].name = n
      BY <1>1, <1>3, <2>2 DEF CacheInv
    <3> QED
      BY <3>1, <1>1, <1>3
  <2> QED
    BY <2>1, <2>2, <1>5 DEF CacheInv
<1>7. AddInv(t)'
  BY <1>3 DEF AddInv, AddSteps, HalfAdded, HalfCreated
<1>8. ASSUME NEW s \in Threads, s # t PROVE CreateInv(s)' /\ AddInv(s)'
  <2>1. /\ CreateInv(s) /\ AddInv(s) /\ pc'[s] = pc[s] /\ call'[s] = call[s] /\ db' = db
        /\ pc[s] \notin HalfCreated /\ Same(cache.tidOf, cache'.tidOf, call[s].name)
    BY <1>1, <1>3, <1>8 DEF StoreInv, Same
  <2>2. ASSUME pc[s] \in HalfAdded PROVE Has(cache.seg, call[s].tid) /\ Same(cache.seg, cache'.seg, call[s].tid)
    <3>1. pc[s] \in AddSteps
      BY <2>2 DEF HalfAdded, AddSteps
    <3>2. /\ Has(cache.tidOf, call[s].name) /\ cache.tidOf[call[s].name] = call[s].tid /\ Known(call[s].name)
      BY <3>1, AdderTable
    <3>3. call[s].tid # c.tid /\ Has(cache.seg, call[s].tid)
      BY <3>2, <1>1 DEF Has, Known
    <3> QED
      BY <3>3
  <2> QED
    BY ONLY <2>1, <2>2, OtherCache, s \in Threads
<1>9. \A s \in Threads : CreateInv(s)' /\ AddInv(s)'
  BY <1>7, <1>8
<1>10. /\ StoreInv /\ calls' = calls /\ DOMAIN cache' = CacheFields /\ DOMAIN cache'.tidOf \subseteq Names
       /\ DbOK(db')
  BY <1>3 DEF StoreInv, Shape
<1> QED
  BY ONLY <1>2, <1>6, <1>9, <1>10, WholeStep, t \in Threads

\* TableSeg and TableOffset: the cache gets the first address of the table.
LEMMA TableSegStep ==
  ASSUME StoreInv, NEW t \in Threads, TableSeg(t)
  PROVE  StoreInv'
<1> DEFINE c == call[t]
<1>1. /\ pc[t] = "TableSeg" /\ Goto(t, "TableOffset") /\ UNCHANGED <<db, up, call, calls>>
      /\ cache' = [cache EXCEPT !.seg = With(@, c.tid, 0)]
  BY DEF TableSeg
<1>2. /\ DOMAIN cache' = CacheFields /\ cache'.seg = With(cache.seg, c.tid, 0)
      /\ cache'.offset = cache.offset /\ cache'.tidOf = cache.tidOf /\ cache'.nameOf = cache.nameOf
      /\ cache'.schema = cache.schema /\ cache'.tid = cache.tid
  <2>1. DOMAIN cache = CacheFields
    BY DEF StoreInv, Shape
  <2> QED
    BY <2>1, <1>1 DEF CacheFields
<1>3. pc[t] \in HalfCreated /\ "TableOffset" \in HalfCreated
  BY <1>1 DEF HalfCreated
<1>4. \A i : i # c.tid => Same(cache.seg, cache'.seg, i) /\ Same(cache.offset, cache'.offset, i)
  BY <1>2, WithSame DEF Same
<1>5. Has(cache'.seg, c.tid) /\ cache'.seg[c.tid] = 0
  BY <1>2, WithFacts
<1>6. pc'[t] = "TableOffset" /\ call' = call /\ db' = db
  BY <1>1 DEF Goto, StoreInv, Shape
<1>7. CreateInv(t)'
  <2>1. CreateInv(t)
    BY DEF StoreInv
  <2> QED
    BY <2>1, <1>2, <1>3, <1>5, <1>6 DEF CreateInv
<1> QED
  BY ONLY StoreInv, t \in Threads, <1>1, <1>2, <1>3, <1>4, <1>7, HalfCreatedStep

\* TableOffset.
LEMMA TableOffsetStep ==
  ASSUME StoreInv, NEW t \in Threads, TableOffset(t)
  PROVE  StoreInv'
<1> DEFINE c == call[t]
<1>1. /\ pc[t] = "TableOffset" /\ Goto(t, "SetTid") /\ UNCHANGED <<db, up, call, calls>>
      /\ cache' = [cache EXCEPT !.offset = With(@, c.tid, 0)]
  BY DEF TableOffset
<1>2. /\ DOMAIN cache' = CacheFields /\ cache'.offset = With(cache.offset, c.tid, 0)
      /\ cache'.seg = cache.seg /\ cache'.tidOf = cache.tidOf /\ cache'.nameOf = cache.nameOf
      /\ cache'.schema = cache.schema /\ cache'.tid = cache.tid
  <2>1. DOMAIN cache = CacheFields
    BY DEF StoreInv, Shape
  <2> QED
    BY <2>1, <1>1 DEF CacheFields
<1>3. pc[t] \in HalfCreated /\ "SetTid" \in HalfCreated
  BY <1>1 DEF HalfCreated
<1>4. \A i : i # c.tid => Same(cache.seg, cache'.seg, i) /\ Same(cache.offset, cache'.offset, i)
  BY <1>2, WithSame DEF Same
<1>5. Has(cache'.offset, c.tid) /\ cache'.offset[c.tid] = 0
  BY <1>2, WithFacts
<1>6. pc'[t] = "SetTid" /\ call' = call /\ db' = db
  BY <1>1 DEF Goto, StoreInv, Shape
<1>7. CreateInv(t)'
  <2>1. CreateInv(t)
    BY DEF StoreInv
  <2> QED
    BY <2>1, <1>1, <1>2, <1>3, <1>5, <1>6 DEF CreateInv
<1> QED
  BY ONLY StoreInv, t \in Threads, <1>1, <1>2, <1>3, <1>4, <1>7, HalfCreatedStep

\* SetTid tells the cache of the table: it now knows what is stored.
LEMMA SetTidStep ==
  ASSUME StoreInv, NEW t \in Threads, SetTid(t)
  PROVE  StoreInv'
<1> DEFINE c == call[t]
<1>1. /\ pc[t] = "SetTid" /\ Goto(t, "Mapping") /\ UNCHANGED <<db, up, call, calls>>
      /\ cache' = [cache EXCEPT !.tidOf = With(@, c.name, cache.tid), !.nameOf = With(@, cache.tid, c.name),
                                !.schema = With(@, c.name, c.name), !.tid = c.tid + 1]
  BY DEF SetTid
<1>2. pc[t] \in HalfCreated
  BY <1>1 DEF HalfCreated
<1>3. /\ up /\ CacheInv /\ c.name \in Names
      /\ Has(db, TableKey(c.name)) /\ db[TableKey(c.name)] = c.tid
      /\ cache.tid = c.tid /\ db[SequenceKey] = c.tid + 1 /\ db[NextIdKey(c.tid)] = <<0, 0>>
      /\ ~Has(cache.tidOf, c.name)
      /\ \A n \in DOMAIN cache.tidOf : n \in Names /\ n # c.name /\ cache.tidOf[n] # c.tid
      /\ \A s \in Threads : s # t => pc[s] \notin CreateSteps /\ pc[s] \notin HalfCreated
  BY <1>2, CreatorTable
<1>4. /\ DOMAIN cache' = CacheFields /\ cache'.tidOf = With(cache.tidOf, c.name, c.tid)
      /\ cache'.nameOf = With(cache.nameOf, c.tid, c.name) /\ cache'.schema = With(cache.schema, c.name, c.name)
      /\ cache'.tid = c.tid + 1 /\ cache'.seg = cache.seg /\ cache'.offset = cache.offset
  <2>1. DOMAIN cache = CacheFields
    BY DEF StoreInv, Shape
  <2> QED
    BY <2>1, <1>1, <1>3 DEF CacheFields
<1>5. Moved(t, "Mapping", c) /\ CallsOK'
  <2>1. /\ pc[t] # "idle" /\ pc[t] \in CreateSteps /\ "Mapping" \in CreateSteps
        /\ UNCHANGED <<up, call>> /\ Goto(t, "Mapping") /\ StoreInv
    BY <1>1 DEF CreateSteps
  <2> QED
    BY ONLY <2>1, KeepsCall, t \in Threads
<1>6. /\ pc'[t] = "Mapping" /\ \A s \in Threads : s # t => pc'[s] = pc[s]
      /\ call' = call /\ db' = db /\ up' = up /\ calls' = calls
  BY <1>1, <1>5 DEF Moved
<1>7. \A n : n \in DOMAIN cache'.tidOf <=> n = c.name \/ n \in DOMAIN cache.tidOf
  BY <1>4, WithFacts DEF Has
<1>8. Known(c.name)'
  <2>1. cache'.tidOf[c.name] = c.tid /\ Has(cache'.nameOf, c.tid) /\ cache'.nameOf[c.tid] = c.name
        /\ Has(cache'.schema, c.name) /\ cache'.schema[c.name] = c.name
    BY <1>4, WithFacts
  <2>2. Has(cache.seg, c.tid) /\ cache.seg[c.tid] = 0 /\ Has(cache.offset, c.tid) /\ cache.offset[c.tid] = 0
    BY <1>1 DEF StoreInv, CreateInv
  <2>3. cache'.seg[c.tid] = db'[NextIdKey(c.tid)][1] /\ cache'.offset[c.tid] = db'[NextIdKey(c.tid)][2]
    BY <2>2, <1>3, <1>4, <1>6
  <2> QED
    BY <2>1, <2>2, <2>3, <1>3, <1>4, <1>6 DEF Known
<1>9. ASSUME NEW n \in DOMAIN cache.tidOf PROVE Known(n)'
  <2>1. Known(n) /\ cache.tidOf[n] # c.tid /\ n # c.name
    BY <1>3 DEF CacheInv
  <2>2. /\ cache'.tidOf[n] = cache.tidOf[n]
        /\ Same(cache.nameOf, cache'.nameOf, cache.tidOf[n]) /\ Same(cache.schema, cache'.schema, n)
    BY <2>1, <1>4, WithFacts, WithSame DEF Has
  <2>3. Same(cache.seg, cache'.seg, cache.tidOf[n]) /\ Same(cache.offset, cache'.offset, cache.tidOf[n])
        /\ Same(db, db', TableKey(n)) /\ db'[NextIdKey(cache.tidOf[n])] = db[NextIdKey(cache.tidOf[n])]
    BY <1>4, <1>6 DEF Same
  <2>4. \A s \in Threads : pc[s] \in HalfAdded /\ call[s].name = n => pc'[s] \in HalfAdded /\ call'[s].name = n
    BY <1>1, <1>6 DEF HalfAdded
  <2> QED
    BY ONLY <2>1, <2>2, <2>3, <2>4, KnownFrame
<1>10. CacheInv'
  <2>1. Has(db', SequenceKey) /\ cache'.tid = db'[SequenceKey]
    BY <1>3, <1>4, <1>6 DEF CacheInv
  <2>2. ASSUME NEW n \in Names, Has(db', TableKey(n)) PROVE Has(cache'.tidOf, n)
    <3>1. Has(cache.tidOf, n) \/ \E s \in Threads : pc[s] \in HalfCreated /\ call[s].name = n
      BY <1>3, <1>6, <2>2 DEF CacheInv
    <3> QED
      BY <3>1, <1>3, <1>7 DEF Has
  <2> QED
    BY <2>1, <2>2, <1>6, <1>7, <1>8, <1>9 DEF CacheInv
<1>11. CreateInv(t)' /\ AddInv(t)'
  <2>1. Has(cache'.tidOf, c.name) /\ cache'.tidOf[c.name] = c.tid
    BY <1>4, WithFacts
  <2> QED
    BY <2>1, <1>6 DEF CreateInv, AddInv, AddSteps, HalfAdded, HalfCreated
<1>12. ASSUME NEW s \in Threads, s # t PROVE CreateInv(s)' /\ AddInv(s)'
  <2>1. /\ CreateInv(s) /\ AddInv(s) /\ pc'[s] = pc[s] /\ call'[s] = call[s] /\ db' = db
        /\ pc[s] \notin HalfCreated /\ Same(cache.seg, cache'.seg, call[s].tid)
    BY <1>3, <1>4, <1>6, <1>12 DEF StoreInv, Same
  <2>2. Has(cache.tidOf, call[s].name) => Same(cache.tidOf, cache'.tidOf, call[s].name)
    BY <1>3, <1>4, WithSame
  <2>3. ASSUME pc[s] \in HalfAdded PROVE Has(cache.seg, call[s].tid)
    <3>1. pc[s] \in AddSteps
      BY <2>3 DEF HalfAdded, AddSteps
    <3> QED
      BY <3>1, AdderTable DEF Known
  <2> QED
    BY ONLY <2>1, <2>2, <2>3, OtherCache, s \in Threads
<1>13. \A s \in Threads : CreateInv(s)' /\ AddInv(s)'
  BY <1>11, <1>12
<1>14. /\ StoreInv /\ calls' = calls /\ DOMAIN cache' = CacheFields /\ DOMAIN cache'.tidOf \subseteq Names
       /\ DbOK(db')
  BY <1>3, <1>4, <1>6, <1>7 DEF StoreInv, Shape
<1> QED
  BY ONLY <1>5, <1>10, <1>13, <1>14, WholeStep, t \in Threads

\* Mapping puts the schema of the table once more.
LEMMA MappingStep ==
  ASSUME StoreInv, NEW t \in Threads, Mapping(t)
  PROVE  StoreInv'
<1> DEFINE c == call[t]
           name == IF Has(cache.nameOf, c.tid) THEN cache.nameOf[c.tid] ELSE None
<1>1. /\ pc[t] = "Mapping" /\ Return(t) /\ UNCHANGED <<db, up, calls>>
      /\ cache' = [cache EXCEPT !.schema = With(@, name, c.name)]
  BY DEF Mapping
<1>2. up /\ CacheInv /\ pc[t] \in CreateSteps
  BY <1>1 DEF StoreInv, CallsOK, CreateSteps
<1>3. Has(cache.tidOf, c.name) /\ cache.tidOf[c.name] = c.tid
  BY <1>1 DEF StoreInv, CreateInv
<1>4. name = c.name
  BY <1>2, <1>3 DEF CacheInv, Known, Has
<1> HIDE DEF name
<1>5. /\ DOMAIN cache' = CacheFields /\ cache'.schema = With(cache.schema, c.name, c.name)
      /\ cache'.tidOf = cache.tidOf /\ cache'.nameOf = cache.nameOf
      /\ cache'.tid = cache.tid /\ cache'.seg = cache.seg /\ cache'.offset = cache.offset
  <2>1. DOMAIN cache = CacheFields
    BY DEF StoreInv, Shape
  <2> QED
    BY <2>1, <1>1, <1>4 DEF CacheFields
<1>6. Moved(t, "idle", NoCall) /\ CallsOK'
  <2>1. /\ pc[t] # "idle" /\ Return(t) /\ UNCHANGED up /\ StoreInv
    BY <1>1
  <2> QED
    BY ONLY <2>1, ReturnsCall, t \in Threads
<1>7. /\ pc'[t] = "idle" /\ call'[t] = NoCall /\ db' = db /\ up' = up /\ calls' = calls
      /\ \A s \in Threads : s # t => pc'[s] = pc[s] /\ call'[s] = call[s]
  BY <1>1, <1>6 DEF Moved
<1>8. \A s \in Threads : pc[s] \notin HalfCreated /\ pc'[s] \notin HalfCreated
  BY <1>1, <1>2, <1>7 DEF StoreInv, CallsOK, CreateSteps, HalfCreated
<1>9. ASSUME NEW n \in DOMAIN cache'.tidOf PROVE Known(n)'
  <2>1. Known(n) /\ cache'.tidOf[n] = cache.tidOf[n] /\ Has(cache.schema, n) /\ cache.schema[n] = n
    BY <1>2, <1>5 DEF CacheInv, Known
  <2>2. Has(cache'.schema, n) /\ cache'.schema[n] = n
    BY <2>1, <1>5, WithFacts
  <2>3. Same(cache.schema, cache'.schema, n)
    BY <2>1, <2>2 DEF Same
  <2>4. Same(cache.seg, cache'.seg, cache.tidOf[n]) /\ Same(cache.offset, cache'.offset, cache.tidOf[n])
        /\ Same(cache.nameOf, cache'.nameOf, cache.tidOf[n])
        /\ Same(db, db', TableKey(n)) /\ db'[NextIdKey(cache.tidOf[n])] = db[NextIdKey(cache.tidOf[n])]
    BY <1>5, <1>7 DEF Same
  <2>5. \A s \in Threads : pc[s] \in HalfAdded /\ call[s].name = n => pc'[s] \in HalfAdded /\ call'[s].name = n
    BY <1>1, <1>7 DEF HalfAdded
  <2> QED
    BY ONLY <2>1, <2>3, <2>4, <2>5, KnownFrame
<1>10. CacheInv'
  BY <1>2, <1>5, <1>7, <1>8, <1>9 DEF CacheInv
<1>11. CreateInv(t)' /\ AddInv(t)'
  BY <1>7 DEF CreateInv, AddInv, AddSteps, HalfAdded, HalfCreated
<1>12. ASSUME NEW s \in Threads, s # t PROVE CreateInv(s)' /\ AddInv(s)'
  <2>1. /\ CreateInv(s) /\ AddInv(s) /\ pc'[s] = pc[s] /\ call'[s] = call[s] /\ db' = db
        /\ pc[s] \notin HalfCreated /\ Same(cache.seg, cache'.seg, call[s].tid)
        /\ Same(cache.tidOf, cache'.tidOf, call[s].name)
    BY <1>5, <1>7, <1>8, <1>12 DEF StoreInv, Same
  <2>3. ASSUME pc[s] \in HalfAdded PROVE Has(cache.seg, call[s].tid)
    <3>1. pc[s] \in AddSteps
      BY <2>3 DEF HalfAdded, AddSteps
    <3> QED
      BY <3>1, AdderTable DEF Known
  <2> QED
    BY ONLY <2>1, <2>3, OtherCache, s \in Threads
<1>13. \A s \in Threads : CreateInv(s)' /\ AddInv(s)'
  BY <1>11, <1>12
<1>14. /\ StoreInv /\ calls' = calls /\ DOMAIN cache' = CacheFields /\ DOMAIN cache'.tidOf \subseteq Names
       /\ DbOK(db')
  BY <1>5, <1>7 DEF StoreInv, Shape
<1> QED
  BY ONLY <1>6, <1>10, <1>13, <1>14, WholeStep, t \in Threads

\* The table of a thread in AddDocs is none of another thread that adds or creates.
LEMMA AddersApart ==
  ASSUME StoreInv, NEW t \in Threads, pc[t] \in AddSteps
  PROVE  /\ \A n \in DOMAIN cache.tidOf : n # call[t].name => cache.tidOf[n] # call[t].tid
         /\ \A s \in Threads : s # t /\ pc[s] \in AddSteps => call[s].name # call[t].name /\ call[s].tid # call[t].tid
         /\ \A s \in Threads : pc[s] \in HalfCreated => call[s].tid # call[t].tid
<1> DEFINE c == call[t]
<1>1. /\ CacheInv /\ Has(cache.tidOf, c.name) /\ cache.tidOf[c.name] = c.tid /\ c.name \in Names
      /\ Has(db, TableKey(c.name)) /\ db[TableKey(c.name)] = c.tid
  BY AdderTable
<1>2. ASSUME NEW n \in DOMAIN cache.tidOf, n # c.name PROVE cache.tidOf[n] # c.tid
  <2>1. n \in Names /\ Has(db, TableKey(n)) /\ db[TableKey(n)] = cache.tidOf[n]
    BY <1>1 DEF CacheInv, Known, StoreInv, Shape
  <2>2. NamesOK(db)
    BY DEF StoreInv, DbOK
  <2> QED
    BY <2>1, <2>2, <1>1, <1>2 DEF NamesOK, NameOK
<1>3. ASSUME NEW s \in Threads, s # t, pc[s] \in AddSteps PROVE call[s].name # c.name /\ call[s].tid # c.tid
  <2>1. call[s].name # c.name
    BY <1>3 DEF StoreInv, CallsOK
  <2>2. Has(cache.tidOf, call[s].name) /\ cache.tidOf[call[s].name] = call[s].tid
    BY <1>3 DEF StoreInv, AddInv
  <2> QED
    BY <2>1, <2>2, <1>2 DEF Has
<1>4. ASSUME NEW s \in Threads, pc[s] \in HalfCreated PROVE call[s].tid # c.tid
  <2>1. \A n \in DOMAIN cache.tidOf : n \in Names /\ n # call[s].name /\ cache.tidOf[n] # call[s].tid
    BY <1>4, CreatorTable
  <2> QED
    BY <2>1, <1>1 DEF Has
<1> QED
  BY <1>2, <1>3, <1>4

\* The last two steps of AddDocs touch only the place of the table in the cache.
LEMMA HalfAddedStep ==
  ASSUME StoreInv, NEW t \in Threads, pc[t] \in HalfAdded, NEW l \in {"idle", "UpdateTidOffset"}, NEW c,
         Moved(t, l, c), CallsOK', db' = db, calls' = calls, DOMAIN cache' = CacheFields,
         cache'.tidOf = cache.tidOf, cache'.nameOf = cache.nameOf, cache'.schema = cache.schema,
         cache'.tid = cache.tid, NEW m, m = call[t].name, NEW i, i = call[t].tid,
         \A j : j # i => Same(cache.seg, cache'.seg, j) /\ Same(cache.offset, cache'.offset, j),
         Known(m)', AddInv(t)'
  PROVE  StoreInv'
<1>1. pc[t] \in AddSteps
  BY DEF HalfAdded, AddSteps
<1>2. up /\ CacheInv
  BY <1>1, AdderTable
<1>3. /\ \A n \in DOMAIN cache.tidOf : n # m => cache.tidOf[n] # i
      /\ \A s \in Threads : s # t /\ pc[s] \in AddSteps => call[s].name # m /\ call[s].tid # i
      /\ \A s \in Threads : pc[s] \in HalfCreated => call[s].tid # i
  BY <1>1, AddersApart
<1>4. /\ pc'[t] = l /\ up' = up
      /\ \A s \in Threads : s # t => pc'[s] = pc[s] /\ call'[s] = call[s]
  BY DEF Moved
<1>5. /\ \A s \in Threads : pc'[s] \in HalfCreated <=> pc[s] \in HalfCreated
      /\ \A s \in Threads : pc[s] \in HalfCreated => call'[s] = call[s]
  BY <1>4 DEF HalfAdded, HalfCreated
<1>6. ASSUME NEW n \in DOMAIN cache'.tidOf PROVE Known(n)'
  <2>1. CASE n = m
    BY <2>1
  <2>2. CASE n # m
    <3>1. Known(n) /\ cache'.tidOf[n] = cache.tidOf[n] /\ cache.tidOf[n] # i
      BY <2>2, <1>2, <1>3 DEF CacheInv
    <3>2. Same(cache.nameOf, cache'.nameOf, cache.tidOf[n]) /\ Same(cache.schema, cache'.schema, n)
          /\ Same(db, db', TableKey(n)) /\ db'[NextIdKey(cache.tidOf[n])] = db[NextIdKey(cache.tidOf[n])]
      BY DEF Same
    <3>3. Same(cache.seg, cache'.seg, cache.tidOf[n]) /\ Same(cache.offset, cache'.offset, cache.tidOf[n])
      BY <3>1
    <3>4. \A s \in Threads : pc[s] \in HalfAdded /\ call[s].name = n => pc'[s] \in HalfAdded /\ call'[s].name = n
      BY <2>2, <1>4
    <3> QED
      BY ONLY <3>1, <3>2, <3>3, <3>4, KnownFrame
  <2> QED
    BY <2>1, <2>2
<1>7. CacheInv'
  <2>1. Has(db', SequenceKey)
    BY <1>2 DEF CacheInv
  <2>2. ASSUME \A s \in Threads : pc'[s] \notin HalfCreated PROVE cache'.tid = db'[SequenceKey]
    BY <2>2, <1>2, <1>5 DEF CacheInv
  <2>3. ASSUME NEW n \in Names, Has(db', TableKey(n))
        PROVE  Has(cache'.tidOf, n) \/ \E s \in Threads : pc'[s] \in HalfCreated /\ call'[s].name = n
    BY <2>3, <1>2, <1>5 DEF CacheInv
  <2> QED
    BY <2>1, <2>2, <2>3, <1>6 DEF CacheInv
<1>8. CreateInv(t)'
  BY <1>4 DEF CreateInv, HalfCreated
<1>9. ASSUME NEW s \in Threads, s # t PROVE CreateInv(s)' /\ AddInv(s)'
  <2>1. /\ CreateInv(s) /\ AddInv(s) /\ pc'[s] = pc[s] /\ call'[s] = call[s] /\ db' = db
        /\ Same(cache.tidOf, cache'.tidOf, call[s].name) /\ cache'.tid = cache.tid
    BY <1>4, <1>9 DEF StoreInv, Same
  <2>2. ASSUME pc[s] \in HalfCreated \cup HalfAdded
        PROVE  Same(cache.seg, cache'.seg, call[s].tid) /\ Same(cache.offset, cache'.offset, call[s].tid)
    BY <2>2, <1>3, <1>9 DEF HalfAdded, AddSteps
  <2>3. ASSUME pc[s] \in HalfAdded PROVE Has(cache.seg, call[s].tid)
    <3>1. pc[s] \in AddSteps
      BY <2>3 DEF HalfAdded, AddSteps
    <3> QED
      BY <3>1, AdderTable DEF Known
  <2> QED
    BY ONLY <2>1, <2>2, <2>3, OtherCache, s \in Threads
<1>10. \A s \in Threads : CreateInv(s)' /\ AddInv(s)'
  BY <1>8, <1>9
<1>11. /\ StoreInv /\ calls' = calls /\ DOMAIN cache' = CacheFields /\ DOMAIN cache'.tidOf \subseteq Names
       /\ DbOK(db') /\ Moved(t, l, c) /\ CallsOK'
  BY DEF StoreInv, Shape
<1> QED
  BY ONLY <1>7, <1>10, <1>11, WholeStep, t \in Threads

\* UpdateSegMap: the table stays half told.
LEMMA UpdateSegMapStep ==
  ASSUME StoreInv, NEW t \in Threads, UpdateSegMap(t)
  PROVE  StoreInv'
<1>1. /\ pc[t] = "UpdateSegMap" /\ Goto(t, "UpdateTidOffset") /\ UNCHANGED <<db, up, call, calls>>
      /\ cache' = [cache EXCEPT !.seg = With(@, call[t].tid, call[t].sid)]
  BY DEF UpdateSegMap
<1>2. PICK c, m, i : c = call[t] /\ m = c.name /\ i = c.tid
  OBVIOUS
<1>3. pc[t] \in AddSteps /\ pc[t] \in HalfAdded /\ pc[t] # "idle" /\ "UpdateTidOffset" \in HalfAdded
      /\ "UpdateTidOffset" \in AddSteps \ {"GetSegId", "GetTidOffset"}
  BY <1>1 DEF AddSteps, HalfAdded
<1>4. cache.tidOf[m] = i /\ Known(m) /\ Has(cache.tidOf, m)
  BY <1>2, <1>3, AdderTable
<1>5. /\ DOMAIN cache' = CacheFields /\ cache'.seg = With(cache.seg, i, c.sid)
      /\ cache'.offset = cache.offset /\ cache'.tidOf = cache.tidOf /\ cache'.nameOf = cache.nameOf
      /\ cache'.schema = cache.schema /\ cache'.tid = cache.tid
  <2>1. DOMAIN cache = CacheFields
    BY DEF StoreInv, Shape
  <2> QED
    BY <2>1, <1>1, <1>2 DEF CacheFields
<1>6. Moved(t, "UpdateTidOffset", call[t]) /\ CallsOK'
  <2>1. UNCHANGED <<up, call>> /\ Goto(t, "UpdateTidOffset") /\ StoreInv
    BY <1>1
  <2> QED
    BY ONLY <2>1, <1>3, KeepsCall, t \in Threads
<1>7. pc'[t] = "UpdateTidOffset" /\ call'[t] = c /\ db' = db /\ calls' = calls
  BY <1>1, <1>2, <1>6 DEF Moved
<1>8. /\ \A j : j # i => Same(cache.seg, cache'.seg, j) /\ Same(cache.offset, cache'.offset, j)
      /\ Has(cache'.seg, i) /\ cache'.seg[i] = c.sid
  BY <1>5, WithSame, WithFacts DEF Same
<1>9. Known(m)'
  BY <1>2, <1>3, <1>4, <1>5, <1>7, <1>8 DEF Known
<1>10. AddInv(t)'
  <2>1. db[NextIdKey(i)] = <<c.sid, c.offset>>
    BY <1>2, <1>3 DEF StoreInv, AddInv
  <2> QED
    BY <2>1, <1>2, <1>3, <1>4, <1>5, <1>7, <1>8 DEF AddInv
<1>11. m = call[t].name /\ i = call[t].tid /\ "UpdateTidOffset" \in {"idle", "UpdateTidOffset"}
  BY <1>2
<1> QED
  BY ONLY StoreInv, t \in Threads, <1>3, <1>5, <1>6, <1>7, <1>8, <1>9, <1>10, <1>11, HalfAddedStep

\* UpdateTidOffset: the cache knows the table again.
LEMMA UpdateTidOffsetStep ==
  ASSUME StoreInv, NEW t \in Threads, UpdateTidOffset(t)
  PROVE  StoreInv'
<1>1. /\ pc[t] = "UpdateTidOffset" /\ Return(t) /\ UNCHANGED <<db, up, calls>>
      /\ cache' = [cache EXCEPT !.offset = With(@, call[t].tid, call[t].offset)]
  BY DEF UpdateTidOffset
<1>2. PICK c, m, i : c = call[t] /\ m = c.name /\ i = c.tid
  OBVIOUS
<1>3. pc[t] \in AddSteps /\ pc[t] \in HalfAdded /\ pc[t] # "idle"
  BY <1>1 DEF AddSteps, HalfAdded
<1>4. cache.tidOf[m] = i /\ Known(m) /\ Has(cache.tidOf, m)
  BY <1>2, <1>3, AdderTable
<1>5. /\ DOMAIN cache' = CacheFields /\ cache'.offset = With(cache.offset, i, c.offset)
      /\ cache'.seg = cache.seg /\ cache'.tidOf = cache.tidOf /\ cache'.nameOf = cache.nameOf
      /\ cache'.schema = cache.schema /\ cache'.tid = cache.tid
  <2>1. DOMAIN cache = CacheFields
    BY DEF StoreInv, Shape
  <2> QED
    BY <2>1, <1>1, <1>2 DEF CacheFields
<1>6. Moved(t, "idle", NoCall) /\ CallsOK'
  <2>1. UNCHANGED up /\ Return(t) /\ StoreInv
    BY <1>1
  <2> QED
    BY ONLY <2>1, <1>3, ReturnsCall, t \in Threads
<1>7. pc'[t] = "idle" /\ call'[t] = NoCall /\ db' = db /\ calls' = calls
  BY <1>1, <1>6 DEF Moved
<1>8. /\ \A j : j # i => Same(cache.seg, cache'.seg, j) /\ Same(cache.offset, cache'.offset, j)
      /\ Has(cache'.offset, i) /\ cache'.offset[i] = c.offset
  BY <1>5, WithSame, WithFacts DEF Same
<1>9. Known(m)'
  <2>1. db[NextIdKey(i)] = <<c.sid, c.offset>> /\ cache.seg[i] = c.sid
    BY <1>1, <1>2, <1>3 DEF StoreInv, AddInv
  <2>2. cache'.seg[i] = db'[NextIdKey(i)][1] /\ cache'.offset[i] = db'[NextIdKey(i)][2]
    BY <2>1, <1>5, <1>7, <1>8
  <2> QED
    BY <2>2, <1>4, <1>5, <1>7, <1>8 DEF Known
<1>10. AddInv(t)'
  BY <1>7 DEF AddInv, AddSteps, HalfAdded
<1>11. m = call[t].name /\ i = call[t].tid /\ "idle" \in {"idle", "UpdateTidOffset"}
  BY <1>2
<1> QED
  BY ONLY StoreInv, t \in Threads, <1>3, <1>5, <1>6, <1>7, <1>8, <1>9, <1>10, <1>11, HalfAddedStep

\* What another thread knows stays true when a batch is written for another table.
LEMMA OtherDb ==
  ASSUME NEW s \in Threads, CreateInv(s), AddInv(s), pc'[s] = pc[s], call'[s] = call[s], cache' = cache,
         pc[s] \in CreateSteps => /\ Same(db, db', TableKey(call[s].name))
                                  /\ db'[SequenceKey] = db[SequenceKey],
         pc[s] \in HalfCreated \cup AddSteps => Agree(db, db', call[s].tid) /\ NextOK(db, call[s].tid)
  PROVE  CreateInv(s)' /\ AddInv(s)'
<1>1. ASSUME pc[s] \in HalfCreated \cup AddSteps PROVE db'[NextIdKey(call[s].tid)] = db[NextIdKey(call[s].tid)]
  BY <1>1 DEF Agree, OwnKey, NextOK
<1>2. CreateInv(s)'
  BY <1>1 DEF CreateInv, Same, HalfCreated, CreateSteps
<1>3. ASSUME pc[s] \in {"Build", "Write"} PROVE BatchOK(db', call[s])
  <2>1. BatchOK(db, call[s]) /\ Agree(db, db', call[s].tid) /\ NextOK(db, call[s].tid)
    BY <1>3 DEF AddInv, AddSteps
  <2> QED
    BY <2>1, BatchFrame
<1>4. AddInv(s)'
  BY <1>1, <1>3 DEF AddInv, HalfAdded, AddSteps
<1> QED
  BY <1>2, <1>4

\* WriteTable stores the table; the cache does not know it yet.
LEMMA WriteTableStep ==
  ASSUME StoreInv, NEW t \in Threads, WriteTable(t)
  PROVE  StoreInv'
<1>1. /\ pc[t] = "WriteTable" /\ Goto(t, "TableSeg") /\ UNCHANGED <<up, cache, call, calls>>
      /\ db' = Apply(db, NewTable(call[t].name, call[t].tid))
  BY DEF WriteTable
<1>2. PICK c, m, i : c = call[t] /\ m = c.name /\ i = c.tid
  OBVIOUS
<1>3. pc[t] \in CreateSteps /\ pc[t] # "idle" /\ "TableSeg" \in CreateSteps /\ "TableSeg" \in HalfCreated
  BY <1>1 DEF CreateSteps, HalfCreated
<1>4. up /\ m \in Names /\ CacheInv /\ DbOK(db) /\ Has(db, SequenceKey)
  <2>1. up /\ m \in Names
    BY <1>1, <1>2 DEF StoreInv, CallsOK
  <2> QED
    BY <2>1 DEF StoreInv, CacheInv
<1>5. \A s \in Threads : pc[s] \notin HalfCreated /\ (s # t => pc[s] \notin CreateSteps)
  BY <1>1, <1>3 DEF StoreInv, CallsOK, CreateSteps, HalfCreated
<1>6. ~Has(db, TableKey(m)) /\ db[SequenceKey] = i /\ cache.tid = i
  BY <1>1, <1>2, <1>4, <1>5 DEF StoreInv, CreateInv, CacheInv
<1>7. /\ DbOK(db') /\ i \in Nat
      /\ Has(db', SequenceKey) /\ db'[SequenceKey] = i + 1
      /\ Has(db', TableKey(m)) /\ db'[TableKey(m)] = i
      /\ db'[NextIdKey(i)] = <<0, 0>>
      /\ \A n : n # m => Same(db, db', TableKey(n))
      /\ \A j : j # i => Agree(db, db', j)
  <2>1. DbOK(db) /\ Has(db, SequenceKey) /\ db[SequenceKey] = i /\ ~Has(db, TableKey(m)) /\ m \in Names
    BY <1>4, <1>6
  <2>2. Entered(db, Apply(db, NewTable(m, i)), m, i)
    BY ONLY <2>1, WrittenTableEntry
  <2>3. Entered(db, db', m, i)
    BY <2>2, <1>1, <1>2
  <2> QED
    BY <2>3 DEF Entered
<1>8. Moved(t, "TableSeg", call[t]) /\ CallsOK'
  <2>1. UNCHANGED <<up, call>> /\ Goto(t, "TableSeg") /\ StoreInv
    BY <1>1
  <2> QED
    BY ONLY <2>1, <1>3, KeepsCall, t \in Threads
<1>9. /\ pc'[t] = "TableSeg" /\ call' = call /\ cache' = cache /\ calls' = calls
      /\ \A s \in Threads : s # t => pc'[s] = pc[s]
  BY <1>1, <1>8 DEF Moved
<1>10. ASSUME NEW n \in DOMAIN cache.tidOf
       PROVE  /\ n # m /\ n \in Names /\ Known(n) /\ cache.tidOf[n] # i
              /\ NextOK(db, cache.tidOf[n]) /\ Agree(db, db', cache.tidOf[n])
  <2>1. Known(n) /\ n \in Names
    BY <1>4 DEF CacheInv, StoreInv, Shape
  <2>2. Has(db, TableKey(n)) /\ db[TableKey(n)] = cache.tidOf[n]
    BY <2>1 DEF Known
  <2>3. cache.tidOf[n] \in Nat /\ cache.tidOf[n] < i /\ TableOK(db, cache.tidOf[n])
    BY <2>1, <2>2, <1>4, <1>6 DEF DbOK, NamesOK, NameOK, TablesOK
  <2>4. cache.tidOf[n] # i
    BY <2>3, <1>7
  <2> QED
    BY <2>1, <2>2, <2>3, <2>4, <1>6, <1>7 DEF TableOK
<1>11. ASSUME NEW n \in DOMAIN cache'.tidOf PROVE Known(n)'
  <2>1. n # m /\ Known(n) /\ NextOK(db, cache.tidOf[n]) /\ Agree(db, db', cache.tidOf[n])
    BY <1>9, <1>10
  <2>2. Same(db, db', TableKey(n)) /\ db'[NextIdKey(cache.tidOf[n])] = db[NextIdKey(cache.tidOf[n])]
    BY <2>1, <1>7 DEF Agree, OwnKey, NextOK
  <2>3. Same(cache.nameOf, cache'.nameOf, cache.tidOf[n]) /\ Same(cache.schema, cache'.schema, n)
        /\ Same(cache.seg, cache'.seg, cache.tidOf[n]) /\ Same(cache.offset, cache'.offset, cache.tidOf[n])
        /\ cache'.tidOf[n] = cache.tidOf[n]
    BY <1>9 DEF Same
  <2>4. \A s \in Threads : pc[s] \in HalfAdded /\ call[s].name = n => pc'[s] \in HalfAdded /\ call'[s].name = n
    BY <1>1, <1>9 DEF HalfAdded
  <2> QED
    BY ONLY <2>1, <2>2, <2>3, <2>4, KnownFrame
<1>12. CacheInv'
  <2>1. ASSUME NEW n \in Names, Has(db', TableKey(n))
        PROVE  Has(cache'.tidOf, n) \/ \E s \in Threads : pc'[s] \in HalfCreated /\ call'[s].name = n
    <3>1. CASE n = m
      BY <3>1, <1>2, <1>3, <1>9
    <3>2. CASE n # m
      BY <3>2, <2>1, <1>4, <1>5, <1>7, <1>9 DEF CacheInv, Same
    <3> QED
      BY <3>1, <3>2
  <2>2. ~(\A s \in Threads : pc'[s] \notin HalfCreated)
    BY <1>3, <1>9
  <2> QED
    BY <2>1, <2>2, <1>7, <1>11 DEF CacheInv
<1>13. CreateInv(t)' /\ AddInv(t)'
  <2>1. ~Has(cache.tidOf, m)
    BY <1>10 DEF Has
  <2>2. call'[t].name = m /\ call'[t].tid = i
    BY <1>2, <1>9
  <2> QED
    BY <2>1, <2>2, <1>6, <1>7, <1>9 DEF CreateInv, AddInv, AddSteps, HalfAdded
<1>14. ASSUME NEW s \in Threads, s # t PROVE CreateInv(s)' /\ AddInv(s)'
  <2>1. /\ CreateInv(s) /\ AddInv(s) /\ pc'[s] = pc[s] /\ call'[s] = call[s] /\ cache' = cache
        /\ pc[s] \notin CreateSteps /\ pc[s] \notin HalfCreated
    BY <1>5, <1>9, <1>14 DEF StoreInv
  <2>2. ASSUME pc[s] \in AddSteps PROVE Agree(db, db', call[s].tid) /\ NextOK(db, call[s].tid)
    <3>1. Has(cache.tidOf, call[s].name) /\ cache.tidOf[call[s].name] = call[s].tid
      BY <2>2, <2>1 DEF AddInv
    <3> QED
      BY <3>1, <1>10 DEF Has
  <2> QED
    BY ONLY <2>1, <2>2, OtherDb, s \in Threads
<1>15. \A s \in Threads : CreateInv(s)' /\ AddInv(s)'
  BY <1>13, <1>14
<1>16. /\ StoreInv /\ calls' = calls /\ DOMAIN cache' = CacheFields /\ DOMAIN cache'.tidOf \subseteq Names
  BY <1>9 DEF StoreInv, Shape
<1> QED
  BY ONLY <1>7, <1>8, <1>12, <1>15, <1>16, WholeStep, t \in Threads

\* Write stores the batch; the cache does not know the new place yet.
LEMMA WriteStep ==
  ASSUME StoreInv, NEW t \in Threads, Write(t)
  PROVE  StoreInv'
<1>1. /\ pc[t] = "Write" /\ UNCHANGED <<up, cache, call, calls>>
      /\ Goto(t, IF call[t].updated THEN "UpdateSegMap" ELSE "UpdateTidOffset")
      /\ db' = Apply(db, call[t].wb)
  BY DEF Write
<1>2. PICK c, m, i, l : /\ c = call[t] /\ m = c.name /\ i = c.tid
                        /\ l = IF c.updated THEN "UpdateSegMap" ELSE "UpdateTidOffset"
  OBVIOUS
<1>3. /\ pc[t] \in AddSteps /\ pc[t] \notin HalfAdded /\ pc[t] # "idle"
      /\ l \in AddSteps \ {"GetSegId", "GetTidOffset"} /\ l \in HalfAdded /\ l \notin HalfCreated
      /\ pc[t] \notin HalfCreated
  BY <1>1, <1>2 DEF AddSteps, HalfAdded, HalfCreated
<1>4. /\ up /\ CacheInv /\ m \in Names /\ Has(cache.tidOf, m) /\ cache.tidOf[m] = i /\ Known(m)
      /\ Has(db, TableKey(m)) /\ db[TableKey(m)] = i /\ TableOK(db, i)
      /\ cache.seg[i] = db[NextIdKey(i)][1]
  BY <1>2, <1>3, AdderTable
<1>5. DbOK(db) /\ BatchOK(db, c) /\ Has(db, SequenceKey)
  BY <1>1, <1>2, <1>4 DEF StoreInv, AddInv, CacheInv
<1>6. /\ DbOK(db') /\ db'[NextIdKey(i)] = <<c.sid, c.offset>>
      /\ Same(db, db', SequenceKey) /\ \A n : Same(db, db', TableKey(n))
      /\ \A j : j # i => Agree(db, db', j)
  <2>1. DbOK(db) /\ BatchOK(db, c) /\ m \in Names /\ Has(db, TableKey(m)) /\ db[TableKey(m)] = c.tid
    BY <1>2, <1>4, <1>5
  <2>2. PICK e : e = Apply(db, c.wb)
    OBVIOUS
  <2>3. /\ DbOK(e) /\ e[NextIdKey(c.tid)] = <<c.sid, c.offset>>
        /\ Same(db, e, SequenceKey) /\ \A n : Same(db, e, TableKey(n))
        /\ \A j : j # c.tid => Agree(db, e, j)
    BY ONLY <2>1, <2>2, WrittenBatch
  <2>4. db' = e
    BY <2>2, <1>1, <1>2
  <2> QED
    BY <2>3, <2>4, <1>2
<1>7. Moved(t, l, call[t]) /\ CallsOK'
  <2>1. UNCHANGED <<up, call>> /\ Goto(t, l) /\ StoreInv
    BY <1>1, <1>2
  <2> QED
    BY ONLY <2>1, <1>3, KeepsCall, t \in Threads
<1>8. /\ pc'[t] = l /\ call' = call /\ cache' = cache /\ calls' = calls
      /\ \A s \in Threads : s # t => pc'[s] = pc[s]
  BY <1>1, <1>7 DEF Moved
<1>9. /\ \A n \in DOMAIN cache.tidOf : n # m => cache.tidOf[n] # i
      /\ \A s \in Threads : s # t /\ pc[s] \in AddSteps => call[s].name # m /\ call[s].tid # i
      /\ \A s \in Threads : pc[s] \in HalfCreated => call[s].tid # i
  BY <1>2, <1>3, AddersApart
<1>10. \A s \in Threads : pc'[s] \in HalfCreated <=> pc[s] \in HalfCreated
  BY <1>3, <1>8
<1>11. Known(m)'
  BY <1>2, <1>3, <1>4, <1>6, <1>8 DEF Known, Same
<1>12. ASSUME NEW n \in DOMAIN cache'.tidOf, n # m PROVE Known(n)'
  <2>1. Known(n) /\ n \in Names /\ cache.tidOf[n] # i
    BY <1>4, <1>8, <1>9, <1>12 DEF CacheInv, StoreInv, Shape
  <2>2. NextOK(db, cache.tidOf[n])
    BY <2>1, <1>5 DEF Known, DbOK, TablesOK, TableOK
  <2>3. Same(db, db', TableKey(n)) /\ db'[NextIdKey(cache.tidOf[n])] = db[NextIdKey(cache.tidOf[n])]
    BY <2>1, <2>2, <1>6 DEF Agree, OwnKey, NextOK
  <2>4. Same(cache.nameOf, cache'.nameOf, cache.tidOf[n]) /\ Same(cache.schema, cache'.schema, n)
        /\ Same(cache.seg, cache'.seg, cache.tidOf[n]) /\ Same(cache.offset, cache'.offset, cache.tidOf[n])
        /\ cache'.tidOf[n] = cache.tidOf[n]
    BY <1>8 DEF Same
  <2>5. \A s \in Threads : pc[s] \in HalfAdded /\ call[s].name = n => pc'[s] \in HalfAdded /\ call'[s].name = n
    BY <1>3, <1>8
  <2> QED
    BY ONLY <2>1, <2>3, <2>4, <2>5, KnownFrame
<1>13. CacheInv'
  <2>1. Has(db', SequenceKey) /\ db'[SequenceKey] = db[SequenceKey]
    BY <1>5, <1>6 DEF Same
  <2>2. ASSUME \A s \in Threads : pc'[s] \notin HalfCreated PROVE cache'.tid = db'[SequenceKey]
    BY <2>1, <2>2, <1>4, <1>8, <1>10 DEF CacheInv
  <2>3. ASSUME NEW n \in Names, Has(db', TableKey(n))
        PROVE  Has(cache'.tidOf, n) \/ \E s \in Threads : pc'[s] \in HalfCreated /\ call'[s].name = n
    BY <2>3, <1>4, <1>6, <1>8, <1>10 DEF CacheInv, Same
  <2> QED
    BY <2>1, <2>2, <2>3, <1>11, <1>12 DEF CacheInv
<1>14. CreateInv(t)' /\ AddInv(t)'
  <2>1. ASSUME ~c.updated PROVE cache.seg[i] = c.sid
    BY <2>1, <1>2, <1>4, <1>5 DEF TableOK, NextOK, BatchOK, CountersOK
  <2>2. call'[t] = c /\ call'[t].name = m /\ call'[t].tid = i
    BY <1>2, <1>8
  <2> QED
    BY <2>1, <2>2, <1>2, <1>3, <1>4, <1>6, <1>8 DEF CreateInv, AddInv, AddSteps, HalfAdded, HalfCreated
<1>15. ASSUME NEW s \in Threads, s # t PROVE CreateInv(s)' /\ AddInv(s)'
  <2>1. /\ CreateInv(s) /\ AddInv(s) /\ pc'[s] = pc[s] /\ call'[s] = call[s] /\ cache' = cache
        /\ Same(db, db', TableKey(call[s].name)) /\ db'[SequenceKey] = db[SequenceKey]
    BY <1>5, <1>6, <1>8, <1>15 DEF StoreInv, Same
  <2>2. ASSUME pc[s] \in HalfCreated PROVE NextOK(db, call[s].tid) /\ call[s].tid # i
    <3>1. call[s].name \in Names /\ Has(db, TableKey(call[s].name)) /\ db[TableKey(call[s].name)] = call[s].tid
      BY <2>2, CreatorTable
    <3> QED
      BY <3>1, <2>2, <1>5, <1>9 DEF DbOK, TablesOK, TableOK
  <2>3. ASSUME pc[s] \in AddSteps PROVE NextOK(db, call[s].tid) /\ call[s].tid # i
    BY <2>3, <1>9, <1>15, AdderTable DEF TableOK
  <2>4. pc[s] \in HalfCreated \cup AddSteps => Agree(db, db', call[s].tid) /\ NextOK(db, call[s].tid)
    BY <2>2, <2>3, <1>6
  <2> QED
    BY ONLY <2>1, <2>4, OtherDb, s \in Threads
<1>16. \A s \in Threads : CreateInv(s)' /\ AddInv(s)'
  BY <1>14, <1>15
<1>17. /\ StoreInv /\ calls' = calls /\ DOMAIN cache' = CacheFields /\ DOMAIN cache'.tidOf \subseteq Names
  BY <1>8 DEF StoreInv, Shape
<1> QED
  BY ONLY <1>6, <1>7, <1>13, <1>16, <1>17, WholeStep, t \in Threads-----------------------------------------------------------------------------
(* Starts and ends of the process *)

\* Threads that are in no call know nothing that could become wrong.
LEMMA IdleThreads ==
  ASSUME \A s \in Threads : pc[s] = "idle"
  PROVE  \A s \in Threads : CreateInv(s) /\ AddInv(s)
BY DEF CreateInv, AddInv, HalfCreated, HalfAdded, AddSteps

\* The first start stores the next table id in a database without tables.
LEMMA FirstStart ==
  ASSUME NEW d, DbOK(d), ~Has(d, SequenceKey)
  PROVE  LET e == With(d, SequenceKey, 0)
         IN /\ DbOK(e) /\ Has(e, SequenceKey) /\ e[SequenceKey] = 0
            /\ \A n \in Names : ~Has(e, TableKey(n))
<1> DEFINE e == With(d, SequenceKey, 0)
<1>1. /\ \A x : Has(e, x) <=> x = SequenceKey \/ Has(d, x)
      /\ e[SequenceKey] = 0
      /\ \A x : Has(d, x) /\ x # SequenceKey => e[x] = d[x]
  BY WithFacts
<1> HIDE DEF e
<1>2. \A n \in Names : ~Has(d, TableKey(n)) /\ ~Has(e, TableKey(n))
  BY <1>1, KeysDiffer DEF DbOK, SeqOK
<1>3. \A i : ~IsTid(d, i)
  BY <1>2 DEF IsTid
<1>4. Shapes(e)
  <2>1. 0 # Deleted
    BY MarkAssumption
  <2>2. ASSUME NEW k \in DOMAIN e PROVE KeyShape(k) /\ e[k] # Deleted
    BY <2>1, <1>1 DEF DbOK, Shapes, KeyShape, Has
  <2> QED
    BY <2>2 DEF Shapes
<1>5. SeqOK(e) /\ NamesOK(e) /\ TablesOK(e)
  BY <1>1, <1>2 DEF SeqOK, NamesOK, TablesOK
<1>6. IdsOK(e)
  BY <1>1, <1>3, KeysDiffer DEF DbOK, IdsOK
<1> QED
  BY <1>1, <1>2, <1>4, <1>5, <1>6 DEF DbOK, e

\* Open, after a crash or for the first time.
LEMMA OpenStep ==
  ASSUME StoreInv, Open
  PROVE  StoreInv'
<1>1. ~up /\ up' = TRUE /\ UNCHANGED <<pc, call, calls>>
  BY DEF Open
<1>2. \A s \in Threads : pc[s] = "idle" /\ pc'[s] = "idle" /\ call'[s] = NoCall
  BY <1>1 DEF StoreInv, CallsOK
<1>3. \A s \in Threads : pc'[s] \notin HalfCreated /\ pc'[s] \notin CreateSteps /\ pc'[s] \notin AddSteps
  BY <1>2 DEF HalfCreated, CreateSteps, AddSteps
<1>4. CallsOK'
  BY <1>2, <1>3 DEF CallsOK
<1>5. \A s \in Threads : CreateInv(s)' /\ AddInv(s)'
  BY <1>2 DEF CreateInv, AddInv, HalfCreated, HalfAdded, AddSteps
<1>6. DbOK(db) /\ Shape
  BY DEF StoreInv
<1>7. DOMAIN cache' = CacheFields /\ DOMAIN cache'.tidOf \subseteq Names /\ DbOK(db') /\ CacheInv'
  <2>1. CASE Has(db, SequenceKey)
    <3>1. cache' = Recovered(db) /\ db' = db
      BY <2>1 DEF Open
    <3>2. PICK r : r = Recovered(db)
      OBVIOUS
    <3>3. /\ DOMAIN r = CacheFields
          /\ r.tid = db[SequenceKey]
          /\ \A n : n \in DOMAIN r.tidOf <=> n \in Names /\ Has(db, TableKey(n))
          /\ \A n \in Names : Has(db, TableKey(n)) =>
               LET i == db[TableKey(n)]
               IN /\ r.tidOf[n] = i
                  /\ Has(r.nameOf, i) /\ r.nameOf[i] = n
                  /\ Has(r.schema, n) /\ r.schema[n] = n
                  /\ Has(r.seg, i) /\ r.seg[i] = db[NextIdKey(i)][1]
                  /\ Has(r.offset, i) /\ r.offset[i] = db[NextIdKey(i)][2]
      BY ONLY <2>1, <3>2, <1>6, RecoveredFacts
    <3>4. cache' = r
      BY <3>1, <3>2
    <3>5. ASSUME NEW n \in DOMAIN cache'.tidOf PROVE Known(n)'
      BY <3>1, <3>3, <3>4 DEF Known
    <3>6. ASSUME NEW n \in Names, Has(db', TableKey(n)) PROVE Has(cache'.tidOf, n)
      BY <3>1, <3>3, <3>4, <3>6 DEF Has
    <3> QED
      BY <2>1, <3>1, <3>3, <3>4, <3>5, <3>6, <1>6 DEF CacheInv
  <2>2. CASE ~Has(db, SequenceKey)
    <3>1. cache' = EmptyCache /\ db' = With(db, SequenceKey, 0)
      BY <2>2 DEF Open
    <3>2. DbOK(db') /\ Has(db', SequenceKey) /\ db'[SequenceKey] = 0 /\ \A n \in Names : ~Has(db', TableKey(n))
      BY <2>2, <3>1, <1>6, FirstStart
    <3>3. DOMAIN cache' = CacheFields /\ DOMAIN cache'.tidOf = {} /\ cache'.tid = 0
      BY <3>1 DEF EmptyCache, CacheFields
    <3> QED
      BY <3>2, <3>3 DEF CacheInv
  <2> QED
    BY <2>1, <2>2
<1>8. Shape'
  BY <1>1, <1>6, <1>7 DEF Shape
<1> QED
  BY <1>4, <1>5, <1>7, <1>8 DEF StoreInv

\* The process ends: nothing but the database is left.
LEMMA DownStep ==
  ASSUME StoreInv, Down
  PROVE  StoreInv'
<1>1. /\ up' = FALSE /\ cache' = EmptyCache /\ db' = db /\ calls' = calls
      /\ pc' = [t \in Threads |-> "idle"] /\ call' = [t \in Threads |-> NoCall]
  BY DEF Down
<1>2. \A s \in Threads : pc'[s] = "idle" /\ call'[s] = NoCall
  BY <1>1
<1>3. CallsOK'
  BY <1>2 DEF CallsOK, CreateSteps, AddSteps
<1>4. \A s \in Threads : CreateInv(s)' /\ AddInv(s)'
  BY <1>2 DEF CreateInv, AddInv, HalfCreated, HalfAdded, AddSteps
<1>5. DOMAIN NoCall = CallFields /\ DOMAIN EmptyCache = CacheFields /\ DOMAIN EmptyCache.tidOf = {}
  BY DEF NoCall, CallFields, EmptyCache, CacheFields
<1>6. Shape'
  BY <1>1, <1>5 DEF StoreInv, Shape
<1> QED
  BY <1>1, <1>3, <1>4, <1>6 DEF StoreInv

\* The empty database, before the first start.
LEMMA InitInv == Init => StoreInv
<1> SUFFICES ASSUME Init PROVE StoreInv
  OBVIOUS
<1>1. \A s \in Threads : pc[s] = "idle" /\ call[s] = NoCall
  BY DEF Init
<1>2. CallsOK
  BY <1>1 DEF CallsOK, CreateSteps, AddSteps
<1>3. \A s \in Threads : CreateInv(s) /\ AddInv(s)
  BY <1>1, IdleThreads
<1>4. DOMAIN NoCall = CallFields /\ DOMAIN EmptyCache = CacheFields /\ DOMAIN EmptyCache.tidOf = {}
  BY DEF NoCall, CallFields, EmptyCache, CacheFields
<1>5. Shape
  <2>1. 0 \in 0 .. MaxCalls
    BY StoreAssumption
  <2>2. /\ up = FALSE /\ calls = 0 /\ cache = EmptyCache
        /\ pc = [s \in Threads |-> "idle"] /\ call = [s \in Threads |-> NoCall]
    BY DEF Init
  <2> QED
    BY <2>1, <2>2, <1>4 DEF Shape
<1>6. DbOK(db)
  <2>1. \A k : ~Has(db, k)
    BY DEF Init, Has
  <2> QED
    BY <2>1 DEF DbOK, Shapes, SeqOK, NamesOK, IdsOK, TablesOK, Has
<1> QED
  BY <1>2, <1>3, <1>5, <1>6 DEF StoreInv, Init

\* Every step of disciplined callers keeps the invariant.
LEMMA NextInv == Disciplined /\ StoreInv /\ [Next]_vars => StoreInv'
<1> SUFFICES ASSUME Disciplined, StoreInv, [Next]_vars PROVE StoreInv'
  OBVIOUS
<1>1. CASE Open
  BY <1>1, OpenStep
<1>2. CASE Crash
  BY <1>2, DownStep DEF Crash
<1>3. ASSUME NEW t \in Threads, NEW n \in Names, CreateTable(t, n) PROVE StoreInv'
  BY <1>3, CreateTableStep
<1>4. ASSUME NEW t \in Threads, NEW n \in Names, GetDocs(t, n) PROVE StoreInv'
  BY <1>4, DownStep DEF GetDocs
<1>5. ASSUME NEW t \in Threads, NEW n \in Names, NEW batch \in Batches, AddDocs(t, n, batch) PROVE StoreInv'
  BY <1>5, AddDocsStep
<1>6. ASSUME NEW t \in Threads,
             \/ GetTid(t) \/ WriteTable(t) \/ TableSeg(t) \/ TableOffset(t) \/ SetTid(t) \/ Mapping(t)
      PROVE  StoreInv'
  BY <1>6, GetTidStep, WriteTableStep, TableSegStep, TableOffsetStep, SetTidStep, MappingStep
<1>7. ASSUME NEW t \in Threads,
             \/ GetSegId(t) \/ GetTidOffset(t) \/ Build(t) \/ Write(t) \/ WriteFails(t)
             \/ UpdateSegMap(t) \/ UpdateTidOffset(t)
      PROVE  StoreInv'
  BY <1>7, GetSegIdStep, GetTidOffsetStep, BuildStep, WriteStep, WriteFailsStep,
     UpdateSegMapStep, UpdateTidOffsetStep
<1>8. CASE UNCHANGED vars
  <2>1. db' = db /\ up' = up /\ cache' = cache /\ pc' = pc /\ call' = call /\ calls' = calls
    BY <1>8 DEF vars
  <2>2. Shape' /\ CallsOK' /\ DbOK(db)'
    BY <2>1 DEF StoreInv, Shape, CallsOK
  <2>3. up' => CacheInv'
    BY <2>1 DEF StoreInv, CacheInv, Known
  <2>4. ASSUME NEW s \in Threads PROVE CreateInv(s)' /\ AddInv(s)'
    BY <2>1, OtherThread DEF StoreInv
  <2> QED
    BY <2>2, <2>3, <2>4 DEF StoreInv
<1> QED
  BY <1>1, <1>2, <1>3, <1>4, <1>5, <1>6, <1>7, <1>8 DEF Next

\* As long as callers do not overlap in CreateTable or in one table, whatever the threads,
\* crashes, restarts and failed writes do, the cache says what is stored and no address of a
\* document is given out twice.
THEOREM StoreSafe == Disciplined => (Spec => []StoreSound)
<1> SUFFICES ASSUME Disciplined PROVE Spec => []StoreSound
  OBVIOUS
<1>1. StoreInv /\ [Next]_vars => StoreInv'
  BY NextInv
<1> QED
  BY <1>1, InitInv, InvSound, PTL DEF Spec

\* Under the same discipline of the callers and for filters of any limits: LoadField and
\* GetDocs miss no live document but those that the comparison of a signed char and the
\* limit of a filter leave out.
THEOREM ReadsSafe == Disciplined => (Spec => []ReadsComplete)
<1> SUFFICES ASSUME Disciplined PROVE Spec => []ReadsComplete
  OBVIOUS
<1>1. StoreInv /\ [Next]_vars => StoreInv'
  BY NextInv
<1>2. StoreInv => ReadsComplete
  BY InvReads DEF StoreInv
<1> QED
  BY <1>1, <1>2, InitInv, PTL DEF Spec
=============================================================================
