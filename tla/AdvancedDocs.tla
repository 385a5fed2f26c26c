---------------------------- MODULE AdvancedDocs ----------------------------
(***************************************************************************)
(* document::DocSchema and document::Doc (advanced_doc.h): fields have ids *)
(* in the order they were added, a field added again replaces the one of   *)
(* its name, every access takes the lock of its object. Threads add to a   *)
(* schema and to a document checked against it.                            *)
(***************************************************************************)
EXTENDS Integers, Sequences, FiniteSets

CONSTANTS
  AdvThreads, AdvNames,
  AdvFields,    \* the fields threads add: a name and the value of a type
  AdvNameSize,  \* the size of a name
  FidCount,     \* the values of a uint8_t: of a field id, the number of fields, the size of a name
  NoField,      \* a thread that is in no call
  Garbled       \* what is made of bytes that are read out of step

ASSUME AdvAssumption ==
  FidCount \in Nat \ {0} /\ AdvFields \subseteq [name : AdvNames, type : Nat] /\ AdvNameSize \in [AdvNames -> Nat]

VARIABLES
  advSchema, advDoc,   \* a BaseDocT each
  advCopy,             \* the schema read back from its bytes
  checked              \* per thread: the field it found in the schema and is about to add

advVars == <<advSchema, advDoc, advCopy, checked>>

\* fname_fid_, fid_field_ (the position is the id plus one), fname_field_.
EmptyDoc == [fidOf |-> <<>>, byFid |-> <<>>, byName |-> <<>>]

With(f, k, v) == [x \in DOMAIN f \cup {k} |-> IF x = k THEN v ELSE f[x]]

\* Variant: a field that is there already is appended once more.
AdvAddAppends(d, f) ==
  [fidOf  |-> With(d.fidOf, f.name, Len(d.byFid) % FidCount),
   byFid  |-> Append(d.byFid, f),
   byName |-> With(d.byName, f.name, f)]

\* BaseDocT::AddField, under the lock.
AdvAdd(d, f) ==
  LET new == f.name \notin DOMAIN d.fidOf
      fid == IF new THEN Len(d.byFid) % FidCount ELSE d.fidOf[f.name]
  IN [fidOf  |-> IF new THEN With(d.fidOf, f.name, fid) ELSE d.fidOf,
      byFid  |-> IF new THEN Append(d.byFid, f) ELSE [d.byFid EXCEPT ![fid + 1] = f],
      byName |-> With(d.byName, f.name, f)]

\* GetField by id and by name; nothing when there is none.
GetByFid(d, fid) == IF fid >= Len(d.byFid) THEN NoField ELSE d.byFid[fid + 1]
GetByName(d, n) == IF n \in DOMAIN d.byName THEN d.byName[n] ELSE NoField

\* DocSchemaT::Serialize: the count, then id, type, size and name of every field, the size cut to a
\* byte; Field::Serialize writes no value.
AdvSerialize(d) ==
  [count |-> Len(d.byFid) % FidCount,
   fields |-> [i \in DOMAIN d.byFid |->
               [fid |-> (i - 1) % FidCount, size |-> AdvNameSize[d.byFid[i].name] % FidCount, field |-> d.byFid[i]]]]

\* DocSchemaT::Deserialize adds the fields in the order of the bytes, the id is not used;
\* Field::Deserialize makes a field of the type written, and takes as many bytes for its name as
\* the size says: behind a size that was cut, they are not the fields that were written.
InStep(bytes) == \A k \in 1 .. bytes.count : bytes.fields[k].size = AdvNameSize[bytes.fields[k].field.name]
AdvDeserialize(bytes) ==
  LET read[k \in 0 .. bytes.count] == IF k = 0 THEN EmptyDoc ELSE AdvAdd(read[k - 1], bytes.fields[k].field)
  IN IF InStep(bytes) THEN read[bytes.count] ELSE Garbled

-----------------------------------------------------------------------------
AdvSchemaAdd(t, f) ==
  /\ checked[t] = NoField
  /\ advSchema' = AdvAdd(advSchema, f)
  /\ UNCHANGED <<advDoc, advCopy, checked>>

\* DocT::AddField looks the name up in the schema, under the schema's lock ...
AdvCheck(t, f) ==
  /\ checked[t] = NoField
  /\ GetByName(advSchema, f.name) # NoField
  /\ checked' = [checked EXCEPT ![t] = f]
  /\ UNCHANGED <<advSchema, advDoc, advCopy>>

\* ... and adds the field under its own.
AdvDocAdd(t) ==
  /\ checked[t] # NoField
  /\ advDoc' = AdvAdd(advDoc, checked[t])
  /\ checked' = [checked EXCEPT ![t] = NoField]
  /\ UNCHANGED <<advSchema, advCopy>>

\* Serialize holds the lock from the count to the last field. The uint8_t it counts with does not
\* reach FidCount: with so many fields the call does not return.
AdvSave(t) ==
  /\ checked[t] = NoField
  /\ Len(advSchema.byFid) < FidCount
  /\ advCopy' = AdvDeserialize(AdvSerialize(advSchema))
  /\ UNCHANGED <<advSchema, advDoc, checked>>

AdvInit ==
  /\ advSchema = EmptyDoc /\ advDoc = EmptyDoc /\ advCopy = EmptyDoc
  /\ checked = [t \in AdvThreads |-> NoField]

AdvNext == \E t \in AdvThreads :
  \/ \E f \in AdvFields : AdvSchemaAdd(t, f) \/ AdvCheck(t, f)
  \/ AdvDocAdd(t) \/ AdvSave(t)

AdvSpec == AdvInit /\ [][AdvNext]_advVars

-----------------------------------------------------------------------------
\* Whatever the threads add, replace and read back, a field is found under its name in both maps of
\* names, a document has only names of its schema, and a schema read back has the ids the names have
\* in the schema, also after ids have wrapped there. The id of a name leads to the field of that
\* name, so that no two names share one, as long as there are no more fields than ids; no code
\* checks that there are not, nor that a name's size fits, without which nothing is said of the copy.
AdvMapsAgree ==
  /\ \A d \in {advSchema, advDoc, advCopy} \ {Garbled} :
       /\ DOMAIN d.fidOf = DOMAIN d.byName
       /\ \A n \in DOMAIN d.fidOf :
            /\ GetByName(d, n).name = n
            /\ Len(d.byFid) <= FidCount => GetByFid(d, d.fidOf[n]) = GetByName(d, n)
  /\ DOMAIN advDoc.fidOf \subseteq DOMAIN advSchema.fidOf
  /\ advCopy # Garbled =>
       \A n \in DOMAIN advCopy.fidOf : n \in DOMAIN advSchema.fidOf /\ advCopy.fidOf[n] = advSchema.fidOf[n]
=============================================================================
