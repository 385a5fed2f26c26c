----------------------------- MODULE Documents -----------------------------
(***************************************************************************)
(* DocSchema and Doc (doc.cpp): a schema collects fields by name, Build    *)
(* numbers them in the order of the names, the schema is written to bytes  *)
(* and read back, and a document built against a schema is serialized by   *)
(* field id. A name is a number in the order of the strings; PK is "_id".  *)
(***************************************************************************)
EXTENDS Integers, Sequences, FiniteSets, Functions

CONSTANTS
  FieldNames,   \* names, in the order std::map gives them
  PK,           \* the name of the primary key
  FieldTypes,   \* 1 long, 2 float, 3 string, 4 float vector
  DocValues,    \* what a field of a document may hold
  NameSize,     \* the size of a name
  ByteBits,     \* width of the counts, ids and sizes in a serialized schema (uint8_t)
  GarbledSchema \* what is made of bytes that are read out of step

ASSUME DocAssumption ==
  /\ FieldNames \subseteq Nat /\ PK \in FieldNames
  /\ FieldTypes \subseteq 1 .. 4 /\ 1 \in FieldTypes /\ ByteBits \in Nat
  /\ NameSize \in [FieldNames -> Nat]

VARIABLES
  schema,   \* the DocSchema
  stored,   \* the schema as read back from its bytes, or empty
  doc,      \* the Doc built against the schema
  failed    \* an assertion of Doc ended the program

docVars == <<schema, stored, doc, failed>>

\* fields_schema_ (name -> <<type, offset>>), the vectors of fields of each type, the ids
\* Build gives (a sequence of names; the id is the position less one) and fixed_.
EmptySchema == [where  |-> [n \in {} |-> <<0, 0>>],
                fields |-> [t \in FieldTypes |-> <<>>],
                names  |-> <<>>, types |-> <<>>, fixed |-> FALSE]

-----------------------------------------------------------------------------
(* DocSchema *)

\* PreAddCheck: neither after Build nor twice.
PreAddCheck(s, n) == ~s.fixed /\ n \notin DOMAIN s.where

\* Variant: the name is not checked.
AddFieldTwice(s, n, t, v) ==
  [s EXCEPT !.where = [m \in DOMAIN @ \cup {n} |-> IF m = n THEN <<t, Len(s.fields[t])>> ELSE @[m]],
            !.fields[t] = Append(@, <<n, v>>)]

\* AddLongField, AddFloatField, AddStringField, AddFloatVectorField.
AddField(s, n, t, v) ==
  IF ~PreAddCheck(s, n) THEN s
  ELSE [s EXCEPT !.where = [m \in DOMAIN @ \cup {n} |->
                              IF m = n THEN <<t, Len(s.fields[t])>> ELSE @[m]],
                 !.fields[t] = Append(@, <<n, v>>)]

\* The names in their order, by which a std::map is walked.
Ordered(S) == [i \in 1 .. Cardinality(S) |-> CHOOSE n \in S : Cardinality({m \in S : m < n}) = i - 1]

\* Build: ids in the order of the names; a second Build changes nothing.
BuildIds(s) ==
  LET names == Ordered(DOMAIN s.where)
  IN IF s.fixed THEN s
     ELSE [s EXCEPT !.names = names,
                    !.types = @ \o [i \in DOMAIN names |-> s.where[names[i]][1]],
                    !.fixed = TRUE]

\* The uint8_t that Build counts the names with.
FieldId(s, n) == (CHOOSE i \in 0 .. Len(s.names) - 1 : s.names[i + 1] = n) % 2^ByteBits
GetFieldId(s, n) == n \in Range(s.names)

-----------------------------------------------------------------------------
(* The bytes of a schema: a count, then id, type, size and name of each field *)

SerializeSchema(s) ==
  [count  |-> Cardinality(DOMAIN s.where) % 2^ByteBits,
   fields |-> [i \in DOMAIN s.names |-> [id |-> (i - 1) % 2^ByteBits, type |-> s.types[i],
                                        size |-> NameSize[s.names[i]] % 2^ByteBits, name |-> s.names[i]]]]

\* Deserialize adds as many fields as the count says and builds; the id is read and dropped. It takes
\* as many bytes for a name as the size says: behind one that was cut, it is not the fields that were
\* written that it adds.
DeserializeSchema(bytes) ==
  LET read[k \in 0 .. bytes.count] ==
        IF k = 0 THEN EmptySchema ELSE AddField(read[k - 1], bytes.fields[k].name, bytes.fields[k].type, 0)
  IN IF \A k \in 1 .. bytes.count : bytes.fields[k].size = NameSize[bytes.fields[k].name]
     THEN BuildIds(read[bytes.count]) ELSE GarbledSchema

-----------------------------------------------------------------------------
(* Doc *)

\* Doc::AddLongField(const &) and the like check the name against the schema.
DocAddField(n, t, v) ==
  IF n \in DOMAIN schema.where
  THEN doc' = AddField(doc, n, t, v) /\ UNCHANGED failed
  ELSE failed' = TRUE /\ UNCHANGED doc

\* AddLongFieldValue and the like move the field in: Doc has no override that checks the name.
DocAddFieldValue(n, t, v) == doc' = AddField(doc, n, t, v) /\ UNCHANGED failed

\* Doc::Build compares the numbers of fields only.
DocBuild == doc' = IF Cardinality(DOMAIN doc.where) # Cardinality(DOMAIN schema.where)
                   THEN doc ELSE BuildIds(doc)

\* The fields of a document in the order Doc::Serialize visits them, type by type.
FieldsOfType(d, t) == IF t \in FieldTypes THEN d.fields[t] ELSE <<>>
DocFieldSeq(d) == ((FieldsOfType(d, 1) \o FieldsOfType(d, 2)) \o FieldsOfType(d, 3)) \o FieldsOfType(d, 4)

\* Doc::Serialize puts each field under its id in the schema. For a name the schema does not
\* have, GetFieldId leaves the id as it was, uninitialized: any id.
SerializedId(n, any) == IF GetFieldId(schema, n) THEN FieldId(schema, n) ELSE any

\* Variant: the ids are the document's own.
DocSerializeOwnIds(d, any) ==
  LET fs == DocFieldSeq(d)
  IN [i \in {FieldId(d, fs[k][1]) : k \in DOMAIN fs} |-> fs[i + 1][2]]

DocSerialize(d, any) ==
  LET fs == DocFieldSeq(d)
      put[k \in 0 .. Len(fs)] ==
        IF k = 0 THEN [i \in {} |-> 0]
        ELSE [i \in DOMAIN put[k - 1] \cup {SerializedId(fs[k][1], any)} |->
                IF i = SerializedId(fs[k][1], any) THEN fs[k][2] ELSE put[k - 1][i]]
  IN put[Len(fs)]

-----------------------------------------------------------------------------
SchemaAdd(n, t) ==
  /\ schema' = AddField(schema, n, t, 0)
  /\ UNCHANGED <<stored, doc, failed>>

SchemaBuild ==
  /\ ~schema.fixed
  /\ schema' = BuildIds(schema)
  /\ UNCHANGED <<stored, doc, failed>>

SchemaStore ==
  /\ schema.fixed /\ stored = EmptySchema
  /\ stored' = DeserializeSchema(SerializeSchema(schema))
  /\ UNCHANGED <<schema, doc, failed>>

\* The copy constructor, by which DBCache keeps a schema: it leaves the float vectors out.
SchemaCopy ==
  /\ schema.fixed /\ stored = EmptySchema
  /\ stored' = [schema EXCEPT !.fields = [t \in FieldTypes |-> IF t = 4 THEN <<>> ELSE @[t]]]
  /\ UNCHANGED <<schema, doc, failed>>

\* The constructor of Doc: a built schema and a built primary key.
NewDoc(uid) ==
  /\ schema.fixed /\ doc = EmptySchema
  /\ doc' = AddField(EmptySchema, PK, 1, uid)
  /\ UNCHANGED <<schema, stored, failed>>

AddToDoc(n, t, v) ==
  /\ doc # EmptySchema /\ ~doc.fixed /\ ~failed
  /\ DocAddField(n, t, v) \/ DocAddFieldValue(n, t, v)
  /\ UNCHANGED <<schema, stored>>

BuildDoc ==
  /\ doc # EmptySchema /\ ~doc.fixed /\ ~failed
  /\ DocBuild
  /\ UNCHANGED <<schema, stored, failed>>

DocInit ==
  /\ schema = AddField(EmptySchema, PK, 1, 0)
  /\ stored = EmptySchema /\ doc = EmptySchema /\ failed = FALSE

DocNext ==
  \/ \E n \in FieldNames, t \in FieldTypes : SchemaAdd(n, t)
  \/ SchemaBuild \/ SchemaStore \/ SchemaCopy
  \/ \E v \in DocValues : NewDoc(v)
  \/ \E n \in FieldNames, t \in FieldTypes, v \in DocValues : AddToDoc(n, t, v)
  \/ BuildDoc

DocSpec == DocInit /\ [][DocNext]_docVars

-----------------------------------------------------------------------------
\* Every name leads back to its field: the offset AddXField noted is where the field is in the
\* vector of its type, and after Build the ids are 0, 1, ... in the order of the names, with
\* the type of the field at each.
FieldsLocated ==
  \A s \in {schema, doc} :
    /\ \A n \in DOMAIN s.where :
         LET at == s.where[n] IN at[2] < Len(s.fields[at[1]]) /\ s.fields[at[1]][at[2] + 1][1] = n
    /\ s.fixed => /\ Range(s.names) = DOMAIN s.where /\ Len(s.types) = Len(s.names)
                  /\ \A i \in DOMAIN s.names : s.types[i] = s.where[s.names[i]][1]
                  /\ \A i, j \in DOMAIN s.names : i < j => s.names[i] < s.names[j]

\* A schema survives the store and the cache: what Deserialize rebuilds from the bytes, and what
\* the copy constructor copies, has the same names, ids and types, as long as the number of fields
\* and the size of each name fit their uint8_t: what a TODO asks to check, and no code does.
SizesFit(s) == Len(s.names) < 2^ByteBits /\ \A n \in Range(s.names) : NameSize[n] < 2^ByteBits
SchemaRoundTrip ==
  stored # EmptySchema /\ SizesFit(schema) =>
    stored.names = schema.names /\ stored.types = schema.types /\ stored.fixed

\* A schema's names, ids and types agree in the schema, its stored bytes and its copies.
SchemaSound == FieldsLocated /\ SchemaRoundTrip

\* A document whose Build succeeded, and that was given only names of its schema, has one value
\* for each id of the schema, its own values, and the primary key under the id of "_id", as long
\* as every name has an id of its own.
DocComplete ==
  doc.fixed /\ DOMAIN doc.where \subseteq DOMAIN schema.where /\ Len(schema.names) <= 2^ByteBits =>
    LET bytes == DocSerialize(doc, 0)
    IN /\ DOMAIN bytes = 0 .. Len(schema.names) - 1
       /\ \A n \in DOMAIN doc.where :
            bytes[FieldId(schema, n)] = doc.fields[doc.where[n][1]][doc.where[n][2] + 1][2]
       /\ bytes[FieldId(schema, PK)] = doc.fields[1][1][2]
=============================================================================
