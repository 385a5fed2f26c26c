----------------------------- MODULE DocFields -----------------------------
(***************************************************************************)
(* A typed field with its limits (fields.h, the same text in leveldb_lab   *)
(* and rocksdb_service): TypedField holds the value, LengthMixin or        *)
(* MinMaxMixin the limits, and each of the two has a fixed_ flag of its    *)
(* own. Fields are copied into schemas and documents, so a field under     *)
(* construction and its copy live side by side.                            *)
(***************************************************************************)
EXTENDS Integers

CONSTANTS
  FieldValues,         \* values, or lengths of values, and limits a caller passes
  MaxStart, MinStart,  \* limits a new field has
  IsLength             \* LengthMixin rather than MinMaxMixin

\* A new length is limited to 0 .. MAX_LENGTH, a new number to the range of its type.
ASSUME FieldAssumption ==
  /\ FieldValues \subseteq Int
  /\ MinStart \in Int /\ MaxStart \in Int /\ MinStart <= MaxStart
  /\ IsLength \in BOOLEAN
  /\ IsLength => MinStart >= 0

VARIABLES
  field,   \* the field the caller builds
  copied   \* the copy a schema or document took

fieldVars == <<field, copied>>

NewField == [fixed |-> FALSE, mixinFixed |-> FALSE, readonly |-> FALSE,
             initialized |-> FALSE, value |-> 0, max |-> MaxStart, min |-> MinStart]

\* What a limit may be at all: a length is neither negative nor above MAX_LENGTH.
LengthOK(v) == IsLength => v >= 0 /\ v <= MaxStart

\* SetMaxLength, SetMaxLimit: a refused limit changes nothing.
SetMax(v) ==
  /\ ~field.mixinFixed /\ LengthOK(v) /\ v >= field.min
  /\ field' = [field EXCEPT !.max = v]
  /\ UNCHANGED copied

\* SetMinLength, SetMinLimit.
SetMin(v) ==
  /\ ~field.mixinFixed /\ LengthOK(v) /\ v <= field.max
  /\ field' = [field EXCEPT !.min = v]
  /\ UNCHANGED copied

\* Setting the value checks no limit; only a readonly field that is built refuses it.
SetValue(v) ==
  /\ ~(field.fixed /\ field.readonly)
  /\ field' = [field EXCEPT !.initialized = TRUE, !.value = v]
  /\ UNCHANGED copied

SetReadonly(ro) == field' = [field EXCEPT !.readonly = ro] /\ UNCHANGED copied

Validate(f) == f.min <= f.value /\ f.value <= f.max

\* Variant: only one of the two parts is fixed.
BuildFieldHalf ==
  /\ field.initialized
  /\ field' = [field EXCEPT !.fixed = TRUE]
  /\ UNCHANGED copied

\* WithMixinTypedField::Build fixes both parts; without a value it asserts.
BuildField ==
  /\ field.initialized
  /\ field' = [field EXCEPT !.fixed = TRUE, !.mixinFixed = TRUE]
  /\ UNCHANGED copied

\* The copy and move constructors take every member of both parts.
CopyField == copied' = field /\ UNCHANGED field

FieldInit == field = NewField /\ copied = NewField

FieldNext ==
  \/ \E v \in FieldValues : SetMax(v) \/ SetMin(v) \/ SetValue(v)
  \/ \E ro \in BOOLEAN : SetReadonly(ro)
  \/ BuildField \/ CopyField

FieldSpec == FieldInit /\ [][FieldNext]_fieldVars

-----------------------------------------------------------------------------
\* Whatever the order of SetMin, SetMax, SetValue, Build and copies, the limits of a field and
\* of its copy are ordered and inside those of a new field, a built field has a value, and it
\* is built in both of its parts: no limit of a built field can still be moved.
FieldLimitsSound ==
  \A f \in {field, copied} :
    /\ f.min <= f.max
    /\ IsLength => 0 <= f.min /\ f.max <= MaxStart
    /\ f.fixed => f.initialized
    /\ f.fixed = f.mixinFixed
=============================================================================
