----------------------------- MODULE WireFormat -----------------------------
(***************************************************************************)
(* The part of the protobuf library that the generated messages use. A     *)
(* string is a sequence of bytes, a message on the wire a sequence of      *)
(* fields [num, wt, val, len] with the wire type and, for type 2, the      *)
(* length that is written before the value.                                *)
(***************************************************************************)
EXTENDS Integers, Sequences, SequencesExt

CONSTANTS
  W32, W64,       \* widths of int32 and int64
  GroupBits,      \* bits of a number in a byte of a varint
  Null            \* the null pointer

ASSUME WireAssumption == W32 \in Nat \ {0} /\ W64 \in Nat /\ W64 >= W32 /\ GroupBits \in Nat \ {0}

VarintSize(v) == CHOOSE n \in 1 .. W64 + 8 : v < 2^(GroupBits * n) /\ (n = 1 \/ v >= 2^(GroupBits * (n - 1)))
LengthSize(n) == VarintSize(n) + n

\* An int32 is written as the 64 bit number with the same sign; ReadVarint gives 64 bits.
SignExtend(v) == IF v < 2^(W32 - 1) THEN v ELSE v + 2^W64 - 2^W32
Varint(num, v) == <<[num |-> num, wt |-> 0, val |-> v, len |-> 0]>>
LengthDelimited(num, val, len) == <<[num |-> num, wt |-> 2, val |-> val, len |-> len]>>

\* What the fields of a message really take, and what a message with sub-messages takes.
FieldLen(f) == 1 + (IF f.wt = 0 THEN VarintSize(f.val) ELSE VarintSize(f.len) + Len(f.val))
FlatLen(w) == FoldLeft(LAMBDA n, f : n + FieldLen(f), 0, w)
NestedLen(w) == FoldLeft(LAMBDA n, f : n + 1 + (IF f.wt = 0 THEN VarintSize(f.val) ELSE VarintSize(f.len) + FlatLen(f.val)), 0, w)
=============================================================================
