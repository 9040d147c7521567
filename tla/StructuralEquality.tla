-------------------------- MODULE StructuralEquality --------------------------
(***************************************************************************)
(* Equality and hash of values by what they hold.  A value is a record of  *)
(* its kind: a scalar with its bits, a plain list or a typed array with    *)
(* its items.  Numbers keep apart what Object.is keeps apart: NaN is equal *)
(* to itself and the two zeroes are not.                                   *)
(***************************************************************************)
EXTENDS Integers, Sequences, SequencesExt

HashWidth == 2 ^ 20   \* of the hash: 32 bits in the code, below TLC's own here

IsIndexedCollection(value) == value.kind \in {"list", "bytes", "floats"}
IsAbsent(value) == value.kind \in {"null", "undefined"}

\* isSameCollectionKind: two lists, or typed arrays of one type.
IsSameCollectionKind(a, b) == a.kind = b.kind

RECURSIVE DeepEqual(_, _)
DeepEqual(a, b) ==
  IF IsAbsent(a) \/ IsAbsent(b) \/ ~IsIndexedCollection(a) \/ ~IsIndexedCollection(b) THEN a = b
  ELSE /\ IsSameCollectionKind(a, b)
       /\ Len(a.items) = Len(b.items)
       /\ \A i \in DOMAIN a.items : DeepEqual(a.items[i], b.items[i])

HashNumber(value) ==
  CASE value.is = "NaN" -> 32760 [] value.is = "-0" -> 1 [] OTHER -> value.truncated % HashWidth
HashString(codes) == FoldLeft(LAMBDA hash, code : (hash * 31 + code) % HashWidth, 0, codes)

RECURSIVE DeepHash(_)
DeepHash(value) ==
  CASE IsAbsent(value) -> 0
    [] IsIndexedCollection(value) ->
         FoldLeft(LAMBDA hash, item : (hash * 31 + DeepHash(item)) % HashWidth, 17, value.items)
    [] value.kind = "number" -> HashNumber(value)
    [] value.kind \in {"string", "bigint"} -> HashString(value.codes)
    [] value.kind = "boolean" -> IF value.is THEN 1231 ELSE 1237
    [] OTHER -> 1

-----------------------------------------------------------------------------

\* Values that are equal hash alike, everything is equal to itself, and a list
\* is never equal to a typed array of the same items.
EqualityHolds(a, b) ==
  /\ DeepEqual(a, b) => DeepHash(a) = DeepHash(b)
  /\ DeepEqual(a, b) = DeepEqual(b, a)
  /\ DeepEqual(a, a)
  /\ DeepEqual(a, b) => a.kind = b.kind

NumberValue(is, truncated) == [kind |-> "number", is |-> is, truncated |-> truncated]
ScalarForms ==
  {[kind |-> "null"], [kind |-> "undefined"], NumberValue("NaN", 0), NumberValue("-0", 0), NumberValue("0", 0),
   NumberValue("1", 1), NumberValue("1.5", 1), [kind |-> "string", codes |-> <<49>>],
   [kind |-> "bigint", codes |-> <<49>>], [kind |-> "boolean", is |-> TRUE], [kind |-> "object", id |-> 1]}
ListForms == {[kind |-> k, items |-> s] : k \in {"list", "floats"}, s \in UNION {[1 .. n -> ScalarForms] : n \in 0 .. 1}}
ComparedForms ==
  ScalarForms \cup ListForms
    \cup {[kind |-> "list", items |-> <<inner, NumberValue("1", 1)>>] : inner \in ListForms}
=============================================================================
