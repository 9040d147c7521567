------------------------------- MODULE JsonWire -------------------------------
(***************************************************************************)
(* The JSON codec between values and the wire, and the three states of a   *)
(* PATCH field: absent, null and present.                                  *)
(*                                                                         *)
(* A value is a tree: an object is a function of its keys, a list a        *)
(* sequence.  "undefined" and "bigint" are values JSON has no form for.    *)
(* What throws answers {}, and what answers a value a set of it.           *)
(***************************************************************************)
EXTENDS Integers, Sequences, SequencesExt, FiniteSets, FiniteSetsExt, TLC

Null == [t |-> "null"]
Undefined == [t |-> "undefined"]
Number(n) == [t |-> "number", n |-> n]
Object(fields) == [t |-> "object", fields |-> fields]
List(items) == [t |-> "list", items |-> items]

-----------------------------------------------------------------------------
(* Tristates                                                               *)

Tri(kind, value) == [t |-> "tristate", kind |-> kind, value |-> value]
AbsentField == Tri("absent", Undefined)
NullField == Tri("null", Undefined)
PresentField(value) == Tri("present", value)

OfNullable(value) == IF value \in {Null, Undefined} THEN NullField ELSE PresentField(value)
FoldTristate(tri, onAbsent, onNull, onPresent) ==
  CASE tri.kind = "absent" -> onAbsent [] tri.kind = "null" -> onNull [] OTHER -> onPresent
ValueOrNull(tri) == FoldTristate(tri, Null, Null, tri.value)

\* innermostTristate: a Present of a Tristate is what it holds.
RECURSIVE Innermost(_)
Innermost(tri) ==
  IF tri.kind = "present" /\ tri.value.t = "tristate" THEN Innermost(tri.value) ELSE tri

\* At the top an absent value cannot be left out.
DegradeTopLevel(value) == IF value.t = "tristate" THEN ValueOrNull(Innermost(value)) ELSE value

\* tristateReplacer: what JSON.stringify is told to write for a value.
Replaced(value, installed) ==
  IF value.t = "tristate" /\ installed
  THEN FoldTristate(Innermost(value), Undefined, Null, Innermost(value).value) ELSE value

-----------------------------------------------------------------------------
(* Encoding.  JSON.stringify replaces a value once, then goes into what it *)
(* was replaced by; an undefined key is left out, an undefined item null.  *)

RECURSIVE Stringify(_, _)
Stringify(value, installed) ==
  LET plain == Replaced(value, installed)
      entries == IF plain.t = "tristate"
                 THEN IF plain.kind = "present"
                      THEN ("kind" :> Number(0)) @@ ("value" :> plain.value) ELSE "kind" :> Number(0)
                 ELSE IF plain.t = "object" THEN plain.fields ELSE <<>>
      written == [k \in DOMAIN entries |-> Stringify(entries[k], installed)]
      items == IF plain.t = "list"
               THEN [i \in DOMAIN plain.items |-> Stringify(plain.items[i], installed)] ELSE <<>>
      only(set) == CHOOSE w \in set : TRUE
  IN  CASE plain.t = "bigint" -> {}
        [] plain.t \in {"object", "tristate"} ->
             {Object([k \in {l \in DOMAIN written : only(written[l]) # Undefined} |-> only(written[k])]) :
                ok \in {TRUE} \cap {\A k \in DOMAIN written : written[k] # {}}}
        [] plain.t = "list" ->
             {List([i \in DOMAIN items |-> IF only(items[i]) = Undefined THEN Null ELSE only(items[i])]) :
                ok \in {TRUE} \cap {\A i \in DOMAIN items : items[i] # {}}}
        [] OTHER -> {plain}

EncodeToText(value, installed) ==
  Stringify(IF installed THEN DegradeTopLevel(value) ELSE value, installed) \ {Undefined}

\* serializeInto: all of the bytes at the offset, or none.
SerializeInto(size, target, offset) ==
  IF offset \notin 0 .. Len(target) \/ size > Len(target) - offset THEN {}
  ELSE {[i \in DOMAIN target |-> IF i \in offset + 1 .. offset + size THEN "new" ELSE target[i]]}

-----------------------------------------------------------------------------
(* Decoding.  A schema is "any", "number", a tristate of one or an object  *)
(* of tristates; the schema's own code is external.                        *)

RECURSIVE ParseSchema(_, _)
TristateParse(inner, input) ==
  CASE input = Undefined -> {AbsentField}
    [] input = Null -> {NullField}
    [] OTHER -> {PresentField(v) : v \in ParseSchema(inner, input) \ {Null, Undefined}}

\* tristateObject: a key that the wire does not own is missing, and a key the
\* shape does not know is kept.
TristateObjectParse(shape, input) ==
  LET raw(k) == IF k \in DOMAIN input.fields THEN input.fields[k] ELSE Undefined
      parsed == [k \in DOMAIN shape |-> TristateParse(shape[k], raw(k))]
  IN  IF input.t # "object" \/ \E k \in DOMAIN parsed : parsed[k] = {} THEN {}
      ELSE {Object([k \in DOMAIN parsed |-> CHOOSE v \in parsed[k] : TRUE] @@ input.fields)}

ParseSchema(schema, input) ==
  CASE schema.is = "any" -> {input}
    [] schema.is = "number" -> {v \in {input} : v.t = "number"}
    [] schema.is = "tristate" -> TristateParse(schema.inner, input)
    [] schema.is = "object" -> TristateObjectParse(schema.shape, input)

\* decodeText: a wire null is refused before the schema sees it.
DecodeJson(parsed, target) ==
  IF parsed = Null /\ ~target.admitsNull THEN {} ELSE ParseSchema(target.schema, parsed)

-----------------------------------------------------------------------------
(* What these must be                                                      *)

\* The states a nest of Tristates can still be told from on the wire.
RECURSIVE Collapsed(_)
Collapsed(value) ==
  CASE value.t = "tristate" /\ Innermost(value).kind # "present" -> Tri(Innermost(value).kind, Undefined)
    [] value.t = "tristate" -> PresentField(Collapsed(Innermost(value).value))
    [] value.t = "object" -> Object([k \in DOMAIN value.fields |-> Collapsed(value.fields[k])])
    [] OTHER -> value

RECURSIVE HasInside(_, _)
HasInside(value, t) ==
  \/ value.t = t
  \/ value.t = "object" /\ \E k \in DOMAIN value.fields : HasInside(value.fields[k], t)
  \/ value.t = "list" /\ \E i \in DOMAIN value.items : HasInside(value.items[i], t)
  \/ value.t = "tristate" /\ HasInside(value.value, t)

\* A patch arrives with the states it was sent with, field by field; nothing of
\* a Tristate itself is on the wire; and an item of a list keeps its place.
PatchesHold(fields) ==
  LET patch == Object(fields)
      wire == EncodeToText(patch, TRUE)
      number == [is |-> "object", shape |-> [k \in DOMAIN fields |-> [is |-> "number"]]]
      list == List([i \in 1 .. Cardinality(DOMAIN fields) |-> fields[SetToSeq(DOMAIN fields)[i]]])
  IN  /\ \A w \in wire :
           /\ ~HasInside(w, "tristate") /\ ~HasInside(w, "undefined")
           /\ \A decoded \in DecodeJson(w, [schema |-> number, admitsNull |-> FALSE]) :
                [k \in DOMAIN fields |-> decoded.fields[k]]
                  = [k \in DOMAIN fields |-> Collapsed(fields[k])]
           /\ \A k \in DOMAIN fields :
                (k \in DOMAIN w.fields) <=> Collapsed(fields[k]) # AbsentField
      /\ wire = {} <=> HasInside(patch, "bigint")
      /\ \A w \in EncodeToText(list, TRUE) : Len(w.items) = Cardinality(DOMAIN fields)

\* Whatever stands at the top, there is a text or an error and never a lost
\* value, and null reaches only a target that admits it.
TopLevelHolds(value) ==
  LET any(admits) == [schema |-> [is |-> "any"], admitsNull |-> admits] IN
  /\ \A w \in EncodeToText(value, TRUE) :
       /\ ~HasInside(w, "tristate")
       /\ DecodeJson(w, any(FALSE)) = {w} \ {Null} /\ DecodeJson(w, any(TRUE)) = {w}
       /\ EncodeToText(w, TRUE) = {w} /\ EncodeToText(w, FALSE) = {w}
  /\ value.t = "tristate" => EncodeToText(value, TRUE) = EncodeToText(ValueOrNull(Innermost(value)), TRUE)
  /\ OfNullable(ValueOrNull(NullField)) = NullField

\* A write into a buffer touches the bytes it says, or none.
SerializeIntoHolds(size, room, offset) ==
  \A after \in SerializeInto(size, [i \in 1 .. room |-> "old"], offset) :
    /\ Len(after) = room /\ {i \in 1 .. room : after[i] = "new"} = offset + 1 .. offset + size

-----------------------------------------------------------------------------
(* The values the run asks about                                           *)

Leaves == {AbsentField, NullField, PresentField(Number(1)), PresentField(PresentField(Number(2))),
           PresentField(AbsentField), PresentField(NullField), PresentField([t |-> "bigint"]),
           PresentField(Object("k" :> AbsentField)), PresentField(List(<<AbsentField, Number(1)>>))}
PatchFields == UNION {[keys -> Leaves] : keys \in SUBSET {"a", "b"}}
TopValues == Leaves \cup {Undefined, Null, [t |-> "bigint"], Number(1)} \cup {Object(f) : f \in PatchFields}
=============================================================================
