----------------------------- MODULE HeaderFields -----------------------------
(***************************************************************************)
(* Headers and their builder, and the places that rewrite a whole set of   *)
(* headers: a transport on the way out and in, the client identity and the *)
(* idempotency key.                                                        *)
(*                                                                         *)
(* Headers are a sequence of fields in insertion order.  A name is the     *)
(* lower-case key with a spelling; a value is its number and its kind:     *)
(* "plain", "obs" (bytes that may be received and not sent) or "ctl".      *)
(***************************************************************************)
EXTENDS Naturals, Sequences, SequencesExt, FiniteSets, Folds

Spelled(lower, spelling) == [lower |-> lower, spelling |-> spelling]
BadName == Spelled("", "bad")

ValidName(name) == name.lower # ""
ValidOutbound(value) == value.kind = "plain"
ValidInbound(value) == value.kind # "ctl"

-----------------------------------------------------------------------------
(* The value and its builder                                               *)

FieldAt(fs, lower) == {i \in DOMAIN fs : fs[i].name.lower = lower}
HasField(fs, lower) == FieldAt(fs, lower) # {}
TheField(fs, lower) == fs[CHOOSE i \in FieldAt(fs, lower) : TRUE]
GetAll(fs, lower) == IF HasField(fs, lower) THEN TheField(fs, lower).values ELSE <<>>

\* #append keeps the spelling the name came with first.
AppendField(fs, name, value) ==
  IF HasField(fs, name.lower)
  THEN [i \in DOMAIN fs |-> IF i \in FieldAt(fs, name.lower)
                            THEN [fs[i] EXCEPT !.values = Append(@, value)] ELSE fs[i]]
  ELSE Append(fs, [name |-> name, values |-> <<value>>])

\* #replace takes the new spelling and keeps the place; null removes the field.
ReplaceField(fs, name, value) ==
  IF HasField(fs, name.lower)
  THEN [i \in DOMAIN fs |-> IF i \in FieldAt(fs, name.lower)
                            THEN [name |-> name, values |-> <<value>>] ELSE fs[i]]
  ELSE Append(fs, [name |-> name, values |-> <<value>>])

RemoveField(fs, name) ==
  IF HasField(fs, name.lower) THEN RemoveAt(fs, CHOOSE i \in FieldAt(fs, name.lower) : TRUE) ELSE fs

\* A call that is refused throws, and leaves the builder as it was.
Accepted(call, name, value) ==
  /\ ValidName(name)
  /\ CASE call \in {"add", "set"} -> ValidOutbound(value)
       [] call \in {"addInbound", "setInbound"} -> ValidInbound(value)
       [] OTHER -> TRUE

EntriesOf(fs) ==
  FlattenSeq([i \in DOMAIN fs |->
    [j \in DOMAIN fs[i].values |-> [name |-> fs[i].name, value |-> fs[i].values[j]]]])

\* newBuilder: what a received value may be, a copy may be.
CopyFields(fs) ==
  FoldLeft(LAMBDA copy, e : IF Accepted("addInbound", e.name, e.value)
                            THEN AppendField(copy, e.name, e.value) ELSE copy, <<>>, EntriesOf(fs))

Edited(fs, op) ==
  IF op.call = "newBuilder" THEN CopyFields(fs)
  ELSE IF ~Accepted(op.call, op.name, op.value) THEN fs
  ELSE CASE op.call \in {"add", "addInbound"} -> AppendField(fs, op.name, op.value)
         [] op.call \in {"set", "setInbound"} -> ReplaceField(fs, op.name, op.value)
         [] op.call = "remove" -> RemoveField(fs, op.name)

HeadersBuilt(ops) == FoldLeft(Edited, <<>>, ops)

\* equals: the same names with the same values, in whatever order of names.
HeadersEqual(fs, gs) ==
  /\ Len(fs) = Len(gs)
  /\ \A i \in DOMAIN fs : GetAll(gs, fs[i].name.lower) = fs[i].values

-----------------------------------------------------------------------------
(* Rewrites                                                                *)

ContentType == Spelled("content-type", "Content-Type")

\* mapOutboundHeaders: what may not go out is dropped by name, and a body's
\* media type fills in for a Content-Type the caller did not set.
MapOutbound(fs, forbidden, mediaType) ==
  LET Step(acc, e) ==
        IF e.name.lower \in forbidden \/ ~Accepted("add", e.name, e.value)
        THEN [acc EXCEPT !.dropped = Append(@, e.name.lower)]
        ELSE [acc EXCEPT !.sent = AppendField(@, e.name, e.value)]
      mapped == FoldLeft(Step, [sent |-> <<>>, dropped |-> <<>>], EntriesOf(fs))
  IN  IF mediaType = {} \/ HasField(fs, ContentType.lower) THEN mapped
      ELSE IF \E v \in mediaType : ~ValidOutbound(v)
      THEN [mapped EXCEPT !.dropped = Append(@, ContentType.lower)]
      ELSE [mapped EXCEPT !.sent = ReplaceField(@, ContentType, CHOOSE v \in mediaType : TRUE)]

\* degradeInboundHeaders: the fields that cannot be kept go, the response stays.
DegradeInbound(raw) ==
  LET Step(acc, e) ==
        IF Accepted("addInbound", e.name, e.value)
        THEN [acc EXCEPT !.headers = AppendField(@, e.name, e.value)]
        ELSE [acc EXCEPT !.dropped = Append(@, e.name)]
  IN  FoldLeft(Step, [headers |-> <<>>, dropped |-> <<>>], raw)

\* composeHeaders of the client identity: the token line joins the first value.
\* The values it puts back are checked as sent ones; a received one throws.
ComposeThrows(fs, name, replace) ==
  ~replace /\ \E i \in DOMAIN GetAll(fs, name.lower) : ~ValidOutbound(GetAll(fs, name.lower)[i])

Joined(value, line) == [value EXCEPT !.text = @ \o line]
ComposeHeaders(fs, name, replace, line) ==
  LET existing == IF replace THEN <<>> ELSE GetAll(fs, name.lower)
      first == IF existing = <<>> THEN [kind |-> "plain", text |-> line] ELSE Joined(existing[1], line)
      others == IF existing = <<>> THEN <<>> ELSE Tail(existing)
  IN  FoldLeft(LAMBDA gs, v : AppendField(gs, name, v), ReplaceField(CopyFields(fs), name, first), others)

ClientIdentity(fs, name, replace, line) ==
  IF line = <<>> THEN fs ELSE ComposeHeaders(fs, name, replace, line)

\* idempotencyKeyStep: a key for the methods that need one, the caller's kept.
IdempotencyKey(fs, method, name, respectExisting, key) ==
  IF \/ method \notin {"POST", "PUT", "PATCH"}
     \/ respectExisting /\ HasField(fs, name.lower)
  THEN fs ELSE ReplaceField(CopyFields(fs), name, key)

-----------------------------------------------------------------------------
(* What these must be, said without the builder                            *)

\* A sequence of calls on one builder, read as a history.  A name lives by the
\* accepted calls since its last removal, and what it holds are the values of
\* those since its last set, in their order, under the spelling of the first of
\* them.  The names come in the order of their births.  newBuilder changes none
\* of it.
About(ops, i, lower) ==
  /\ ops[i].call # "newBuilder" /\ ops[i].name.lower = lower
  /\ Accepted(ops[i].call, ops[i].name, ops[i].value)
SinceRemoval(ops, lower) ==
  {i \in DOMAIN ops : /\ About(ops, i, lower)
                     /\ \A j \in i .. Len(ops) : About(ops, j, lower) => ops[j].call # "remove"}
SinceSet(ops, lower) ==
  {i \in SinceRemoval(ops, lower) :
     \A j \in i + 1 .. Len(ops) : About(ops, j, lower) => ops[j].call \notin {"set", "setInbound"}}

\* The field that a set of calls left behind.
LeftBy(ops, calls, field) ==
  \E at \in [DOMAIN field.values -> calls] :
    /\ calls = {at[k] : k \in DOMAIN field.values}
    /\ \A k \in DOMAIN field.values :
         field.values[k] = ops[at[k]].value /\ \A j \in 1 .. k - 1 : at[j] < at[k]
    /\ field.values # <<>> /\ field.name = ops[at[1]].name

\* The built headers are the history's, and a copy is equal to its original.
BuilderKeepsHistory(ops) ==
  LET fs == HeadersBuilt(ops)
      calls(i) == SinceRemoval(ops, fs[i].name.lower)
  IN  /\ \A i \in DOMAIN ops : SinceRemoval(ops, ops[i].name.lower) # {} => HasField(fs, ops[i].name.lower)
      /\ \A i \in DOMAIN fs : LeftBy(ops, SinceSet(ops, fs[i].name.lower), fs[i])
      /\ \A i \in DOMAIN fs : \A j \in 1 .. i - 1 : \E birth \in calls(j) : \A c \in calls(i) : birth < c
      /\ CopyFields(fs) = fs /\ HeadersEqual(fs, Reverse(fs))

\* On its way out or in, an entry is passed on or named as dropped, whatever is
\* passed on is legal, and what was passed on keeps its order.
MappingAccountsForAll(ops, forbidden, mediaType) ==
  LET fs == HeadersBuilt(ops)
      mapped == MapOutbound(fs, forbidden, mediaType)
      legal(e) == ValidOutbound(e.value) /\ e.name.lower \notin forbidden
      sent == SelectSeq(EntriesOf(mapped.sent), LAMBDA e :
                HasField(fs, ContentType.lower) \/ e.name.lower # ContentType.lower)
      degraded == DegradeInbound(EntriesOf(fs) \o <<[name |-> BadName, value |-> [kind |-> "plain", text |-> <<>>]]>>)
  IN  /\ sent = SelectSeq(EntriesOf(fs), legal)
      /\ \A i \in DOMAIN EntriesOf(fs) :
           ~legal(EntriesOf(fs)[i]) => \E j \in DOMAIN mapped.dropped :
             mapped.dropped[j] = EntriesOf(fs)[i].name.lower
      /\ Len(GetAll(mapped.sent, ContentType.lower)) <= 1 \/ HasField(fs, ContentType.lower)
      /\ degraded.headers = fs /\ degraded.dropped = <<BadName>>

\* The identity line ends up once in its header, after what was there, and no
\* other field and no further value of that one is touched.  A key that the
\* caller set stays.
RewritesKeepTheRest(ops, name, line, key) ==
  LET fs == HeadersBuilt(ops)
      others(gs) == SelectSeq(gs, LAMBDA f : f.name.lower # name.lower)
      appended == ClientIdentity(fs, name, FALSE, line)
      old == GetAll(fs, name.lower)
      new == GetAll(appended, name.lower)
  IN  /\ others(appended) = others(fs) /\ others(ClientIdentity(fs, name, TRUE, line)) = others(fs)
      /\ GetAll(ClientIdentity(fs, name, TRUE, line), name.lower) = <<[kind |-> "plain", text |-> line]>>
      /\ Len(new) = (IF old = <<>> THEN 1 ELSE Len(old)) /\ (old # <<>> => Tail(new) = Tail(old))
      /\ new[1].text = (IF old = <<>> THEN <<>> ELSE old[1].text) \o line
      /\ ClientIdentity(fs, name, FALSE, <<>>) = fs
      /\ IdempotencyKey(fs, "GET", name, TRUE, key) = fs
      /\ GetAll(IdempotencyKey(fs, "POST", name, TRUE, key), name.lower)
           = IF old = <<>> THEN <<key>> ELSE old

-----------------------------------------------------------------------------
(* The calls the run asks about                                            *)

Plain(text) == [kind |-> "plain", text |-> text]
HeaderCalls ==
  [call : {"add", "set", "addInbound", "remove"},
   name : {Spelled("x", "X"), Spelled("x", "x"), Spelled("content-type", "Content-Type")},
   value : {Plain(<<"a">>)}]
  \cup [call : {"add", "addInbound", "setInbound"}, name : {Spelled("x", "x")},
        value : {[kind |-> "obs", text |-> <<"b">>]}]
  \cup [call : {"newBuilder"}, name : {BadName}, value : {Plain(<<>>)}]
  \cup [call : {"set"}, name : {BadName}, value : {Plain(<<"a">>)}]

HeadersHold(ops) ==
  /\ BuilderKeepsHistory(ops)
  /\ \A forbidden \in {{}, {"x"}}, mediaType \in {{}, {Plain(<<"m">>)}} :
       MappingAccountsForAll(ops, forbidden, mediaType)
  /\ ~ComposeThrows(HeadersBuilt(ops), Spelled("x", "X"), FALSE) =>
       RewritesKeepTheRest(ops, Spelled("x", "X"), <<"line">>, Plain(<<"key">>))
=============================================================================
