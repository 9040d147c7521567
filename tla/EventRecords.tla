----------------------------- MODULE EventRecords -----------------------------
(***************************************************************************)
(* What the structured logger hands to its sink: the fields of an event,   *)
(* how a value is rendered, and what redaction lets through of a URL and   *)
(* of a header.                                                            *)
(*                                                                         *)
(* A text is a sequence of UTF-16 units and words; "hi" and "lo" are the   *)
(* halves of a surrogate pair.                                             *)
(***************************************************************************)
EXTENDS Naturals, Sequences, SequencesExt, FiniteSets, Folds, TLC

FieldLength == 3   \* MAX_FIELD_LENGTH
SeenNames == 2     \* MAX_LOGGED_DROP_NAMES

Unrenderable == <<"unrenderable">>

-----------------------------------------------------------------------------
(* Values                                                                  *)

\* A value whose own code runs while it is rendered, and throws.
Hostile(value) == value.kind = "object" /\ value.own = "throws"

\* An item inside a value is one level deep, whatever it is.
RenderScalar(value) ==
  CASE value.kind = "null" -> <<"null">>
    [] value.kind = "object" -> <<"{...}">>
    [] value.kind = "list" -> <<"[...]">>
    [] OTHER -> value.text

\* The object's own toString, which may answer no string; without one, its
\* entries.
RenderNonPrimitive(value) ==
  CASE value.kind = "list" ->
         <<"[">> \o FlattenSeq([i \in DOMAIN value.items |-> RenderScalar(value.items[i])]) \o <<"]">>
    [] value.kind = "object" ->
         (CASE value.own = "entries" ->
                 <<"[">> \o FlattenSeq([i \in DOMAIN value.items |->
                              <<"k", "=">> \o RenderScalar(value.items[i])]) \o <<"]">>
            [] value.own = "string" -> value.text
            [] OTHER -> Unrenderable)
    [] OTHER -> value.text

\* truncate: the cut does not split a pair.
Truncate(rendered) ==
  LET end == IF rendered[FieldLength] = "hi" THEN FieldLength - 1 ELSE FieldLength
  IN  IF Len(rendered) <= FieldLength THEN rendered
      ELSE SubSeq(rendered, 1, end) \o <<"truncated">>

\* renderField: a number stays one.
RenderField(value) ==
  CASE value.kind = "null" -> <<"null">>
    [] value.kind = "number" -> value
    [] OTHER -> Truncate(RenderNonPrimitive(value))

-----------------------------------------------------------------------------
(* Loggers and events                                                      *)

Overlay(under, over) == over @@ under
Rendered(fields) == [k \in DOMAIN fields |-> RenderField(fields[k])]

\* One family of loggers: what they share, the event being built and what the
\* sink has got.
FreshFamily == [warned |-> FALSE, event |-> [state |-> "none"], sunk |-> <<>>, made |-> {}]

\* atLevel: diagnostic fields first, so that the logger's own win; a level that
\* is off costs nothing more than the question.
AtLevel(family, wiring, op) ==
  IF op.level \notin wiring.enabled
  THEN [family EXCEPT !.event = [state |-> "noop"], !.made = @ \cup {op.level}]
  ELSE [family EXCEPT
          !.event = [state |-> "open", level |-> op.level, tag |-> "",
                     fields |-> Rendered(Overlay(wiring.diagnostic,
                                  Overlay(wiring.global, op.context)))],
          !.made = @ \cup {op.level, "verbose"}]

\* field: the reserved key is not taken, and the first time that is worth a
\* warning.
SetField(family, wiring, op) ==
  CASE family.event.state \notin {"open", "emitted"} -> family
    [] family.event.state \in {"open", "emitted"} /\ op.key # "event" ->
         [family EXCEPT !.event.fields = (op.key :> RenderField(op.value)) @@ @]
    [] "verbose" \in wiring.enabled /\ ~family.warned /\ op.key = "event"
       /\ family.event.state \in {"open", "emitted"} ->
         [family EXCEPT !.warned = TRUE,
            !.sunk = Append(@, [level |-> "verbose", fields |-> "event" :> "collision"])]
    [] OTHER -> family

SetTag(family, op) ==
  IF family.event.state = "open" THEN [family EXCEPT !.event.tag = op.name] ELSE family

\* emit: once; the tag replaces whatever the fields hold under its key.
Emitted(family) ==
  LET e == family.event IN
  IF e.state # "open" THEN family
  ELSE [family EXCEPT !.event.state = "emitted",
          !.sunk = Append(@, [level |-> e.level,
             fields |-> IF e.tag = "" THEN e.fields ELSE ("event" :> e.tag) @@ e.fields])]

LoggerStep(family, wiring, op) ==
  CASE op.call = "atLevel" -> AtLevel(family, wiring, op)
    [] op.call \in {"field", "cause"} -> SetField(family, wiring, op)
    [] op.call = "event" -> SetTag(family, op)
    [] op.call = "emit" -> Emitted(family)

RunLogger(wiring, ops) ==
  FoldLeft(LAMBDA family, op : LoggerStep(family, wiring, op), FreshFamily, ops)

\* The adapters: a level's name there, and one debugger for each level asked
\* about.
PinoLevel == [error |-> "error", warning |-> "warn", info |-> "info", verbose |-> "debug"]
Debuggers(wiring, ops) == RunLogger(wiring, ops).made

\* createDropLogger: a name is a warning until it is among those remembered,
\* the oldest of which is forgotten.
LogDropped(mode, names) ==
  LET Step(acc, name) ==
        CASE mode = "quiet" -> acc
          [] mode = "all" -> [acc EXCEPT !.lines = Append(@, <<name, "warning">>)]
          [] mode = "first-per-name" /\ name \in ToSet(acc.seen) ->
               [acc EXCEPT !.lines = Append(@, <<name, "verbose">>)]
          [] OTHER ->
               LET seen == Append(acc.seen, name) IN
                 [lines |-> Append(acc.lines, <<name, "warning">>),
                  seen |-> IF Len(seen) > SeenNames THEN Tail(seen) ELSE seen]
  IN  FoldLeft(Step, [lines |-> <<>>, seen |-> <<>>], names)

-----------------------------------------------------------------------------
(* Redaction.  A URL is its parts; "secret" is what must not be seen.      *)

Kept(pair, allowed) ==
  IF pair.key \in allowed \/ ~pair.eq THEN pair ELSE [pair EXCEPT !.value = "***"]

\* A parameter is always written with its '='; a fragment is a query only if
\* there is one in it.
RedactQueryString(pairs, allowed) ==
  [i \in DOMAIN pairs |-> [Kept([pairs[i] EXCEPT !.eq = TRUE], allowed) EXCEPT !.eq = TRUE]]
RedactFragment(pairs, allowed) ==
  IF \A i \in DOMAIN pairs : ~pairs[i].eq THEN pairs
  ELSE [i \in DOMAIN pairs |-> Kept(pairs[i], allowed)]

\* redactUrl: what cannot be parsed is not shown at all.
RedactUrl(url, allowed) ==
  IF ~url.absolute THEN [sentinel |-> "malformed"]
  ELSE [url EXCEPT !.userinfo = IF @ = "" THEN "" ELSE "***:***",
                   !.query = RedactQueryString(@, allowed),
                   !.fragment = RedactFragment(@, allowed)]

\* A reference that is not absolute loses its query and its fragment.
RedactReference(url, allowed) ==
  IF url.absolute THEN RedactUrl(url, allowed)
  ELSE IF url.query = <<>> /\ url.fragment = <<>> THEN url
  ELSE [url EXCEPT !.query = <<[key |-> "", eq |-> FALSE, value |-> "***"]>>, !.fragment = <<>>]

ShownHeaders == {"content-type", "content-length", "accept", "user-agent"}
RedactHeaderValue(name, value, policy, allowed) ==
  CASE name \in {"location", "content-location"} -> {RedactReference(value, allowed)}
    [] name \in ShownHeaders -> {value}
    [] OTHER -> {v \in {"REDACTED"} : policy = "mark"}

-----------------------------------------------------------------------------
(* What these must be                                                      *)

\* A rendered text is short, ends in no half of a pair that was whole, and is
\* the beginning of what was rendered.
RenderingHolds(value) ==
  LET shown == RenderField(value)
      full == RenderNonPrimitive(value)
  IN  value.kind \notin {"null", "number"} =>
        /\ Len(shown) <= FieldLength + 1
        /\ shown = full \/ (Last(shown) = "truncated" /\ IsPrefix(Front(shown), full))
        /\ shown # full => Len(full) > FieldLength /\ Len(shown) >= FieldLength
        /\ (\A i \in DOMAIN full : full[i] = "hi" => i < Len(full) /\ full[i + 1] = "lo") =>
             \A i \in DOMAIN shown : shown[i] = "hi" => i < Len(shown) /\ shown[i + 1] = "lo"
        /\ Hostile(value) => shown = Unrenderable

\* An event reaches the sink once, if its level is on, with the last value of
\* each key set before that and the last tag; whatever is logged, a family
\* warns once.
RecordsHold(wiring, ops) ==
  LET family == RunLogger(wiring, ops)
      begins == {i \in DOMAIN ops : ops[i].call = "atLevel"}
      begin(i) == CHOOSE b \in begins : b <= i /\ \A c \in begins : c <= i => c <= b
      open(i) == /\ \E b \in begins : b <= i
                 /\ ops[begin(i)].level \in wiring.enabled
      emits == {i \in DOMAIN ops : ops[i].call = "emit" /\ open(i) /\
                  \A j \in begin(i) .. i - 1 : ops[j].call # "emit"}
      last(S) == CHOOSE i \in S : \A j \in S : j <= i
      sets(i, key) == {j \in begin(i) .. i : ops[j].call \in {"field", "cause"} /\ ops[j].key = key}
      tags(i) == {j \in begin(i) .. i : ops[j].call = "event"}
      tag(i) == IF tags(i) = {} THEN "" ELSE ops[last(tags(i))].name
      base(i) == Overlay(wiring.diagnostic, Overlay(wiring.global, ops[begin(i)].context))
      record(i) ==
        LET keys == DOMAIN base(i) \cup {ops[j].key : j \in {k \in begin(i) .. i : ops[k].call \in {"field", "cause"}}}
            fields == [key \in keys \ {"event"} |->
              RenderField(IF sets(i, key) = {} THEN base(i)[key] ELSE ops[last(sets(i, key))].value)]
        IN  [level |-> ops[begin(i)].level,
             fields |-> IF tag(i) = "" THEN fields ELSE ("event" :> tag(i)) @@ fields]
      warning == [level |-> "verbose", fields |-> "event" :> "collision"]
      records == SelectSeq(family.sunk, LAMBDA r : r # warning)
  IN  /\ records = [n \in 1 .. Cardinality(emits) |->
                      record(CHOOSE i \in emits : Cardinality({j \in emits : j <= i}) = n)]
      /\ Len(family.sunk) <= Len(records) + 1
      /\ \A i \in DOMAIN records : records[i].level \in wiring.enabled
      /\ Debuggers(wiring, ops) \subseteq DOMAIN PinoLevel

\* The first mention of a name is a warning, and so many warnings in a row as
\* are remembered, and one more, are about different names.
DropLogHolds(names) ==
  LET log == LogDropped("first-per-name", names)
      warned == SelectSeq(log.lines, LAMBDA line : line[2] = "warning")
  IN  /\ \A i \in DOMAIN names :
           (\A j \in 1 .. i - 1 : names[j] # names[i]) => log.lines[i] = <<names[i], "warning">>
      /\ \A i, j \in DOMAIN warned :
           i < j /\ j - i <= SeenNames => warned[i][1] # warned[j][1]
      /\ Len(log.seen) <= SeenNames /\ Len(log.lines) = Len(names)
      /\ LogDropped("quiet", names).lines = <<>>
      /\ \A i \in DOMAIN names : LogDropped("all", names).lines[i] = <<names[i], "warning">>

\* Of a URL everything is shown but its credentials and the values of the
\* parameters that are not allowed; done twice it is done once.
RedactionHolds(url, allowed) ==
  LET shown == RedactUrl(url, allowed)
      hidden(pairs) == \A i \in DOMAIN pairs :
        pairs[i].value = "secret" => pairs[i].key \in allowed \/ ~pairs[i].eq
      header(name) == RedactHeaderValue(name, url, "mark", allowed)
  IN  /\ url.absolute =>
           /\ shown.userinfo # "user" /\ hidden(shown.query) /\ hidden(shown.fragment)
           /\ [i \in DOMAIN shown.query |-> shown.query[i].key] = [i \in DOMAIN url.query |-> url.query[i].key]
           /\ RedactUrl(shown, allowed) = shown
      /\ \A v \in header("location") :
           hidden(v.query) /\ hidden(v.fragment) /\ (~url.absolute => v.path = url.path)
      /\ header("authorization") = {"REDACTED"}
      /\ RedactHeaderValue("authorization", url, "omit", allowed) = {}

-----------------------------------------------------------------------------
(* The values the run asks about                                           *)

TextValue(text) == [kind |-> "text", text |-> text]
Items == {<<TextValue(<<"a">>)>>, <<TextValue(<<"a">>), [kind |-> "list", items |-> <<>>], [kind |-> "null"]>>}
LoggedValues ==
  {TextValue(t) : t \in UNION {[1 .. n -> {"c", "hi", "lo"}] : n \in 0 .. 4}}
  \cup [kind : {"object"}, own : {"entries"}, items : Items]
  \cup [kind : {"object"}, own : {"string"}, text : {<<"c">>}]
  \cup [kind : {"object"}, own : {"throws", "number"}]
  \cup [kind : {"list"}, items : Items] \cup {[kind |-> "null"], [kind |-> "number"]}

Wirings ==
  {[enabled |-> e, diagnostic |-> d, global |-> "k" :> [kind |-> "null"]] :
     e \in {{"error"}, {"error", "verbose"}}, d \in {<<>>, "k" :> [kind |-> "number"]}}
LoggerCalls ==
  [call : {"atLevel"}, level : {"error", "info"}, context : {<<>>, "c" :> [kind |-> "number"]}]
  \cup [call : {"field"}, key : {"k", "event"}, value : {TextValue(<<"c">>)}]
  \cup [call : {"cause"}, key : {"cause"}, value : {[kind |-> "object", own |-> "throws"]}]
  \cup [call : {"event"}, name : {"", "tag"}] \cup [call : {"emit"}]

Pairs == UNION {[1 .. n -> [key : {"token", "api-version"}, eq : BOOLEAN, value : {"secret"}]] : n \in 0 .. 2}
RedactedUrls ==
  [absolute : BOOLEAN, userinfo : {"", "user"}, path : {"/p"}, query : Pairs, fragment : Pairs]
=============================================================================
