---------------------------- MODULE RequestValues ----------------------------
(***************************************************************************)
(* The values a request is put together from: byte ranges, entity tags and *)
(* the conditions made of them, the per-call options, the request builder  *)
(* and an operation's path and query over a base URL.                      *)
(*                                                                         *)
(* What throws answers {}, and what answers a value a set of it.           *)
(***************************************************************************)
EXTENDS HeaderGrammars, Integers

MaxSafe == 7   \* Number.MAX_SAFE_INTEGER
Absent == [is |-> "absent"]

-----------------------------------------------------------------------------
(* Ranges                                                                  *)

SafeCount(n) == n \in 0 .. MaxSafe
Positive(n) == SafeCount(n) /\ n > 0

\* The parts of a range that is spelled out: a number, nothing, or no number.
NoPart == -1
NoNumber == -2
Spelling(start, end) == [unit |-> "bytes", start |-> start, end |-> end, dash |-> TRUE]
ByteRange(kind, start, length, raw) ==
  [kind |-> kind, start |-> start, length |-> length, raw |-> raw]

BoundedRange(start, length) ==
  IF SafeCount(start) /\ Positive(length) /\ SafeCount(start + length - 1)
  THEN {ByteRange("bounded", start, length, Spelling(start, start + length - 1))} ELSE {}
SuffixRange(length) ==
  IF Positive(length) THEN {ByteRange("suffix", 0, length, Spelling(NoPart, length))} ELSE {}
OpenRange(start) ==
  IF SafeCount(start) THEN {ByteRange("open", start, 0, Spelling(start, NoPart))} ELSE {}

\* parseByteCount: decimal digits of a safe number.
ByteCount(part) == {n \in {part} : SafeCount(n)}

\* parse: one range of bytes, whose parts may be missing.
ParseRange(raw) ==
  IF raw.unit # "bytes" \/ ~raw.dash THEN {}
  ELSE IF raw.start = NoPart
  THEN {ByteRange("suffix", 0, n, raw) : n \in {m \in ByteCount(raw.end) : Positive(m)}}
  ELSE IF raw.end = NoPart THEN {ByteRange("open", s, 0, raw) : s \in ByteCount(raw.start)}
  ELSE UNION {{ByteRange("bounded", s, e - s + 1, raw) : e \in {f \in ByteCount(raw.end) : Positive(f - s + 1)}} :
                s \in ByteCount(raw.start)}

-----------------------------------------------------------------------------
(* Entity tags and conditions                                              *)

AnyTag == [raw |-> <<"*">>, opaque |-> <<>>, weak |-> FALSE, any |-> TRUE]

\* ETag.parse: nothing for a blank text, and a throw is "malformed".
ParseETag(raw) ==
  LET trimmed == Trim(raw)
      weak == trimmed # <<>> /\ trimmed[1] = "W/"
      quoted == IF weak THEN Tail(trimmed) ELSE trimmed
      opaque == SubSeq(quoted, 2, Len(quoted) - 1)
  IN  CASE trimmed = <<>> -> Absent
        [] trimmed = <<"*">> -> AnyTag
        [] OTHER ->
             IF \/ Len(quoted) < 2 \/ quoted[1] # "quote" \/ quoted[Len(quoted)] # "quote"
                \/ (~weak /\ opaque = <<>>) \/ ~(ToSet(opaque) \subseteq {"c", "*", "W/"})
             THEN [is |-> "malformed"]
             ELSE [raw |-> trimmed, opaque |-> opaque, weak |-> weak, any |-> FALSE]

\* addEtag: '*' stands alone, and stands once.
AddETag(list, etag) ==
  CASE etag.any /\ (\E i \in DOMAIN list : ~list[i].any) -> {}
    [] etag.any /\ (\A i \in DOMAIN list : list[i].any) -> {<<AnyTag>>}
    [] ~etag.any /\ (\E i \in DOMAIN list : list[i].any) -> {}
    [] OTHER -> {Append(list, etag)}

\* A builder call that throws leaves the builder as it was.
NoConditions == [ifMatch |-> <<>>, ifNoneMatch |-> <<>>, modified |-> 0, unmodified |-> 0]
Conditioned(c, op) ==
  CASE op.call \in {"ifMatch", "ifNoneMatch"} ->
         (IF AddETag(c[op.call], op.tag) = {} THEN c
          ELSE [c EXCEPT ![op.call] = CHOOSE l \in AddETag(@, op.tag) : TRUE])
    [] op.call \in {"modified", "unmodified"} /\ op.date = 0 -> c
    [] OTHER -> [c EXCEPT ![op.call] = op.date]
Conditions(ops) == FoldLeft(Conditioned, NoConditions, ops)

\* newBuilder: the same calls again.
CopyConditions(c) ==
  LET tags(call) == [i \in DOMAIN c[call] |-> [call |-> call, tag |-> c[call][i]]]
      dates(call) == IF c[call] = 0 THEN <<>> ELSE <<[call |-> call, date |-> c[call]]>>
  IN  Conditions(tags("ifMatch") \o tags("ifNoneMatch") \o dates("modified") \o dates("unmodified"))

\* applyTo: a header for each condition there is, over what the request had.
ApplyConditions(c, headers) ==
  LET tags(call) == [i \in DOMAIN c[call] |-> c[call][i].raw]
      shown == [name \in {n \in {"ifMatch", "ifNoneMatch"} : c[n] # <<>>} |-> tags(name)]
               @@ [name \in {n \in {"modified", "unmodified"} : c[n] # 0} |-> <<c[name]>>]
  IN  shown @@ headers

-----------------------------------------------------------------------------
(* Options                                                                 *)

MaxTimeout == 3   \* MAX_TIMEOUT_MS
NoOptions == [timeoutMs |-> 0, maxRetries |-> -1, tags |-> <<>>, auth |-> "none", operationAuth |-> "none"]

\* 0 and -1 stand for undefined; a value that is not allowed throws.
Optioned(o, op) ==
  CASE op.call = "timeoutMs" -> IF op.value \in 0 .. MaxTimeout THEN [o EXCEPT !.timeoutMs = op.value] ELSE o
    [] op.call = "maxRetries" -> IF op.value >= -1 THEN [o EXCEPT !.maxRetries = op.value] ELSE o
    [] op.call = "tags" -> [o EXCEPT !.tags = op.value @@ @]
    [] op.call \in {"auth", "operationAuth"} -> [o EXCEPT ![op.call] = op.value]
Options(ops) == FoldLeft(Optioned, NoOptions, ops)

CopyOptions(o) ==
  Options([i \in 1 .. 5 |-> LET call == <<"timeoutMs", "maxRetries", "tags", "auth", "operationAuth">>[i] IN
                              [call |-> call, value |-> o[call]]])

-----------------------------------------------------------------------------
(* Requests and operations                                                 *)

Methods == {"GET", "HEAD", "POST", "PUT", "DELETE", "CONNECT", "OPTIONS", "TRACE", "PATCH"}
BodyForbidden(method) == method \in {"GET", "HEAD", "TRACE", "CONNECT"}

BuildRequest(b) ==
  CASE b.url = Absent -> {}
    [] b.url # Absent /\ b.method = "none" /\ b.body # "none" -> {}
    [] b.url # Absent /\ b.method = "none" /\ b.body = "none" -> {[b EXCEPT !.method = "GET"]}
    [] OTHER -> {r \in {b} : b.body = "none" \/ ~BodyForbidden(b.method)}

\* substitutePathParams: the first parameter that will not do is the error.
BadParam(params, name) ==
  name \notin DOMAIN params \/ params[name] \in {<<".">>, <<".", ".">>, <<"lone">>}
Encoded(value) == [i \in DOMAIN value |-> IF value[i] = "/" THEN "%2F" ELSE value[i]]
SubstitutePathParams(template, params) ==
  LET bad == {i \in DOMAIN template : template[i].param # "" /\ BadParam(params, template[i].param)}
  IN  IF bad # {} THEN [bad |-> template[CHOOSE i \in bad : \A j \in bad : i <= j].param]
      ELSE [path |-> FlattenSeq([i \in DOMAIN template |->
              IF template[i].param = "" THEN template[i].text ELSE Encoded(params[template[i].param])])]

ComposePath(basePath, template) ==
  LET trimmed == IF basePath # <<>> /\ Last(basePath) = "/" THEN Front(basePath) ELSE basePath
  IN  IF template = <<>> THEN basePath
      ELSE trimmed \o (IF template[1] = "/" THEN <<>> ELSE <<"/">>) \o template

\* composeQuery: the '&' at the end of the base's query go.
ComposeQuery(base, query) ==
  LET solid == {i \in DOMAIN base : base[i] # "&"}
      kept == IF solid = {} THEN <<>> ELSE SubSeq(base, 1, CHOOSE i \in solid : \A j \in solid : i >= j)
  IN  IF kept = <<>> \/ query = <<>> THEN kept \o query ELSE kept \o <<"&">> \o query

\* buildRequest.
OperationRequest(base, op) ==
  LET substituted == SubstitutePathParams(op.template, op.params) IN
  IF base.hash \/ "bad" \in DOMAIN substituted THEN {}
  ELSE BuildRequest([method |-> op.method, body |-> op.body,
         url |-> [path |-> ComposePath(base.path, substituted.path), query |-> ComposeQuery(base.query, op.query)]])

-----------------------------------------------------------------------------
(* What these must be                                                      *)

\* A range that was built is read back from its spelling, asks for as many
\* bytes as it says, none of them past the largest offset, and what is read is
\* what could have been built.
RangesHold(raw) ==
  LET built == UNION {BoundedRange(s, n) : s, n \in -1 .. MaxSafe + 1}
               \cup UNION {SuffixRange(n) \cup OpenRange(n) : n \in -1 .. MaxSafe + 1}
  IN  /\ ParseRange(raw) \subseteq built
      /\ \A r \in {b \in built : b.raw = raw} : ParseRange(raw) = {r}
      /\ \A r \in ParseRange(raw) : r.kind = "bounded" =>
           r.length = Cardinality(r.start .. raw.end) /\ raw.end <= MaxSafe

\* A tag that was read is spelled as it is sent, and read again is itself;
\* nothing that would end it early is inside it.
ETagsHold(raw) ==
  LET tag == ParseETag(raw) IN
  "raw" \in DOMAIN tag =>
    /\ ParseETag(tag.raw) = tag
    /\ "quote" \notin ToSet(tag.opaque) /\ " " \notin ToSet(tag.raw)
    /\ ~tag.any => tag.raw = (IF tag.weak THEN <<"W/">> ELSE <<>>) \o <<"quote">> \o tag.opaque \o <<"quote">>

\* Whatever calls are made, '*' is alone in its list, no tag that was accepted
\* is lost, a copy is the original, and no other header is touched.
ConditionsHold(ops) ==
  LET c == Conditions(ops)
      headers == "x" :> <<"v">> @@ "ifMatch" :> <<"old">>
      lists == {c.ifMatch, c.ifNoneMatch}
  IN  /\ \A l \in lists : \A i \in DOMAIN l : l[i].any => Len(l) = 1
      /\ \A i \in DOMAIN ops : ops[i].call \in {"ifMatch", "ifNoneMatch"} =>
           LET tags == ToSet(c[ops[i].call]) IN
             tags # {} /\ (ops[i].tag \notin tags => (\E t \in tags : t.any # ops[i].tag.any))
      /\ CopyConditions(c) = c
      /\ ApplyConditions(c, headers)["x"] = <<"v">>
      /\ (c.ifMatch = <<>>) = (ApplyConditions(c, headers)["ifMatch"] = <<"old">>)

\* Options are the last value accepted of each, tags add up, and a copy is the
\* original.
OptionsHold(ops) ==
  LET o == Options(ops)
      fits(op) == CASE op.call = "timeoutMs" -> op.value <= MaxTimeout /\ op.value >= 0
                    [] op.call = "maxRetries" -> op.value >= -1
                    [] OTHER -> TRUE
      last(call) == {i \in DOMAIN ops : ops[i].call = call /\ fits(ops[i]) /\
                       \A j \in i + 1 .. Len(ops) : ops[j].call = call => ~fits(ops[j])}
  IN  /\ CopyOptions(o) = o
      /\ \A call \in DOMAIN NoOptions \ {"tags"} :
           o[call] = IF last(call) = {} THEN NoOptions[call] ELSE ops[CHOOSE i \in last(call) : TRUE].value
      /\ \A i \in DOMAIN ops : ops[i].call = "tags" => DOMAIN ops[i].value \subseteq DOMAIN o.tags

\* The segments of the request's path are the base's and then the template's,
\* whatever slashes stood at the seam, and what a parameter holds stays in its
\* segment; the base's query comes first; and no request goes out with a
\* parameter missing or with a body its method has none of.
Segments(path) == SelectSeq(SplitOutside(path, "/", FALSE), LAMBDA s : s # <<>>)
OperationsHold(base, op) ==
  LET names == {op.template[i].param : i \in DOMAIN op.template} \ {""}
      shape == FlattenSeq([i \in DOMAIN op.template |->
                 IF op.template[i].param = "" THEN op.template[i].text ELSE <<"P">>])
  IN  /\ \A r \in OperationRequest(base, op) :
           /\ ~\E n \in names : BadParam(op.params, n)
           /\ r.body # "none" => ~BodyForbidden(r.method)
           /\ IsPrefix(Segments(base.path), Segments(r.url.path))
           /\ Len(Segments(r.url.path)) = Len(Segments(base.path)) + Len(Segments(shape))
           /\ ToSet(r.url.query) \ {"&"} = (ToSet(base.query) \cup ToSet(op.query)) \ {"&"}
           /\ SelectSeq(r.url.query, LAMBDA t : t # "&") = SelectSeq(base.query \o op.query, LAMBDA t : t # "&")
           /\ (op.query # <<>> /\ r.url.query # op.query) =>
                r.url.query[Len(r.url.query) - Len(op.query)] = "&"
      /\ base.hash => OperationRequest(base, op) = {}

-----------------------------------------------------------------------------
(* The values the run asks about                                           *)

RangeSpellings ==
  [unit : {"bytes", "items"}, dash : BOOLEAN,
   start : NoNumber .. MaxSafe + 1, end : NoNumber .. MaxSafe + 1]
TagTokens == {" ", "*", "W/", "quote", "c", "ctl"}

StrongTag == [raw |-> <<"quote", "c", "quote">>, opaque |-> <<"c">>, weak |-> FALSE, any |-> FALSE]
ConditionCalls ==
  [call : {"ifMatch", "ifNoneMatch"}, tag : {AnyTag, StrongTag}]
  \cup [call : {"modified", "unmodified"}, date : {0, 1}]
OptionCalls ==
  [call : {"timeoutMs"}, value : {0, 3, 4}] \cup [call : {"maxRetries"}, value : {-2, 0}]
  \cup [call : {"tags"}, value : {"a" :> "1", ("a" :> "2") @@ ("b" :> "3")}]
  \cup [call : {"auth", "operationAuth"}, value : {"none", "d"}]

Literal(text) == [param |-> "", text |-> text]
Operations ==
  [method : {"none", "GET", "POST"}, body : {"none", "b"}, query : {<<>>, <<"q">>},
   template : {<<>>, <<Literal(<<"/", "t">>)>>, <<Literal(<<"t", "/">>), [param |-> "p"]>>,
               <<[param |-> "p"], Literal(<<"/">>), [param |-> "q"]>>},
   params : {<<>>, "p" :> <<"v", "/", "v">>, ("p" :> <<"v">>) @@ ("q" :> <<".">>),
             ("p" :> <<".", ".", "v">>) @@ ("q" :> <<"v">>)}]
BaseUrls ==
  [hash : BOOLEAN, path : {<<"/">>, <<"/", "a">>, <<"/", "a", "/">>},
   query : {<<>>, <<"a">>, <<"a", "&", "b", "&", "&">>, <<"&">>}]
=============================================================================
