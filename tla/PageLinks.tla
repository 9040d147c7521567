------------------------------ MODULE PageLinks ------------------------------
(***************************************************************************)
(* The query of a URL and the links of a response, as the pagination       *)
(* strategies and QueryParams read and rewrite them.                       *)
(*                                                                         *)
(* A query is a sequence of segments: a name, the form it is spelled in    *)
(* ("canonical", as the encoder writes it, or "other", another spelling of *)
(* the same name), whether there is a '=' and the value after it.  A Link  *)
(* header is a sequence of tokens.                                         *)
(***************************************************************************)
EXTENDS HeaderGrammars

Blank == [kind |-> "empty", number |-> 0]
WordValue == [kind |-> "text", number |-> 0]
Page(n) == [kind |-> "number", number |-> n]

Segment(name, form, eq, value) == [name |-> name, form |-> form, eq |-> eq, value |-> value]
Empty == Segment("", "canonical", FALSE, Blank)

-----------------------------------------------------------------------------
(* QueryParams                                                             *)

\* The builder groups the values of a name where the name came first.
AddParam(params, name, value) ==
  IF \E i \in DOMAIN params : params[i].name = name
  THEN [i \in DOMAIN params |-> IF params[i].name = name
                                THEN [params[i] EXCEPT !.values = Append(@, value)] ELSE params[i]]
  ELSE Append(params, [name |-> name, values |-> <<value>>])

\* parse decodes both sides of the first '=' and skips empty segments.
ParseParams(segments) ==
  FoldLeft(LAMBDA ps, s : AddParam(ps, s.name, IF s.eq THEN s.value ELSE Blank), <<>>,
           SelectSeq(segments, LAMBDA s : s # Empty))

EncodeParams(params) ==
  FlattenSeq([i \in DOMAIN params |->
    [j \in DOMAIN params[i].values |->
       Segment(params[i].name, "canonical", TRUE, params[i].values[j])]])

-----------------------------------------------------------------------------
(* Splicing                                                                *)

SplitQuery(query) == SelectSeq(query, LAMBDA s : s # Empty)
Named(s, name) == s.name = name /\ s.form = "canonical"

\* The first segment of that name is replaced where it stands, or dropped when
\* there is no value; later ones go; a new one goes to the end.
SpliceQueryParam(query, name, value) ==
  LET segments == SplitQuery(query)
      new == IF value = {} THEN <<>>
             ELSE <<Segment(name, "canonical", TRUE, CHOOSE v \in value : TRUE)>>
      Step(acc, s) ==
        CASE ~Named(s, name) -> [acc EXCEPT !.out = Append(@, s)]
          [] Named(s, name) /\ acc.replaced -> acc
          [] OTHER -> [replaced |-> TRUE, out |-> acc.out \o new]
      spliced == FoldLeft(Step, [replaced |-> FALSE, out |-> <<>>], segments)
  IN  IF spliced.replaced THEN spliced.out ELSE spliced.out \o new

\* {} when there is no segment of that name.
ReadQueryParam(query, name) ==
  LET named == SelectSeq(SplitQuery(query), LAMBDA s : Named(s, name))
  IN  IF named = <<>> THEN {} ELSE {IF named[1].eq THEN named[1].value ELSE Blank}

-----------------------------------------------------------------------------
(* Link headers                                                            *)

SplitTopLevel(tokens, separator) ==
  SelectSeq(SplitOutside(tokens, separator, TRUE), LAMBDA p : Trim(p) # <<>>)

\* The relations of one parameter: the words of its value, if its name is rel.
RelOf(parameter) ==
  LET eq == IndexFrom(parameter, "=", 1)
  IN  IF eq = 0 \/ Trim(SubSeq(parameter, 1, eq - 1)) # <<"rel">> THEN {}
      ELSE ToSet(Unquote(Trim(SubSeq(parameter, eq + 1, Len(parameter))))) \ {" "}

\* {} for a value without a target.
ParseOne(raw) ==
  LET link == Trim(raw)
      open == IndexFrom(link, "<", 1)
      close == IndexFrom(link, ">", open + 1)
      rest == SplitTopLevel(SubSeq(link, close + 1, Len(link)), ";")
  IN  IF open = 0 \/ close = 0 THEN {}
      ELSE {[target |-> Trim(SubSeq(link, open + 1, close - 1)),
             rel |-> UNION {RelOf(rest[i]) : i \in DOMAIN rest}]}

\* findNextLink: the values of the header are one list.
FindNextLink(values) ==
  LET present == SelectSeq(values, LAMBDA v : Trim(v) # <<>>)
      joined == FlattenSeq([i \in DOMAIN present |->
                  IF i = 1 THEN present[i] ELSE <<",", " ">> \o present[i]])
      links == FlattenSeq([i \in DOMAIN SplitTopLevel(joined, ",") |->
                 SetToSeq(ParseOne(SplitTopLevel(joined, ",")[i]))])
      nexts == SelectSeq(links, LAMBDA l : "next" \in l.rel)
  IN  IF nexts = <<>> THEN <<>> ELSE nexts[1].target

-----------------------------------------------------------------------------
(* Strategies: the next request of a page, {} at the end                   *)

CursorNext(template, name, cursor) ==
  IF cursor \subseteq {Blank} THEN {} ELSE {SpliceQueryParam(template, name, cursor)}

\* A page parameter that is no page number counts as the first page.
PageNumberNext(template, requested, name, startPage, items) ==
  LET raw == ReadQueryParam(requested, name)
      numbers == {v.number : v \in {r \in raw : r.kind = "number"}}
      current == IF numbers = {} THEN startPage ELSE CHOOSE n \in numbers : TRUE
  IN  IF items = 0 THEN {} ELSE {SpliceQueryParam(template, name, {Page(current + 1)})}

\* A target that does not resolve ends the walk.
LinkNext(values, resolvable) ==
  {t \in {FindNextLink(values)} : t # <<>> /\ t \in resolvable}

-----------------------------------------------------------------------------
(* What these must be                                                      *)

Others(query, name) == SelectSeq(SplitQuery(query), LAMBDA s : ~Named(s, name))

\* A splice changes no other segment, is what a read of the parameter finds,
\* leaves the parameter once where it was first, and made twice is made once.
SpliceHolds(query, name, value) ==
  LET spliced == SpliceQueryParam(query, name, value)
      place(q) == {i \in DOMAIN SplitQuery(q) : Named(SplitQuery(q)[i], name)}
  IN  /\ Others(spliced, name) = Others(query, name)
      /\ ReadQueryParam(spliced, name) = value
      /\ Cardinality(place(spliced)) = Cardinality(value)
      /\ \A i \in place(spliced) :
           IF place(query) = {} THEN i = Len(spliced) ELSE \A j \in place(query) : i <= j
      /\ SpliceQueryParam(spliced, name, value) = spliced

\* Decoding what was encoded gives the same parameters, and the values of a
\* name are those of its segments in their order.
ParamsHold(query) ==
  LET params == ParseParams(query)
  IN  /\ ParseParams(EncodeParams(params)) = params
      /\ \A i, j \in DOMAIN params : params[i].name = params[j].name => i = j
      /\ \A i \in DOMAIN params : Len(params[i].values) =
           Len(SelectSeq(query, LAMBDA s : s # Empty /\ s.name = params[i].name))

\* A walk by page number asks for consecutive pages, whatever else the query
\* holds, starting after what the first request asked for.
PageWalkHolds(template, name, startPage) ==
  LET next(requested) ==
        CHOOSE q \in PageNumberNext(template, requested, name, startPage, 1) : TRUE
      first == next(template)
      asked(q) == (CHOOSE v \in ReadQueryParam(q, name) : TRUE).number
  IN  asked(next(first)) = asked(first) + 1 /\ asked(next(next(first))) = asked(first) + 2

\* A list of links, written down with separators in quotes and in targets, is
\* read back: the target of the first link that has the relation next.
WrittenParameter(p) ==
  <<";", " ">> \o
  CASE p = "plain" -> <<"rel", "=", "next">>
    [] p = "several" -> <<"rel", "=", "quote", "prev", " ", "next", "quote">>
    [] p = "other" -> <<"rel", "=", "quote", "prev", "quote">>
    [] p = "comma" -> <<"title", "=", "quote", "a", ",", ";", "<", "quote">>
    [] p = "escaped" -> <<"title", "=", "quote", "\\", "quote", ",", "quote">>
    [] p = "flag" -> <<"next">>
WrittenLink(link) ==
  <<"<">> \o link.target \o <<">">> \o
    FlattenSeq([i \in DOMAIN link.parameters |-> WrittenParameter(link.parameters[i])])
IsNext(link) == \E i \in DOMAIN link.parameters : link.parameters[i] \in {"plain", "several"}

LinksHold(links) ==
  LET values == [i \in DOMAIN links |-> WrittenLink(links[i])]
      nexts == SelectSeq(links, IsNext)
      target == IF nexts = <<>> THEN <<>> ELSE nexts[1].target
      oneLine == <<FlattenSeq([i \in DOMAIN values |-> values[i] \o <<" ", ",">>])>>
  IN  /\ FindNextLink(values) = target /\ FindNextLink(oneLine) = target
      /\ LinkNext(values, {target}) = {target} \ {<<>>} /\ LinkNext(values, {}) = {}

-----------------------------------------------------------------------------
(* The values the run asks about                                           *)

QuerySegments ==
  {Empty, Segment("page", "canonical", FALSE, Blank), Segment("page", "canonical", TRUE, Page(3)),
   Segment("page", "other", TRUE, Page(5)), Segment("q", "canonical", TRUE, WordValue)}
LinkForms ==
  [target : {<<"u">>, <<"v", ",", "w">>},
   parameters : {<<"plain">>, <<"other">>, <<"comma", "several">>, <<"escaped", "plain">>,
                 <<"flag">>, <<>>}]

PageLinksHold(query, links) ==
  /\ ParamsHold(query)
  /\ \A value \in {{}, {WordValue}} : SpliceHolds(query, "page", value)
  /\ \A startPage \in {0, 1} : PageWalkHolds(query, "page", startPage)
  /\ \A cursor \in {{}, {Blank}, {WordValue}} : \A q \in CursorNext(query, "page", cursor) :
       ReadQueryParam(q, "page") = cursor /\ cursor # {Blank}
  /\ LinksHold(links)
=============================================================================
