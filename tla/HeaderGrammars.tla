---------------------------- MODULE HeaderGrammars ----------------------------
(***************************************************************************)
(* Header values as sequences of tokens, the cuts that every parser of     *)
(* them makes, and the two values the pipeline decides by: the challenges  *)
(* of a 401 or 407, and the media type of a body.                          *)
(*                                                                         *)
(* " " is white space, "quote" a double quote and "\\" a backslash; every  *)
(* other separator stands for itself, and anything else is a run of token  *)
(* characters.                                                             *)
(***************************************************************************)
EXTENDS Naturals, Sequences, SequencesExt, Folds, FiniteSets, TLC

Separators == {" ", ",", ";", "=", "/", "<", ">", "quote", "\\", "@"}

Trim(tokens) ==
  LET solid == {i \in DOMAIN tokens : tokens[i] # " "}
  IN  IF solid = {} THEN <<>>
      ELSE SubSeq(tokens, CHOOSE i \in solid : \A j \in solid : i <= j,
                          CHOOSE i \in solid : \A j \in solid : i >= j)

\* 0 when there is none.
IndexFrom(tokens, token, from) ==
  LET at == {i \in DOMAIN tokens : i >= from /\ tokens[i] = token}
  IN  IF at = {} THEN 0 ELSE CHOOSE i \in at : \A j \in at : i <= j

\* Pieces between separators outside quotes, and outside '<' '>' if these
\* count; a backslash in quotes takes the next token with it.
SplitOutside(tokens, separator, angles) ==
  LET Step(acc, token) ==
        LET kept == [acc EXCEPT !.current = Append(@, token)] IN
        CASE acc.escaped -> [kept EXCEPT !.escaped = FALSE]
          [] acc.quoted /\ token = "\\" /\ ~acc.escaped -> [kept EXCEPT !.escaped = TRUE]
          [] token = "quote" /\ ~acc.escaped -> [kept EXCEPT !.quoted = ~@]
          [] token = separator /\ ~acc.angle /\ ~acc.quoted ->
               [acc EXCEPT !.parts = Append(@, acc.current), !.current = <<>>]
          [] angles /\ token \in {"<", ">"} /\ ~acc.quoted -> [kept EXCEPT !.angle = token = "<"]
          [] OTHER -> kept
      end == FoldLeft(Step, [parts |-> <<>>, current |-> <<>>, angle |-> FALSE,
                             quoted |-> FALSE, escaped |-> FALSE], tokens)
  IN  Append(end.parts, end.current)

\* Mutant: every backslash goes, an escaped one too.
UnescapeAll(tokens) == SelectSeq(tokens, LAMBDA t : t # "\\")

\* A backslash gives way to what it escapes.
Unescape(tokens) ==
  LET Step(acc, token) ==
        IF token = "\\" /\ ~acc.escaped THEN [acc EXCEPT !.escaped = TRUE]
        ELSE [out |-> Append(acc.out, token), escaped |-> FALSE]
  IN  FoldLeft(Step, [out |-> <<>>, escaped |-> FALSE], tokens).out

Unquote(tokens) ==
  IF Len(tokens) >= 2 /\ tokens[1] = "quote" /\ Last(tokens) = "quote"
  THEN Unescape(SubSeq(tokens, 2, Len(tokens) - 1)) ELSE tokens

\* The inverse: a value in quotes, with what would end it escaped.
Quoted(value) ==
  <<"quote">> \o FlattenSeq([i \in DOMAIN value |->
     IF value[i] \in {"quote", "\\"} THEN <<"\\", value[i]>> ELSE <<value[i]>>]) \o <<"quote">>

IsWord(token) == token \notin Separators

-----------------------------------------------------------------------------
(* Challenges.  A scanner is a position in the text.                       *)

At(text, pos) == IF pos \in DOMAIN text THEN text[pos] ELSE "end"

\* The first position from pos on that none of the tokens is at.
SkipFrom(text, pos, IsSkipped(_)) ==
  LET stops == {i \in pos .. Len(text) : ~IsSkipped(text[i])}
  IN  IF stops = {} THEN Len(text) + 1 ELSE CHOOSE i \in stops : \A j \in stops : i <= j
SkipSpaces(text, pos) == SkipFrom(text, pos, LAMBDA t : t = " ")
TokenEnd(text, pos) == SkipFrom(text, pos, IsWord)

\* A token, quotes and escapes in view: the end of a quoted string, and the
\* comma that junk is skipped to.
ScanQuoted(text, pos, inQuotes, IsEnd(_, _)) ==
  LET scan[i \in 1 .. Len(text) + 2, quoted \in BOOLEAN] ==
        IF i > Len(text) THEN Len(text) + 1
        ELSE IF quoted /\ text[i] = "\\" /\ i < Len(text) THEN scan[i + 2, quoted]
        ELSE IF IsEnd(text[i], quoted) THEN i + 1
        ELSE scan[i + 1, IF text[i] = "quote" THEN ~quoted ELSE quoted]
  IN  scan[pos, inQuotes]
QuotedEnd(text, pos) == ScanQuoted(text, pos + 1, TRUE, LAMBDA t, quoted : t = "quote")
SkipToNextTopLevelComma(text, pos) ==
  ScanQuoted(text, pos, FALSE, LAMBDA t, quoted : t = "," /\ ~quoted)

PastComma(text, pos) ==
  LET next == SkipSpaces(text, pos) IN IF At(text, next) = "," THEN next + 1 ELSE next

IsParamAssignment(text, pos) == At(text, SkipSpaces(text, pos)) = "="
ValueAt(text, pos) == SkipSpaces(text, SkipSpaces(text, pos) + 1)
IsValuedParam(text, pos) ==
  /\ IsParamAssignment(text, pos)
  /\ LET next == At(text, ValueAt(text, pos)) IN next = "quote" \/ (next # "end" /\ IsWord(next))

\* readParamInto: where it stops, and the value.
ParamAt(text, pos) ==
  LET from == ValueAt(text, pos)
      to == IF At(text, from) = "quote" THEN QuotedEnd(text, from) ELSE TokenEnd(text, from)
      closed == IF to > from + 1 /\ text[to - 1] = "quote" THEN to - 2 ELSE to - 1
  IN  [value |-> IF At(text, from) = "quote" THEN Unescape(SubSeq(text, from + 1, closed))
                 ELSE SubSeq(text, from, to - 1),
       next |-> PastComma(text, to)]

WithParam(challenge, name, value) ==
  [challenge EXCEPT !.params = (name :> value) @@ @]

\* readSchemeTail: a parameter, a token68, or nothing.
SchemeTail(text, pos, challenge) ==
  LET from == SkipSpaces(text, pos)
      nameEnd == TokenEnd(text, from)
      tailEnd == SkipFrom(text, from, LAMBDA t : IsWord(t) \/ t = "=")
      param == ParamAt(text, nameEnd)
  IN  IF At(text, from) \in {"end", ","} THEN [challenge |-> challenge, next |-> from]
      ELSE IF nameEnd > from /\ IsValuedParam(text, nameEnd)
      THEN [challenge |-> WithParam(challenge, text[from], param.value), next |-> param.next]
      ELSE [challenge |-> IF tailEnd = from THEN challenge
                          ELSE WithParam(challenge, "token68", SubSeq(text, from, tailEnd - 1)),
            next |-> PastComma(text, tailEnd)]

\* parseChallenges: a name with a '=' belongs to the challenge before it, any
\* other token starts one, and what is neither is skipped to the next comma.
ParseChallenges(text) ==
  LET parse[start \in 1 .. Len(text) + 1, any \in BOOLEAN] ==
        LET pos == SkipSpaces(text, start)
            end == TokenEnd(text, pos)
            assigns == IsParamAssignment(text, end)
            param == ParamAt(text, end)
            tail == SchemeTail(text, end, [scheme |-> text[pos], params |-> <<>>])
        IN  CASE pos > Len(text) -> <<>>
              [] At(text, pos) = "," -> parse[pos + 1, any]
              [] pos <= Len(text) /\ At(text, pos) # "," /\ (end = pos \/ (assigns /\ ~any)) ->
                   parse[SkipToNextTopLevelComma(text, end), any]
              [] end > pos /\ assigns /\ any ->
                   <<[scheme |-> "", params |-> text[pos] :> param.value]>> \o parse[param.next, any]
              [] OTHER -> <<tail.challenge>> \o parse[tail.next, TRUE]
      Join(challenges, item) ==
        IF item.scheme # "" THEN Append(challenges, item)
        ELSE [challenges EXCEPT ![Len(challenges)].params = item.params @@ @]
  IN  FoldLeft(Join, <<>>, parse[1, FALSE])

-----------------------------------------------------------------------------
(* Media types                                                             *)

IsToken(value) == value # <<>> /\ \A i \in DOMAIN value : IsWord(value[i])

\* of: {} when it throws.  Names arrive in lower case.
MediaTypeOf(type, subtype, params) ==
  {m \in {[type |-> type, subtype |-> subtype, params |-> params]} :
     /\ IsToken(type) /\ IsToken(subtype) /\ (type = <<"*">> => subtype = <<"*">>)
     /\ \A key \in DOMAIN params : IsToken(key)}

\* The parameters of the segments, the last of a name counting; {} if one of
\* them has no name or no value.
ParseParameters(segments) ==
  LET trimmed == [i \in DOMAIN segments |-> Trim(segments[i])]
      present == SelectSeq(trimmed, LAMBDA s : s # <<>>)
      eq(s) == IndexFrom(s, "=", 1)
      add(params, s) ==
        (Trim(SubSeq(s, 1, eq(s) - 1)) :> Unquote(Trim(SubSeq(s, eq(s) + 1, Len(s))))) @@ params
  IN  IF \E i \in DOMAIN present : eq(present[i]) \in {0, 1, Len(present[i])} THEN {}
      ELSE {FoldLeft(add, <<>>, present)}

ParseMediaType(text) ==
  LET segments == SplitOutside(text, ";", FALSE)
      first == Trim(segments[1])
      slash == IndexFrom(first, "/", 1)
  IN  IF slash \in {0, 1, Len(first)} THEN {}
      ELSE UNION {MediaTypeOf(SubSeq(first, 1, slash - 1), SubSeq(first, slash + 1, Len(first)), ps) :
                    ps \in ParseParameters(Tail(segments))}

RenderMediaType(m) ==
  m.type \o <<"/">> \o m.subtype \o
    FlattenSeq([i \in 1 .. Cardinality(DOMAIN m.params) |->
      LET key == SetToSeq(DOMAIN m.params)[i] IN
        <<";", " ">> \o key \o <<"=">> \o
          IF IsToken(m.params[key]) THEN m.params[key] ELSE Quoted(m.params[key])])

Matches(m, pattern) ==
  /\ pattern.type \in {<<"*">>, m.type}
  /\ pattern.subtype \in {<<"*">>, m.subtype}

-----------------------------------------------------------------------------
(* What these must be                                                      *)

\* A list of challenges is read back as it was written: with commas, quotes and
\* backslashes in its quoted values, with white space around its separators and
\* with junk between its elements.
WrittenValue(value) == IF IsToken(value) /\ Len(value) = 1 THEN value ELSE Quoted(value)
WrittenChallenge(challenge, space) ==
  LET names == SetToSeq(DOMAIN challenge.params)
      assigned(i) == <<names[i]>> \o space \o <<"=">> \o space \o WrittenValue(challenge.params[names[i]])
  IN  <<challenge.scheme, " ">> \o
        IF DOMAIN challenge.params = {"token68"} THEN challenge.params["token68"]
        ELSE FlattenSeq([i \in DOMAIN names |-> (IF i = 1 THEN <<>> ELSE <<",">>) \o assigned(i)])

ChallengesHold(challenges, space, junk) ==
  LET written == FlattenSeq([i \in DOMAIN challenges |->
                   junk \o <<",">> \o WrittenChallenge(challenges[i], space) \o <<",">>]) \o junk
  IN  ParseChallenges(written) = challenges

\* A media type that can be built is read back from what it renders to, matches
\* itself and every range around it, and nothing else of the ranges.
MediaTypeHolds(m) ==
  /\ ParseMediaType(RenderMediaType(m)) = {m}
  /\ \A type \in {<<"*">>, <<"a">>}, subtype \in {<<"*">>, <<"b">>} :
       \A range \in MediaTypeOf(type, subtype, <<>>) :
         Matches(m, range) <=> /\ type = <<"*">> \/ type = m.type
                               /\ subtype = <<"*">> \/ subtype = m.subtype
  /\ ParseMediaType(<<";">> \o RenderMediaType(m)) = {}

-----------------------------------------------------------------------------
(* The values the run asks about                                           *)

TokenValues == {<<"v">>, <<"a", ",", "b">>, <<"quote", "\\">>, <<";", " ", "=">>, <<>>}
ChallengeForms ==
  {[scheme |-> "basic", params |-> <<>>],
   [scheme |-> "negotiate", params |-> "token68" :> <<"abc", "=", "=">>]}
  \cup {[scheme |-> "digest", params |-> ("realm" :> v) @@ ("nonce" :> w)] :
          v, w \in TokenValues}
JunkForms == {<<>>, <<"@", "x">>, <<" ", "quote", ",", "quote", " ">>}
MediaTypeForms ==
  UNION {MediaTypeOf(type, subtype, params) :
    type \in {<<"a">>, <<"*">>}, subtype \in {<<"b">>, <<"*">>},
    params \in {<<>>} \cup {<<"k">> :> v : v \in TokenValues}
               \cup {(<<"k">> :> v) @@ (<<"l">> :> w) : v, w \in TokenValues}}
=============================================================================
