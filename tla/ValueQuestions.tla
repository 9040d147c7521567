---------------------------- MODULE ValueQuestions ----------------------------
(***************************************************************************)
(* The pure parts of the SDK, asked about every value of a bounded set.    *)
(* A question is an initial state without a step: what it is about, and    *)
(* the values.  Each module says what its operators must be against a      *)
(* definition of its own; Meets looks the one up that is asked for.        *)
(***************************************************************************)
EXTENDS HeaderFields, PageLinks, HeaderGrammars, ProxySettings, EventRecords,
        RequestValues, RetrySchedule, JsonWire, AuthChoice,
        StructuralEquality, SourceContracts

VARIABLE question

NoQuestion == [about |-> "none"]
Ask(about, first, second) == [about |-> about, first |-> first, second |-> second]

HeaderQuestions ==
  \/ \E k \in 0 .. 3 : \E ops \in [1 .. k -> HeaderCalls] : question = Ask("headers", ops, 0)
  \/ \E k \in 0 .. 4 : \E query \in [1 .. k -> QuerySegments] : question = Ask("paging", query, <<>>)
  \/ \E k \in 0 .. 2 : \E links \in [1 .. k -> LinkForms] : question = Ask("paging", <<>>, links)
  \/ \E k \in 0 .. 2 : \E challenges \in [1 .. k -> ChallengeForms], space \in {<<>>, <<" ">>}, junk \in JunkForms :
       question = Ask("challenges", challenges, [space |-> space, junk |-> junk])
  \/ \E m \in MediaTypeForms : question = Ask("mediaType", m, 0)

RequestQuestions ==
  \/ \E raw \in RangeSpellings : question = Ask("range", raw, 0)
  \/ \E k \in 0 .. 4 : \E raw \in [1 .. k -> TagTokens] : question = Ask("etag", raw, 0)
  \/ \E k \in 0 .. 3 : \E ops \in [1 .. k -> ConditionCalls] : question = Ask("conditions", ops, 0)
  \/ \E k \in 0 .. 3 : \E ops \in [1 .. k -> OptionCalls] : question = Ask("options", ops, 0)
  \/ \E base \in BaseUrls, op \in Operations : question = Ask("operation", base, op)
  \/ \E tiers \in Tiers, perCall \in TierForms, operation \in {Unset, <<Simple("NO_AUTH")>>},
        credentials \in CredentialSets :
       question = Ask("auth", tiers, [perCall |-> perCall, operation |-> operation,
                                      credentials |-> credentials])
  \/ \E expiresAt \in 0 .. 5 \cup {NotANumber, Never}, now \in 0 .. 3, margin \in 0 .. 3 :
       question = Ask("token", expiresAt, <<now, margin>>)
  \/ \E kind \in {"apiKey", "nameKey", "basic", "digest"}, name, secret \in {"", " ", "n", "s"},
        headerName \in {"", "H"}, prefix \in {"", "P"} :
       question = Ask("secret", <<kind, name, secret>>, [headerName |-> headerName, prefix |-> prefix])
  \/ \E a, b \in RequirementForms : question = Ask("requirement", a, b)

SettingQuestions ==
  \/ \E k, l \in 0 .. 4 : \E pattern \in [1 .. k -> {"a", "*", "?"}], text \in [1 .. l -> {"a", "b"}] :
       question = Ask("glob", pattern, text)
  \/ \E k \in 0 .. 2 : \E hosts \in [1 .. k -> HostForms] : question = Ask("hosts", hosts, 0)
  \/ \E config \in ProxyConfigs : question = Ask("proxy", config, 0)
  \/ \E config \in LayeredConfigs, k \in 0 .. 2 : \E ops \in [1 .. k -> OverrideCalls] :
       question = Ask("layers", config, ops)
  \/ \E seconds \in DurationForms : question = Ask("duration", seconds, 0)
  \/ \E s \in ScheduleShapes : question = Ask("delay", s, 0)
  \/ \E headers \in HintHeaders, now \in {0, 30} : question = Ask("hint", headers, now)
  \/ \E fields \in DateFields : question = Ask("date", fields, 0)

DataQuestions ==
  \/ \E value \in LoggedValues : question = Ask("rendering", value, 0)
  \/ \E wiring \in Wirings, k \in 0 .. 3 : \E ops \in [1 .. k -> LoggerCalls] : question = Ask("records", wiring, ops)
  \/ \E k \in 0 .. 5 : \E names \in [1 .. k -> {"a", "b", "c"}] : question = Ask("dropLog", names, 0)
  \/ \E url \in RedactedUrls : question = Ask("redaction", url, {"api-version"})
  \/ \E fields \in PatchFields : question = Ask("patch", fields, 0)
  \/ \E value \in TopValues : question = Ask("topLevel", value, 0)
  \/ \E size, room \in 0 .. 3, offset \in -1 .. 4 : question = Ask("into", size, <<room, offset>>)
  \/ \E a, b \in ComparedForms : question = Ask("equality", a, b)
  \/ \E k \in 0 .. 3 : \E reads \in [1 .. k -> ForeignReads] : question = Ask("foreign", reads, 0)
  \/ \E k \in 0 .. 2 : \E codes \in [1 .. k -> {65, 233, 8364}], charset \in {"latin1", "utf8", "koi8-r"} :
       question = Ask("codec", codes, charset)

QuestionInit == HeaderQuestions \/ RequestQuestions \/ SettingQuestions \/ DataQuestions

-----------------------------------------------------------------------------

HeadersMeet(q) ==
  CASE q.about = "headers" -> HeadersHold(q.first)
    [] q.about = "paging" -> PageLinksHold(q.first, q.second)
    [] q.about = "challenges" -> ChallengesHold(q.first, q.second.space, q.second.junk)
    [] q.about = "mediaType" -> MediaTypeHolds(q.first)
    [] OTHER -> TRUE

RequestsMeet(q) ==
  CASE q.about = "range" -> RangesHold(q.first)
    [] q.about = "etag" -> ETagsHold(q.first)
    [] q.about = "conditions" -> ConditionsHold(q.first)
    [] q.about = "options" -> OptionsHold(q.first)
    [] q.about = "operation" -> OperationsHold(q.first, q.second)
    [] q.about = "auth" -> AuthChoiceHolds(q.first, q.second.perCall, q.second.operation, q.second.credentials)
    [] q.about = "token" -> TokensHold(q.first, q.second[1], q.second[2])
    [] q.about = "secret" -> SecretsHold(q.first[1], q.first[2], q.first[3], q.second)
    [] q.about = "requirement" -> RequirementsHold(q.first, q.second)
    [] OTHER -> TRUE

SettingsMeet(q) ==
  CASE q.about = "glob" -> GlobsHold(q.first, q.second)
    [] q.about = "hosts" -> HostsHold(q.first, ",")
    [] q.about = "proxy" -> ProxyHolds(q.first)
    [] q.about = "layers" -> LayersHold(q.first, q.second)
    [] q.about = "duration" -> DurationsHold(q.first)
    [] q.about = "delay" -> DelaysHold(q.first)
    [] q.about = "hint" -> HintsHold(q.first, q.second)
    [] q.about = "date" -> DatesHold(q.first)
    [] OTHER -> TRUE

DataMeets(q) ==
  CASE q.about = "rendering" -> RenderingHolds(q.first)
    [] q.about = "records" -> RecordsHold(q.first, q.second)
    [] q.about = "dropLog" -> DropLogHolds(q.first)
    [] q.about = "redaction" -> RedactionHolds(q.first, q.second)
    [] q.about = "patch" -> PatchesHold(q.first)
    [] q.about = "topLevel" -> TopLevelHolds(q.first)
    [] q.about = "into" -> SerializeIntoHolds(q.first, q.second[1], q.second[2])
    [] q.about = "equality" -> EqualityHolds(q.first, q.second)
    [] q.about = "foreign" -> ForeignReadsHold(q.first)
    [] q.about = "codec" -> CodecHolds(q.first, q.second)
    [] OTHER -> TRUE

\* Every parser, builder, rewriter and resolver answers what its own module
\* says it must, for every value of its set: what was written is read back,
\* what was not touched is kept, and nothing is shown, sent, chosen or waited
\* for that the inputs do not justify.
ValuesMeetReference ==
  /\ HeadersMeet(question) /\ RequestsMeet(question)
  /\ SettingsMeet(question) /\ DataMeets(question)
=============================================================================
