---------------------------- MODULE ProxySettings ----------------------------
(***************************************************************************)
(* The layered configuration and what the proxy resolution makes of it:    *)
(* which proxy there is, and which hosts go around it.                     *)
(*                                                                         *)
(* A configuration is three functions of keys.  A layer may lack a key,    *)
(* and a source other than the overrides may throw.  A text that has a     *)
(* meaning as a number, a flag, a duration or an URL is a record of it.    *)
(***************************************************************************)
EXTENDS Naturals, Sequences, SequencesExt, FiniteSets, TLC

Missing == [kind |-> "missing"]
Fails == [kind |-> "throws"]
Word(text) == [kind |-> "text", text |-> text]
NoText == Word(<<>>)

-----------------------------------------------------------------------------
(* Layers                                                                  *)

Lookup(layer, key) == IF key \in DOMAIN layer THEN layer[key] ELSE Missing

\* readLayer: a source that throws, or answers no string, has nothing.
ReadLayer(layer, key) == IF Lookup(layer, key) = Fails THEN Missing ELSE Lookup(layer, key)

\* normalizePropertyKey: the property a key of the environment is.
PropertyOf == [HTTPS_PROXY |-> "https.proxy", HTTP_PROXY |-> "http.proxy", NO_PROXY |-> "no.proxy",
               SOME_KEY |-> "some.key"]

GetString(config, key) ==
  LET env == ReadLayer(config.env, key) IN
  CASE Lookup(config.overrides, key) # Missing -> config.overrides[key]
    [] Lookup(config.overrides, key) = Missing /\ env \notin {Missing, NoText} -> env
    [] OTHER -> ReadLayer(config.properties, PropertyOf[key])
GetRawProperty(config, key) == ReadLayer(config.properties, key)

\* getInt, getBoolean, getDuration: what is not of the kind is the fallback.
GetTyped(config, key, kind, fallback) ==
  IF GetString(config, key).kind = kind THEN GetString(config, key).value ELSE fallback

\* parseDurationMs: a bare number, a shorthand or an ISO duration with at least
\* one part.
MsPerUnit == [ms |-> 1, s |-> 1000, m |-> 60000, h |-> 3600000, d |-> 86400000]
ParseDuration(text) ==
  CASE text.form = "bare" -> {text.amount}
    [] text.form = "shorthand" -> {text.amount * MsPerUnit[text.unit] : u \in {text.unit} \cap DOMAIN MsPerUnit}
    [] text.form = "iso" -> {FoldFunction(+, 0, [u \in DOMAIN text.parts |-> text.parts[u] * MsPerUnit[u]]) :
                               p \in {q \in {text.parts} : DOMAIN q # {}}}
    [] OTHER -> {}

\* A builder's calls, and derive: a builder that starts with the overrides.
Override(overrides, op) ==
  IF op.call = "put" THEN (op.key :> op.value) @@ overrides
  ELSE [k \in DOMAIN overrides \ {op.key} |-> overrides[k]]
Derive(config, ops) == [config EXCEPT !.overrides = FoldLeft(Override, @, ops)]

-----------------------------------------------------------------------------
(* Hosts that bypass the proxy                                             *)

\* globMatches: a walk along both, with the last star to come back to and the
\* place from which it takes another character.  Places count from 0, and a
\* star of 0 is none.
GlobStart == [at |-> 0, text |-> 0, star |-> 0, resume |-> 0]
GlobStep(pattern, text, walk) ==
  LET unread == walk.text < Len(text)
      expects(characters) == walk.at < Len(pattern) /\ pattern[walk.at + 1] \in characters
      matches == unread /\ expects({"?", text[walk.text + 1]})
  IN  CASE matches -> [walk EXCEPT !.at = @ + 1, !.text = @ + 1]
        [] unread /\ ~matches /\ expects({"*"}) ->
             [at |-> walk.at + 1, text |-> walk.text, star |-> walk.at + 1, resume |-> walk.text]
        [] unread /\ ~matches /\ ~expects({"*"}) /\ walk.star # 0 ->
             [at |-> walk.star, text |-> walk.resume + 1, star |-> walk.star, resume |-> walk.resume + 1]
        [] OTHER -> walk

\* No walk is longer: a character of the text is resumed at once, and the
\* pattern is walked at most once from there.
LongestWalk(pattern, text) == (Len(text) + 1) * (Len(pattern) + 1)
GlobMatches(pattern, text) ==
  LET walk[n \in 0 .. LongestWalk(pattern, text)] ==
        IF n = 0 THEN GlobStart ELSE GlobStep(pattern, text, walk[n - 1])
      last == walk[LongestWalk(pattern, text)]
  IN  last.text = Len(text) /\ \A i \in last.at + 1 .. Len(pattern) : pattern[i] = "*"

ShouldBypass(options, host) ==
  options.bypassAll \/ \E i \in DOMAIN options.hosts : GlobMatches(options.hosts[i], host)

\* splitEscaped and the rest of parseNonProxyHosts: a separator behind a
\* backslash is part of its host.
SplitEscaped(raw, separator) ==
  LET split[i \in 1 .. Len(raw) + 1, current \in Seq({"a", "b", "*", "?", "\\", separator, " "})] ==
        IF i > Len(raw) THEN <<current>>
        ELSE IF raw[i] = "\\" /\ i < Len(raw) /\ raw[i + 1] = separator
        THEN split[i + 2, current \o <<separator>>]
        ELSE IF raw[i] = separator THEN <<current>> \o split[i + 1, <<>>]
        ELSE split[i + 1, Append(current, raw[i])]
  IN  split[1, <<>>]
ParseNonProxyHosts(raw, separator) ==
  SelectSeq(SplitEscaped(raw, separator), LAMBDA host : host # <<>>)

\* The property wins over NO_PROXY, and a lone star turns the proxy off.
ResolveNonProxyHosts(config) ==
  LET property == GetRawProperty(config, "http.nonProxyHosts")
      listed == IF property = Missing THEN GetString(config, "NO_PROXY") ELSE property
      hosts == IF listed = Missing THEN <<>>
               ELSE ParseNonProxyHosts(listed.text, IF property = Missing THEN "," ELSE "|")
  IN  [bypassAll |-> hosts = <<(<<"*">>)>>, hosts |-> hosts]

-----------------------------------------------------------------------------
(* The proxy itself.  A port, a scheme or a host that will not do is "bad". *)

\* parsePort: decimal digits up to 65535.
ParsePort(text) == text.kind = "port" /\ text.value <= 65535

\* The host decides between the https and the http properties, its port has to
\* be beside it, and the credentials are the https ones.
ResolveFromProperties(config) ==
  LET https == GetRawProperty(config, "https.proxyHost")
      host == IF https = Missing THEN GetRawProperty(config, "http.proxyHost") ELSE https
      port == GetRawProperty(config, IF https = Missing THEN "http.proxyPort" ELSE "https.proxyPort")
  IN  IF host \in {Missing, NoText} \/ ~ParsePort(port) THEN {}
      ELSE {[type |-> "http", host |-> host.text, port |-> port.value]}

\* parseProxyUrl: the checks of an URL in their order; each failure is null.
ProxyTypes == [http |-> "http", https |-> "http", socks |-> "socks5", socks5 |-> "socks5",
               socks5h |-> "socks5", socks4 |-> "socks4", socks4a |-> "socks4"]
ParseProxyUrl(url) ==
  IF \/ url.kind # "url" \/ url.scheme \notin DOMAIN ProxyTypes
     \/ ~ParsePort(url.port) \/ url.host = <<>>
  THEN {} ELSE {[type |-> ProxyTypes[url.scheme], host |-> url.host, port |-> url.port.value]}

\* HTTPS_PROXY hides HTTP_PROXY even when it cannot be used.
ResolveFromEnvironment(config) ==
  LET https == GetString(config, "HTTPS_PROXY")
      raw == IF https = Missing THEN GetString(config, "HTTP_PROXY") ELSE https
  IN  IF raw = Missing THEN {} ELSE ParseProxyUrl(raw)

ResolveProxyOptions(config) ==
  LET around == ResolveNonProxyHosts(config)
      fromProperties == ResolveFromProperties(config)
      endpoint == IF fromProperties # {} THEN fromProperties ELSE ResolveFromEnvironment(config)
  IN  IF around.bypassAll THEN {}
      ELSE {[type |-> e.type, host |-> e.host, port |-> e.port, hosts |-> around.hosts,
             bypassAll |-> FALSE] : e \in endpoint}

-----------------------------------------------------------------------------
(* What these must be                                                      *)

\* A glob matches when its stars can be filled: the text can be cut so that every
\* other place of the pattern has one character, its own or any for a "?".
GlobFits(pattern, text) ==
  \E cut \in [1 .. Len(pattern) + 1 -> 1 .. Len(text) + 1] :
    /\ cut[1] = 1 /\ cut[Len(pattern) + 1] = Len(text) + 1
    /\ \A i \in DOMAIN pattern :
         IF pattern[i] = "*" THEN cut[i] <= cut[i + 1]
         ELSE cut[i + 1] = cut[i] + 1 /\ pattern[i] \in {"?", text[cut[i]]}
GlobsHold(pattern, text) == GlobMatches(pattern, text) <=> GlobFits(pattern, text)

\* Hosts written with their separators escaped are the hosts that are read.
HostsHold(hosts, separator) ==
  LET escaped(host) == FlattenSeq([i \in DOMAIN host |->
                         IF host[i] = separator THEN <<"\\", separator>> ELSE <<host[i]>>])
      written == FlattenSeq([i \in DOMAIN hosts |-> escaped(hosts[i]) \o <<separator>>])
  IN  ParseNonProxyHosts(written, separator) = hosts

\* A configuration answers from its strongest layer, and a derived one differs
\* only where its builder was told to.
LayersHold(config, ops) ==
  LET derived == Derive(config, ops)
      last(key) == {i \in DOMAIN ops : ops[i].key = key /\ \A j \in i + 1 .. Len(ops) : ops[j].key # key}
      under == [config EXCEPT !.overrides = <<>>]
  IN  /\ \A key \in DOMAIN PropertyOf : \A i \in last(key) :
           GetString(derived, key) = IF ops[i].call = "put" THEN ops[i].value ELSE GetString(under, key)
      /\ \A key \in DOMAIN PropertyOf : last(key) = {} => GetString(derived, key) = GetString(config, key)
      /\ \A key \in DOMAIN PropertyOf : GetString(config, key).kind # "throws"
      /\ \A kind \in {"int", "boolean"} :
           GetTyped(derived, "SOME_KEY", kind, 0) # 0 <=> GetString(derived, "SOME_KEY").kind = kind

\* A duration is the same in every way it can be written, and one without a
\* part or with an unknown unit is none.
DurationsHold(seconds) ==
  LET parts == [d |-> seconds \div 86400, h |-> (seconds % 86400) \div 3600,
                m |-> (seconds % 3600) \div 60, s |-> seconds % 60]
      written == [u \in {v \in DOMAIN parts : parts[v] > 0} |-> parts[u]]
  IN  /\ ParseDuration([form |-> "iso", parts |-> written]) = {1000 * seconds} \ {0}
      /\ ParseDuration([form |-> "shorthand", amount |-> seconds, unit |-> "s"]) = {1000 * seconds}
      /\ ParseDuration([form |-> "bare", amount |-> 1000 * seconds]) = {1000 * seconds}
      /\ ParseDuration([form |-> "shorthand", amount |-> seconds, unit |-> "w"]) = {}

\* A proxy that is resolved can be dialled, came from the strongest source that
\* names one, and goes with the hosts that bypass it; "*" alone means none.
ProxyHolds(config) ==
  \A options \in ResolveProxyOptions(config) :
    /\ options.port <= 65535 /\ options.host # <<>> /\ options.type \in {"http", "socks4", "socks5"}
    /\ options.hosts = ResolveNonProxyHosts(config).hosts
    /\ ~ShouldBypass(options, <<"a", "b">>) \/ options.hosts # <<>>
    /\ options.hosts # <<(<<"*">>)>>
    /\ (ResolveFromProperties(config) = {} /\ GetString(config, "HTTPS_PROXY") # Missing)
         => ParseProxyUrl(GetString(config, "HTTPS_PROXY")) # {}

-----------------------------------------------------------------------------
(* The values the run asks about                                           *)

HostForms == {<<"a">>, <<"*", "b">>, <<"a", ",", "b">>, <<",", "?">>}
DurationForms == {0, 1, 59, 60, 61, 3599, 3600, 86399, 86400, 90061}

Port(n) == [kind |-> "port", value |-> n]
Url(scheme, host, port) == [kind |-> "url", scheme |-> scheme, host |-> host, port |-> port]
ProxyUrls == {Missing, NoText, Word(<<"a">>), Url("socks4a", <<"a">>, Port(1)),
              Url("ftp", <<"a">>, Port(1)), Url("http", <<>>, Port(1)), Url("http", <<"b">>, Port(65536))}
Present(layer) == [k \in {key \in DOMAIN layer : layer[key] # Missing} |-> layer[k]]
ProxyConfigs ==
  {[overrides |-> <<>>,
    env |-> Present([HTTPS_PROXY |-> https, HTTP_PROXY |-> http, NO_PROXY |-> no]),
    properties |-> Present("https.proxyHost" :> host @@ "https.proxyPort" :> port @@
                           "http.proxyHost" :> Word(<<"b">>) @@ "http.nonProxyHosts" :> around)] :
     https \in ProxyUrls \cup {Fails}, http \in {Missing, Url("http", <<"c">>, Port(65535))},
     no \in {Missing, Word(<<"*">>), Word(<<"a", ",", "*", "b">>)},
     host \in {Missing, NoText, Word(<<"a">>)}, port \in {Missing, Port(0), Fails},
     around \in {Missing, Word(<<"b", "|", "\\", "|">>)}}
LayeredConfigs ==
  {[overrides |-> Present("SOME_KEY" :> o), env |-> Present("SOME_KEY" :> e),
    properties |-> Present("some.key" :> p)] :
     o \in {Missing, Word(<<"a">>)}, e \in {Missing, Fails, NoText, Word(<<"b">>)},
     p \in {Missing, Fails, Word(<<"*">>)}}
OverrideCalls ==
  [call : {"put", "remove"}, key : {"SOME_KEY", "NO_PROXY"}, value : {NoText, Word(<<"a">>), [kind |-> "int", value |-> 3]}]
=============================================================================
