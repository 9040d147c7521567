------------------------------ MODULE AuthChoice ------------------------------
(***************************************************************************)
(* Which requirement of which tier a call is authenticated by, what the    *)
(* credentials make possible, and what a credential shows of itself.       *)
(*                                                                         *)
(* A requirement is a scheme with scopes and parameters.  What throws      *)
(* answers {}, and what answers a value a set of it.                       *)
(***************************************************************************)
EXTENDS Integers, Sequences, SequencesExt, FiniteSets, TLC

Unset == <<>>   \* a tier that is not configured
Never == 1000   \* the expiry of a token that has none
NotANumber == -1

-----------------------------------------------------------------------------
(* Requirements and descriptors                                            *)

AuthRequirement(scheme, scopes, params) == [scheme |-> scheme, scopes |-> scopes, params |-> params]
AuthRequirementsEqual(a, b) ==
  /\ a.scheme = b.scheme /\ a.scopes = b.scopes
  /\ Cardinality(DOMAIN a.params) = Cardinality(DOMAIN b.params)
  /\ \A key \in DOMAIN a.params : key \in DOMAIN b.params /\ a.params[key] = b.params[key]

AuthDescriptor(requirements) ==
  IF requirements = <<>> THEN {}
  ELSE {[requirements |-> requirements,
         allowsAnonymous |-> \E i \in DOMAIN requirements : requirements[i].scheme = "NO_AUTH"]}

\* effectiveTiers: what a call carries covers what the step was given.
EffectiveTiers(configured, perCall, operation) ==
  [configured EXCEPT !.perCall = IF perCall = Unset THEN @ ELSE perCall,
                     !.operation = IF operation = Unset THEN @ ELSE operation]

AvailableSchemesOf(credentials) ==
  {s \in {"BASIC", "DIGEST", "OAUTH2", "API_KEY"} :
     s \in {[basic |-> "BASIC", digest |-> "DIGEST", bearer |-> "OAUTH2", apiKey |-> "API_KEY"][c] :
              c \in credentials}}

\* buildHandlers: Digest before Basic.
BuildHandlers(credentials) ==
  (IF "digest" \in credentials THEN <<"digest">> ELSE <<>>)
    \o (IF "basic" \in credentials THEN <<"basic">> ELSE <<>>)

\* resolveAuthRequirement: one tier is asked, the strongest there is, for its
\* first requirement that can be met.
StrongestTier(tiers) ==
  CASE tiers.perCall # Unset -> tiers.perCall
    [] tiers.perCall = Unset /\ tiers.operation # Unset -> tiers.operation
    [] OTHER -> tiers.client
ResolveAuthRequirement(tiers, available) ==
  LET tier == StrongestTier(tiers)
      met == {i \in DOMAIN tier : tier[i].scheme \in available \cup {"NO_AUTH"}}
  IN  {tier[i] : i \in {j \in met : \A k \in met : j <= k}}

-----------------------------------------------------------------------------
(* Credentials                                                             *)

\* createBearerToken: a text that is not blank, an expiry that is a number.
BearerToken(token, expiresAt) ==
  IF token \in {"", " "} \/ expiresAt = NotANumber THEN {} ELSE {[token |-> token, expiresAt |-> expiresAt]}
TokenExpired(token, now, margin) == token.expiresAt # Never /\ now + margin > token.expiresAt

\* The keys and names that identify somebody must not be blank; a user name
\* and a password may be.
Credential(kind, name, secret) ==
  IF \/ kind \in {"apiKey", "nameKey"} /\ secret \in {"", " "}
     \/ kind = "nameKey" /\ name \in {"", " "}
  THEN {} ELSE {[kind |-> kind, name |-> name, secret |-> secret]}
Shown(credential) ==
  IF credential.kind \in {"apiKey", "bearer"} THEN <<"***">> ELSE <<credential.name, "***">>
SecretOf(credential) == credential.secret

\* stampStaticKey: the header and what is in it.
StampStaticKey(config, credential) ==
  [headerName |-> IF config.headerName = "" THEN "Authorization" ELSE config.headerName,
   headerValue |-> IF config.prefix = "" THEN <<SecretOf(credential)>>
                   ELSE <<config.prefix, " ", SecretOf(credential)>>]

-----------------------------------------------------------------------------
(* The proxy's challenge                                                   *)

\* createProxyChallengeReporter: one line for all 407 answers of a transport
\* whose handler cannot be called.
ProxyReports(hasHandler, statuses) ==
  LET seen == SelectSeq(statuses, LAMBDA s : s = 407)
  IN  IF ~hasHandler \/ seen = <<>> THEN 0 ELSE 1
WarnsAtStart(hasProxy, hasHandler) == hasProxy /\ hasHandler

-----------------------------------------------------------------------------
(* What these must be                                                      *)

\* A call is never authenticated by a tier weaker than the strongest that says
\* anything, by a scheme there is no credential for, or anonymously while a
\* requirement before that could be met; and a tier that allows anonymous calls
\* never fails one.
AuthChoiceHolds(configured, perCall, operation, credentials) ==
  LET tiers == EffectiveTiers(configured, perCall, operation)
      available == AvailableSchemesOf(credentials)
      stated == <<perCall, configured.perCall, operation, configured.operation, configured.client>>
      asked == {i \in DOMAIN stated : stated[i] # Unset /\ \A j \in 1 .. i - 1 : stated[j] = Unset}
      canMeet(r) == r.scheme \in available \cup {"NO_AUTH"}
      chosen == ResolveAuthRequirement(tiers, available)
  IN  /\ \A r \in chosen : \E i \in asked :
           /\ canMeet(r)
           /\ \E k \in DOMAIN stated[i] : r = stated[i][k] /\ \A j \in 1 .. k - 1 : ~canMeet(stated[i][j])
      /\ \A i \in asked : chosen = {} => \A d \in AuthDescriptor(stated[i]) : ~d.allowsAnonymous
      /\ \A i, j \in DOMAIN BuildHandlers(credentials) : i < j => BuildHandlers(credentials)[j] = "basic"

\* A token that is good for a margin is good for a smaller one and was good
\* before, and one without an expiry stays good.
TokensHold(expiresAt, now, margin) ==
  \A token \in BearerToken("t", expiresAt) :
    ~TokenExpired(token, now, margin) =>
      /\ \A m \in 0 .. margin : \A t \in 0 .. now : ~TokenExpired(token, t, m)
      /\ token.expiresAt # Never => now + margin <= token.expiresAt

\* No credential that exists is blank where it must not be, or shows its
\* secret; what is sent ends in it.
SecretsHold(kind, name, secret, config) ==
  \A c \in Credential(kind, name, secret) :
    /\ secret \notin ToSet(Shown(c)) \/ secret = name
    /\ LET sent == StampStaticKey(config, c).headerValue IN
         sent[Len(sent)] = secret /\ (config.prefix # "" => sent[1] = config.prefix)

\* Equal requirements are chosen alike, and equality is what it says.
RequirementsHold(a, b) ==
  /\ AuthRequirementsEqual(a, b) <=> a = b
  /\ AuthRequirementsEqual(a, b) = AuthRequirementsEqual(b, a)

-----------------------------------------------------------------------------
(* The values the run asks about                                           *)

Simple(scheme) == AuthRequirement(scheme, <<>>, <<>>)
TierForms ==
  {Unset, <<Simple("NO_AUTH")>>, <<Simple("OAUTH2")>>, <<Simple("DIGEST"), Simple("BASIC")>>,
   <<Simple("API_KEY"), Simple("NO_AUTH"), Simple("OAUTH2")>>}
CredentialSets == SUBSET {"basic", "digest", "bearer", "apiKey"}
Tiers == [perCall : {Unset, <<Simple("BASIC")>>}, operation : TierForms, client : TierForms]
RequirementForms ==
  {AuthRequirement(s, scopes, params) : s \in {"OAUTH2", "BASIC"}, scopes \in {<<>>, <<"a">>, <<"a", "b">>, <<"b", "a">>},
     params \in {<<>>, "k" :> "1", "k" :> "2", ("k" :> "1") @@ ("l" :> "1")}}
=============================================================================
