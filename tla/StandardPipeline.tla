-------------------------- MODULE StandardPipeline --------------------------
(***************************************************************************)
(* One call through the pillars of standardResilience(), in stage order    *)
(* REDIRECT, RETRY, AUTH, POST_AUTH and the transport:                      *)
(*   packages/core/src/redirect/redirect-step.ts, decide.ts,                *)
(*     cross-origin.ts, strip-marker-step.ts                                *)
(*   packages/core/src/retry/retry-step.ts, engine.ts, classify.ts          *)
(*   packages/core/src/auth/auth-step.ts                                    *)
(*   packages/core/src/pipeline/cursor.ts                                   *)
(* An action is a stretch of code between two awaits; the signal may fire  *)
(* between any two.  Time is abstract: whether the retry budget is spent   *)
(* or a delay would overshoot it is a free choice here (RetryEngine times  *)
(* it).  So is every answer of the server, of a redirect predicate and of  *)
(* a challenge hook.                                                        *)
(***************************************************************************)
EXTENDS Integers, FiniteSets

CONSTANTS
    Url,           \* http(s) targets a Location header may resolve to
    Seed,          \* the targets a caller may request
    Origin,        \* scheme, host and port of each target
    Plaintext,     \* the targets that are not https:
    NoUrl,         \* a missing, malformed or unsupported Location
    MaxHops,       \* RedirectSettings.maxHops
    MaxAttempts    \* RetrySettings.maxAttempts

ASSUME UrlAssumption ==
    /\ Seed \subseteq Url
    /\ Plaintext \subseteq Url
    /\ NoUrl \notin Url
    /\ \A u, v \in Url : Origin[u] = Origin[v] => (u \in Plaintext <=> v \in Plaintext)
ASSUME BoundAssumption == MaxHops \in Nat /\ MaxAttempts \in Nat \ {0}

VARIABLES
    pc,           \* where the innermost running step awaits, or what it does next
    scheme,       \* the resolved auth scheme, "absent" without an auth step
    allowDowngrade,
    seed,         \* the caller's target
    request,      \* redirectStep's `request`: the current hop, before auth
    visited,      \* redirectStep's `visited`
    followed,     \* redirectStep's `redirectsFollowed`
    attempt,      \* the retry loop's counter
    crossOrigin,  \* OutboundPlan.crossOrigin of this attempt
    guarded,      \* OutboundPlan.guarded of this attempt
    outbound,     \* the request below the AUTH stage: planned, replacing, sent
    replayed,     \* this attempt's challenge has been answered
    answer,       \* the outcome travelling outwards
    open,         \* sends whose response has not been released
    sends,        \* dispatches to the transport
    oneShotSends, \* those that carried a one-shot body
    aborted       \* the caller's signal

hopVars == <<request, visited, followed>>
policyVars == <<scheme, allowDowngrade, seed>>
authVars == <<crossOrigin, guarded, outbound, replayed>>
wireVars == <<sends, oneShotSends>>
vars == <<pc, policyVars, hopVars, attempt, authVars, answer, open, wireVars, aborted>>

Scheme == {"absent", "NO_AUTH", "API_KEY", "OAUTH2", "BASIC"}

(* What a request carries that a property below tells apart: whose         *)
(* Authorization it has, the auth step's own API key header, the caller's  *)
(* cookie, the internal cross-origin marker, and the body.                 *)
Request ==
    [url : Url, idempotent : BOOLEAN, body : {"none", "replayable", "oneShot"},
     authorization : {"none", "caller", "stamped", "hook"}, apiKey : BOOLEAN,
     cookie : BOOLEAN, marker : BOOLEAN]

Status == {"final", "challenge", "busy", "redirect", "seeOther"}
Failure == {"io", "cancelled", "fatal"}
Pending == [kind |-> "pending"]
Error(e) == [kind |-> "error", error |-> e]
Response(s, to) == [kind |-> "response", status |-> s, location |-> to, id |-> sends]

Answer ==
    {Pending} \cup {Error(e) : e \in Failure}
    \cup [kind : {"response"}, status : Status, location : Url \cup {NoUrl}, id : Nat]

PC == {"hop", "planned", "wire", "challenged", "hooking", "replaying", "decideRetry",
       "retiring", "waiting", "decideHop", "following", "done"}

TypeOK ==
    /\ pc \in PC
    /\ scheme \in Scheme /\ allowDowngrade \in BOOLEAN /\ seed \in Seed
    /\ request \in Request /\ outbound \in Request
    /\ visited \in SUBSET Url /\ seed \in visited
    /\ followed \in 0..MaxHops /\ Cardinality(visited) = followed + 1
    /\ attempt \in 0..MaxAttempts
    /\ crossOrigin \in BOOLEAN /\ guarded \in BOOLEAN /\ replayed \in BOOLEAN
    /\ answer \in Answer
    /\ open \subseteq 1..sends
    /\ sends \in Nat /\ oneShotSends \in 0..sends
    /\ aborted \in BOOLEAN

Init ==
    /\ pc = "hop"
    /\ scheme \in Scheme
    /\ allowDowngrade \in BOOLEAN
    /\ seed \in Seed
    /\ request \in {r \in Request :
            r.url = seed /\ r.authorization = "caller" /\ ~r.apiKey /\ r.cookie}
    /\ visited = {seed}
    /\ followed = 0
    /\ attempt = 0
    /\ crossOrigin = FALSE
    /\ guarded = FALSE
    /\ outbound = request
    /\ replayed = FALSE
    /\ answer = Pending
    /\ open = {}
    /\ sends = 0
    /\ oneShotSends = 0
    /\ aborted \in BOOLEAN

-----------------------------------------------------------------------------
(* The way in: cursor boundaries, the auth plan, the dispatch.             *)

(* abortToSdkError(): a timeout signal yields a TransportFailureError,     *)
(* which is an IoError, any other a CancellationError.                     *)
AbortFailure == {"cancelled", "io"}

(* What a foreign await may raise: caller code and I/O raise anything, an  *)
(* abort only once the signal has fired.                                   *)
Raised == {"io", "fatal"} \cup (IF aborted THEN AbortFailure ELSE {})

BoundaryOpenAlways == TRUE      \* mutant: the walk never looks at the signal

(* Each step boundary of the cursor is a cancellation checkpoint.          *)
BoundaryOpen == ~aborted

StripNothing(r) == r            \* mutant: no backstop behind the auth step

(* stripCrossOriginMarkerStep(), and the auth step's own clearing.         *)
Strip(r) == [r EXCEPT !.marker = FALSE]

Transmit(r) ==
    /\ pc' = "wire"
    /\ outbound' = Strip(r)
    /\ sends' = sends + 1
    /\ oneShotSends' = oneShotSends + (IF r.body = "oneShot" THEN 1 ELSE 0)
    /\ answer' = Pending

Raise(e, next) ==
    /\ answer' = Error(e)
    /\ pc' = next

Stamp(r) ==
    CASE scheme = "OAUTH2" -> [r EXCEPT !.authorization = "stamped"]
      [] scheme = "API_KEY" -> [r EXCEPT !.apiKey = TRUE]
      [] OTHER -> r

(* planOutbound(): a marked hop is forwarded without a credential and      *)
(* without the https guard; on any other the guard comes before the stamp. *)
PlanOutbound ==
    LET cleared == [request EXCEPT !.marker = FALSE] IN
    /\ crossOrigin' = request.marker
    /\ guarded' = (~request.marker /\ scheme # "NO_AUTH")
    /\ replayed' = FALSE
    /\ IF guarded' /\ request.url \in Plaintext
         THEN Raise("fatal", "decideRetry") /\ outbound' = cleared
         ELSE /\ pc' = "planned"
              /\ outbound' = IF request.marker THEN cleared ELSE Stamp(cleared)
              /\ answer' = Pending
    /\ UNCHANGED wireVars

(* The top of the retry loop, down to the first await of the AUTH stage.   *)
StartAttempt(n) ==
    \/ /\ aborted
       /\ \E e \in AbortFailure : Raise(e, "done")
       /\ UNCHANGED <<attempt, authVars, wireVars>>
    \/ /\ ~aborted
       /\ attempt' = n
       /\ \/ scheme # "absent" /\ PlanOutbound
          \/ /\ scheme = "absent"
             /\ Transmit(request)
             /\ UNCHANGED <<crossOrigin, guarded, replayed>>

(* redirectStep forks the chain for a hop and the retry loop starts.       *)
DispatchHop ==
    /\ pc = "hop"
    /\ StartAttempt(1)
    /\ UNCHANGED <<policyVars, hopVars, open, aborted>>

(* The plan is awaited: a bearer fetch may fail.  Then the next boundary.  *)
SendPlanned ==
    /\ pc = "planned"
    /\ \/ /\ scheme = "OAUTH2"
          /\ ~crossOrigin
          /\ \E e \in Raised : Raise(e, "decideRetry")
          /\ UNCHANGED <<outbound, wireVars>>
       \/ /\ aborted
          /\ \E e \in AbortFailure : Raise(e, "decideRetry")
          /\ UNCHANGED <<outbound, wireVars>>
       \/ BoundaryOpen /\ Transmit(outbound)
    /\ UNCHANGED <<policyVars, hopVars, attempt, crossOrigin, guarded, replayed, open,
                   aborted>>

-----------------------------------------------------------------------------
(* The transport and the AUTH stage on the way out.                        *)

Respond ==
    /\ pc = "wire"
    /\ \E s \in Status, to \in Url \cup {NoUrl} :
        /\ s \notin {"redirect", "seeOther"} => to = NoUrl
        /\ answer' = Response(s, to)
    /\ open' = open \cup {sends}
    /\ pc' = IF scheme = "absent" THEN "decideRetry" ELSE "challenged"
    /\ UNCHANGED <<policyVars, hopVars, attempt, authVars, wireVars, aborted>>

TransportFails ==
    /\ pc = "wire"
    /\ \E e \in Raised : Raise(e, "decideRetry")
    /\ UNCHANGED <<policyVars, hopVars, attempt, authVars, open, wireVars, aborted>>

(* A 401 or 407 with its challenge header, on the first answer of an       *)
(* attempt whose hop was not marked.                                       *)
Reacts == answer.status = "challenge" /\ ~replayed /\ ~crossOrigin

Quiet == UNCHANGED <<policyVars, hopVars, attempt, authVars, wireVars, aborted>>

PassOutwards ==
    /\ pc = "challenged"
    /\ ~Reacts \/ aborted
    /\ pc' = "decideRetry"
    /\ UNCHANGED <<answer, open>>
    /\ Quiet

ConsultHook ==
    /\ pc = "challenged"
    /\ Reacts
    /\ ~aborted
    /\ pc' = "hooking"
    /\ UNCHANGED <<answer, open>>
    /\ Quiet

HookDeclines ==
    /\ pc = "hooking"
    /\ pc' = "decideRetry"
    /\ UNCHANGED <<answer, open>>
    /\ Quiet

HookThrowsOpen ==       \* mutant: the challenge is not released
    /\ pc = "hooking"
    /\ \E e \in Raised : Raise(e, "decideRetry")
    /\ UNCHANGED open
    /\ Quiet

HookThrows ==
    /\ pc = "hooking"
    /\ \E e \in Raised : Raise(e, "decideRetry")
    /\ open' = {}
    /\ Quiet

(* Mutant: only the standard headers tell a credentialed replay.           *)
AttachesByHeader(r) == r.authorization # "none"

(* Once guarded, always guarded; otherwise the header decides.             *)
Attaches(r) == guarded \/ r.authorization # "none"

(* The hook's replacement keeps the request it was given, may change its   *)
(* target, at worst to a plaintext one, and may attach an Authorization.   *)
Replacement(u, a) == [outbound EXCEPT !.url = u, !.authorization = a]

(* The gates behind the hook, in order: one-shot body, signal, https; then *)
(* the challenge is closed.                                                *)
AnswerWith(r) ==
    \/ /\ r.body = "oneShot" \/ aborted
       /\ pc' = "decideRetry"
       /\ UNCHANGED <<answer, open, outbound, replayed>>
    \/ /\ r.body # "oneShot" /\ ~aborted
       /\ Attaches(r) /\ r.url \in Plaintext
       /\ open' = {}
       /\ Raise("fatal", "decideRetry")
       /\ UNCHANGED <<outbound, replayed>>
    \/ /\ r.body # "oneShot" /\ ~aborted
       /\ ~(Attaches(r) /\ r.url \in Plaintext)
       /\ open' = {}
       /\ outbound' = r
       /\ replayed' = TRUE
       /\ pc' = "replaying"
       /\ UNCHANGED answer

HookAnswers ==
    /\ pc = "hooking"
    /\ \E u \in {outbound.url} \cup Plaintext, a \in {outbound.authorization, "hook"} :
        AnswerWith(Replacement(u, a))
    /\ UNCHANGED <<policyVars, hopVars, attempt, crossOrigin, guarded, wireVars, aborted>>

(* close() is awaited and may throw; then a fresh fork drives the replay.  *)
SendReplay ==
    /\ pc = "replaying"
    /\ \/ /\ \E e \in Raised : Raise(e, "decideRetry")
          /\ UNCHANGED <<outbound, wireVars>>
       \/ BoundaryOpen /\ Transmit(outbound)
    /\ UNCHANGED <<policyVars, hopVars, attempt, crossOrigin, guarded, replayed, open,
                   aborted>>

-----------------------------------------------------------------------------
(* The retry loop's decision.                                              *)

IsResponse == answer.kind = "response"

Retryable ==
    IF IsResponse THEN answer.status = "busy" ELSE answer.error = "io"

ResendableByMethod == request.body = "none" => request.idempotent   \* mutant

Resendable ==
    IF request.body = "none" THEN request.idempotent ELSE request.body = "replayable"

AttemptsLeftPlusOne == attempt <= MaxAttempts                       \* mutant
AttemptsLeft == attempt < MaxAttempts

(* A gate stops the loop: the outcome goes out as it is, a response live   *)
(* and unread.                                                             *)
StopRetrying ==
    /\ pc = "decideRetry"
    /\ \E budgetExhausted \in BOOLEAN :
        budgetExhausted \/ ~(Retryable /\ Resendable /\ AttemptsLeft)
    /\ pc' = IF IsResponse THEN "decideHop" ELSE "done"
    /\ UNCHANGED <<answer, open>>
    /\ Quiet

(* All gates passed: a response is drained into its error and released, a  *)
(* failure has nothing to release.  A delay that overshoots the budget     *)
(* ends the call with the error.                                           *)
RetireResponse ==
    /\ pc = "decideRetry"
    /\ IsResponse
    /\ Retryable /\ Resendable /\ AttemptsLeft
    /\ pc' = "retiring"
    /\ UNCHANGED <<answer, open>>
    /\ Quiet

Retired ==
    /\ pc = "retiring"
    /\ open' = {}
    /\ \/ \E e \in Raised : Raise(e, "done")
       \/ Raise("fatal", "waiting")
    /\ Quiet

ScheduleRetry ==
    /\ pc = "decideRetry"
    /\ ~IsResponse
    /\ Retryable /\ Resendable /\ AttemptsLeft
    /\ \E overshootsBudget \in BOOLEAN :
        pc' = IF overshootsBudget THEN "done" ELSE "waiting"
    /\ UNCHANGED <<answer, open>>
    /\ Quiet

(* Mutant: an abort does not end the wait.                                 *)
WakeUnlessAborted ==
    /\ pc = "waiting"
    /\ ~aborted
    /\ StartAttempt(attempt + 1)
    /\ UNCHANGED <<policyVars, hopVars, open, aborted>>

(* The wait ends, by its timer or by the signal, and the loop goes round.  *)
Wake ==
    /\ pc = "waiting"
    /\ StartAttempt(attempt + 1)
    /\ UNCHANGED <<policyVars, hopVars, open, aborted>>

(* The clock refuses the delay.                                            *)
SleepRejects ==
    /\ pc = "waiting"
    /\ ~aborted
    /\ Raise("fatal", "done")
    /\ UNCHANGED open
    /\ Quiet

-----------------------------------------------------------------------------
(* The redirect loop's decision.                                           *)

Recognized == answer.status \in {"redirect", "seeOther"}

(* Missing or malformed Location, a loop, the hop cap.                     *)
FollowableUncapped == answer.location # NoUrl /\ answer.location \notin visited  \* mutant
Followable ==
    /\ answer.location # NoUrl
    /\ answer.location \notin visited
    /\ followed + 1 <= MaxHops

Downgrades == request.url \notin Plaintext /\ answer.location \in Plaintext

Forbidden ==
    \/ Downgrades /\ ~allowDowngrade
    \/ answer.status # "seeOther" /\ request.body = "oneShot"

(* Status, method and predicate decide eligibility freely.                 *)
ReturnCurrent ==
    /\ pc = "decideHop"
    /\ \E eligible \in BOOLEAN :
        \/ ~(Recognized /\ eligible /\ Followable)
        \/ ~Forbidden /\ aborted
    /\ pc' = "done"
    /\ UNCHANGED <<answer, open>>
    /\ Quiet

PredicateThrows ==
    /\ pc = "decideHop"
    /\ Recognized
    /\ Raise("fatal", "done")
    /\ open' = {}
    /\ Quiet

FailHop ==
    /\ pc = "decideHop"
    /\ Recognized /\ Followable /\ Forbidden
    /\ Raise("fatal", "done")
    /\ open' = {}
    /\ Quiet

FollowHop ==
    /\ pc = "decideHop"
    /\ Recognized /\ Followable /\ ~Forbidden
    /\ ~aborted
    /\ pc' = "following"
    /\ open' = {}
    /\ UNCHANGED answer
    /\ Quiet

(* Mutant: compared with the hop before instead of the caller's origin.    *)
IsCrossOriginToHop(target) == Origin[target] # Origin[request.url]

IsCrossOrigin(target) == Origin[target] # Origin[seed]

FollowRequest ==
    LET target == answer.location
        foreign == IsCrossOrigin(target)
        seeOther == answer.status = "seeOther"
    IN [request EXCEPT
            !.url = target,
            !.authorization = "none",
            !.cookie = @ /\ ~foreign,
            !.marker = foreign,
            !.idempotent = @ \/ seeOther,
            !.body = IF seeOther THEN "none" ELSE @]

(* The hop's close() resolves, or throws out of the loop.                  *)
HopClosed ==
    /\ pc = "following"
    /\ request' = FollowRequest
    /\ visited' = visited \cup {answer.location}
    /\ followed' = followed + 1
    /\ pc' = "hop"
    /\ answer' = Pending
    /\ UNCHANGED <<policyVars, attempt, authVars, open, wireVars, aborted>>

HopCloseThrows ==
    /\ pc = "following"
    /\ \E e \in Raised : Raise(e, "done")
    /\ UNCHANGED open
    /\ Quiet

Abort ==
    /\ ~aborted
    /\ pc # "done"
    /\ aborted' = TRUE
    /\ UNCHANGED <<pc, policyVars, hopVars, attempt, authVars, answer, open, wireVars>>

-----------------------------------------------------------------------------
Step ==
    \/ DispatchHop \/ SendPlanned
    \/ Respond \/ TransportFails
    \/ PassOutwards \/ ConsultHook \/ HookDeclines \/ HookThrows \/ HookAnswers \/ SendReplay
    \/ StopRetrying \/ RetireResponse \/ Retired \/ ScheduleRetry \/ Wake \/ SleepRejects
    \/ ReturnCurrent \/ PredicateThrows \/ FailHop \/ FollowHop \/ HopClosed \/ HopCloseThrows

Next == Step \/ Abort

Spec == Init /\ [][Next]_vars

(* Every await settles: the event loop resumes what is ready, a transport  *)
(* answers or fails, and the caller's token provider, hook and body        *)
(* streams carry deadlines of their own, as their contracts ask.           *)
FairSpec == Spec /\ WF_vars(Step)

-----------------------------------------------------------------------------
(* Correctness.                                                            *)

(* A response is released or handed to the caller, never neither and never *)
(* both, and none is held while another request is on its way: the three   *)
(* pillars discard responses on a dozen paths (redirect-step.ts 226-252,   *)
(* engine.ts 243-261, auth-step.ts 621-709).                               *)
ResponseOwned ==
    /\ open \subseteq (IF IsResponse THEN {answer.id} ELSE {})
    /\ pc = "done" => (IsResponse <=> open # {})
    /\ pc \in {"hop", "planned", "wire", "replaying", "waiting", "following"} => open = {}

HasCallerCredential(r) == r.cookie \/ r.authorization = "caller"
HasOwnCredential(r) == r.apiKey \/ r.authorization \in {"stamped", "hook"}

(* No credential, the caller's or the SDK's, goes out on a hop whose       *)
(* target is of another origin than the one the caller asked for, however  *)
(* hops, attempts and challenges nest (REDIR-8, AUTH-29).                  *)
CredentialsStayHome ==
    pc = "wire" /\ (HasCallerCredential(outbound) \/ HasOwnCredential(outbound))
        => Origin[request.url] = Origin[seed]

(* A credential the AUTH stage attached never goes out in clear text, not  *)
(* on a hop after a permitted downgrade nor on a replay whose target a     *)
(* hook rewrote (auth-step.ts 586-602).                                    *)
NoPlaintextCredential ==
    pc = "wire" /\ HasOwnCredential(outbound) => outbound.url \notin Plaintext

(* The internal cross-origin marker never reaches the transport, with or   *)
(* without an auth step (REDIR-11).                                        *)
MarkerNeverOnWire == pc = "wire" => ~outbound.marker

(* A one-shot body is sent at most once: retry, redirect and challenge     *)
(* replay each have a gate of their own for it.                            *)
OneShotSentOnce == oneShotSends <= 1

(* The cap on dispatches: each followed hop has its own attempts and each  *)
(* attempt at most one replay.                                             *)
SendsBounded == sends <= (followed + 1) * MaxAttempts * 2

(* Once the caller has given up nothing more goes out, wherever in the     *)
(* three pillars the signal fired.                                         *)
NothingSentAfterAbort == [][aborted => sends' = sends]_vars

(* Every call ends, whatever the server answers.                           *)
EveryCallEnds == <>(pc = "done")
-----------------------------------------------------------------------------
(* The inductive invariant behind the safety properties.                   *)

InAuth == pc \in {"planned", "wire", "challenged", "hooking", "replaying"}

(* A hop of another origin than the caller's has been stripped and marked, *)
(* and what a stage below stamps never reaches the next hop.               *)
HopClean ==
    /\ ~request.apiKey
    /\ request.authorization \in {"none", "caller"}
    /\ Origin[request.url] # Origin[seed] =>
        ~request.cookie /\ request.authorization = "none" /\ request.marker

(* The plan of this attempt: a hop taken for the caller's own is one, and  *)
(* the outbound request adds a credential only there, behind the guard.    *)
PlanOK ==
    /\ scheme = "absent" => ~crossOrigin /\ ~guarded /\ ~replayed
    /\ InAuth =>
        /\ scheme # "absent" =>
            /\ ~crossOrigin => Origin[request.url] = Origin[seed]
            /\ guarded = (~crossOrigin /\ scheme # "NO_AUTH")
        /\ ~outbound.marker
        /\ outbound.cookie = request.cookie
        /\ outbound.body = request.body
        /\ scheme = "absent" \/ crossOrigin =>
            ~outbound.apiKey /\ outbound.authorization = request.authorization
        /\ outbound.apiKey => guarded
        /\ HasOwnCredential(outbound) => outbound.url \notin Plaintext
    /\ pc \in {"planned", "challenged", "hooking", "replaying"} => scheme # "absent"
    /\ pc = "hooking" => ~crossOrigin

(* The one live response is the one that travels outwards.                 *)
Held ==
    /\ IsResponse => answer.id = sends
    /\ pc \in {"challenged", "hooking", "retiring", "decideHop"} =>
        IsResponse /\ open = {answer.id}
    /\ pc \in {"replaying", "following"} => IsResponse
    /\ pc \in {"decideRetry", "done"} =>
        \/ IsResponse /\ open = {answer.id}
        \/ answer.kind = "error" /\ open = {}
    /\ pc \in {"hop", "planned", "wire", "replaying", "waiting", "following"} => open = {}

(* Wherever a send may follow, a one-shot body has not gone out yet.       *)
OneShotUnsent ==
    /\ pc \in {"hop", "planned"} /\ request.body = "oneShot" => oneShotSends = 0
    /\ pc \in {"waiting", "retiring", "replaying"} => request.body # "oneShot"
    /\ pc = "following" => answer.status = "seeOther" \/ request.body # "oneShot"

(* What the hops before this one, the attempts before this one and this    *)
(* attempt have sent at most.                                              *)
SentBefore == followed * (MaxAttempts * 2)
Counted ==
    /\ pc = "hop" => sends <= SentBefore
    /\ pc = "planned" => sends <= SentBefore + (attempt - 1) * 2
    /\ pc \in {"wire", "challenged", "hooking"} =>
        sends <= SentBefore + (attempt - 1) * 2 + (IF replayed THEN 2 ELSE 1)
    /\ pc = "hooking" => ~replayed
    /\ pc = "replaying" => replayed
    /\ pc = "replaying" => sends <= SentBefore + (attempt - 1) * 2 + 1
    /\ pc \in {"decideRetry", "retiring", "waiting", "decideHop", "following", "done"} =>
        sends <= SentBefore + attempt * 2
    /\ pc \in {"retiring", "waiting"} => attempt < MaxAttempts
    /\ pc \notin {"hop", "done"} => attempt >= 1
    /\ pc \in {"wire", "challenged", "hooking", "replaying"} => sends >= 1

(* The response that is followed leads to a new target below the hop cap.  *)
Chain ==
    /\ IsFiniteSet(visited)
    /\ pc = "following" =>
        /\ answer.location \in Url \ visited
        /\ followed + 1 <= MaxHops

IndInv ==
    /\ TypeOK
    /\ HopClean
    /\ PlanOK
    /\ Held
    /\ OneShotUnsent
    /\ OneShotSentOnce
    /\ Counted
    /\ Chain
=============================================================================
