-------------------------- MODULE BearerTokenCache --------------------------
(***************************************************************************)
(* The bearer token cache of packages/core/src/auth/bearer-cache.ts and    *)
(* the requests that drive it from packages/core/src/auth/auth-step.ts.    *)
(*                                                                         *)
(* A caller is one request passing the AUTH stage.  It stamps a token,     *)
(* sends, and on a 401 evicts the rejected token and replays once.  Many   *)
(* callers share one cache, one provider and one slot for the fetch in     *)
(* flight.  JavaScript runs each stretch between two awaits in one piece,  *)
(* so such a stretch is one action here; a fetch settles in two            *)
(* microtasks (then, finally) and other microtasks run between them.       *)
(***************************************************************************)
EXTENDS Integers

CONSTANTS
    Caller,      \* requests that share the cache
    Token,       \* opaque bearer tokens the provider may issue
    NoToken,     \* the `undefined` of the cached field
    ExpiresAt,   \* expiry instant of each token; "never" is past MaxClock + Margin
    Margin,      \* refresh margin in clock ticks (bearerMarginMs)
    MaxFetch,    \* bound: provider calls in a behaviour
    MaxClock     \* bound: clock ticks in a behaviour

ASSUME TokenAssumption == NoToken \notin Token
ASSUME ExpiryAssumption == ExpiresAt \in [Token -> Nat]
ASSUME BoundAssumption == Margin \in Nat /\ MaxFetch \in Nat /\ MaxClock \in Nat

Fetch == 1..MaxFetch
NoFetch == 0                \* the `undefined` of the inFlight field
NoEvictionGeneration == -1

VARIABLES
    cached,           \* the cached token, or NoToken
    inFlight,         \* the shared promise: the fetch in the slot, or NoFetch
    generation,       \* bumped to supersede every fetch in flight
    inFlightEviction, \* generation an eviction-driven fetch started at
    lastFetch,        \* provider calls so far; fetches are numbered in start order
    status,           \* none, pending, settling (then ran), settled (finally ran)
    fetchGeneration,  \* the generation a fetch captured when it started
    fetchNow,         \* nowMs of the caller that started the fetch
    result,           \* what a settled fetch resolved to; NoToken when it rejected
    clock,            \* the injected clock
    pc,               \* where a caller is in the AUTH stage
    now,              \* nowMs: the clock read once at the start of the hop
    token,            \* the token in the caller's Authorization header
    awaiting,         \* the fetch a caller awaits
    aborted,          \* the caller's signal
    cachedBy,         \* history: the fetch that published `cached`
    source,           \* history: the fetch that produced `token`
    postEviction      \* history: fetches started by startPostEviction

cacheVars == <<cached, inFlight, generation, inFlightEviction, cachedBy>>
fetchVars == <<lastFetch, status, fetchGeneration, fetchNow, result, postEviction>>
callerVars == <<pc, now, token, awaiting, aborted, source>>
vars == <<cacheVars, fetchVars, callerVars, clock>>

Status == {"none", "pending", "settling", "settled"}
PC == {"idle", "waiting", "stamped", "sent", "challenged", "refetching",
       "restamped", "closing", "replayed", "done", "failed"}

SlotTypeOK ==
    /\ inFlight \in Fetch \cup {NoFetch}
    /\ generation \in Nat
    /\ inFlightEviction \in Nat \cup {NoEvictionGeneration}
    /\ inFlightEviction <= generation
    /\ lastFetch \in 0..MaxFetch
    /\ status \in [Fetch -> Status]
    /\ fetchGeneration \in [Fetch -> Nat]
    /\ fetchNow \in [Fetch -> Nat]
    /\ result \in [Fetch -> Token \cup {NoToken}]
    /\ postEviction \in SUBSET Fetch

CachedTypeOK ==
    /\ cached \in Token \cup {NoToken}
    /\ cachedBy \in Fetch \cup {NoFetch}
    /\ clock \in Nat

CallerTypeOK ==
    /\ pc \in [Caller -> PC]
    /\ now \in [Caller -> Nat]
    /\ token \in [Caller -> Token \cup {NoToken}]
    /\ awaiting \in [Caller -> Fetch \cup {NoFetch}]
    /\ aborted \in [Caller -> BOOLEAN]
    /\ source \in [Caller -> Fetch \cup {NoFetch}]
    /\ \A c \in Caller : pc[c] \in {"waiting", "refetching"} <=> awaiting[c] # NoFetch

TypeOK == SlotTypeOK /\ CachedTypeOK /\ CallerTypeOK

Init ==
    /\ cached = NoToken
    /\ inFlight = NoFetch
    /\ generation = 0
    /\ inFlightEviction = NoEvictionGeneration
    /\ lastFetch = 0
    /\ status = [f \in Fetch |-> "none"]
    /\ fetchGeneration = [f \in Fetch |-> 0]
    /\ fetchNow = [f \in Fetch |-> 0]
    /\ result = [f \in Fetch |-> NoToken]
    /\ clock = 0
    /\ pc = [c \in Caller |-> "idle"]
    /\ now = [c \in Caller |-> 0]
    /\ token = [c \in Caller |-> NoToken]
    /\ awaiting = [c \in Caller |-> NoFetch]
    /\ aborted = [c \in Caller |-> FALSE]
    /\ cachedBy = NoFetch
    /\ source = [c \in Caller |-> NoFetch]
    /\ postEviction = {}

-----------------------------------------------------------------------------
(* Helpers shared by the actions.                                          *)

(* An exact hit on the expiry instant is not yet expired.                  *)
Expired(t, at, margin) == at + margin > ExpiresAt[t]

(* The provider is called: the tail of refresh(), past its coalescing      *)
(* test, at generation g and with the caller's reading of the clock.       *)
Invoke(g, evictionGeneration, at) ==
    LET f == lastFetch + 1 IN
    /\ f \in Fetch
    /\ lastFetch' = f
    /\ inFlight' = f
    /\ generation' = g
    /\ inFlightEviction' = evictionGeneration
    /\ status' = [status EXCEPT ![f] = "pending"]
    /\ fetchGeneration' = [fetchGeneration EXCEPT ![f] = g]
    /\ fetchNow' = [fetchNow EXCEPT ![f] = at]
    /\ UNCHANGED result

JoinInFlight ==
    /\ inFlight # NoFetch
    /\ UNCHANGED <<inFlight, generation, inFlightEviction, fetchVars>>

(* Mutant: no coalescing, each caller starts a fetch.                      *)
RefreshAlone(at) ==
    /\ Invoke(generation, NoEvictionGeneration, at)
    /\ UNCHANGED postEviction

(* refresh(): join the fetch in the slot, or start one.                    *)
Refresh(at) ==
    \/ JoinInFlight
    \/ /\ inFlight = NoFetch
       /\ Invoke(generation, NoEvictionGeneration, at)
       /\ UNCHANGED postEviction

(* startPostEviction(): only a fetch another 401 started at the current    *)
(* generation may be joined; any other is superseded and a new one starts. *)
MayJoinPostEvictionAny == TRUE      \* mutant: joins a fetch that predates the 401
MayJoinPostEvictionNone == FALSE    \* mutant: one provider call for each 401
MayJoinPostEviction == inFlightEviction = generation

(* Mutant: the generation is bumped a second time for the slot's tag.      *)
StartPostEvictionDoubleBump(at) ==
    \/ MayJoinPostEviction /\ JoinInFlight
    \/ /\ ~(inFlight # NoFetch /\ MayJoinPostEviction)
       /\ Invoke(generation + 1, generation + 2, at)
       /\ postEviction' = postEviction \cup {lastFetch + 1}

StartPostEviction(at) ==
    \/ MayJoinPostEviction /\ JoinInFlight
    \/ /\ ~(inFlight # NoFetch /\ MayJoinPostEviction)
       /\ Invoke(generation + 1, generation + 1, at)
       /\ postEviction' = postEviction \cup {lastFetch + 1}

IsCurrentAny(f) == TRUE             \* mutant: no generation check

(* The generation check of the then handler and of the finally handler.    *)
IsCurrent(f) == fetchGeneration[f] = generation

(* What the then handler makes of the provider's answer: null and a token  *)
(* expired at the starter's reading of the clock are errors.               *)
Accepted(f, t) == t # NoToken /\ ~Expired(t, fetchNow[f], 0)

-----------------------------------------------------------------------------
(* The cache's three zones, run when a request reaches the AUTH stage.     *)
(* The clock is read in the same stretch and kept for the whole hop.       *)

Arrive(c) ==
    /\ pc[c] = "idle"
    /\ now' = [now EXCEPT ![c] = clock]

Stamped(c, t, f) ==
    /\ pc' = [pc EXCEPT ![c] = "stamped"]
    /\ token' = [token EXCEPT ![c] = t]
    /\ source' = [source EXCEPT ![c] = f]

StampFresh(c) ==
    /\ Arrive(c)
    /\ cached # NoToken
    /\ ~Expired(cached, clock, Margin)
    /\ Stamped(c, cached, cachedBy)
    /\ UNCHANGED <<cacheVars, fetchVars, awaiting, aborted, clock>>

(* Expiring but valid: stamp the stale token and refresh behind it; nobody *)
(* awaits that fetch on this request's behalf and its failure is only      *)
(* logged.                                                                 *)
StampExpiring(c) ==
    /\ Arrive(c)
    /\ cached # NoToken
    /\ Expired(cached, clock, Margin)
    /\ ~Expired(cached, clock, 0)
    /\ Refresh(clock)
    /\ Stamped(c, cached, cachedBy)
    /\ UNCHANGED <<cached, cachedBy, awaiting, aborted, clock>>

(* Expired or missing: an aborted caller stops before it starts a fetch,   *)
(* any other awaits the shared one.                                        *)
StampMissing(c) ==
    /\ Arrive(c)
    /\ cached # NoToken => Expired(cached, clock, 0)
    /\ \/ /\ aborted[c]
          /\ pc' = [pc EXCEPT ![c] = "failed"]
          /\ UNCHANGED <<cacheVars, fetchVars, awaiting>>
       \/ /\ ~aborted[c]
          /\ Refresh(clock)
          /\ pc' = [pc EXCEPT ![c] = "waiting"]
          /\ awaiting' = [awaiting EXCEPT ![c] = inFlight']
          /\ UNCHANGED <<cached, cachedBy>>
    /\ UNCHANGED <<token, source, aborted, clock>>

-----------------------------------------------------------------------------
(* The provider answers.  The then handler runs, then in a later microtask *)
(* the finally handler; only after it do the callers that await resume.    *)

ProviderResolves(f) ==
    /\ status[f] = "pending"
    /\ \E t \in Token \cup {NoToken} :
        /\ result' = [result EXCEPT ![f] = IF Accepted(f, t) THEN t ELSE NoToken]
        /\ IF Accepted(f, t) /\ IsCurrent(f)
             THEN cached' = t /\ cachedBy' = f
             ELSE UNCHANGED <<cached, cachedBy>>
    /\ status' = [status EXCEPT ![f] = "settling"]
    /\ UNCHANGED <<inFlight, generation, inFlightEviction, lastFetch,
                   fetchGeneration, fetchNow, postEviction, callerVars, clock>>

ProviderRejects(f) ==
    /\ status[f] = "pending"
    /\ status' = [status EXCEPT ![f] = "settling"]
    /\ UNCHANGED <<cacheVars, lastFetch, fetchGeneration, fetchNow, result,
                   postEviction, callerVars, clock>>

(* Mutants: the slot is freed by whichever fetch settles; a superseded     *)
(* fetch never settles.                                                    *)
FinallyFreesSlot(f) ==
    /\ status[f] = "settling"
    /\ status' = [status EXCEPT ![f] = "settled"]
    /\ inFlight' = NoFetch
    /\ UNCHANGED <<cached, generation, inFlightEviction, cachedBy, lastFetch,
                   fetchGeneration, fetchNow, result, postEviction, callerVars, clock>>

FinallyCurrentOnly(f) ==
    /\ IsCurrent(f)
    /\ FinallyFreesSlot(f)

Finally(f) ==
    /\ status[f] = "settling"
    /\ status' = [status EXCEPT ![f] = "settled"]
    /\ inFlight' = IF IsCurrent(f) THEN NoFetch ELSE inFlight
    /\ UNCHANGED <<cached, generation, inFlightEviction, cachedBy, lastFetch,
                   fetchGeneration, fetchNow, result, postEviction, callerVars, clock>>

(* A caller that awaited the fetch resumes with its token or its error.    *)
Resume(c) ==
    /\ pc[c] \in {"waiting", "refetching"}
    /\ status[awaiting[c]] = "settled"
    /\ LET t == result[awaiting[c]] IN
        IF t = NoToken
          THEN pc' = [pc EXCEPT ![c] = "failed"] /\ UNCHANGED <<token, source>>
          ELSE /\ pc' = [pc EXCEPT ![c] =
                            IF pc[c] = "waiting" THEN "stamped" ELSE "restamped"]
               /\ token' = [token EXCEPT ![c] = t]
               /\ source' = [source EXCEPT ![c] = awaiting[c]]
    /\ awaiting' = [awaiting EXCEPT ![c] = NoFetch]
    /\ UNCHANGED <<cacheVars, fetchVars, now, aborted, clock>>

(* Mutant: only the preemptive stamp races the signal.                     *)
LeaveOnAbortStampOnly(c) ==
    /\ pc[c] = "waiting"
    /\ aborted[c]
    /\ pc' = [pc EXCEPT ![c] = "failed"]
    /\ awaiting' = [awaiting EXCEPT ![c] = NoFetch]
    /\ UNCHANGED <<cacheVars, fetchVars, now, token, source, aborted, clock>>

(* raceAbort(): a caller whose signal fires stops waiting; the fetch goes  *)
(* on for the others.                                                      *)
LeaveOnAbort(c) ==
    /\ pc[c] \in {"waiting", "refetching"}
    /\ aborted[c]
    /\ pc' = [pc EXCEPT ![c] = "failed"]
    /\ awaiting' = [awaiting EXCEPT ![c] = NoFetch]
    /\ UNCHANGED <<cacheVars, fetchVars, now, token, source, aborted, clock>>

-----------------------------------------------------------------------------
(* The rest of the AUTH stage around the cache.                            *)

Goto(c, to) ==
    /\ pc' = [pc EXCEPT ![c] = to]
    /\ UNCHANGED <<cacheVars, fetchVars, now, token, awaiting, aborted, source, clock>>

(* Microtasks run in the order they were queued: the finally handler of a  *)
(* fetch whose then handler published was queued before the continuation   *)
(* of any request stamped from what it published.                          *)
Send(c) ==
    /\ pc[c] = "stamped"
    /\ source[c] # NoFetch => status[source[c]] = "settled"
    /\ Goto(c, IF aborted[c] THEN "failed" ELSE "sent")

Respond(c) ==
    /\ pc[c] = "sent"
    /\ \/ Goto(c, "done")
       \/ Goto(c, "challenged")

(* handleChallenge() with the OAUTH2 hook: evict() and, in the same        *)
(* stretch, either the survivor is stamped or a post-eviction fetch is     *)
(* joined or started.                                                      *)
Survivor(c) == cached # NoToken /\ cached # token[c]

ChallengeAborted(c) ==
    /\ pc[c] = "challenged"
    /\ aborted[c]
    /\ Goto(c, "done")

ChallengeSurvivor(c) ==
    /\ pc[c] = "challenged"
    /\ ~aborted[c]
    /\ Survivor(c)
    /\ pc' = [pc EXCEPT ![c] = "restamped"]
    /\ token' = [token EXCEPT ![c] = cached]
    /\ source' = [source EXCEPT ![c] = cachedBy]
    /\ UNCHANGED <<cacheVars, fetchVars, now, awaiting, aborted, clock>>

ChallengeEvict(c) ==
    /\ pc[c] = "challenged"
    /\ ~aborted[c]
    /\ ~Survivor(c)
    /\ cached' = NoToken
    /\ cachedBy' = NoFetch
    /\ StartPostEviction(now[c])
    /\ pc' = [pc EXCEPT ![c] = "refetching"]
    /\ awaiting' = [awaiting EXCEPT ![c] = inFlight']
    /\ UNCHANGED <<now, token, aborted, source, clock>>

(* The replacement is not driven for a caller that gave up meanwhile or    *)
(* for a one-shot body: the 401 is returned open.  Otherwise the 401 is    *)
(* closed, which may throw, and the replay passes the cursor's abort test. *)
Replay(c) ==
    /\ pc[c] = "restamped"
    /\ \/ Goto(c, "done")
       \/ ~aborted[c] /\ Goto(c, "closing")

Redrive(c) ==
    /\ pc[c] = "closing"
    /\ \/ Goto(c, "failed")
       \/ ~aborted[c] /\ Goto(c, "replayed")

(* Whatever the replay answers: a second 401 is returned, never answered.  *)
ReplayAnswered(c) ==
    /\ pc[c] = "replayed"
    /\ Goto(c, "done")

(* The caller's next request (a retry, a redirect hop, a new send), with a *)
(* signal of its own.                                                      *)
NextRequest(c) ==
    /\ pc[c] \in {"done", "failed"}
    /\ pc' = [pc EXCEPT ![c] = "idle"]
    /\ now' = [now EXCEPT ![c] = 0]
    /\ token' = [token EXCEPT ![c] = NoToken]
    /\ source' = [source EXCEPT ![c] = NoFetch]
    /\ aborted' = [aborted EXCEPT ![c] = FALSE]
    /\ UNCHANGED <<cacheVars, fetchVars, awaiting, clock>>

Abort(c) ==
    /\ ~aborted[c]
    /\ pc[c] \notin {"done", "failed"}
    /\ aborted' = [aborted EXCEPT ![c] = TRUE]
    /\ UNCHANGED <<cacheVars, fetchVars, pc, now, token, awaiting, source, clock>>

Tick ==
    /\ clock < MaxClock
    /\ clock' = clock + 1
    /\ UNCHANGED <<cacheVars, fetchVars, callerVars>>

-----------------------------------------------------------------------------
CallerStep(c) ==
    \/ StampFresh(c) \/ StampExpiring(c) \/ StampMissing(c)
    \/ Resume(c) \/ LeaveOnAbort(c)
    \/ Send(c) \/ Respond(c)
    \/ ChallengeAborted(c) \/ ChallengeSurvivor(c) \/ ChallengeEvict(c)
    \/ Replay(c) \/ Redrive(c) \/ ReplayAnswered(c)
    \/ NextRequest(c) \/ Abort(c)

FetchStep(f) == ProviderResolves(f) \/ ProviderRejects(f) \/ Finally(f)

Next ==
    \/ \E c \in Caller : CallerStep(c)
    \/ \E f \in Fetch : FetchStep(f)
    \/ Tick

Spec == Init /\ [][Next]_vars

(* The event loop runs every queued microtask: a settling fetch settles, a *)
(* caller whose promise settled or whose signal fired resumes.  Nothing is *)
(* assumed of the provider.                                                *)
EventLoop ==
    /\ \A f \in Fetch : WF_vars(Finally(f))
    /\ \A c \in Caller : WF_vars(Resume(c)) /\ WF_vars(LeaveOnAbort(c))

FairSpec == Spec /\ EventLoop

(* A provider that carries its own deadline, as its contract asks.         *)
ProviderSettles ==
    \A f \in Fetch : WF_vars(ProviderResolves(f) \/ ProviderRejects(f))

-----------------------------------------------------------------------------
(* Correctness.                                                            *)

Unsettled(f) == status[f] \in {"pending", "settling"}

(* Single flight: the fetch whose token may still be published is the one  *)
(* in the slot, so two callers never have two such fetches in flight, and  *)
(* a superseded fetch that settles late (bearer-cache.ts 361) never frees  *)
(* the slot of its successor.                                              *)
OneCurrentFetch ==
    \A f \in Fetch : Unsettled(f) /\ fetchGeneration[f] = generation => inFlight = f

(* A burst of 401s costs one provider call: the fetch a 401 started is     *)
(* joined by the later ones (bearer-cache.ts 282-288) and is never         *)
(* superseded before it has settled.                                       *)
PostEvictionNeverSuperseded ==
    \A f \in postEviction : Unsettled(f) => fetchGeneration[f] = generation

(* The replay of a challenged request carries a token from a fetch that    *)
(* started after the fetch of the rejected one, whether it is the survivor *)
(* evict() returned, the fetch the request started or the one it joined;   *)
(* and a fetch the request waited for is one a 401 started, never an       *)
(* ordinary refresh that was out when the 401 came (bearer-cache.ts 282).  *)
ReplayIsNewer ==
    [][\A c \in Caller : pc[c] # "restamped" /\ pc'[c] = "restamped" =>
        /\ source'[c] > source[c]
        /\ pc[c] = "refetching" => source'[c] \in postEviction]_vars

(* The token in the cache is only ever replaced by that of a later fetch:  *)
(* a fetch a 401 superseded resolves late to its own caller and publishes  *)
(* nothing (bearer-cache.ts 354).                                          *)
PublishedInOrder ==
    [][cached' # NoToken /\ cached' # cached =>
        /\ cachedBy' > cachedBy
        /\ \A f \in postEviction : f <= cachedBy']_vars

(* A caller whose signal fires stops waiting, even on a provider that      *)
(* never answers.                                                          *)
AbortedCallerLeaves ==
    \A c \in Caller : aborted[c] /\ awaiting[c] # NoFetch ~> awaiting[c] = NoFetch

(* With a provider that settles, every caller that awaits a shared fetch   *)
(* resumes, whoever started it and whether or not that caller has left.    *)
EveryWaiterResumes ==
    ProviderSettles =>
        \A c \in Caller : awaiting[c] # NoFetch ~> awaiting[c] = NoFetch

(* The cache keeps the promise of SingleFlight: its fetch in the slot, as  *)
(* long as the provider has not answered, is the live one.                 *)
LiveFetch ==
    IF inFlight # NoFetch /\ status[inFlight] = "pending" THEN inFlight ELSE NoFetch

Promise == INSTANCE SingleFlight WITH
    live <- LiveFetch,
    forChallenge <- LiveFetch \in postEviction,
    started <- lastFetch

ImplementsSingleFlight == Promise!Spec

-----------------------------------------------------------------------------
(* The inductive invariant behind the safety properties.                   *)

(* Fetches are numbered in start order and their generations never go down *)
(* nor beyond the current one.                                             *)
Numbering ==
    /\ \A f \in Fetch : status[f] = "none" <=> f > lastFetch
    /\ \A f \in Fetch : f <= lastFetch => fetchGeneration[f] <= generation
    /\ \A f, g \in Fetch :
        f <= g /\ g <= lastFetch => fetchGeneration[f] <= fetchGeneration[g]
    /\ \A f \in postEviction : f <= lastFetch

(* The slot holds the fetch started last, at the current generation, and   *)
(* its tag tells whether a 401 started it.                                 *)
Slot ==
    /\ inFlight # NoFetch =>
        /\ inFlight = lastFetch
        /\ Unsettled(inFlight)
        /\ fetchGeneration[inFlight] = generation
        /\ inFlightEviction = generation => inFlight \in postEviction
    /\ \A f \in postEviction : Unsettled(f) => inFlightEviction = generation

(* A cached token came from a fetch of the current generation, and no      *)
(* fetch that settled with a token started after that one.                 *)
Published ==
    /\ \A f \in Fetch : status[f] \in {"none", "pending"} => result[f] = NoToken
    /\ cached = NoToken <=> cachedBy = NoFetch
    /\ cached # NoToken =>
        /\ status[cachedBy] \in {"settling", "settled"}
        /\ cachedBy <= lastFetch
        /\ fetchGeneration[cachedBy] = generation
        /\ result[cachedBy] = cached
        /\ \A f \in Fetch :
            status[f] \in {"settling", "settled"} /\ result[f] # NoToken
                => f <= cachedBy

(* What a caller holds and awaits.                                         *)
CallerOK(c) ==
    /\ source[c] # NoFetch =>
        /\ status[source[c]] \in {"settling", "settled"}
        /\ result[source[c]] = token[c]
        /\ token[c] # NoToken
    /\ pc[c] \in {"sent", "challenged", "refetching"} /\ source[c] # NoFetch
        => status[source[c]] = "settled"
    /\ awaiting[c] <= lastFetch
    /\ pc[c] = "refetching" =>
        source[c] < awaiting[c] /\ awaiting[c] \in postEviction

Callers == \A c \in Caller : CallerOK(c)

IndInv ==
    /\ TypeOK
    /\ Numbering
    /\ Slot
    /\ OneCurrentFetch
    /\ PostEvictionNeverSuperseded
    /\ Published
    /\ Callers

-----------------------------------------------------------------------------
(* What docs/sdk-documentation/auth.md 118-119 says: a provider that       *)
(* returns an already expired token is an error, not a request sent with a *)
(* dead token.  refresh() judges expiry by the clock reading of the hop    *)
(* that started the fetch, not by the clock when the provider answers.     *)
DeadTokenIsAnError ==
    [][\A f \in Fetch :
        status[f] = "pending" /\ status'[f] = "settling" /\ result'[f] # NoToken
            => ~Expired(result'[f], clock, 0)]_vars
=============================================================================
