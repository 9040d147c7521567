----------------------------- MODULE AuthProofs -----------------------------
(***************************************************************************)
(* Proofs about the auth components: BearerTokenCache, for every set of    *)
(* callers and tokens and every bound, and DigestAuth, for every order of  *)
(* algorithms, tracker size, count width and list of challenges;           *)
(* AuthChoice, for all tiers, requirements and credentials; and what may   *)
(* be shown of a URL that is logged (EventRecords).                        *)
(***************************************************************************)
EXTENDS BearerTokenCache, DigestAuth, AuthChoice, EventRecords, SequenceFacts

-----------------------------------------------------------------------------
(* Type correctness.                                                       *)

(* A provider call fills the slot with a fetch and keeps the types.        *)
LEMMA InvokeType ==
    ASSUME TypeOK, NEW g \in Nat, NEW e \in Nat \cup {NoEvictionGeneration},
           NEW at \in Nat, e <= g, Invoke(g, e, at),
           postEviction' \in SUBSET Fetch
    PROVE  SlotTypeOK' /\ inFlight' \in Fetch
  BY BoundAssumption DEF TypeOK, SlotTypeOK, Invoke, Fetch, NoFetch,
       NoEvictionGeneration, Status

(* refresh() ends with a fetch in the slot, joined or started.             *)
LEMMA RefreshType ==
    ASSUME TypeOK, NEW at \in Nat, Refresh(at)
    PROVE  SlotTypeOK' /\ inFlight' \in Fetch
<1>1. CASE JoinInFlight
  BY <1>1 DEF TypeOK, SlotTypeOK, JoinInFlight, fetchVars
<1>2. CASE Invoke(generation, NoEvictionGeneration, at) /\ UNCHANGED postEviction
  BY <1>2, InvokeType DEF TypeOK, SlotTypeOK, NoEvictionGeneration
<1>. QED
  BY <1>1, <1>2 DEF Refresh

(* So does startPostEviction().                                            *)
LEMMA StartPostEvictionType ==
    ASSUME TypeOK, NEW at \in Nat, StartPostEviction(at)
    PROVE  SlotTypeOK' /\ inFlight' \in Fetch
<1>1. CASE JoinInFlight
  BY <1>1 DEF TypeOK, SlotTypeOK, JoinInFlight, fetchVars
<1>2. CASE /\ Invoke(generation + 1, generation + 1, at)
           /\ postEviction' = postEviction \cup {lastFetch + 1}
  <2>1. lastFetch + 1 \in Fetch
    BY <1>2 DEF Invoke
  <2>. QED
    BY <1>2, <2>1, InvokeType DEF TypeOK, SlotTypeOK
<1>. QED
  BY <1>1, <1>2 DEF StartPostEviction

(* A step that only moves a caller between states in which it awaits       *)
(* nothing keeps the types.                                                *)
LEMMA GotoType ==
    ASSUME TypeOK, NEW c \in Caller, pc[c] \notin {"waiting", "refetching"},
           NEW to \in PC \ {"waiting", "refetching"}, Goto(c, to)
    PROVE  TypeOK'
  BY DEF TypeOK, SlotTypeOK, CachedTypeOK, CallerTypeOK, Goto, PC, cacheVars, fetchVars

(* No step leaves the types of the variables.                              *)
LEMMA TypeStep == TypeOK /\ [Next]_vars => TypeOK'
<1>. SUFFICES ASSUME TypeOK, [Next]_vars PROVE TypeOK'
  OBVIOUS
<1>. USE TokenAssumption, BoundAssumption
     DEF TypeOK, Fetch, NoFetch, NoEvictionGeneration, Status, PC
<1>1. TypeOK'
  <2>1. ASSUME NEW c \in Caller, StampFresh(c) PROVE TypeOK'
    BY <2>1 DEF StampFresh, Arrive, Stamped, SlotTypeOK, CachedTypeOK, CallerTypeOK, cacheVars, fetchVars
  <2>2. ASSUME NEW c \in Caller, StampExpiring(c) PROVE TypeOK'
    <3>0. clock \in Nat
      BY DEF CachedTypeOK
    <3>1. SlotTypeOK'
      BY <2>2, <3>0, RefreshType DEF StampExpiring
    <3>2. CachedTypeOK' /\ CallerTypeOK'
      BY <2>2 DEF StampExpiring, Arrive, Stamped, SlotTypeOK, CachedTypeOK, CallerTypeOK
    <3>. QED
      BY <3>1, <3>2
  <2>3. ASSUME NEW c \in Caller, StampMissing(c) PROVE TypeOK'
    <3>1. CASE aborted[c]
      BY <2>3, <3>1 DEF StampMissing, Arrive, SlotTypeOK, CachedTypeOK, CallerTypeOK, cacheVars, fetchVars
    <3>2. CASE ~aborted[c]
      <4>0. clock \in Nat
        BY DEF CachedTypeOK
      <4>1. SlotTypeOK' /\ inFlight' \in Fetch
        BY <2>3, <3>2, <4>0, RefreshType DEF StampMissing
      <4>2. CachedTypeOK'
        BY <2>3, <3>2 DEF StampMissing, CachedTypeOK
      <4>3. CallerTypeOK'
        BY <2>3, <3>2, <4>1 DEF StampMissing, Arrive, CachedTypeOK, CallerTypeOK
      <4>. QED
        BY <4>1, <4>2, <4>3
    <3>. QED
      BY <3>1, <3>2
  <2>4. ASSUME NEW c \in Caller, Resume(c) PROVE TypeOK'
    <3>1. awaiting[c] \in Fetch /\ result[awaiting[c]] \in Token \cup {NoToken}
      BY <2>4 DEF Resume, SlotTypeOK, CallerTypeOK
    <3>2. SlotTypeOK' /\ CachedTypeOK'
      BY <2>4 DEF Resume, SlotTypeOK, CachedTypeOK, cacheVars, fetchVars
    <3>3. CallerTypeOK'
      BY <2>4, <3>1 DEF Resume, CallerTypeOK
    <3>. QED
      BY <3>2, <3>3
  <2>5. ASSUME NEW c \in Caller, LeaveOnAbort(c) PROVE TypeOK'
    BY <2>5 DEF LeaveOnAbort, SlotTypeOK, CachedTypeOK, CallerTypeOK, cacheVars, fetchVars
  <2>6. ASSUME NEW c \in Caller, Send(c) PROVE TypeOK'
    BY <2>6, GotoType DEF Send
  <2>7. ASSUME NEW c \in Caller, Respond(c) PROVE TypeOK'
    BY <2>7, GotoType DEF Respond
  <2>8. ASSUME NEW c \in Caller, ChallengeAborted(c) PROVE TypeOK'
    BY <2>8, GotoType DEF ChallengeAborted
  <2>9. ASSUME NEW c \in Caller, ChallengeSurvivor(c) PROVE TypeOK'
    BY <2>9 DEF ChallengeSurvivor, Survivor, SlotTypeOK, CachedTypeOK, CallerTypeOK, cacheVars, fetchVars
  <2>10. ASSUME NEW c \in Caller, ChallengeEvict(c) PROVE TypeOK'
    <3>1. now[c] \in Nat
      BY DEF CallerTypeOK
    <3>2. SlotTypeOK' /\ inFlight' \in Fetch
      BY <2>10, <3>1, StartPostEvictionType DEF ChallengeEvict
    <3>3. CachedTypeOK'
      BY <2>10 DEF ChallengeEvict, CachedTypeOK
    <3>4. CallerTypeOK'
      BY <2>10, <3>2 DEF ChallengeEvict, CallerTypeOK
    <3>. QED
      BY <3>2, <3>3, <3>4
  <2>11. ASSUME NEW c \in Caller, Replay(c) PROVE TypeOK'
    BY <2>11, GotoType DEF Replay
  <2>12. ASSUME NEW c \in Caller, Redrive(c) \/ ReplayAnswered(c) PROVE TypeOK'
    BY <2>12, GotoType DEF Redrive, ReplayAnswered
  <2>13. ASSUME NEW c \in Caller, NextRequest(c) PROVE TypeOK'
    BY <2>13 DEF NextRequest, SlotTypeOK, CachedTypeOK, CallerTypeOK, cacheVars, fetchVars
  <2>14. ASSUME NEW c \in Caller, Abort(c) PROVE TypeOK'
    BY <2>14 DEF Abort, SlotTypeOK, CachedTypeOK, CallerTypeOK, cacheVars, fetchVars
  <2>15. ASSUME NEW f \in Fetch, ProviderResolves(f) PROVE TypeOK'
    <3>1. PICK t \in Token \cup {NoToken} :
            /\ result' = [result EXCEPT ![f] = IF Accepted(f, t) THEN t ELSE NoToken]
            /\ IF Accepted(f, t) /\ IsCurrent(f)
                 THEN cached' = t /\ cachedBy' = f
                 ELSE UNCHANGED <<cached, cachedBy>>
      BY <2>15 DEF ProviderResolves
    <3>2. CachedTypeOK'
      BY <2>15, <3>1 DEF ProviderResolves, CachedTypeOK
    <3>3. SlotTypeOK'
      BY <2>15, <3>1 DEF ProviderResolves, SlotTypeOK
    <3>4. CallerTypeOK'
      BY <2>15 DEF ProviderResolves, CallerTypeOK, callerVars
    <3>. QED
      BY <3>2, <3>3, <3>4
  <2>16. ASSUME NEW f \in Fetch, ProviderRejects(f) PROVE TypeOK'
    BY <2>16 DEF ProviderRejects, SlotTypeOK, CachedTypeOK, CallerTypeOK, cacheVars, callerVars
  <2>17. ASSUME NEW f \in Fetch, Finally(f) PROVE TypeOK'
    BY <2>17 DEF Finally, IsCurrent, SlotTypeOK, CachedTypeOK, CallerTypeOK, cacheVars, callerVars
  <2>18. CASE Tick
    <3>1. CachedTypeOK'
      BY <2>18 DEF Tick, CachedTypeOK, cacheVars
    <3>2. SlotTypeOK'
      BY <2>18 DEF Tick, SlotTypeOK, cacheVars, fetchVars
    <3>3. CallerTypeOK'
      BY <2>18 DEF Tick, CallerTypeOK, callerVars
    <3>. QED
      BY <3>1, <3>2, <3>3
  <2>19. CASE UNCHANGED vars
    BY <2>19 DEF vars, SlotTypeOK, CachedTypeOK, CallerTypeOK, cacheVars, fetchVars, callerVars
  <2>. QED
    BY <2>1, <2>2, <2>3, <2>4, <2>5, <2>6, <2>7, <2>8, <2>9, <2>10, <2>11, <2>12, <2>13, <2>14, <2>15, <2>16, <2>17, <2>18, <2>19 DEF Next, CallerStep, FetchStep
<1>. QED
  BY <1>1

(* The cache starts well typed.                                            *)
LEMMA TypeInit == Init => TypeOK
  BY BoundAssumption DEF Init, TypeOK, SlotTypeOK, CachedTypeOK, CallerTypeOK, Fetch,
       NoFetch, NoEvictionGeneration, Status, PC

(* Every reachable state of the cache and of its callers is well typed,    *)
(* and a caller awaits a fetch exactly while it is in a waiting state.     *)
THEOREM TypeCorrect == Spec => []TypeOK
  BY TypeInit, TypeStep, PTL DEF Spec

-----------------------------------------------------------------------------
(* The slot, the generations and the fetches.                              *)

FetchInv == Numbering /\ Slot /\ OneCurrentFetch /\ PostEvictionNeverSuperseded

slotVars == <<inFlight, generation, inFlightEviction, lastFetch, status,
              fetchGeneration, postEviction>>

(* What leaves slot and fetches alone keeps their invariant.               *)
LEMMA FetchInvUnchanged ==
    ASSUME FetchInv, UNCHANGED slotVars
    PROVE  FetchInv'
  BY DEF FetchInv, slotVars, Numbering, Slot, OneCurrentFetch,
         PostEvictionNeverSuperseded, Unsettled

(* An ordinary fetch starts only on a free slot, so no current fetch is    *)
(* unsettled then and the new one is the only one.                         *)
LEMMA FetchInvRefresh ==
    ASSUME TypeOK, FetchInv, NEW at \in Nat, Refresh(at)
    PROVE  FetchInv'
<1>1. CASE JoinInFlight
  BY <1>1, FetchInvUnchanged DEF JoinInFlight, fetchVars, slotVars
<1>2. CASE /\ inFlight = NoFetch
           /\ Invoke(generation, NoEvictionGeneration, at)
           /\ UNCHANGED postEviction
  <2>. DEFINE n == lastFetch + 1
  <2>. USE <1>2, BoundAssumption
       DEF TypeOK, SlotTypeOK, Fetch, NoFetch, NoEvictionGeneration, Invoke, Unsettled
  <2>1. /\ n \in Fetch /\ status[n] = "none"
        /\ inFlight' = n /\ lastFetch' = n /\ generation' = generation
        /\ inFlightEviction' = -1 /\ postEviction' = postEviction
        /\ n \notin postEviction
        /\ status' = [status EXCEPT ![n] = "pending"]
        /\ fetchGeneration' = [fetchGeneration EXCEPT ![n] = generation]
    BY DEF FetchInv, Numbering
  <2>2. Numbering'
    BY <2>1 DEF FetchInv, Numbering
  <2>3. \A f \in Fetch : Unsettled(f) => fetchGeneration[f] # generation
    BY DEF FetchInv, OneCurrentFetch
  <2>4. \A f \in postEviction : ~Unsettled(f)
    BY <2>3 DEF FetchInv, PostEvictionNeverSuperseded
  <2>5. Slot'
    BY <2>1, <2>4 DEF Slot
  <2>6. OneCurrentFetch'
    BY <2>1, <2>3 DEF OneCurrentFetch
  <2>7. PostEvictionNeverSuperseded'
    BY <2>1, <2>4 DEF PostEvictionNeverSuperseded
  <2>. QED
    BY <2>2, <2>5, <2>6, <2>7 DEF FetchInv
<1>. QED
  BY <1>1, <1>2 DEF Refresh

(* A 401 supersedes only a fetch no 401 started.                           *)
LEMMA FetchInvStartPostEviction ==
    ASSUME TypeOK, FetchInv, NEW at \in Nat, StartPostEviction(at)
    PROVE  FetchInv'
<1>1. CASE JoinInFlight
  BY <1>1, FetchInvUnchanged DEF JoinInFlight, fetchVars, slotVars
<1>2. CASE /\ ~(inFlight # NoFetch /\ MayJoinPostEviction)
           /\ Invoke(generation + 1, generation + 1, at)
           /\ postEviction' = postEviction \cup {lastFetch + 1}
  <2>. DEFINE n == lastFetch + 1
  <2>. USE <1>2, BoundAssumption
       DEF TypeOK, SlotTypeOK, Fetch, NoFetch, NoEvictionGeneration, Invoke, Unsettled
  <2>1. /\ n \in Fetch /\ status[n] = "none"
        /\ inFlight' = n /\ lastFetch' = n /\ generation' = generation + 1
        /\ inFlightEviction' = generation + 1 /\ postEviction' = postEviction \cup {n}
        /\ status' = [status EXCEPT ![n] = "pending"]
        /\ fetchGeneration' = [fetchGeneration EXCEPT ![n] = generation + 1]
    BY DEF FetchInv, Numbering
  <2>2. Numbering'
    BY <2>1, SMTT(20) DEF FetchInv, Numbering
  <2>3. \A f \in postEviction : ~Unsettled(f)
    BY DEF FetchInv, Slot, OneCurrentFetch, PostEvictionNeverSuperseded, MayJoinPostEviction
  <2>4. \A f \in Fetch : f # n => fetchGeneration'[f] # generation' \/ ~Unsettled(f)'
    BY <2>1 DEF FetchInv, Numbering
  <2>5. Slot'
    BY <2>1, <2>3 DEF Slot
  <2>6. OneCurrentFetch'
    BY <2>1, <2>4 DEF OneCurrentFetch
  <2>7. PostEvictionNeverSuperseded'
    BY <2>1, <2>3 DEF PostEvictionNeverSuperseded
  <2>. QED
    BY <2>2, <2>5, <2>6, <2>7 DEF FetchInv
<1>. QED
  BY <1>1, <1>2 DEF StartPostEviction

(* A provider's answer leaves its fetch unsettled until finally runs.      *)
LEMMA FetchInvAnswer ==
    ASSUME TypeOK, FetchInv, NEW f \in Fetch, status[f] = "pending",
           status' = [status EXCEPT ![f] = "settling"],
           UNCHANGED <<inFlight, generation, inFlightEviction, lastFetch,
                       fetchGeneration, postEviction>>
    PROVE  FetchInv'
<1>1. /\ \A g \in Fetch : Unsettled(g)' = Unsettled(g)
      /\ \A g \in Fetch : status'[g] = "none" <=> status[g] = "none"
  BY DEF Unsettled, TypeOK, SlotTypeOK
<1>2. Numbering'
  BY <1>1 DEF FetchInv, Numbering
<1>3. Slot'
  BY <1>1 DEF FetchInv, Slot, TypeOK, SlotTypeOK
<1>4. OneCurrentFetch' /\ PostEvictionNeverSuperseded'
  BY <1>1 DEF FetchInv, OneCurrentFetch, PostEvictionNeverSuperseded, TypeOK, SlotTypeOK
<1>. QED
  BY <1>2, <1>3, <1>4 DEF FetchInv

(* finally frees the slot only of a current fetch, which is the one in it. *)
LEMMA FetchInvFinally ==
    ASSUME TypeOK, FetchInv, NEW f \in Fetch, Finally(f)
    PROVE  FetchInv'
<1>. USE DEF TypeOK, SlotTypeOK, Unsettled, Finally, IsCurrent
<1>1. Numbering'
  BY DEF FetchInv, Numbering
<1>2. CASE fetchGeneration[f] = generation
  <2>1. inFlight = f /\ inFlight' = NoFetch
    BY <1>2 DEF FetchInv, OneCurrentFetch
  <2>2. Slot'
    BY <2>1 DEF FetchInv, Slot
  <2>3. OneCurrentFetch' /\ PostEvictionNeverSuperseded'
    BY <2>1 DEF FetchInv, OneCurrentFetch, PostEvictionNeverSuperseded
  <2>. QED
    BY <1>1, <2>2, <2>3 DEF FetchInv
<1>3. CASE fetchGeneration[f] # generation
  <2>1. inFlight' = inFlight /\ inFlight # f
    BY <1>3 DEF FetchInv, Slot, Fetch, NoFetch
  <2>2. Slot'
    BY <2>1 DEF FetchInv, Slot
  <2>3. OneCurrentFetch' /\ PostEvictionNeverSuperseded'
    BY <2>1 DEF FetchInv, OneCurrentFetch, PostEvictionNeverSuperseded
  <2>. QED
    BY <1>1, <2>2, <2>3 DEF FetchInv
<1>. QED
  BY <1>2, <1>3

-----------------------------------------------------------------------------
(* The cached token.                                                       *)

Answered == {"settling", "settled"}

(* What every step does to the fetches: an answer is final.                *)
Evolve ==
    /\ lastFetch <= lastFetch'
    /\ postEviction \subseteq postEviction'
    /\ \A f \in Fetch :
        /\ status[f] \in Answered => status'[f] \in Answered /\ result'[f] = result[f]
        /\ status[f] = "settled" => status'[f] = "settled"

(* What leaves the fetches alone lets them evolve trivially.               *)
LEMMA EvolveUnchanged ==
    ASSUME TypeOK, UNCHANGED <<lastFetch, status, result, postEviction>>
    PROVE  Evolve
  BY DEF TypeOK, SlotTypeOK, Evolve

(* A provider call adds a fetch and leaves the others alone.               *)
LEMMA EvolveInvoke ==
    ASSUME TypeOK, Numbering, NEW g, NEW e, NEW at, Invoke(g, e, at),
           postEviction \subseteq postEviction'
    PROVE  Evolve
  BY DEF TypeOK, SlotTypeOK, Evolve, Invoke, Numbering, Fetch, Answered

(* So does refresh().                                                      *)
LEMMA EvolveRefresh ==
    ASSUME TypeOK, Numbering, NEW at, Refresh(at)
    PROVE  Evolve
  BY EvolveUnchanged, EvolveInvoke DEF Refresh, JoinInFlight, fetchVars

(* So does startPostEviction().                                            *)
LEMMA EvolveStartPostEviction ==
    ASSUME TypeOK, Numbering, NEW at, StartPostEviction(at)
    PROVE  Evolve
  BY EvolveUnchanged, EvolveInvoke DEF StartPostEviction, JoinInFlight, fetchVars

(* What leaves cache and results alone keeps what is published.            *)
LEMMA PublishedUnchanged ==
    ASSUME Published, UNCHANGED <<cached, cachedBy, generation, lastFetch, status,
                                  fetchGeneration, result>>
    PROVE  Published'
  BY DEF Published

(* refresh() publishes nothing.                                            *)
LEMMA PublishedRefresh ==
    ASSUME TypeOK, FetchInv, Published, NEW at, Refresh(at),
           UNCHANGED <<cached, cachedBy>>
    PROVE  Published'
<1>1. CASE JoinInFlight
  BY <1>1, PublishedUnchanged DEF JoinInFlight, fetchVars
<1>2. CASE Invoke(generation, NoEvictionGeneration, at)
  <2>. DEFINE n == lastFetch + 1
  <2>. USE DEF TypeOK, SlotTypeOK, CachedTypeOK, Fetch, NoFetch
  <2>1. /\ n \in Fetch /\ status[n] = "none"
        /\ status' = [status EXCEPT ![n] = "pending"]
        /\ fetchGeneration' = [fetchGeneration EXCEPT ![n] = generation]
        /\ lastFetch' = n
        /\ UNCHANGED <<result, generation>>
    BY <1>2 DEF Invoke, FetchInv, Numbering
  <2>2. CASE cached = NoToken
    BY <2>1, <2>2 DEF Published
  <2>3. CASE cached # NoToken
    <3>1. cachedBy \in Fetch /\ cachedBy # n
      BY <2>1, <2>3 DEF Published
    <3>. QED
      BY <2>1, <2>3, <3>1 DEF Published
  <2>. QED
    BY <2>2, <2>3
<1>. QED
  BY <1>1, <1>2 DEF Refresh

(* A 401 clears the cache whether it joins a fetch or starts one.          *)
LEMMA PublishedStartPostEviction ==
    ASSUME TypeOK, FetchInv, Published, NEW at, StartPostEviction(at),
           cached' = NoToken, cachedBy' = NoFetch
    PROVE  Published'
<1>1. CASE JoinInFlight
  BY <1>1 DEF JoinInFlight, fetchVars, Published
<1>2. CASE Invoke(generation + 1, generation + 1, at)
  BY <1>2 DEF Invoke, Published, TypeOK, SlotTypeOK, FetchInv, Numbering
<1>. QED
  BY <1>1, <1>2 DEF StartPostEviction

(* A provider's answer.  When it is published its fetch is the one in the  *)
(* slot, hence the last; when it is not, a 401 came after its fetch        *)
(* started and whatever is cached is of a later generation.                *)
LEMMA PublishedResolves ==
    ASSUME TypeOK, FetchInv, Published, NEW f \in Fetch, ProviderResolves(f)
    PROVE  Published'
<1>1. PICK t \in Token \cup {NoToken} :
        /\ result' = [result EXCEPT ![f] = IF Accepted(f, t) THEN t ELSE NoToken]
        /\ IF Accepted(f, t) /\ IsCurrent(f)
             THEN cached' = t /\ cachedBy' = f
             ELSE UNCHANGED <<cached, cachedBy>>
  BY DEF ProviderResolves
<1>2. /\ status[f] = "pending"
      /\ status' = [status EXCEPT ![f] = "settling"]
      /\ UNCHANGED <<generation, lastFetch, fetchGeneration>>
      /\ f <= lastFetch
  BY DEF ProviderResolves, FetchInv, Numbering, TypeOK, SlotTypeOK, Fetch
<1>. USE DEF TypeOK, SlotTypeOK, CachedTypeOK
<1>5. \A g \in Fetch : g # f => status'[g] = status[g] /\ result'[g] = result[g]
  BY <1>1, <1>2
<1>6. \A g \in Fetch : status'[g] \in {"none", "pending"} => result'[g] = NoToken
  <2>1. status'[f] = "settling"
    BY <1>2
  <2>. QED
    BY <1>5, <2>1 DEF Published
<1>3. CASE Accepted(f, t) /\ IsCurrent(f)
  <2>1. t # NoToken /\ fetchGeneration[f] = generation
    BY <1>3 DEF Accepted, IsCurrent
  <2>2. f = lastFetch
    BY <1>2, <2>1 DEF FetchInv, OneCurrentFetch, Slot, Unsettled, Fetch, NoFetch
  <2>3. \A g \in Fetch : status'[g] \in {"settling", "settled"} => g <= f
    BY <1>2, <2>2 DEF FetchInv, Numbering
  <2>4. cached' = t /\ cachedBy' = f /\ result'[f] = t /\ status'[f] = "settling"
    BY <1>1, <1>2, <1>3
  <2>. QED
    BY <1>2, <1>6, <2>1, <2>2, <2>3, <2>4 DEF Published, Fetch, NoFetch
<1>4. CASE ~(Accepted(f, t) /\ IsCurrent(f))
  <2>1. UNCHANGED <<cached, cachedBy>>
    BY <1>1, <1>4
  <2>2. CASE cached = NoToken
    BY <1>6, <2>1, <2>2 DEF Published
  <2>3. CASE cached # NoToken
    <3>1. cachedBy \in Fetch /\ cachedBy # f
      BY <1>2, <2>3 DEF Published, NoFetch
    <3>2. result'[f] # NoToken => f <= cachedBy
      <4>1. SUFFICES ASSUME Accepted(f, t), fetchGeneration[f] # generation
                     PROVE  f <= cachedBy
        BY <1>1, <1>4 DEF IsCurrent
      <4>. QED
        BY <1>2, <2>3, <3>1, <4>1 DEF FetchInv, Numbering, Published, Fetch
    <3>. QED
      BY <1>2, <1>5, <1>6, <2>1, <2>3, <3>1, <3>2 DEF Published
  <2>. QED
    BY <2>2, <2>3
<1>. QED
  BY <1>3, <1>4

(* A rejection and a finally publish nothing.                              *)
LEMMA PublishedRejects ==
    ASSUME TypeOK, FetchInv, Published, NEW f \in Fetch, ProviderRejects(f)
    PROVE  Published'
  BY DEF ProviderRejects, Published, TypeOK, SlotTypeOK, CachedTypeOK, cacheVars

(* Nor does the finally handler.                                           *)
LEMMA PublishedFinally ==
    ASSUME TypeOK, FetchInv, Published, NEW f \in Fetch, Finally(f)
    PROVE  Published'
  BY DEF Finally, Published, TypeOK, SlotTypeOK, CachedTypeOK

-----------------------------------------------------------------------------
(* The callers.                                                            *)

(* A caller that does not move keeps what it holds and awaits.             *)
LEMMA CallerKept ==
    ASSUME TypeOK, TypeOK', Evolve, NEW c \in Caller, CallerOK(c),
           pc'[c] = pc[c], token'[c] = token[c], source'[c] = source[c],
           awaiting'[c] = awaiting[c]
    PROVE  CallerOK(c)'
<1>. USE DEF TypeOK, SlotTypeOK, CallerTypeOK, Answered
<1>1. source[c] \in Fetch \cup {NoFetch} /\ awaiting[c] \in Fetch \cup {NoFetch}
  OBVIOUS
<1>2. awaiting'[c] <= lastFetch'
  <2>1. lastFetch <= lastFetch' /\ awaiting[c] <= lastFetch
    BY DEF Evolve, CallerOK
  <2>2. lastFetch \in Int /\ lastFetch' \in Int /\ awaiting[c] \in Int
    BY <1>1 DEF Fetch, NoFetch
  <2>. QED
    BY <2>1, <2>2
<1>3. source[c] \in Fetch =>
        /\ status[source[c]] \in Answered =>
            status'[source[c]] \in Answered /\ result'[source[c]] = result[source[c]]
        /\ status[source[c]] = "settled" => status'[source[c]] = "settled"
  BY DEF Evolve
<1>4. awaiting[c] \in postEviction => awaiting[c] \in postEviction'
  BY DEF Evolve
<1>. QED
  BY <1>1, <1>2, <1>3, <1>4 DEF CallerOK

(* So do all callers.                                                      *)
LEMMA CallersKept ==
    ASSUME TypeOK, TypeOK', Evolve, Callers, UNCHANGED <<pc, token, source, awaiting>>
    PROVE  Callers'
  BY CallerKept DEF Callers

(* A step of one caller keeps the others.                                  *)
LEMMA CallersStep ==
    ASSUME TypeOK, TypeOK', Evolve, Callers, NEW c \in Caller, CallerOK(c)',
           \A d \in Caller \ {c} : /\ pc'[d] = pc[d]
                                    /\ token'[d] = token[d]
                                    /\ source'[d] = source[d]
                                    /\ awaiting'[d] = awaiting[d]
    PROVE  Callers'
  BY CallerKept DEF Callers

-----------------------------------------------------------------------------
(* The inductive invariant.                                                *)

(* The invariant in the parts the lemmas above speak of.                   *)
LEMMA IndInvParts == IndInv <=> TypeOK /\ FetchInv /\ Published /\ Callers
  BY DEF IndInv, FetchInv

(* The cache starts in the invariant.                                      *)
LEMMA IndInvInit == Init => IndInv
<1>. SUFFICES ASSUME Init PROVE IndInv
  OBVIOUS
<1>1. Numbering /\ Slot /\ OneCurrentFetch /\ PostEvictionNeverSuperseded
  BY DEF Init, Numbering, Slot, OneCurrentFetch, PostEvictionNeverSuperseded,
         Unsettled, Fetch, NoFetch
<1>2. Published /\ Callers
  BY DEF Init, Published, Callers, CallerOK, NoFetch
<1>. QED
  BY <1>1, <1>2, TypeInit DEF IndInv

(* A step that leaves the cache and the fetches alone.                     *)
LEMMA QuietStep ==
    ASSUME IndInv, TypeOK', UNCHANGED <<cacheVars, fetchVars>>
    PROVE  FetchInv' /\ Published' /\ Evolve
  BY IndInvParts, FetchInvUnchanged, PublishedUnchanged, EvolveUnchanged
     DEF cacheVars, fetchVars, slotVars

(* A caller stamped with the cached token holds the answer of the fetch    *)
(* that published it.                                                      *)
LEMMA StampedOK ==
    ASSUME IndInv, TypeOK', Evolve, Published, NEW c \in Caller, cached # NoToken,
           token'[c] = cached, source'[c] = cachedBy,
           pc'[c] \notin {"sent", "challenged", "refetching"}, awaiting'[c] = awaiting[c]
    PROVE  CallerOK(c)'
<1>1. /\ cachedBy \in Fetch /\ status[cachedBy] \in Answered
      /\ result[cachedBy] = cached
  BY DEF Published, Answered, IndInv, TypeOK, CachedTypeOK
<1>2. status'[cachedBy] \in Answered /\ result'[cachedBy] = cached
  BY <1>1 DEF Evolve
<1>3. awaiting'[c] <= lastFetch'
  <2>1. lastFetch <= lastFetch' /\ awaiting[c] <= lastFetch
    BY DEF Evolve, IndInv, Callers, CallerOK
  <2>2. lastFetch \in Int /\ lastFetch' \in Int /\ awaiting[c] \in Int
    BY DEF IndInv, TypeOK, SlotTypeOK, CallerTypeOK, Fetch, NoFetch
  <2>. QED
    BY <2>1, <2>2
<1>. QED
  BY <1>2, <1>3 DEF CallerOK, Answered

(* Every step keeps the invariant.                                         *)
LEMMA IndInvStep == IndInv /\ [Next]_vars => IndInv'
<1>. SUFFICES ASSUME IndInv, [Next]_vars PROVE IndInv'
  OBVIOUS
<1>0. TypeOK /\ TypeOK' /\ FetchInv /\ Published /\ Callers /\ Numbering
  BY TypeStep, IndInvParts DEF IndInv
<1>00. /\ clock \in Nat
       /\ \A c \in Caller : now[c] \in Nat
       /\ \A c \in Caller : source[c] \in Fetch \cup {NoFetch}
       /\ \A c \in Caller : awaiting[c] \in Fetch \cup {NoFetch}
  BY <1>0 DEF TypeOK, CachedTypeOK, CallerTypeOK
<1>. SUFFICES FetchInv' /\ Published' /\ Callers'
  BY <1>0 DEF IndInv, FetchInv
<1>1. ASSUME NEW c \in Caller, StampFresh(c) PROVE FetchInv' /\ Published' /\ Callers'
  <2>1. FetchInv' /\ Published' /\ Evolve
    BY <1>1, <1>0, QuietStep DEF StampFresh
  <2>2. CallerOK(c)'
    BY <1>1, <1>0, <2>1, StampedOK
       DEF StampFresh, Arrive, Stamped, TypeOK, CallerTypeOK
  <2>. QED
    BY <1>1, <1>0, <2>1, <2>2, CallersStep
       DEF StampFresh, Arrive, Stamped, TypeOK, CallerTypeOK
<1>2. ASSUME NEW c \in Caller, StampExpiring(c) PROVE FetchInv' /\ Published' /\ Callers'
  <2>1. FetchInv' /\ Published' /\ Evolve
    BY <1>2, <1>0, <1>00, FetchInvRefresh, PublishedRefresh, EvolveRefresh DEF StampExpiring
  <2>2. CallerOK(c)'
    BY <1>2, <1>0, <2>1, StampedOK
       DEF StampExpiring, Arrive, Stamped, TypeOK, CallerTypeOK
  <2>. QED
    BY <1>2, <1>0, <2>1, <2>2, CallersStep
       DEF StampExpiring, Arrive, Stamped, TypeOK, CallerTypeOK
<1>3. ASSUME NEW c \in Caller, StampMissing(c) PROVE FetchInv' /\ Published' /\ Callers'
  <2>1. CASE aborted[c]
    <3>1. FetchInv' /\ Published' /\ Evolve
      BY <1>3, <1>0, <2>1, QuietStep DEF StampMissing
    <3>2. CallerOK(c)'
      BY <1>3, <1>0, <2>1
         DEF StampMissing, Arrive, Callers, CallerOK, TypeOK, CallerTypeOK, fetchVars
    <3>. QED
      BY <1>3, <1>0, <2>1, <3>1, <3>2, CallersStep
         DEF StampMissing, Arrive, TypeOK, CallerTypeOK
  <2>2. CASE ~aborted[c]
    <3>1. FetchInv' /\ Published' /\ Evolve
      BY <1>3, <1>0, <1>00, <2>2, FetchInvRefresh, PublishedRefresh, EvolveRefresh
         DEF StampMissing
    <3>2. awaiting'[c] = inFlight' /\ inFlight' <= lastFetch'
      BY <1>3, <1>0, <2>2, <3>1 DEF StampMissing, Refresh, JoinInFlight, Invoke,
         FetchInv, Slot, TypeOK, SlotTypeOK, CallerTypeOK, Fetch, NoFetch
    <3>3. /\ pc'[c] = "waiting" /\ token'[c] = token[c] /\ source'[c] = source[c]
      BY <1>3, <1>0, <2>2 DEF StampMissing, TypeOK, CallerTypeOK
    <3>4. CallerOK(c)'
      BY <1>0, <1>00, <3>1, <3>2, <3>3 DEF Callers, CallerOK, Evolve, Answered
    <3>. QED
      BY <1>3, <1>0, <2>2, <3>1, <3>4, CallersStep
         DEF StampMissing, Arrive, TypeOK, CallerTypeOK
  <2>. QED
    BY <2>1, <2>2
<1>4. ASSUME NEW c \in Caller, Resume(c) PROVE FetchInv' /\ Published' /\ Callers'
  <2>1. FetchInv' /\ Published' /\ Evolve
    BY <1>4, <1>0, QuietStep DEF Resume
  <2>2. CallerOK(c)'
    BY <1>4, <1>0 DEF Resume, Callers, CallerOK, TypeOK, SlotTypeOK, CallerTypeOK,
       fetchVars, Fetch, NoFetch
  <2>. QED
    BY <1>4, <1>0, <2>1, <2>2, CallersStep DEF Resume, TypeOK, CallerTypeOK
<1>5. ASSUME NEW c \in Caller, LeaveOnAbort(c) PROVE FetchInv' /\ Published' /\ Callers'
  <2>1. FetchInv' /\ Published' /\ Evolve
    BY <1>5, <1>0, QuietStep DEF LeaveOnAbort
  <2>2. CallerOK(c)'
    BY <1>5, <1>0 DEF LeaveOnAbort, Callers, CallerOK, TypeOK, SlotTypeOK, CallerTypeOK,
       fetchVars, NoFetch
  <2>. QED
    BY <1>5, <1>0, <2>1, <2>2, CallersStep DEF LeaveOnAbort, TypeOK, CallerTypeOK
<1>6. ASSUME NEW c \in Caller, NEW to \in PC \ {"sent", "challenged", "refetching"}, Goto(c, to)
      PROVE  FetchInv' /\ Published' /\ Callers'
  <2>1. FetchInv' /\ Published' /\ Evolve
    BY <1>6, <1>0, QuietStep DEF Goto
  <2>2. CallerOK(c)'
    BY <1>6, <1>0 DEF Goto, Callers, CallerOK, TypeOK, CallerTypeOK, fetchVars
  <2>. QED
    BY <1>6, <1>0, <2>1, <2>2, CallersStep DEF Goto, TypeOK, CallerTypeOK
<1>7. ASSUME NEW c \in Caller, NEW to \in {"sent", "challenged"}, Goto(c, to),
             Send(c) \/ Respond(c)
      PROVE  FetchInv' /\ Published' /\ Callers'
  <2>1. FetchInv' /\ Published' /\ Evolve
    BY <1>7, <1>0, QuietStep DEF Goto
  <2>2. source[c] # NoFetch => status[source[c]] = "settled"
    BY <1>7, <1>0, <1>00 DEF Send, Respond, Callers, CallerOK
  <2>3. CallerOK(c)'
    BY <1>7, <1>0, <2>2 DEF Goto, Callers, CallerOK, TypeOK, CallerTypeOK, fetchVars
  <2>. QED
    BY <1>7, <1>0, <2>1, <2>3, CallersStep DEF Goto, TypeOK, CallerTypeOK
<1>8. ASSUME NEW c \in Caller, ChallengeSurvivor(c)
      PROVE  FetchInv' /\ Published' /\ Callers'
  <2>1. FetchInv' /\ Published' /\ Evolve
    BY <1>8, <1>0, QuietStep DEF ChallengeSurvivor
  <2>2. CallerOK(c)'
    BY <1>8, <1>0, <2>1, StampedOK DEF ChallengeSurvivor, Survivor, TypeOK, CallerTypeOK
  <2>. QED
    BY <1>8, <1>0, <2>1, <2>2, CallersStep DEF ChallengeSurvivor, TypeOK, CallerTypeOK
<1>9. ASSUME NEW c \in Caller, ChallengeEvict(c) PROVE FetchInv' /\ Published' /\ Callers'
  <2>1. FetchInv' /\ Published' /\ Evolve
    BY <1>9, <1>0, <1>00, FetchInvStartPostEviction, PublishedStartPostEviction,
       EvolveStartPostEviction DEF ChallengeEvict
  <2>2. /\ pc'[c] = "refetching" /\ token'[c] = token[c] /\ source'[c] = source[c]
        /\ awaiting'[c] = inFlight'
    BY <1>9, <1>0 DEF ChallengeEvict, TypeOK, CallerTypeOK
  <2>3. source[c] # NoFetch => source[c] <= lastFetch /\ status[source[c]] = "settled"
    BY <1>9, <1>0, <1>00 DEF ChallengeEvict, Callers, CallerOK, Numbering, TypeOK,
       SlotTypeOK, Fetch
  <2>4. inFlight' <= lastFetch' /\ source[c] < inFlight'
    <3>1. CASE JoinInFlight
      <4>1. inFlight = lastFetch /\ status[inFlight] # "settled" /\ inFlight' = inFlight
        BY <1>0, <3>1 DEF JoinInFlight, FetchInv, Slot, Unsettled
      <4>2. inFlight \in Fetch /\ lastFetch' = lastFetch
        BY <1>0, <3>1 DEF JoinInFlight, fetchVars, TypeOK, SlotTypeOK
      <4>. QED
        BY <1>00, <2>3, <4>1, <4>2 DEF Fetch, NoFetch
    <3>2. CASE Invoke(generation + 1, generation + 1, now[c])
      BY <1>0, <1>00, <2>3, <3>2 DEF Invoke, TypeOK, SlotTypeOK, Fetch, NoFetch
    <3>. QED
      BY <1>9, <3>1, <3>2 DEF ChallengeEvict, StartPostEviction
  <2>7. inFlight' \in postEviction'
    BY <1>9, <1>0 DEF ChallengeEvict, StartPostEviction, MayJoinPostEviction, JoinInFlight,
       Invoke, fetchVars, FetchInv, Slot
  <2>5. source[c] \in Fetch => status'[source[c]] = "settled" /\ result'[source[c]] = result[source[c]]
    BY <2>1, <2>3, <1>00 DEF Evolve, Fetch, NoFetch, Answered
  <2>6. CallerOK(c)'
    BY <1>0, <1>00, <2>2, <2>4, <2>5, <2>7 DEF Callers, CallerOK
  <2>. QED
    BY <1>9, <1>0, <2>1, <2>6, CallersStep DEF ChallengeEvict, TypeOK, CallerTypeOK
<1>10. ASSUME NEW c \in Caller, NextRequest(c) PROVE FetchInv' /\ Published' /\ Callers'
  <2>1. FetchInv' /\ Published' /\ Evolve
    BY <1>10, <1>0, QuietStep DEF NextRequest
  <2>2. CallerOK(c)'
    BY <1>10, <1>0 DEF NextRequest, Callers, CallerOK, TypeOK, CallerTypeOK, fetchVars
  <2>. QED
    BY <1>10, <1>0, <2>1, <2>2, CallersStep DEF NextRequest, TypeOK, CallerTypeOK
<1>11. ASSUME NEW c \in Caller, Abort(c) PROVE FetchInv' /\ Published' /\ Callers'
  BY <1>11, <1>0, QuietStep, CallersKept DEF Abort
<1>12. ASSUME NEW f \in Fetch, ProviderResolves(f) PROVE FetchInv' /\ Published' /\ Callers'
  <2>1. FetchInv' /\ Published'
    BY <1>12, <1>0, FetchInvAnswer, PublishedResolves DEF ProviderResolves
  <2>2. Evolve
    BY <1>12, <1>0 DEF ProviderResolves, Evolve, Answered, TypeOK, SlotTypeOK
  <2>. QED
    BY <1>12, <1>0, <2>1, <2>2, CallersKept DEF ProviderResolves, callerVars
<1>13. ASSUME NEW f \in Fetch, ProviderRejects(f) PROVE FetchInv' /\ Published' /\ Callers'
  <2>1. FetchInv' /\ Published'
    BY <1>13, <1>0, FetchInvAnswer, PublishedRejects DEF ProviderRejects, cacheVars
  <2>2. Evolve
    BY <1>13, <1>0 DEF ProviderRejects, Evolve, Answered, TypeOK, SlotTypeOK
  <2>. QED
    BY <1>13, <1>0, <2>1, <2>2, CallersKept DEF ProviderRejects, callerVars
<1>14. ASSUME NEW f \in Fetch, Finally(f) PROVE FetchInv' /\ Published' /\ Callers'
  <2>1. FetchInv' /\ Published'
    BY <1>14, <1>0, FetchInvFinally, PublishedFinally
  <2>2. Evolve
    BY <1>14, <1>0 DEF Finally, Evolve, Answered, TypeOK, SlotTypeOK
  <2>. QED
    BY <1>14, <1>0, <2>1, <2>2, CallersKept DEF Finally, callerVars
<1>15. CASE Tick
  BY <1>15, <1>0, QuietStep, CallersKept DEF Tick, callerVars
<1>16. CASE UNCHANGED vars
  BY <1>16, <1>0, QuietStep, CallersKept DEF vars, callerVars
<1>17. ASSUME NEW c \in Caller,
              ChallengeAborted(c) \/ Replay(c) \/ Redrive(c) \/ ReplayAnswered(c)
       PROVE  FetchInv' /\ Published' /\ Callers'
  <2>1. \E to \in PC \ {"sent", "challenged", "refetching"} : Goto(c, to)
    BY <1>17 DEF ChallengeAborted, Replay, Redrive, ReplayAnswered, PC
  <2>. QED
    BY <1>6, <2>1
<1>18. ASSUME NEW c \in Caller, Send(c) \/ Respond(c)
       PROVE  FetchInv' /\ Published' /\ Callers'
  BY <1>18, <1>6, <1>7 DEF Send, Respond, PC
<1>. QED
  BY <1>1, <1>2, <1>3, <1>4, <1>5, <1>8, <1>9, <1>10, <1>11, <1>12, <1>13, <1>14, <1>15,
     <1>16, <1>17, <1>18 DEF Next, CallerStep, FetchStep

(* The invariant that carries the safety properties below.                 *)
THEOREM InductiveInvariant == Spec => []IndInv
  BY IndInvInit, IndInvStep, PTL DEF Spec

-----------------------------------------------------------------------------
(* The safety properties.                                                  *)

(* At most one fetch may still publish its token: the one in the slot.     *)
THEOREM SingleFlightHolds == Spec => []OneCurrentFetch
<1>1. IndInv => OneCurrentFetch
  BY DEF IndInv
<1>. QED
  BY <1>1, InductiveInvariant, PTL

(* A fetch a 401 started is never superseded before it settles.            *)
THEOREM BurstSharesOneFetch == Spec => []PostEvictionNeverSuperseded
<1>1. IndInv => PostEvictionNeverSuperseded
  BY DEF IndInv
<1>. QED
  BY <1>1, InductiveInvariant, PTL

ReplayStep ==
    \A c \in Caller :
        pc[c] # "restamped" /\ pc'[c] = "restamped" =>
            /\ source'[c] > source[c]
            /\ pc[c] = "refetching" => source'[c] \in postEviction

(* Every step stamps a replay from a later fetch only.                     *)
LEMMA ReplayStepHolds == IndInv /\ [Next]_vars => ReplayStep
<1>. SUFFICES ASSUME IndInv, [Next]_vars, NEW c \in Caller,
                     pc[c] # "restamped", pc'[c] = "restamped"
              PROVE  /\ source'[c] > source[c]
                     /\ pc[c] = "refetching" => source'[c] \in postEviction
  BY DEF ReplayStep
<1>. USE DEF IndInv, TypeOK, CallerTypeOK
<1>1. CASE Resume(c)
  <2>1. pc[c] = "refetching" /\ source'[c] = awaiting[c]
    BY <1>1 DEF Resume
  <2>. QED
    BY <2>1 DEF Callers, CallerOK, Fetch, NoFetch
<1>2. CASE ChallengeSurvivor(c)
  <2>1. /\ cached # NoToken /\ cached # token[c] /\ source'[c] = cachedBy
        /\ cachedBy \in Fetch /\ result[cachedBy] = cached /\ pc[c] = "challenged"
    BY <1>2 DEF ChallengeSurvivor, Survivor, Published, CachedTypeOK
  <2>2. CASE source[c] = NoFetch
    BY <2>1, <2>2 DEF Fetch, NoFetch
  <2>3. CASE source[c] \in Fetch
    <3>1. source[c] <= cachedBy
      BY <2>1, <2>3 DEF Callers, CallerOK, Published, Fetch, NoFetch
    <3>2. source[c] # cachedBy
      BY <2>1, <2>3 DEF Callers, CallerOK, Fetch, NoFetch
    <3>. QED
      BY <2>1, <2>3, <3>1, <3>2 DEF Fetch
  <2>. QED
    BY <2>2, <2>3
<1>3. CASE ~(Resume(c) \/ ChallengeSurvivor(c))
  <2>1. ASSUME NEW d \in Caller, CallerStep(d) PROVE FALSE
    <3>1. CASE d = c
      BY <1>3, <2>1, <3>1 DEF CallerStep, StampFresh, StampExpiring, StampMissing, Stamped,
         Arrive, LeaveOnAbort, Send, Respond, ChallengeAborted, ChallengeEvict, Replay,
         Redrive, ReplayAnswered, NextRequest, Abort, Goto
    <3>2. CASE d # c
      BY <2>1, <3>2 DEF CallerStep, StampFresh, StampExpiring, StampMissing, Stamped,
         Arrive, Resume, ChallengeSurvivor, LeaveOnAbort, Send, Respond, ChallengeAborted,
         ChallengeEvict, Replay, Redrive, ReplayAnswered, NextRequest, Abort, Goto
    <3>. QED
      BY <3>1, <3>2
  <2>2. ASSUME NEW f \in Fetch, FetchStep(f) PROVE FALSE
    BY <2>2 DEF FetchStep, ProviderResolves, ProviderRejects, Finally, callerVars
  <2>3. Tick => FALSE
    BY DEF Tick, callerVars
  <2>4. UNCHANGED vars => FALSE
    BY DEF vars, callerVars
  <2>. QED
    BY <2>1, <2>2, <2>3, <2>4 DEF Next
<1>. QED
  BY <1>1, <1>2, <1>3

(* The replay of a challenged request never carries the rejected token     *)
(* again unless the provider issued it anew after that: its token comes    *)
(* from a later fetch.                                                     *)
THEOREM ReplayCarriesNewerToken == Spec => ReplayIsNewer
  BY InductiveInvariant, ReplayStepHolds, PTL DEF ReplayIsNewer, Spec, ReplayStep

PublishStep ==
    cached' # NoToken /\ cached' # cached =>
        /\ cachedBy' > cachedBy
        /\ \A f \in postEviction : f <= cachedBy'

(* Every step publishes in the order of the fetches.                       *)
LEMMA PublishStepHolds == IndInv /\ [Next]_vars => PublishStep
<1>. SUFFICES ASSUME IndInv, [Next]_vars, cached' # NoToken, cached' # cached
              PROVE  /\ cachedBy' > cachedBy
                     /\ \A f \in postEviction : f <= cachedBy'
  BY DEF PublishStep
<1>1. PICK f \in Fetch : ProviderResolves(f)
  BY DEF Next, CallerStep, FetchStep, StampFresh, StampExpiring, StampMissing, Resume,
     LeaveOnAbort, Send, Respond, ChallengeAborted, ChallengeSurvivor, ChallengeEvict,
     Replay, Redrive, ReplayAnswered, NextRequest, Abort, Goto, ProviderRejects, Finally, Tick,
     vars, cacheVars
<1>2. cachedBy' = f /\ fetchGeneration[f] = generation /\ status[f] = "pending"
  BY <1>1 DEF ProviderResolves, IsCurrent
<1>. USE DEF IndInv, TypeOK, SlotTypeOK, CachedTypeOK
<1>3. f = lastFetch
  BY <1>2 DEF OneCurrentFetch, Slot, Unsettled, Fetch, NoFetch
<1>4. cachedBy < f
  <2>1. CASE cached = NoToken
    BY <2>1 DEF Published, Fetch, NoFetch
  <2>2. CASE cached # NoToken
    BY <1>2, <1>3, <2>2 DEF Published, Fetch, NoFetch
  <2>. QED
    BY <2>1, <2>2
<1>. QED
  BY <1>2, <1>3, <1>4 DEF Numbering, Fetch, NoFetch

(* A token is only ever replaced by one fetched later, and never by one    *)
(* from a fetch that a 401 superseded.                                     *)
THEOREM PublishedInFetchOrder == Spec => PublishedInOrder
  BY InductiveInvariant, PublishStepHolds, PTL DEF PublishedInOrder, Spec, PublishStep

-----------------------------------------------------------------------------
(* The cache implements SingleFlight.                                      *)

(* The live fetch of the abstraction, once for all: nothing, or the fetch  *)
(* in the slot while the provider has not answered.                        *)
LEMMA LiveFetchIs ==
    ASSUME IndInv
    PROVE  /\ LiveFetch # NoFetch => LiveFetch = inFlight /\ status[inFlight] = "pending"
           /\ LiveFetch = NoFetch => LiveFetch \notin postEviction
           /\ \A f \in Fetch :
                status[f] = "pending" =>
                    (LiveFetch = f <=> fetchGeneration[f] = generation)
  BY DEF LiveFetch, IndInv, TypeOK, SlotTypeOK, OneCurrentFetch, Slot, Unsettled, Fetch, NoFetch

(* A step that keeps the live fetch is a stutter of the promise.           *)
LEMMA StutterRefines ==
    ASSUME UNCHANGED <<cached, inFlight, status, postEviction, lastFetch>>
    PROVE  UNCHANGED Promise!vars
  BY DEF Promise!vars, LiveFetch

(* refresh() joins or starts the live fetch.                               *)
LEMMA RefreshRefines ==
    ASSUME IndInv, NEW at, Refresh(at), UNCHANGED cached
    PROVE  [Promise!Next]_Promise!vars
<1>1. CASE JoinInFlight
  BY <1>1, StutterRefines DEF JoinInFlight, fetchVars
<1>2. CASE /\ inFlight = NoFetch
           /\ Invoke(generation, NoEvictionGeneration, at)
           /\ UNCHANGED postEviction
  <2>. USE DEF IndInv, TypeOK, SlotTypeOK
  <2>1. /\ inFlight' = lastFetch + 1 /\ lastFetch' = lastFetch + 1
        /\ status'[lastFetch + 1] = "pending" /\ lastFetch + 1 \in Fetch
    BY <1>2 DEF Invoke
  <2>2. LiveFetch = NoFetch /\ LiveFetch' = lastFetch + 1
    BY <1>2, <2>1 DEF LiveFetch, Fetch, NoFetch
  <2>3. LiveFetch' \notin postEviction'
    BY <1>2, <2>2 DEF Numbering
  <2>. QED
    BY <2>1, <2>2, <2>3 DEF Promise!Next, Promise!Start, NoFetch
<1>. QED
  BY <1>1, <1>2 DEF Refresh

(* startPostEviction() joins or starts a fetch for a challenge.            *)
LEMMA StartPostEvictionRefines ==
    ASSUME IndInv, NEW at, StartPostEviction(at), cached' = NoToken
    PROVE  [Promise!Next]_Promise!vars
<1>1. CASE JoinInFlight
  BY <1>1 DEF JoinInFlight, fetchVars, LiveFetch, Promise!Next, Promise!Evict
<1>2. CASE /\ ~(inFlight # NoFetch /\ MayJoinPostEviction)
           /\ Invoke(generation + 1, generation + 1, at)
           /\ postEviction' = postEviction \cup {lastFetch + 1}
  <2>. USE DEF IndInv, TypeOK, SlotTypeOK
  <2>1. /\ inFlight' = lastFetch + 1 /\ lastFetch' = lastFetch + 1
        /\ status'[lastFetch + 1] = "pending" /\ lastFetch + 1 \in Fetch
    BY <1>2 DEF Invoke
  <2>2. LiveFetch' = lastFetch + 1 /\ LiveFetch' \in postEviction'
    BY <1>2, <2>1 DEF LiveFetch, Fetch, NoFetch
  <2>3. LiveFetch \notin postEviction
    <3>1. CASE LiveFetch = NoFetch
      BY <3>1, LiveFetchIs
    <3>2. CASE LiveFetch # NoFetch
      <4>1. LiveFetch = inFlight /\ Unsettled(inFlight) /\ inFlight # NoFetch
        BY <3>2, LiveFetchIs DEF Unsettled
      <4>. QED
        BY <1>2, <4>1 DEF Slot, MayJoinPostEviction
    <3>. QED
      BY <3>1, <3>2
  <2>. QED
    BY <2>1, <2>2, <2>3 DEF Promise!Next, Promise!StartForChallenge
<1>. QED
  BY <1>1, <1>2 DEF StartPostEviction

(* The answer to the live fetch publishes or fails; that to a superseded   *)
(* one is invisible.                                                       *)
LEMMA AnswerRefines ==
    ASSUME IndInv, NEW f \in Fetch, status[f] = "pending",
           status' = [status EXCEPT ![f] = "settling"],
           UNCHANGED <<inFlight, lastFetch, postEviction>>,
           \/ cached' = cached
           \/ cached' \in Token /\ fetchGeneration[f] = generation
    PROVE  [Promise!Next]_Promise!vars
<1>. USE DEF IndInv, TypeOK, SlotTypeOK
<1>1. CASE fetchGeneration[f] = generation
  <2>1. LiveFetch = f /\ inFlight = f
    BY <1>1, LiveFetchIs DEF Fetch, NoFetch
  <2>2. LiveFetch' = NoFetch /\ LiveFetch' \notin postEviction'
    BY <2>1 DEF LiveFetch, Fetch, NoFetch
  <2>. QED
    BY <2>1, <2>2 DEF Promise!Next, Promise!Publish, Promise!Fail, Fetch, NoFetch
<1>2. CASE fetchGeneration[f] # generation
  <2>1. inFlight # f
    BY <1>2 DEF Slot, Fetch, NoFetch
  <2>2. LiveFetch' = LiveFetch
    BY <2>1 DEF LiveFetch
  <2>. QED
    BY <1>2, <2>2 DEF Promise!vars
<1>. QED
  BY <1>1, <1>2

(* The finally handler is invisible.                                       *)
LEMMA FinallyRefines ==
    ASSUME IndInv, NEW f \in Fetch, Finally(f)
    PROVE  UNCHANGED Promise!vars
<1>. USE DEF IndInv, TypeOK, SlotTypeOK, Finally, IsCurrent
<1>1. CASE fetchGeneration[f] = generation
  <2>1. inFlight = f /\ inFlight' = NoFetch
    BY <1>1 DEF OneCurrentFetch, Unsettled
  <2>2. LiveFetch = NoFetch /\ LiveFetch' = NoFetch
    BY <2>1 DEF LiveFetch
  <2>. QED
    BY <2>2 DEF Promise!vars
<1>2. CASE fetchGeneration[f] # generation
  <2>1. inFlight # f /\ inFlight' = inFlight
    BY <1>2 DEF Slot, Fetch, NoFetch
  <2>2. LiveFetch' = LiveFetch
    BY <2>1 DEF LiveFetch
  <2>. QED
    BY <2>2 DEF Promise!vars
<1>. QED
  BY <1>1, <1>2

(* Every step is one of the promise, or a stutter.                         *)
LEMMA StepRefines == IndInv /\ [Next]_vars => [Promise!Next]_Promise!vars
<1>. SUFFICES ASSUME IndInv, [Next]_vars PROVE [Promise!Next]_Promise!vars
  OBVIOUS
<1>1. ASSUME NEW c \in Caller, StampExpiring(c) PROVE [Promise!Next]_Promise!vars
  BY <1>1, RefreshRefines DEF StampExpiring
<1>2. ASSUME NEW c \in Caller, StampMissing(c) PROVE [Promise!Next]_Promise!vars
  BY <1>2, RefreshRefines, StutterRefines DEF StampMissing, cacheVars, fetchVars
<1>3. ASSUME NEW c \in Caller, ChallengeEvict(c) PROVE [Promise!Next]_Promise!vars
  BY <1>3, StartPostEvictionRefines DEF ChallengeEvict
<1>4. ASSUME NEW f \in Fetch, ProviderResolves(f) PROVE [Promise!Next]_Promise!vars
  <2>1. \/ cached' = cached
        \/ cached' \in Token /\ fetchGeneration[f] = generation
    <3>1. PICK t \in Token \cup {NoToken} :
             \/ Accepted(f, t) /\ IsCurrent(f) /\ cached' = t
             \/ cached' = cached
      BY <1>4 DEF ProviderResolves
    <3>2. Accepted(f, t) => t \in Token
      BY DEF Accepted
    <3>. QED
      BY <3>1, <3>2 DEF IsCurrent
  <2>. QED
    BY <1>4, <2>1, AnswerRefines DEF ProviderResolves
<1>5. ASSUME NEW f \in Fetch, ProviderRejects(f) PROVE [Promise!Next]_Promise!vars
  BY <1>5, AnswerRefines DEF ProviderRejects, cacheVars
<1>6. ASSUME NEW f \in Fetch, Finally(f) PROVE [Promise!Next]_Promise!vars
  BY <1>6, FinallyRefines
<1>7. ASSUME NEW c \in Caller,
             \/ StampFresh(c) \/ Resume(c) \/ LeaveOnAbort(c) \/ Send(c) \/ Respond(c)
             \/ ChallengeAborted(c) \/ ChallengeSurvivor(c) \/ Replay(c)
             \/ Redrive(c) \/ ReplayAnswered(c) \/ NextRequest(c) \/ Abort(c)
      PROVE  [Promise!Next]_Promise!vars
  BY <1>7, StutterRefines DEF StampFresh, Resume, LeaveOnAbort, Send, Respond,
     ChallengeAborted, ChallengeSurvivor, Replay, Redrive, ReplayAnswered, NextRequest,
     Abort,
     Goto, cacheVars, fetchVars
<1>8. CASE Tick \/ UNCHANGED vars
  BY <1>8, StutterRefines DEF Tick, vars, cacheVars, fetchVars
<1>. QED
  BY <1>1, <1>2, <1>3, <1>4, <1>5, <1>6, <1>7, <1>8 DEF Next, CallerStep, FetchStep

(* The cache starts where the promise starts.                              *)
LEMMA InitRefines == Init => Promise!Init
  BY DEF Init, Promise!Init, LiveFetch, NoFetch, Fetch

(* Seen from outside, the slot, its generations and the two microtasks in  *)
(* which a fetch settles come to the promise of SingleFlight.              *)
THEOREM CacheImplementsSingleFlight == Spec => ImplementsSingleFlight
  BY InductiveInvariant, InitRefines, StepRefines, PTL
     DEF Spec, ImplementsSingleFlight, Promise!Spec

-----------------------------------------------------------------------------
(* Digest and Basic answers.                                               *)

\* Division with remainder, and what it makes of a count that wraps.
LEMMA Remainder ==
  ASSUME NEW q \in Nat, NEW w \in Nat, NEW r \in Nat, r < w
  PROVE  (w * q + r) % w = r
OBVIOUS

\* The same of a number known to be a multiple and a remainder.
LEMMA RemainderOf ==
  ASSUME NEW a \in Nat, NEW q \in Nat, NEW w \in Nat, NEW r \in Nat, r < w, a = w * q + r
  PROVE  a % w = r
<1> DEFINE t == w * q + r
<1>1. t % w = r BY Remainder
<1>2. a = t OBVIOUS
<1> HIDE DEF t
<1> QED BY <1>1, <1>2

\* Every natural is a multiple of the divisor and a remainder below it.
LEMMA Division ==
  ASSUME NEW w \in Nat, w # 0
  PROVE  \A a \in Nat : \E q, r \in Nat : r < w /\ a = w * q + r /\ a % w = r
<1> DEFINE S == {a \in Nat : \E q, r \in Nat : r < w /\ a = w * q + r}
<1>1. 0 \in S
  <2> DEFINE z == 0
  <2>1. z \in Nat /\ z < w OBVIOUS
  <2>2. w * z + z = z BY DEF z
  <2> HIDE DEF z
  <2>3. z \in S BY <2>1, <2>2
  <2> QED BY <2>3 DEF z
<1>2. ASSUME NEW a \in Nat, a \in S PROVE a + 1 \in S
  <2>1. PICK q \in Nat, r \in Nat : r < w /\ a = w * q + r BY <1>2
  <2>2. CASE r + 1 < w
    <3>1. a + 1 = w * q + (r + 1) /\ r + 1 \in Nat /\ a + 1 \in Nat BY <2>1
    <3> QED BY <2>2, <3>1
  <2>3. CASE r + 1 = w
    <3> DEFINE s == q + 1
               z == 0
    <3>1. a + 1 = w * s + z /\ s \in Nat /\ z \in Nat /\ z < w /\ a + 1 \in Nat BY <2>1, <2>3
    <3> HIDE DEF s, z
    <3> QED BY <3>1
  <2> QED BY <2>1, <2>2, <2>3
<1>3. Nat \subseteq S
  <2> HIDE DEF S
  <2> QED BY <1>1, <1>2, SetInduction
<1> SUFFICES ASSUME NEW a \in Nat PROVE \E q, r \in Nat : r < w /\ a = w * q + r /\ a % w = r
  OBVIOUS
<1>4. PICK q \in Nat, r \in Nat : r < w /\ a = w * q + r BY <1>3
<1>5. a % w = r BY <1>4, RemainderOf
<1> QED BY <1>4, <1>5

\* Wrapping before the increment changes nothing once it wraps again.
LEMMA WrapNext ==
  ASSUME NEW a \in Nat, NEW w \in Nat, w # 0
  PROVE  ((a % w) + 1) % w = (a + 1) % w
<1>1. PICK q \in Nat, r \in Nat : r < w /\ a = w * q + r /\ a % w = r BY Division
<1> DEFINE s == r + 1
           b == a + 1
           z == 0
           p == q + 1
<1>2. s \in Nat /\ b \in Nat /\ z \in Nat /\ p \in Nat /\ (s < w \/ s = w) /\ z < w BY <1>1
<1>3. s < w => b = w * q + s BY <1>1
<1>4. s = w => b = w * p + z BY <1>1
<1>5. s = w * z + s BY <1>1
<1>6. s = w => s = w * 1 + z BY <1>1
<1>7. ((a % w) + 1) % w = s % w BY <1>1
<1> HIDE DEF s, b, z, p
<1>8. s < w => b % w = s /\ s % w = s BY <1>2, <1>3, <1>5, RemainderOf
<1>9. s = w => b % w = z BY <1>2, <1>4, RemainderOf
<1>10. s = w => s % w = z
  <2> DEFINE o == 1
  <2>1. o \in Nat OBVIOUS
  <2>2. s = w => s = w * o + z BY <1>6
  <2> HIDE DEF o
  <2> QED BY <1>2, <2>1, <2>2, RemainderOf
<1>11. b % w = s % w BY <1>2, <1>8, <1>9, <1>10
<1> QED BY <1>7, <1>11 DEF b
-----------------------------------------------------------------------------
(* The candidate that is best: handler, then rank, then place on the wire.  *)

\* A nonempty set of candidates has one that comes before all the others.
LEMMA LexLeast ==
  ASSUME NEW C \in SUBSET (Nat \X Nat), C # {}, NEW k \in [C -> Nat]
  PROVE  \E x \in C : \A y \in C : y # x =>
           \/ x[1] < y[1]
           \/ x[1] = y[1] /\ k[x] < k[y]
           \/ x[1] = y[1] /\ k[x] = k[y] /\ x[2] < y[2]
<1>0. \A x \in C : x[1] \in Nat /\ x[2] \in Nat /\ k[x] \in Nat /\ x = <<x[1], x[2]>>
  OBVIOUS
<1> DEFINE H == {x[1] : x \in C}
<1>1. PICK h \in H : \A n \in H : h <= n
  <2>1. H \in SUBSET Nat /\ H # {} BY <1>0
  <2> HIDE DEF H
  <2> QED BY <2>1, LeastNatural
<1> DEFINE D == {x \in C : x[1] = h}
           R == {k[x] : x \in D}
<1>2. D # {} /\ D \subseteq C BY <1>1
<1>3. PICK r \in R : \A n \in R : r <= n
  <2>1. R \in SUBSET Nat /\ R # {} BY <1>0, <1>2
  <2> HIDE DEF R
  <2> QED BY <2>1, LeastNatural
<1> DEFINE F == {x \in D : k[x] = r}
           W == {x[2] : x \in F}
<1>4. F # {} /\ F \subseteq D BY <1>3
<1>5. PICK w \in W : \A n \in W : w <= n
  <2>1. W \in SUBSET Nat /\ W # {} BY <1>0, <1>2, <1>4
  <2> HIDE DEF W
  <2> QED BY <2>1, LeastNatural
<1>6. PICK x \in F : x[2] = w BY <1>5
<1>7. x \in C /\ x[1] = h /\ k[x] = r BY <1>6
<1>8. ASSUME NEW y \in C, y # x
      PROVE  \/ x[1] < y[1]
             \/ x[1] = y[1] /\ k[x] < k[y]
             \/ x[1] = y[1] /\ k[x] = k[y] /\ x[2] < y[2]
  <2>1. h <= y[1] BY <1>1, <1>8
  <2>2. y[1] = h => r <= k[y]
    <3> HAVE y[1] = h
    <3>1. k[y] \in R BY <1>8
    <3> QED BY <1>3, <3>1
  <2>3. y[1] = h /\ k[y] = r => w <= y[2]
    <3> HAVE y[1] = h /\ k[y] = r
    <3>1. y[2] \in W BY <1>8
    <3> QED BY <1>5, <3>1
  <2>4. y[1] = h => y[2] # w
    <3> HAVE y[1] = h
    <3>1. y = <<y[1], y[2]>> /\ x = <<x[1], x[2]>> BY <1>0, <1>7, <1>8
    <3> QED BY <1>6, <1>7, <1>8, <3>1
  <2>5. h \in Nat /\ r \in Nat /\ w \in Nat /\ y[1] \in Nat /\ y[2] \in Nat /\ k[y] \in Nat
    BY <1>0, <1>6, <1>7, <1>8
  <2> HIDE DEF H, D, R, F, W
  <2> QED BY <1>6, <1>7, <2>1, <2>2, <2>3, <2>4, <2>5
<1> QED BY <1>7, <1>8

\* A challenge that can be satisfied has a rank.
LEMMA RankIsNat ==
  ASSUME NEW c, Satisfiable(c)
  PROVE  (CHOOSE i \in DOMAIN Preference : Preference[i] = c.algorithm) \in Nat
<1>1. DOMAIN Preference \subseteq Nat BY DigestAssumption
<1>2. \E i \in DOMAIN Preference : Preference[i] = c.algorithm BY DEF Satisfiable, ToSeqSet
<1> QED BY <1>1, <1>2

\* BestCandidate is that one.
LEMMA BestIs ==
  ASSUME NEW E, NEW offered \in Seq(E), Candidates(offered) # {}
  PROVE  /\ BestCandidate(offered) \in Candidates(offered)
         /\ \A y \in Candidates(offered) \ {BestCandidate(offered)} :
              Before(BestCandidate(offered), y, offered)
<1> DEFINE C == Candidates(offered)
           k == [x \in C |-> Rank(Handlers[x[1]], offered[x[2]])]
<1>1. C \in SUBSET (Nat \X Nat)
  <2>1. DOMAIN Handlers \subseteq Nat /\ DOMAIN offered \subseteq Nat BY LenProperties DEF Handlers
  <2> QED BY <2>1 DEF Candidates
<1>2. k \in [C -> Nat]
  <2>1. ASSUME NEW x \in C PROVE Rank(Handlers[x[1]], offered[x[2]]) \in Nat
    <3>1. CanHandle(Handlers[x[1]], offered[x[2]]) BY DEF Candidates
    <3>2. CASE Handlers[x[1]] = "digest"
      <4>1. Satisfiable(offered[x[2]]) BY <3>1, <3>2 DEF CanHandle
      <4> QED BY <3>2, <4>1, RankIsNat DEF Rank
    <3>3. CASE Handlers[x[1]] # "digest" BY <3>3 DEF Rank
    <3> QED BY <3>2, <3>3
  <2> QED BY <2>1
<1>3. \A x \in C : k[x] = Rank(Handlers[x[1]], offered[x[2]]) OBVIOUS
<1>4. C # {} OBVIOUS
<1> HIDE DEF k
<1>5. \E x \in C : \A y \in C \ {x} : Before(x, y, offered)
  <2>1. PICK x \in C : \A y \in C : y # x =>
           \/ x[1] < y[1]
           \/ x[1] = y[1] /\ k[x] < k[y]
           \/ x[1] = y[1] /\ k[x] = k[y] /\ x[2] < y[2]
    <3> HIDE DEF C
    <3> QED BY <1>1, <1>2, <1>4, LexLeast
  <2>2. \A y \in C \ {x} : Before(x, y, offered) BY <1>3, <2>1 DEF Before
  <2> QED BY <2>2
<1> QED BY <1>5 DEF BestCandidate

\* What the best candidate tells: of the two handlers, digest has the floor
\* whenever a digest can be satisfied, and picks the one preferred most.
RankOf(c) == CHOOSE i \in DOMAIN Preference : Preference[i] = c.algorithm

\* So it answers a digest whenever one can be satisfied, of the least rank.
LEMMA BestAnswers ==
  ASSUME NEW E, NEW offered \in Seq(E)
  PROVE  LET x == BestCandidate(offered)
             digests == {c \in ToSeqSet(offered) : Satisfiable(c)}
         IN /\ Candidates(offered) = {} =>
                 digests = {} /\ \A c \in ToSeqSet(offered) : c.scheme # "basic"
            /\ Candidates(offered) # {} /\ Handlers[x[1]] = "basic" =>
                 digests = {} /\ \E c \in ToSeqSet(offered) : c.scheme = "basic"
            /\ Candidates(offered) # {} /\ Handlers[x[1]] = "digest" =>
                 /\ offered[x[2]] \in digests
                 /\ \A d \in digests : RankOf(offered[x[2]]) <= RankOf(d)
            /\ Candidates(offered) # {} => offered[x[2]] \in E
<1> DEFINE C == Candidates(offered)
           x == BestCandidate(offered)
           digests == {c \in ToSeqSet(offered) : Satisfiable(c)}
<1>1. /\ Handlers[1] = "digest" /\ Handlers[2] = "basic" /\ DOMAIN Handlers = {1, 2}
  BY DEF Handlers
<1>2. \A j \in DOMAIN offered : Satisfiable(offered[j]) => <<1, j>> \in C
  BY <1>1 DEF Candidates, CanHandle
<1>3. \A j \in DOMAIN offered : offered[j].scheme = "basic" => <<2, j>> \in C
  BY <1>1 DEF Candidates, CanHandle
<1>4. \A d \in digests : \E j \in DOMAIN offered : d = offered[j] /\ Satisfiable(d)
  BY DEF ToSeqSet
<1>5. ASSUME C = {} PROVE digests = {} /\ \A c \in ToSeqSet(offered) : c.scheme # "basic"
  BY <1>2, <1>3, <1>4, <1>5 DEF ToSeqSet
<1>6. ASSUME C # {}
      PROVE  /\ x \in C /\ \A y \in C \ {x} : Before(x, y, offered)
             /\ x[2] \in DOMAIN offered /\ offered[x[2]] \in E /\ offered[x[2]] \in ToSeqSet(offered)
             /\ CanHandle(Handlers[x[1]], offered[x[2]])
             /\ x[1] \in {1, 2}
  <2>1. x \in C /\ \A y \in C \ {x} : Before(x, y, offered) BY <1>6, BestIs
  <2>2. /\ x[2] \in DOMAIN offered /\ CanHandle(Handlers[x[1]], offered[x[2]]) /\ x[1] \in {1, 2}
    BY <1>1, <2>1 DEF Candidates
  <2>3. offered[x[2]] \in E BY <2>2, ElementOfSeq, LenProperties
  <2> QED BY <2>1, <2>2, <2>3 DEF ToSeqSet
<1> HIDE DEF x
<1>7. ASSUME C # {}, Handlers[x[1]] = "basic"
      PROVE  digests = {} /\ \E c \in ToSeqSet(offered) : c.scheme = "basic"
  <2>1. x[1] = 2 BY <1>1, <1>6, <1>7
  <2>2. offered[x[2]].scheme = "basic" BY <1>6, <1>7 DEF CanHandle
  <2>3. \A j \in DOMAIN offered : <<1, j>> \notin C
    <3> SUFFICES ASSUME NEW j \in DOMAIN offered, <<1, j>> \in C PROVE FALSE OBVIOUS
    <3>1. <<1, j>> # x /\ <<1, j>>[1] = 1 BY <2>1
    <3>2. Before(x, <<1, j>>, offered) BY <1>6, <1>7, <3>1
    <3> QED BY <2>1, <3>1, <3>2 DEF Before
  <2> QED BY <1>2, <1>4, <1>6, <1>7, <2>2, <2>3
<1>8. ASSUME C # {}, Handlers[x[1]] = "digest"
      PROVE  offered[x[2]] \in digests /\ \A d \in digests : RankOf(offered[x[2]]) <= RankOf(d)
  <2>1. x[1] = 1 BY <1>1, <1>6, <1>8
  <2>2. Satisfiable(offered[x[2]]) BY <1>6, <1>8 DEF CanHandle
  <2>3. ASSUME NEW d \in digests PROVE RankOf(offered[x[2]]) <= RankOf(d)
    <3>1. PICK j \in DOMAIN offered : d = offered[j] /\ Satisfiable(d) BY <1>4
    <3> DEFINE y == <<1, j>>
    <3>2. y \in C /\ y[1] = 1 /\ y[2] = j BY <1>2, <3>1
    <3>3. RankOf(d) \in Nat /\ RankOf(offered[x[2]]) \in Nat BY <2>2, <3>1, RankIsNat DEF RankOf
    <3> HIDE DEF y
    <3>4. CASE y = x BY <3>1, <3>2, <3>3, <3>4
    <3>5. CASE y # x
      <4>1. Before(x, y, offered) BY <1>6, <1>8, <3>2, <3>5
      <4>2. Rank(Handlers[x[1]], offered[x[2]]) = RankOf(offered[x[2]])
        BY <1>8 DEF Rank, RankOf
      <4>3. Rank(Handlers[y[1]], offered[y[2]]) = RankOf(d)
        BY <1>1, <3>1, <3>2 DEF Rank, RankOf
      <4>4. RankOf(offered[x[2]]) < RankOf(d) \/ RankOf(offered[x[2]]) = RankOf(d)
        BY <2>1, <3>2, <4>1, <4>2, <4>3 DEF Before
      <4> QED BY <3>3, <4>4
    <3> QED BY <3>4, <3>5
  <2> QED BY <1>6, <1>8, <2>2, <2>3
<1> QED BY <1>5, <1>6, <1>7, <1>8 DEF x

-----------------------------------------------------------------------------
(* The nonce counts.  A stamp is of the tenancy of its nonce: how often the *)
(* nonce had been evicted before.  The count of a tracked nonce is the      *)
(* number of stamps of its tenancy (Now), wrapped; a nonce that is not      *)
(* tracked has no stamp of the tenancy it would get.                        *)

\* What the counts and the stamps are made of.
Nonces == {c.nonce : c \in Challenges}
Counted == [nonce : Nonces, count : Nat]
Stamp == [nonce : Nonces, nc : Nat, tenancy : Nat]

\* The stamps of a nonce's present tenancy of the store, the stamps before one
\* in its own tenancy, and the nonces a store holds.
Now(n) == {j \in DOMAIN stamps : stamps[j].nonce = n /\ stamps[j].tenancy = evicted[n]}
EarlierThan(i) ==
  {j \in 1 .. i - 1 : stamps[j].nonce = stamps[i].nonce /\ stamps[j].tenancy = stamps[i].tenancy}
NoncesOf(s) == {s[i].nonce : i \in DOMAIN s}
NoncesDiffer(s) == \A i, j \in DOMAIN s : s[i].nonce = s[j].nonce => i = j

\* Types of the store, the tenancies and the stamps.
CountTypes ==
  /\ counts \in Seq(Counted) /\ Len(counts) <= CountLimit /\ NoncesDiffer(counts)
  /\ stamps \in Seq(Stamp) /\ evicted \in [Nonces -> Nat]

\* A count is the number of stamps of the tenancy, wrapped.
CountsOfTenancies ==
  /\ \A i \in DOMAIN counts :
       counts[i].count = Cardinality(Now(counts[i].nonce)) % CountWrap
  /\ \A i \in DOMAIN stamps :
       /\ stamps[i].tenancy <= evicted[stamps[i].nonce]
       /\ stamps[i].nonce \notin NoncesOf(counts) => stamps[i].tenancy # evicted[stamps[i].nonce]

\* A stamp's nc is its place in its tenancy, wrapped.
StampsCount ==
  /\ \A i \in DOMAIN stamps : stamps[i].nc = (Cardinality(EarlierThan(i)) + 1) % CountWrap
  /\ stamps # <<>> => stamps[Len(stamps)].nonce \in NoncesOf(counts)

CountsInv == CountTypes /\ CountsOfTenancies /\ StampsCount

\* A nonce is tracked when the store holds it.
LEMMA TrackedIs ==
  ASSUME NEW n
  PROVE  Tracked(n) <=> n \in NoncesOf(counts)
BY DEF Tracked, NoncesOf

\* A tenancy has finitely many stamps.
LEMMA NowIsFinite ==
  ASSUME CountsInv, NEW n
  PROVE  IsFiniteSet(Now(n)) /\ Now(n) \subseteq 1 .. Len(stamps) /\ Cardinality(Now(n)) \in Nat
<1>1. DOMAIN stamps = 1 .. Len(stamps) /\ Len(stamps) \in Nat BY LenProperties DEF CountsInv, CountTypes
<1>2. Now(n) \subseteq 1 .. Len(stamps) BY <1>1 DEF Now
<1>3. IsFiniteSet(1 .. Len(stamps)) BY <1>1, FS_Interval
<1>4. IsFiniteSet(Now(n)) BY <1>2, <1>3, FS_Subset
<1> QED BY <1>2, <1>4, FS_CardinalityType

\* The next count is one more than the stamps of the tenancy, wrapped.
LEMMA NextCountIs ==
  ASSUME CountsInv, NEW n \in Nonces
  PROVE  /\ NextCount(n) = (Cardinality(Now(n)) + 1) % CountWrap
         /\ NextCount(n) \in Nat
         /\ n \notin NoncesOf(counts) => NextCount(n) = 1
<1>0. CountWrap \in Nat /\ CountWrap # 0 /\ 1 < CountWrap BY DigestAssumption
<1>1. Cardinality(Now(n)) \in Nat BY NowIsFinite
<1>2. CASE n \in NoncesOf(counts)
  <2> DEFINE i == CHOOSE i \in DOMAIN counts : counts[i].nonce = n
             a == Cardinality(Now(n))
             d == CountOf(n)
  <2>1. i \in DOMAIN counts /\ counts[i].nonce = n BY <1>2 DEF NoncesOf
  <2>2. CountOf(n) = counts[i].count BY DEF CountOf
  <2> HIDE DEF i
  <2>3. d = a % CountWrap BY <2>1, <2>2 DEF CountsInv, CountsOfTenancies
  <2>4. NextCount(n) = (d + 1) % CountWrap BY <1>2, TrackedIs DEF NextCount
  <2> HIDE DEF a, d
  <2>5. a \in Nat BY <1>1 DEF a
  <2>6. ((a % CountWrap) + 1) % CountWrap = (a + 1) % CountWrap BY <1>0, <2>5, WrapNext
  <2>7. NextCount(n) = (a + 1) % CountWrap BY <2>3, <2>4, <2>6
  <2> DEFINE b == a + 1
  <2>8. b \in Nat BY <2>5
  <2>9. \E q, r \in Nat : r < CountWrap /\ b = CountWrap * q + r /\ b % CountWrap = r
    <3> HIDE DEF b
    <3> QED BY <1>0, <2>8, Division
  <2>10. b % CountWrap \in Nat BY <2>9
  <2> QED BY <1>2, <2>7, <2>10 DEF a
<1>3. CASE n \notin NoncesOf(counts)
  <2>1. Now(n) = {} BY <1>3 DEF Now, CountsInv, CountsOfTenancies
  <2>2. Cardinality(Now(n)) = 0 BY <2>1, FS_EmptySet
  <2>3. NextCount(n) = 1 BY <1>3, TrackedIs DEF NextCount
  <2>4. 1 % CountWrap = 1
    <3> DEFINE o == 1
               z == 0
    <3>1. o \in Nat /\ z \in Nat /\ o < CountWrap /\ o = CountWrap * z + o BY <1>0
    <3> HIDE DEF o, z
    <3>2. o % CountWrap = o BY <1>0, <3>1, RemainderOf
    <3> QED BY <3>2 DEF o
  <2> QED BY <2>2, <2>3, <2>4
<1> QED BY <1>2, <1>3

\* What admitting a nonce makes of the store, before and after the drain.
LEMMA AdmittedIs ==
  ASSUME CountsInv, NEW n \in Nonces
  PROVE  /\ Admitted(n) \in Seq(Counted) /\ NoncesDiffer(Admitted(n))
         /\ NoncesOf(Admitted(n)) = NoncesOf(counts) \cup {n}
         /\ \A i \in DOMAIN Admitted(n) :
              \/ Admitted(n)[i].nonce = n /\ Admitted(n)[i].count = NextCount(n)
              \/ Admitted(n)[i].nonce # n /\ \E j \in DOMAIN counts : Admitted(n)[i] = counts[j]
         /\ \/ Len(Admitted(n)) <= CountLimit
            \/ Len(Admitted(n)) = CountLimit + 1 /\ Admitted(n)[1].nonce # n
<1> DEFINE a == Admitted(n)
           c == NextCount(n)
           L == Len(counts)
<1>0. /\ counts \in Seq(Counted) /\ L \in Nat /\ DOMAIN counts = 1 .. L /\ L <= CountLimit
      /\ NoncesDiffer(counts) /\ CountLimit \in Nat /\ CountLimit # 0
  BY LenProperties, DigestAssumption DEF CountsInv, CountTypes
<1>1. c \in Nat /\ (n \notin NoncesOf(counts) => c = 1) BY NextCountIs
<1>2. \A i \in DOMAIN counts : counts[i] \in Counted BY <1>0, ElementOfSeq
<1> HIDE DEF c, L
<1>3. CASE n \in NoncesOf(counts)
  <2>1. a = [i \in DOMAIN counts |-> IF counts[i].nonce = n THEN [nonce |-> n, count |-> c] ELSE counts[i]]
    BY <1>3, TrackedIs DEF Admitted, c
  <2>2. [nonce |-> n, count |-> c] \in Counted BY <1>1 DEF Counted
  <2>3. a \in Seq(Counted) /\ Len(a) = L /\ DOMAIN a = 1 .. L BY <1>0, <1>2, <2>1, <2>2 DEF L
  <2>4. \A i \in 1 .. L : a[i].nonce = counts[i].nonce BY <1>0, <2>1
  <2>5. \A i \in 1 .. L : \/ a[i].nonce = n /\ a[i].count = c
                          \/ a[i].nonce # n /\ a[i] = counts[i]
    BY <1>0, <2>1
  <2>6. NoncesDiffer(a) BY <1>0, <2>3, <2>4 DEF NoncesDiffer
  <2>7. NoncesOf(a) = NoncesOf(counts) \cup {n} BY <1>0, <1>3, <2>3, <2>4 DEF NoncesOf
  <2> QED BY <1>0, <2>3, <2>5, <2>6, <2>7 DEF c
<1>4. CASE n \notin NoncesOf(counts)
  <2> DEFINE e == [nonce |-> n, count |-> 1]
  <2>1. a = Append(counts, e) BY <1>4, TrackedIs DEF Admitted
  <2>2. e \in Counted /\ e.nonce = n /\ e.count = c BY <1>1, <1>4 DEF Counted
  <2> HIDE DEF e
  <2>3. /\ a \in Seq(Counted) /\ Len(a) = L + 1 /\ DOMAIN a = 1 .. L + 1
        /\ a[L + 1] = e /\ \A i \in 1 .. L : a[i] = counts[i]
    BY <1>0, <2>1, <2>2, AppendProperties, LenProperties DEF L
  <2>4. \A i \in 1 .. L + 1 : i = L + 1 \/ i \in 1 .. L BY <1>0
  <2>5. \A i \in 1 .. L : counts[i].nonce # n BY <1>0, <1>4 DEF NoncesOf
  <2>6. NoncesDiffer(a)
    <3> SUFFICES ASSUME NEW i \in 1 .. L + 1, NEW j \in 1 .. L + 1, a[i].nonce = a[j].nonce PROVE i = j
      BY <2>3 DEF NoncesDiffer
    <3>1. CASE i \in 1 .. L /\ j \in 1 .. L BY <1>0, <2>3, <3>1 DEF NoncesDiffer
    <3>2. CASE i = L + 1 /\ j \in 1 .. L BY <2>2, <2>3, <2>5, <3>2
    <3>3. CASE i \in 1 .. L /\ j = L + 1 BY <2>2, <2>3, <2>5, <3>3
    <3>4. CASE i = L + 1 /\ j = L + 1 BY <3>4
    <3> QED BY <2>4, <3>1, <3>2, <3>3, <3>4
  <2>7. NoncesOf(a) = NoncesOf(counts) \cup {n}
    <3>1. \A x \in NoncesOf(a) : x \in NoncesOf(counts) \cup {n}
      <4> TAKE x \in NoncesOf(a)
      <4>1. PICK i \in 1 .. L + 1 : x = a[i].nonce BY <2>3 DEF NoncesOf
      <4>2. CASE i = L + 1 BY <2>2, <2>3, <4>1, <4>2
      <4>3. CASE i \in 1 .. L BY <1>0, <2>3, <4>1, <4>3 DEF NoncesOf
      <4> QED BY <2>4, <4>2, <4>3
    <3>2. n \in NoncesOf(a)
      <4>1. L + 1 \in 1 .. L + 1 BY <1>0
      <4> QED BY <2>2, <2>3, <4>1 DEF NoncesOf
    <3>3. \A x \in NoncesOf(counts) : x \in NoncesOf(a)
      <4> TAKE x \in NoncesOf(counts)
      <4>1. PICK i \in 1 .. L : x = counts[i].nonce BY <1>0 DEF NoncesOf
      <4>2. i \in 1 .. L + 1 BY <1>0
      <4> QED BY <2>3, <4>1, <4>2 DEF NoncesOf
    <3> QED BY <3>1, <3>2, <3>3
  <2>8. \A i \in 1 .. L + 1 : \/ a[i].nonce = n /\ a[i].count = c
                              \/ a[i].nonce # n /\ \E j \in DOMAIN counts : a[i] = counts[j]
    <3> TAKE i \in 1 .. L + 1
    <3>1. CASE i = L + 1 BY <2>2, <2>3, <3>1
    <3>2. CASE i \in 1 .. L BY <1>0, <2>3, <2>5, <3>2
    <3> QED BY <2>4, <3>1, <3>2
  <2>9. L + 1 <= CountLimit \/ (L + 1 = CountLimit + 1 /\ a[1].nonce # n)
    <3>1. CASE L < CountLimit BY <1>0, <3>1
    <3>2. CASE L = CountLimit
      <4>1. 1 \in 1 .. L BY <1>0, <3>2, SMTT(20)
      <4> QED BY <2>3, <2>5, <3>2, <4>1
    <3> QED BY <1>0, <3>1, <3>2
  <2> QED BY <2>3, <2>6, <2>7, <2>8, <2>9 DEF c
<1> QED BY <1>3, <1>4

\* What is dropped is the oldest, and never the nonce that was admitted.
LEMMA KeptIs ==
  ASSUME CountsInv, NEW n \in Nonces
  PROVE  LET kept == Drained(Admitted(n)) IN
         /\ kept \in Seq(Counted) /\ Len(kept) <= CountLimit /\ NoncesDiffer(kept)
         /\ n \in NoncesOf(kept) /\ NoncesOf(kept) \subseteq NoncesOf(counts) \cup {n}
         /\ \A i \in DOMAIN kept :
              \/ kept[i].nonce = n /\ kept[i].count = NextCount(n)
              \/ kept[i].nonce # n /\ \E j \in DOMAIN counts : kept[i] = counts[j]
<1> DEFINE a == Admitted(n)
           kept == Drained(a)
           L == Len(a)
<1>0. /\ a \in Seq(Counted) /\ NoncesDiffer(a) /\ NoncesOf(a) = NoncesOf(counts) \cup {n}
      /\ L \in Nat /\ DOMAIN a = 1 .. L /\ CountLimit \in Nat /\ CountLimit # 0
  BY AdmittedIs, LenProperties, DigestAssumption
<1>1. \A i \in DOMAIN a :
        \/ a[i].nonce = n /\ a[i].count = NextCount(n)
        \/ a[i].nonce # n /\ \E j \in DOMAIN counts : a[i] = counts[j]
  BY AdmittedIs
<1>2. L <= CountLimit \/ (L = CountLimit + 1 /\ a[1].nonce # n) BY AdmittedIs
<1> HIDE DEF a
<1>3. CASE L <= CountLimit
  <2>1. kept = a BY <1>0, <1>3 DEF Drained
  <2> QED BY <1>0, <1>1, <1>3, <2>1 DEF a
<1>4. CASE L = CountLimit + 1 /\ a[1].nonce # n
  <2>1. kept = SubSeq(a, 2, L)
    <3>1. L > CountLimit /\ L - CountLimit + 1 = 2 BY <1>0, <1>4
    <3> QED BY <3>1 DEF Drained
  <2>2. kept \in Seq(Counted) /\ Len(kept) = CountLimit /\ \A i \in 1 .. CountLimit : kept[i] = a[i + 1]
    <3>1. \A i \in 2 .. L : i \in 1 .. L BY <1>0
    <3>2. \A i \in 2 .. L : a[i] \in Counted BY <1>0, <3>1, ElementOfSeq
    <3>3. 2 \in Nat /\ (2 <= L + 1) /\ L - 2 + 1 = CountLimit BY <1>0, <1>4
    <3> HIDE DEF kept
    <3> QED BY <1>0, <1>4, <2>1, <3>1, <3>2, <3>3, SubSeqProperties
  <2>3. DOMAIN kept = 1 .. CountLimit BY <2>2, LenProperties
  <2>4. \A i \in 1 .. CountLimit : i + 1 \in 1 .. L BY <1>0, <1>4
  <2> HIDE DEF kept
  <2>5. NoncesDiffer(kept)
    <3> SUFFICES ASSUME NEW i \in 1 .. CountLimit, NEW j \in 1 .. CountLimit, kept[i].nonce = kept[j].nonce
                 PROVE  i = j
      BY <2>3 DEF NoncesDiffer
    <3> DEFINE p == i + 1
               q == j + 1
    <3>1. p \in 1 .. L /\ q \in 1 .. L /\ kept[i] = a[p] /\ kept[j] = a[q] BY <2>2, <2>4
    <3> HIDE DEF p, q
    <3>2. p = q BY <1>0, <3>1 DEF NoncesDiffer
    <3> QED BY <1>0, <3>2 DEF p, q
  <2>6. NoncesOf(kept) \subseteq NoncesOf(a)
    <3> SUFFICES ASSUME NEW x \in NoncesOf(kept) PROVE x \in NoncesOf(a) OBVIOUS
    <3>1. PICK i \in 1 .. CountLimit : x = kept[i].nonce BY <2>3 DEF NoncesOf
    <3> QED BY <1>0, <2>2, <2>4, <3>1 DEF NoncesOf
  <2>7. n \in NoncesOf(kept)
    <3>1. n \in NoncesOf(a) BY <1>0
    <3>2. PICK i \in 1 .. L : a[i].nonce = n BY <1>0, <3>1 DEF NoncesOf
    <3>3. i # 1 BY <1>4, <3>2
    <3>4. i - 1 \in 1 .. CountLimit /\ i - 1 + 1 = i BY <1>0, <1>4, <3>2, <3>3
    <3>5. kept[i - 1] = a[i] BY <2>2, <3>4
    <3> QED BY <2>3, <3>2, <3>4, <3>5 DEF NoncesOf
  <2>8. \A i \in 1 .. CountLimit :
          \/ kept[i].nonce = n /\ kept[i].count = NextCount(n)
          \/ kept[i].nonce # n /\ \E j \in DOMAIN counts : kept[i] = counts[j]
    <3> TAKE i \in 1 .. CountLimit
    <3> DEFINE p == i + 1
    <3>1. p \in DOMAIN a /\ kept[i] = a[p] BY <1>0, <2>2, <2>4
    <3> HIDE DEF p
    <3> QED BY <1>1, <3>1
  <2>9. Len(kept) <= CountLimit BY <1>0, <2>2
  <2> QED BY <1>0, <2>2, <2>3, <2>5, <2>6, <2>7, <2>8, <2>9 DEF kept, a
<1> QED BY <1>0, <1>2, <1>3, <1>4

\* A stamp that takes a count keeps all of it.
LEMMA StampKeeps ==
  ASSUME CountsInv, NEW n \in Nonces, Admit(n),
         stamps' = Append(stamps, [nonce |-> n, nc |-> NextCount(n), tenancy |-> evicted[n]])
  PROVE  CountsInv'
<1>k. PICK kept : kept = Drained(Admitted(n)) OBVIOUS
<1>g. PICK gone : gone = NoncesOf(Admitted(n)) \ NoncesOf(kept) OBVIOUS
<1>l. PICK L : L = Len(stamps) OBVIOUS
<1>s. PICK s : s = [nonce |-> n, nc |-> NextCount(n), tenancy |-> evicted[n]] OBVIOUS
<1>1. counts' = kept /\ evicted' = [m \in DOMAIN evicted |-> IF m \in gone THEN evicted[m] + 1 ELSE evicted[m]]
  BY <1>k, <1>g DEF Admit, NoncesOf
<1>2. /\ counts \in Seq(Counted) /\ stamps \in Seq(Stamp) /\ evicted \in [Nonces -> Nat]
      /\ L \in Nat /\ DOMAIN stamps = 1 .. L
  BY <1>l, LenProperties DEF CountsInv, CountTypes
<1>3. /\ kept \in Seq(Counted) /\ Len(kept) <= CountLimit /\ NoncesDiffer(kept)
      /\ n \in NoncesOf(kept) /\ NoncesOf(kept) \subseteq NoncesOf(counts) \cup {n}
      /\ \A i \in DOMAIN kept :
           \/ kept[i].nonce = n /\ kept[i].count = NextCount(n)
           \/ kept[i].nonce # n /\ \E j \in DOMAIN counts : kept[i] = counts[j]
  BY <1>k, KeptIs
<1>4. NoncesOf(Admitted(n)) = NoncesOf(counts) \cup {n} BY AdmittedIs
<1>5. NextCount(n) = (Cardinality(Now(n)) + 1) % CountWrap /\ NextCount(n) \in Nat BY NextCountIs
<1>6. s \in Stamp /\ s.nonce = n /\ s.nc = NextCount(n) /\ s.tenancy = evicted[n]
  BY <1>2, <1>5, <1>s DEF Stamp
<1>7. /\ stamps' \in Seq(Stamp) /\ Len(stamps') = L + 1 /\ DOMAIN stamps' = 1 .. L + 1
      /\ stamps'[L + 1] = s /\ \A i \in 1 .. L : stamps'[i] = stamps[i]
  BY <1>2, <1>6, AppendProperties, LenProperties, <1>s, <1>l
<1>8. \A i : i \in 1 .. L + 1 <=> i \in 1 .. L \/ i = L + 1 BY <1>2
<1>9. /\ evicted' \in [Nonces -> Nat] /\ evicted'[n] = evicted[n]
      /\ \A m \in Nonces : /\ m \in gone => evicted'[m] = evicted[m] + 1
                           /\ m \notin gone => evicted'[m] = evicted[m]
  BY <1>1, <1>2, <1>3, <1>g
<1>10. CountTypes' BY <1>1, <1>3, <1>7, <1>9 DEF CountTypes
<1>11. \A i \in 1 .. L : stamps[i].nonce \in Nonces /\ stamps[i].tenancy \in Nat
         /\ stamps[i].tenancy <= evicted[stamps[i].nonce]
         /\ (stamps[i].nonce \notin NoncesOf(counts) => stamps[i].tenancy # evicted[stamps[i].nonce])
  <2>1. \A i \in 1 .. L : stamps[i] \in Stamp BY <1>2, ElementOfSeq
  <2> QED BY <1>2, <2>1 DEF Stamp, CountsInv, CountsOfTenancies
<1>12. Now(n)' = Now(n) \cup {L + 1} /\ L + 1 \notin Now(n)
  <2>1. Now(n) \subseteq 1 .. L BY <1>l, NowIsFinite
  <2>2. L + 1 \notin 1 .. L BY <1>2
  <2>3. \A j \in 1 .. L : j \in Now(n)' <=> j \in Now(n) BY <1>2, <1>7, <1>8, <1>9 DEF Now
  <2>4. L + 1 \in Now(n)' BY <1>6, <1>7, <1>8, <1>9 DEF Now
  <2>5. Now(n)' \subseteq 1 .. L + 1 BY <1>7 DEF Now
  <2> QED BY <1>8, <2>1, <2>2, <2>3, <2>4, <2>5
<1>13. \A m \in Nonces : m # n /\ m \notin gone => Now(m)' = Now(m)
  <2> TAKE m \in Nonces
  <2> HAVE m # n /\ m \notin gone
  <2>1. Now(m) \subseteq 1 .. L BY <1>l, NowIsFinite
  <2>2. \A j \in 1 .. L : j \in Now(m)' <=> j \in Now(m) BY <1>2, <1>7, <1>8, <1>9 DEF Now
  <2>3. L + 1 \notin Now(m)' BY <1>6, <1>7 DEF Now
  <2>4. Now(m)' \subseteq 1 .. L + 1 BY <1>7 DEF Now
  <2> QED BY <1>8, <2>1, <2>2, <2>3, <2>4
<1>14. Cardinality(Now(n)') = Cardinality(Now(n)) + 1
  <2>1. IsFiniteSet(Now(n)) BY NowIsFinite
  <2> QED BY <1>12, <2>1, FS_AddElement
<1>15. CountsOfTenancies'
  <2>1. ASSUME NEW i \in DOMAIN kept
        PROVE  kept[i].count = Cardinality(Now(kept[i].nonce)') % CountWrap
    <3>1. CASE kept[i].nonce = n /\ kept[i].count = NextCount(n)
      BY <1>5, <1>14, <3>1
    <3>2. CASE kept[i].nonce # n /\ \E j \in DOMAIN counts : kept[i] = counts[j]
      <4>1. PICK j \in DOMAIN counts : kept[i] = counts[j] BY <3>2
      <4>2. kept[i].nonce \in NoncesOf(kept) /\ kept[i].nonce \notin gone BY <1>g DEF NoncesOf
      <4>3. counts[j] \in Counted BY <1>2, ElementOfSeq, LenProperties
      <4>4. kept[i].nonce \in Nonces BY <4>1, <4>3 DEF Counted
      <4>5. Now(kept[i].nonce)' = Now(kept[i].nonce) BY <1>13, <3>2, <4>2, <4>4
      <4>6. counts[j].count = Cardinality(Now(counts[j].nonce)) % CountWrap BY DEF CountsInv, CountsOfTenancies
      <4> QED BY <4>1, <4>5, <4>6
    <3> QED BY <1>3, <3>1, <3>2
  <2>2. ASSUME NEW i \in 1 .. L + 1
        PROVE  /\ stamps'[i].tenancy <= evicted'[stamps'[i].nonce]
               /\ stamps'[i].nonce \notin NoncesOf(kept) => stamps'[i].tenancy # evicted'[stamps'[i].nonce]
    <3>1. CASE i = L + 1
      <4>1. evicted[n] \in Nat BY <1>2
      <4> QED BY <1>3, <1>6, <1>7, <1>9, <3>1, <4>1
    <3>2. CASE i \in 1 .. L
      <4> DEFINE m == stamps[i].nonce
                 t == stamps[i].tenancy
      <4>1. /\ m \in Nonces /\ t \in Nat /\ t <= evicted[m] /\ stamps'[i] = stamps[i]
            /\ m \notin NoncesOf(counts) => t # evicted[m]
        BY <1>7, <1>11, <3>2
      <4>2. evicted[m] \in Nat BY <1>2, <4>1
      <4> HIDE DEF m, t
      <4>3. CASE m \in gone
        <5>1. evicted'[m] = evicted[m] + 1 BY <1>9, <4>1, <4>3
        <5>2. t <= evicted[m] + 1 /\ t # evicted[m] + 1 BY <4>1, <4>2
        <5> QED BY <4>1, <5>1, <5>2 DEF m, t
      <4>4. CASE m \notin gone
        <5>1. evicted'[m] = evicted[m] BY <1>9, <4>1, <4>4
        <5>2. m \notin NoncesOf(kept) => m \notin NoncesOf(counts) BY <1>4, <1>g, <4>1, <4>4
        <5> QED BY <4>1, <5>1, <5>2 DEF m, t
      <4> QED BY <4>3, <4>4
    <3> QED BY <1>8, <3>1, <3>2
  <2> QED BY <1>1, <1>7, <2>1, <2>2 DEF CountsOfTenancies
<1>16. StampsCount'
  <2>1. ASSUME NEW i \in 1 .. L
        PROVE  stamps'[i].nc = (Cardinality(EarlierThan(i)') + 1) % CountWrap
    <3>1. \A j \in 1 .. i - 1 : j \in 1 .. L BY <1>2
    <3>2. EarlierThan(i)' = EarlierThan(i) BY <1>7, <3>1 DEF EarlierThan
    <3> QED BY <1>2, <1>7, <3>2 DEF CountsInv, StampsCount
  <2>2. stamps'[L + 1].nc = (Cardinality(EarlierThan(L + 1)') + 1) % CountWrap
    <3>1. L + 1 - 1 = L BY <1>2
    <3>2. EarlierThan(L + 1)' = {j \in 1 .. L : stamps[j].nonce = n /\ stamps[j].tenancy = evicted[n]}
      <4> DEFINE p == L + 1
      <4>0. p - 1 = L BY <1>2
      <4>4. stamps'[p] = s BY <1>7
      <4>5. \A j \in 1 .. L : stamps'[j] = stamps[j] BY <1>7
      <4>2. s.nonce = n /\ s.tenancy = evicted[n] BY <1>6
      <4>3. EarlierThan(L + 1)' = {j \in 1 .. p - 1 : /\ stamps'[j].nonce = stamps'[p].nonce
                                                       /\ stamps'[j].tenancy = stamps'[p].tenancy}
        BY DEF EarlierThan
      <4> HIDE DEF p
      <4> QED BY <4>0, <4>2, <4>3, <4>4, <4>5, ZenonT(40)
    <3>3. EarlierThan(L + 1)' = Now(n) BY <1>2, <3>2 DEF Now
    <3> QED BY <1>5, <1>6, <1>7, <3>3
  <2>3. stamps'[Len(stamps')].nonce \in NoncesOf(kept) BY <1>3, <1>6, <1>7
  <2>4. \A i \in 1 .. L + 1 : stamps'[i].nc = (Cardinality(EarlierThan(i)') + 1) % CountWrap
    BY <1>8, <2>1, <2>2
  <2> QED BY <1>1, <1>7, <2>3, <2>4 DEF StampsCount
<1> QED BY <1>10, <1>15, <1>16 DEF CountsInv

-----------------------------------------------------------------------------
(* The answers.  While a request hashes, it holds the challenge that was    *)
(* best among those it was offered.                                         *)

\* What an offer of challenges calls for.
Digests(offered) == {c \in ToSeqSet(offered) : Satisfiable(c)}

Leaves(offered) == Digests(offered) = {} /\ \A c \in ToSeqSet(offered) : c.scheme # "basic"
TakesBasic(offered) == Digests(offered) = {} /\ \E c \in ToSeqSet(offered) : c.scheme = "basic"
Best(offered, c) == c \in Digests(offered) /\ \A d \in Digests(offered) : RankOf(c) <= RankOf(d)

\* What each state of an answer says of the challenges it was offered.
AnswerIs(a) ==
  /\ a.state = "hashing" => Best(a.offered, a.challenge)
  /\ a.state = "unchanged" => Leaves(a.offered)
  /\ a.state = "sent" =>
       \/ a.header.scheme = "basic" /\ TakesBasic(a.offered)
       \/ a.header.scheme = "digest" /\ \E c : Best(a.offered, c) /\ Verifies(c, a.header)

\* Every answer in every request is what its state calls for.
AnswersInv ==
  /\ answering = [r \in Answerers |-> answering[r]]
  /\ \A r \in Answerers : AnswerIs(answering[r])

DigestInv == CountsInv /\ AnswersInv

\* The states an answer goes through, by what it holds there.
LEMMA AnswerStates ==
  /\ AnswerIs(NoAnswer)
  /\ \A offered : Leaves(offered) => AnswerIs([state |-> "unchanged", offered |-> offered])
  /\ \A offered : TakesBasic(offered) =>
       AnswerIs([state |-> "sent", offered |-> offered, header |-> [scheme |-> "basic"]])
  /\ \A offered, c, nc : Best(offered, c) =>
       AnswerIs([state |-> "hashing", offered |-> offered, challenge |-> c, nc |-> nc])
  /\ \A offered, c, header : Best(offered, c) /\ header.scheme = "digest" /\ Verifies(c, header) =>
       AnswerIs([state |-> "sent", offered |-> offered, header |-> header])
BY DEF AnswerIs, NoAnswer

\* The header says all of what the response was computed over.
LEMMA HeaderVerifies ==
  ASSUME NEW c, NEW cnonce, NEW nc
  PROVE  Verifies(c, HeaderValue(c, cnonce, nc)) /\ HeaderValue(c, cnonce, nc).scheme = "digest"
<1> DEFINE h == HeaderValue(c, cnonce, nc)
<1>1. /\ h.scheme = "digest" /\ h.realm = c.realm /\ h.nonce = c.nonce
      /\ h.nc = (IF c.qop = "auth" THEN nc ELSE "absent")
      /\ h.cnonce = (IF HasCnonce(c) THEN cnonce ELSE "absent")
      /\ h.response = DigestResponse(c, cnonce, nc)
  BY DEF HeaderValue
<1> HIDE DEF h
<1>2. DigestResponse(c, h.cnonce, h.nc) = DigestResponse(c, cnonce, nc)
  <2>1. CASE c.qop = "auth"
    <3>1. h.nc = nc /\ h.cnonce = cnonce BY <1>1, <2>1 DEF HasCnonce
    <3> QED BY <3>1
  <2>2. CASE c.qop # "auth" /\ c.sess
    <3>1. h.cnonce = cnonce BY <1>1, <2>2 DEF HasCnonce
    <3> QED BY <2>2, <3>1 DEF DigestResponse
  <2>3. CASE c.qop # "auth" /\ ~ c.sess BY <2>3 DEF DigestResponse
  <2> QED BY <2>1, <2>2, <2>3
<1> QED BY <1>1, <1>2 DEF Verifies, h

\* What is offered is a sequence of challenges.
LEMMA OffersAre == ASSUME NEW offered \in Offers PROVE offered \in Seq(Challenges)
<1>1. \A c \in Challenges : <<c>> \in Seq(Challenges) OBVIOUS
<1>2. \A c, d \in Challenges : <<c, d>> \in Seq(Challenges) OBVIOUS
<1>3. (\E c \in Challenges : offered = <<c>>) \/ (\E c, d \in Challenges : offered = <<c, d>>)
  BY DEF Offers
<1>4. CASE \E c \in Challenges : offered = <<c>> BY <1>1, <1>4
<1>5. CASE \E c, d \in Challenges : offered = <<c, d>> BY <1>2, <1>5
<1> QED BY <1>3, <1>4, <1>5

\* One request changes its own answer only.
LEMMA AnswerChanges ==
  ASSUME AnswersInv, NEW r \in Answerers, NEW a, AnswerIs(a), answering' = [answering EXCEPT ![r] = a]
  PROVE  AnswersInv'
<1>1. answering'[r] = a /\ \A q \in Answerers : q # r => answering'[q] = answering[q]
  BY DEF AnswersInv
<1>2. answering' = [q \in Answerers |-> answering'[q]] BY DEF AnswersInv
<1>3. \A q \in Answerers : AnswerIs(answering'[q]) BY <1>1 DEF AnswersInv
<1> QED BY <1>2, <1>3 DEF AnswersInv

\* What leaves the counting variables alone keeps what is said of them.
LEMMA CountsRest ==
  ASSUME CountsInv, UNCHANGED <<counts, stamps, evicted>>
  PROVE  CountsInv'
BY DEF CountsInv, CountTypes, CountsOfTenancies, StampsCount, Now, EarlierThan, NoncesOf, NoncesDiffer

\* It holds at the start.
LEMMA DigestStarts == DigestInit => DigestInv
<1> SUFFICES ASSUME DigestInit PROVE DigestInv OBVIOUS
<1>1. counts = <<>> /\ stamps = <<>> /\ evicted = [n \in Nonces |-> 0]
  BY DEF DigestInit, Nonces
<1>2. <<>> \in Seq(Counted) /\ <<>> \in Seq(Stamp) /\ Len(<<>>) = 0 /\ DOMAIN <<>> = {}
  BY EmptySeq
<1>3. evicted \in [Nonces -> Nat] BY <1>1
<1>4. CountTypes BY <1>1, <1>2, <1>3, DigestAssumption DEF CountTypes, NoncesDiffer
<1>5. CountsOfTenancies /\ StampsCount BY <1>1, <1>2 DEF CountsOfTenancies, StampsCount
<1>6. AnswersInv BY AnswerStates DEF AnswersInv, DigestInit
<1> QED BY <1>4, <1>5, <1>6 DEF DigestInv, CountsInv

\* A challenge that is answered, or turned away, keeps it.
LEMMA ChallengedKeeps ==
  ASSUME DigestInv, NEW r \in Answerers, Challenged(r)
  PROVE  DigestInv'
<1> PICK offered \in Offers : Declined(r, offered) \/ StampBasic(r, offered) \/ StampDigest(r, offered)
  BY DEF Challenged
<1> DEFINE x == BestCandidate(offered)
<1>0. CountsInv /\ AnswersInv BY DEF DigestInv
<1>1. /\ Candidates(offered) = {} => Leaves(offered)
      /\ Candidates(offered) # {} /\ Handlers[x[1]] = "basic" => TakesBasic(offered)
      /\ Candidates(offered) # {} /\ Handlers[x[1]] = "digest" => Best(offered, offered[x[2]])
      /\ Candidates(offered) # {} => offered[x[2]] \in Challenges
  <2>1. offered \in Seq(Challenges) BY OffersAre
  <2> QED BY <2>1, BestAnswers DEF Leaves, TakesBasic, Best, Digests
<1>2. CASE Declined(r, offered)
  <2> DEFINE a == [state |-> "unchanged", offered |-> offered]
  <2>1. AnswerIs(a) BY <1>1, <1>2, AnswerStates DEF Declined
  <2>2. answering' = [answering EXCEPT ![r] = a] /\ UNCHANGED <<counts, stamps, evicted>>
    BY <1>2 DEF Declined
  <2> HIDE DEF a
  <2> QED BY <1>0, <2>1, <2>2, AnswerChanges, CountsRest DEF DigestInv
<1>3. CASE StampBasic(r, offered)
  <2> DEFINE a == [state |-> "sent", offered |-> offered, header |-> [scheme |-> "basic"]]
  <2>1. AnswerIs(a) BY <1>1, <1>3, AnswerStates DEF StampBasic
  <2>2. answering' = [answering EXCEPT ![r] = a] /\ UNCHANGED <<counts, stamps, evicted>>
    BY <1>3 DEF StampBasic
  <2> HIDE DEF a
  <2> QED BY <1>0, <2>1, <2>2, AnswerChanges, CountsRest DEF DigestInv
<1>4. CASE StampDigest(r, offered)
  <2> DEFINE c == offered[x[2]]
             n == c.nonce
             nc == IF c.qop = "auth" THEN NextCount(n) ELSE 0
             a == [state |-> "hashing", offered |-> offered, challenge |-> c, nc |-> nc]
  <2>1. c \in Challenges /\ Best(offered, c) BY <1>1, <1>4 DEF StampDigest
  <2>2. n \in Nonces BY <2>1 DEF Nonces
  <2>3. AnswerIs(a)
    <3> HIDE DEF c, nc
    <3> QED BY <2>1, AnswerStates
  <2>4. answering' = [answering EXCEPT ![r] = a] BY <1>4 DEF StampDigest
  <2>5. CASE c.qop = "auth"
    <3>1. Admit(n) /\ stamps' = Append(stamps, [nonce |-> n, nc |-> NextCount(n), tenancy |-> evicted[n]])
      BY <1>4, <2>5 DEF StampDigest
    <3>2. CountsInv'
      <4> HIDE DEF n
      <4> QED BY <1>0, <2>2, <3>1, StampKeeps
    <3> HIDE DEF a
    <3> QED BY <1>0, <2>3, <2>4, <3>2, AnswerChanges DEF DigestInv
  <2>6. CASE c.qop # "auth"
    <3>1. UNCHANGED <<counts, stamps, evicted>> BY <1>4, <2>6 DEF StampDigest
    <3> HIDE DEF a
    <3> QED BY <1>0, <2>3, <2>4, <3>1, AnswerChanges, CountsRest DEF DigestInv
  <2> QED BY <2>5, <2>6
<1> QED BY <1>2, <1>3, <1>4

\* So does the end of a hash.
LEMMA HashedKeeps ==
  ASSUME DigestInv, NEW r \in Answerers, Hashed(r)
  PROVE  DigestInv'
<1> DEFINE q == answering[r]
           header == HeaderValue(q.challenge, "cnonce", q.nc)
           a == [state |-> "sent", offered |-> q.offered, header |-> header]
<1>0. CountsInv /\ AnswersInv /\ answering' = [answering EXCEPT ![r] = a]
      /\ UNCHANGED <<counts, stamps, evicted>>
  BY DEF DigestInv, Hashed, AnswersInv
<1>1. Best(q.offered, q.challenge) BY DEF DigestInv, AnswersInv, AnswerIs, Hashed
<1>2. Verifies(q.challenge, header) /\ header.scheme = "digest" BY HeaderVerifies
<1>3. AnswerIs(a)
  <2> HIDE DEF header
  <2> QED BY <1>1, <1>2, AnswerStates
<1> HIDE DEF a
<1> QED BY <1>0, <1>3, AnswerChanges, CountsRest DEF DigestInv

\* So does every step.
LEMMA DigestKeeps == DigestInv /\ [DigestNext]_digestVars => DigestInv'
<1> SUFFICES ASSUME DigestInv, [DigestNext]_digestVars PROVE DigestInv' OBVIOUS
<1>1. CASE UNCHANGED digestVars
  <2>1. CountsInv' BY <1>1, CountsRest DEF digestVars, DigestInv
  <2>2. AnswersInv' BY <1>1 DEF digestVars, DigestInv, AnswersInv
  <2> QED BY <2>1, <2>2 DEF DigestInv
<1>2. ASSUME NEW r \in Answerers, NextAnswer(r) PROVE DigestInv'
  <2>1. answering' = [answering EXCEPT ![r] = NoAnswer] /\ UNCHANGED <<counts, stamps, evicted>>
    BY <1>2 DEF NextAnswer
  <2>2. AnswerIs(NoAnswer) BY AnswerStates
  <2> QED BY <2>1, <2>2, AnswerChanges, CountsRest DEF DigestInv
<1>3. CASE DigestNext
  BY <1>2, <1>3, ChallengedKeeps, HashedKeeps DEF DigestNext
<1> QED BY <1>1, <1>3

\* It is what the property asks, and more.
LEMMA DigestImplies == DigestInv => ChallengesAnswered
<1> SUFFICES ASSUME DigestInv PROVE ChallengesAnswered OBVIOUS
<1>1. CountsAdvance
  BY TrackedIs DEF DigestInv, CountsInv, CountTypes, StampsCount, EarlierThan, CountsAdvance
<1>2. ASSUME NEW r \in Answerers PROVE AnswerIs(answering[r]) BY DEF DigestInv, AnswersInv
<1>3. AnswersVerify
  BY <1>2 DEF AnswersVerify, AnswerIs, Leaves, TakesBasic, Best, Digests, RankOf
<1> QED BY <1>1, <1>3 DEF ChallengesAnswered

\* A server never sees a count twice while its nonce is tracked, the nonce
\* being answered is never evicted, and every Digest header lets the server
\* compute the response again, for the challenge preferred most: for any
\* requests at once, challenges, preference, store size and wrap (AUTH-15..25).
THEOREM DigestAnswers == DigestSpec => []ChallengesAnswered
  BY DigestStarts, DigestKeeps, DigestImplies, PTL DEF DigestSpec

-----------------------------------------------------------------------------
(* Which requirement a call is authenticated by.                            *)

\* Of the requirements that can be met there is a first.
LEMMA FirstThatCan ==
  ASSUME NEW S \in SUBSET Nat, S # {}
  PROVE  {j \in S : \A k \in S : j <= k} # {}
<1>1. PICK x \in S : \A y \in S : x <= y BY LeastNatural
<1> QED BY <1>1

\* Two lists of one handler, put one behind the other.
LEMMA TwoHandlers ==
  ASSUME NEW first, NEW second
  PROVE  /\ DOMAIN (<<first>> \o <<second>>) = 1 .. 2
         /\ (<<first>> \o <<second>>)[2] = second
<1> DEFINE Both == {first, second}
<1>1. <<first>> \in Seq(Both) /\ <<second>> \in Seq(Both) OBVIOUS
<1>2. Len(<<first>>) = 1 /\ Len(<<second>>) = 1 /\ <<second>>[1] = second OBVIOUS
<1>3. Len(<<first>> \o <<second>>) = 2 /\ <<first>> \o <<second>> \in Seq(Both) BY <1>1, <1>2, ConcatProperties
<1>4. (<<first>> \o <<second>>)[2] = <<second>>[2 - 1] BY <1>1, <1>2, ConcatProperties
<1>5. DOMAIN (<<first>> \o <<second>>) = 1 .. 2 BY <1>3
<1> QED BY <1>2, <1>4, <1>5

\* Whatever the tiers say, whichever credentials there are, a call is not
\* authenticated by a tier weaker than the strongest that says anything, by a
\* scheme without a credential, or by a requirement behind one that can be met;
\* it fails only when that tier has none, and never when it allows anonymous calls.
THEOREM AuthIsChosen ==
  ASSUME NEW Requirements, NEW configured \in [perCall : Seq(Requirements), operation : Seq(Requirements),
                                               client : Seq(Requirements)],
         NEW perCall \in Seq(Requirements), NEW operation \in Seq(Requirements), NEW credentials
  PROVE  AuthChoiceHolds(configured, perCall, operation, credentials)
<1> DEFINE tiers == EffectiveTiers(configured, perCall, operation)
           available == AvailableSchemesOf(credentials)
           stated == <<perCall, configured.perCall, operation, configured.operation, configured.client>>
           asked == {i \in DOMAIN stated : stated[i] # Unset /\ \A j \in 1 .. i - 1 : stated[j] = Unset}
           canMeet(r) == r.scheme \in available \cup {"NO_AUTH"}
           chosen == ResolveAuthRequirement(tiers, available)
           tier == StrongestTier(tiers)
           met == {i \in DOMAIN tier : canMeet(tier[i])}
<1>1. /\ tiers.perCall = IF perCall = Unset THEN configured.perCall ELSE perCall
      /\ tiers.operation = IF operation = Unset THEN configured.operation ELSE operation
      /\ tiers.client = configured.client
  BY DEF EffectiveTiers
<1>2. \A i : i \in DOMAIN stated <=> i = 1 \/ i = 2 \/ i = 3 \/ i = 4 \/ i = 5 OBVIOUS
<1>3. /\ stated[1] = perCall /\ stated[2] = configured.perCall /\ stated[3] = operation
      /\ stated[4] = configured.operation /\ stated[5] = configured.client
  OBVIOUS
<1>4. chosen = {tier[i] : i \in {j \in met : \A k \in met : j <= k}} BY DEF ResolveAuthRequirement
<1> HIDE DEF stated
<1>5. /\ \A i \in asked : stated[i] = tier
      /\ tier # Unset => \E i \in asked : stated[i] = tier
  <2>1. \A i \in asked : /\ stated[i] # Unset /\ (i = 1 \/ i = 2 \/ i = 3 \/ i = 4 \/ i = 5)
                         /\ (i > 1 => stated[1] = Unset) /\ (i > 2 => stated[2] = Unset)
                         /\ (i > 3 => stated[3] = Unset) /\ (i > 4 => stated[4] = Unset)
    <3> SUFFICES ASSUME NEW i \in asked
                 PROVE  /\ stated[i] # Unset /\ (i = 1 \/ i = 2 \/ i = 3 \/ i = 4 \/ i = 5)
                        /\ (i > 1 => stated[1] = Unset) /\ (i > 2 => stated[2] = Unset)
                        /\ (i > 3 => stated[3] = Unset) /\ (i > 4 => stated[4] = Unset)
      OBVIOUS
    <3>1. i = 1 \/ i = 2 \/ i = 3 \/ i = 4 \/ i = 5 BY <1>2
    <3>2. stated[i] # Unset /\ \A j \in 1 .. i - 1 : stated[j] = Unset OBVIOUS
    <3>3. /\ i > 1 => 1 \in 1 .. i - 1 /\ (i > 2 => 2 \in 1 .. i - 1)
          /\ (i > 3 => 3 \in 1 .. i - 1) /\ (i > 4 => 4 \in 1 .. i - 1)
      BY <3>1
    <3>4. (i > 2 => i > 1) /\ (i > 3 => i > 1) /\ (i > 4 => i > 1) BY <3>1
    <3> HIDE DEF asked
    <3> QED BY <3>1, <3>2, <3>3, <3>4
  <2>2. /\ stated[1] # Unset => 1 \in asked
        /\ stated[1] = Unset /\ stated[2] # Unset => 2 \in asked
        /\ stated[1] = Unset /\ stated[2] = Unset /\ stated[3] # Unset => 3 \in asked
        /\ stated[1] = Unset /\ stated[2] = Unset /\ stated[3] = Unset /\ stated[4] # Unset => 4 \in asked
        /\ stated[1] = Unset /\ stated[2] = Unset /\ stated[3] = Unset /\ stated[4] = Unset /\ stated[5] # Unset
             => 5 \in asked
    <3>1. /\ 1 .. 1 - 1 = {} /\ 1 .. 2 - 1 = {1} /\ 1 .. 3 - 1 = {1, 2} /\ 1 .. 4 - 1 = {1, 2, 3}
          /\ 1 .. 5 - 1 = {1, 2, 3, 4}
      OBVIOUS
    <3> QED BY <1>2, <3>1
  <2> HIDE DEF asked
  <2>3. tier = IF stated[1] # Unset THEN stated[1] ELSE IF stated[2] # Unset THEN stated[2]
               ELSE IF stated[3] # Unset THEN stated[3] ELSE IF stated[4] # Unset THEN stated[4] ELSE stated[5]
    <3> HIDE DEF tiers
    <3> QED BY <1>1, <1>3 DEF StrongestTier
  <2> HIDE DEF tier
  <2>4. ASSUME NEW i \in asked PROVE stated[i] = tier
    <3>1. CASE i = 1 BY <2>1, <2>3, <3>1
    <3>2. CASE i = 2 BY <2>1, <2>3, <3>2
    <3>3. CASE i = 3 BY <2>1, <2>3, <3>3
    <3>4. CASE i = 4 BY <2>1, <2>3, <3>4
    <3>5. CASE i = 5 BY <2>1, <2>3, <3>5
    <3> QED BY <2>1, <3>1, <3>2, <3>3, <3>4, <3>5
  <2>5. tier # Unset => \E i \in asked : stated[i] = tier BY <2>2, <2>3
  <2> QED BY <2>4, <2>5
<1>6. tier \in Seq(Requirements)
  <2> HIDE DEF tiers
  <2> QED BY <1>1 DEF StrongestTier
<1> HIDE DEF tier, tiers, available, asked, chosen
<1>7. DOMAIN tier = 1 .. Len(tier) /\ Len(tier) \in Nat BY <1>6
<1>8. met \in SUBSET Nat BY <1>7
<1>9. ASSUME NEW r \in chosen
      PROVE  \E i \in asked :
               /\ canMeet(r)
               /\ \E k \in DOMAIN stated[i] : r = stated[i][k] /\ \A j \in 1 .. k - 1 : ~canMeet(stated[i][j])
  <2>1. PICK k \in met : (\A j \in met : k <= j) /\ r = tier[k] BY <1>4
  <2>2. canMeet(r) /\ k \in 1 .. Len(tier) BY <1>7, <2>1
  <2>3. \A j \in 1 .. k - 1 : ~ canMeet(tier[j])
    <3> SUFFICES ASSUME NEW j \in 1 .. k - 1, canMeet(tier[j]) PROVE FALSE OBVIOUS
    <3>1. j \in 1 .. Len(tier) /\ ~ k <= j BY <1>7, <2>2
    <3>2. j \in met BY <1>7, <3>1
    <3> QED BY <2>1, <3>1, <3>2
  <2>4. tier # Unset BY <1>7, <2>2 DEF Unset
  <2>5. PICK i \in asked : stated[i] = tier BY <1>5, <2>4
  <2> HIDE DEF met, canMeet
  <2> QED BY <1>7, <2>1, <2>2, <2>3, <2>5
<1>10. ASSUME NEW i \in asked, chosen = {}, NEW d \in AuthDescriptor(stated[i])
       PROVE  ~ d.allowsAnonymous
  <2>1. stated[i] = tier BY <1>5
  <2>2. met = {}
    <3> SUFFICES ASSUME met # {} PROVE FALSE OBVIOUS
    <3> HIDE DEF met
    <3>1. {j \in met : \A k \in met : j <= k} # {} BY <1>8, FirstThatCan
    <3> QED BY <1>4, <1>10, <3>1
  <2>3. \A j \in DOMAIN tier : tier[j].scheme # "NO_AUTH" BY <2>2
  <2>4. d.allowsAnonymous <=> \E j \in DOMAIN tier : tier[j].scheme = "NO_AUTH" BY <2>1 DEF AuthDescriptor
  <2> QED BY <2>3, <2>4
<1>11. \A i, j \in DOMAIN BuildHandlers(credentials) : i < j => BuildHandlers(credentials)[j] = "basic"
  <2>1. CASE "digest" \in credentials /\ "basic" \in credentials
    <3>1. BuildHandlers(credentials) = <<"digest">> \o <<"basic">>
      <4>1. (IF "digest" \in credentials THEN <<"digest">> ELSE <<>>) = <<"digest">> BY <2>1
      <4>2. (IF "basic" \in credentials THEN <<"basic">> ELSE <<>>) = <<"basic">> BY <2>1
      <4> QED BY <4>1, <4>2 DEF BuildHandlers
    <3> QED BY <3>1, TwoHandlers
  <2>2. CASE "digest" \in credentials /\ "basic" \notin credentials
    <3>1. BuildHandlers(credentials) = <<"digest">> BY <2>2 DEF BuildHandlers
    <3> QED BY <3>1
  <2>3. CASE "digest" \notin credentials /\ "basic" \in credentials
    <3>1. BuildHandlers(credentials) = <<"basic">> BY <2>3 DEF BuildHandlers
    <3> QED BY <3>1
  <2>4. CASE "digest" \notin credentials /\ "basic" \notin credentials
    <3>1. BuildHandlers(credentials) = <<>> BY <2>4 DEF BuildHandlers
    <3> QED BY <3>1
  <2> QED BY <2>1, <2>2, <2>3, <2>4
<1> QED BY <1>9, <1>10, <1>11 DEF AuthChoiceHolds, stated, asked, chosen, tiers, available

\* Two requirements are equal exactly when they have the same scheme, the same
\* scopes in the same order and the same parameters, however those were put into
\* their maps: comparing the sizes and one side's entries is enough.
THEOREM RequirementsAreEqual ==
  ASSUME NEW a, NEW b, NEW Scopes, NEW KeysA, NEW KeysB, NEW Values,
         IsFiniteSet(KeysA), IsFiniteSet(KeysB),
         a \in [scheme : STRING, scopes : Seq(Scopes), params : [KeysA -> Values]],
         b \in [scheme : STRING, scopes : Seq(Scopes), params : [KeysB -> Values]]
  PROVE  RequirementsHold(a, b)
<1>1. DOMAIN a.params = KeysA /\ DOMAIN b.params = KeysB OBVIOUS
<1>2. ASSUME AuthRequirementsEqual(a, b) PROVE a = b
  <2>1. /\ a.scheme = b.scheme /\ a.scopes = b.scopes /\ Cardinality(KeysA) = Cardinality(KeysB)
        /\ \A key \in KeysA : key \in KeysB /\ a.params[key] = b.params[key]
    BY <1>1, <1>2 DEF AuthRequirementsEqual
  <2>2. KeysA = KeysB
    <3>1. KeysA \in SUBSET KeysB BY <2>1
    <3> QED BY <2>1, <3>1, FS_Subset
  <2>3. a.params = b.params BY <2>1, <2>2
  <2> QED BY <2>1, <2>2, <2>3
<1>3. ASSUME a = b PROVE AuthRequirementsEqual(a, b) /\ AuthRequirementsEqual(b, a)
  BY <1>3 DEF AuthRequirementsEqual
<1>4. ASSUME AuthRequirementsEqual(b, a) PROVE a = b
  <2>1. /\ a.scheme = b.scheme /\ a.scopes = b.scopes /\ Cardinality(KeysA) = Cardinality(KeysB)
        /\ \A key \in KeysB : key \in KeysA /\ a.params[key] = b.params[key]
    BY <1>1, <1>4 DEF AuthRequirementsEqual
  <2>2. KeysA = KeysB
    <3>1. KeysB \in SUBSET KeysA BY <2>1
    <3> QED BY <2>1, <3>1, FS_Subset
  <2>3. a.params = b.params BY <2>1, <2>2
  <2> QED BY <2>1, <2>2, <2>3
<1>5. AuthRequirementsEqual(a, b) \in BOOLEAN /\ AuthRequirementsEqual(b, a) \in BOOLEAN BY DEF AuthRequirementsEqual
<1> QED BY <1>2, <1>3, <1>4, <1>5 DEF RequirementsHold

-----------------------------------------------------------------------------
(* Redaction.                                                              *)

\* Any texts; the masks are spelled out, which no prover knows to be strings.
Texts == STRING \cup {"", "***", "***:***"}
PairsOfUrl == [key : Texts, eq : BOOLEAN, value : Texts]
UrlParts ==
  [absolute : BOOLEAN, userinfo : Texts, path : Texts, query : Seq(PairsOfUrl), fragment : Seq(PairsOfUrl)]

\* A parameter whose value may be seen.
MayShow(pair, allowed) == pair.value = "secret" => pair.key \in allowed \/ ~pair.eq
AllShown(pairs, allowed) == \A i \in DOMAIN pairs : MayShow(pairs[i], allowed)

\* One part of a record in place of another.
LEMMA PairExcept ==
  ASSUME NEW p \in PairsOfUrl, NEW w
  PROVE  /\ [p EXCEPT !.value = w] = [key |-> p.key, eq |-> p.eq, value |-> w]
         /\ [p EXCEPT !.eq = w] = [key |-> p.key, eq |-> w, value |-> p.value]
<1> DEFINE K == Texts
           Q == BOOLEAN
           V == Texts
<1>0. p \in [key : K, eq : Q, value : V] BY DEF PairsOfUrl
<1> HIDE DEF K, Q, V
<1>1. [p EXCEPT !.value = w] = [key |-> p.key, eq |-> p.eq, value |-> w] BY <1>0
<1>2. [p EXCEPT !.eq = w] = [key |-> p.key, eq |-> w, value |-> p.value] BY <1>0
<1> QED BY <1>1, <1>2
UrlWith(r, u, q, f) == [r EXCEPT !.userinfo = u, !.query = q, !.fragment = f]
ReferenceWith(r, q, f) == [r EXCEPT !.query = q, !.fragment = f]
LEMMA UrlExcept ==
  ASSUME NEW r \in UrlParts, NEW u, NEW q, NEW f
  PROVE  /\ UrlWith(r, u, q, f) =
              [absolute |-> r.absolute, userinfo |-> u, path |-> r.path, query |-> q, fragment |-> f]
         /\ ReferenceWith(r, q, f) =
              [absolute |-> r.absolute, userinfo |-> r.userinfo, path |-> r.path, query |-> q, fragment |-> f]
<1> DEFINE A == BOOLEAN
           U == Texts
           P == Texts
           Q == Seq(PairsOfUrl)
           F == Seq(PairsOfUrl)
<1>0. r \in [absolute : A, userinfo : U, path : P, query : Q, fragment : F] BY DEF UrlParts
<1> HIDE DEF A, U, P, Q, F
<1> DEFINE a == [r EXCEPT !.userinfo = u]
           b == [a EXCEPT !.query = q]
           c == [r EXCEPT !.query = q]
<1>1. a = [absolute |-> r.absolute, userinfo |-> u, path |-> r.path, query |-> r.query, fragment |-> r.fragment]
  BY <1>0
<1>2. c = [absolute |-> r.absolute, userinfo |-> r.userinfo, path |-> r.path, query |-> q, fragment |-> r.fragment]
  BY <1>0
<1>3. UrlWith(r, u, q, f) = [b EXCEPT !.fragment = f] BY DEF UrlWith
<1>4. ReferenceWith(r, q, f) = [c EXCEPT !.fragment = f] BY DEF ReferenceWith
<1> HIDE DEF a, c
<1>5. b = [absolute |-> r.absolute, userinfo |-> u, path |-> r.path, query |-> q, fragment |-> r.fragment]
  BY <1>1
<1> HIDE DEF b
<1>6. [b EXCEPT !.fragment = f] =
        [absolute |-> r.absolute, userinfo |-> u, path |-> r.path, query |-> q, fragment |-> f]
  BY <1>5
<1>7. [c EXCEPT !.fragment = f] =
        [absolute |-> r.absolute, userinfo |-> r.userinfo, path |-> r.path, query |-> q, fragment |-> f]
  BY <1>2
<1> QED BY <1>3, <1>4, <1>6, <1>7

LEMMA PairFields ==
  ASSUME NEW p \in PairsOfUrl
  PROVE  /\ p = [key |-> p.key, eq |-> p.eq, value |-> p.value]
         /\ p.key \in Texts /\ p.eq \in BOOLEAN /\ p.value \in Texts
  BY DEF PairsOfUrl

\* What is kept of a parameter.
LEMMA KeptPair ==
  ASSUME NEW p \in PairsOfUrl, NEW allowed
  PROVE  /\ Kept(p, allowed) \in PairsOfUrl /\ MayShow(Kept(p, allowed), allowed)
         /\ Kept(p, allowed).key = p.key /\ Kept(p, allowed).eq = p.eq
         /\ Kept(Kept(p, allowed), allowed) = Kept(p, allowed)
<1>1. /\ p = [key |-> p.key, eq |-> p.eq, value |-> p.value]
      /\ p.key \in Texts /\ p.eq \in BOOLEAN /\ p.value \in Texts
  BY PairFields
<1> DEFINE star == "***"
<1>10. star # "secret" BY Zenon
<1>11. star \in Texts BY Zenon DEF Texts
<1> DEFINE q == [key |-> p.key, eq |-> p.eq, value |-> star]
<1>12. Kept(p, allowed) = (IF p.key \in allowed \/ ~p.eq THEN p ELSE [p EXCEPT !.value = star]) BY Zenon DEF Kept
<1>13. Kept(q, allowed) = (IF q.key \in allowed \/ ~q.eq THEN q ELSE [q EXCEPT !.value = star]) BY Zenon DEF Kept
<1> HIDE DEF star
<1>2. [p EXCEPT !.value = star] = q BY PairExcept
<1>4. q \in PairsOfUrl BY <1>1, <1>11 DEF PairsOfUrl
<1>7. q.key = p.key /\ q.eq = p.eq /\ q.value = star OBVIOUS
<1>8. [q EXCEPT !.value = star] = [key |-> q.key, eq |-> q.eq, value |-> star]
  BY <1>4, PairExcept
<1>9. [q EXCEPT !.value = star] = q BY <1>7, <1>8
<1>3. q.key = p.key /\ q.eq = p.eq /\ q.value = star /\ [q EXCEPT !.value = star] = q BY <1>7, <1>9
<1> HIDE DEF q
<1>5. CASE p.key \in allowed \/ ~p.eq
  <2>1. Kept(p, allowed) = p BY <1>5, <1>12
  <2>2. MayShow(p, allowed) BY <1>5 DEF MayShow
  <2> QED BY <1>5, <2>1, <2>2
<1>6. CASE ~(p.key \in allowed \/ ~p.eq)
  <2>1. Kept(p, allowed) = q BY <1>2, <1>6, <1>12
  <2>2. Kept(q, allowed) = q BY <1>3, <1>6, <1>7, <1>13
  <2>3. MayShow(q, allowed) BY <1>3, <1>10 DEF MayShow
  <2> QED BY <1>3, <1>4, <1>6, <2>1, <2>2, <2>3 DEF q
<1> QED BY <1>5, <1>6

\* What a query shows of a parameter.
AsQuery(p, allowed) == [Kept([p EXCEPT !.eq = TRUE], allowed) EXCEPT !.eq = TRUE]
LEMMA QueryPair ==
  ASSUME NEW p \in PairsOfUrl, NEW allowed
  PROVE  /\ AsQuery(p, allowed) \in PairsOfUrl /\ MayShow(AsQuery(p, allowed), allowed)
         /\ AsQuery(p, allowed).key = p.key
         /\ AsQuery(AsQuery(p, allowed), allowed) = AsQuery(p, allowed)
<1> DEFINE q == [p EXCEPT !.eq = TRUE]
           k == Kept(q, allowed)
<1>1. q \in PairsOfUrl /\ q.eq = TRUE /\ q.key = p.key
  <2>1. q = [key |-> p.key, eq |-> TRUE, value |-> p.value] BY PairExcept
  <2> QED BY <2>1, PairFields DEF PairsOfUrl
<1> HIDE DEF q
<1>2. /\ k \in PairsOfUrl /\ MayShow(k, allowed) /\ k.key = q.key /\ k.eq = q.eq
      /\ Kept(k, allowed) = k
  BY <1>1, KeptPair
<1>3. AsQuery(p, allowed) = [k EXCEPT !.eq = TRUE] BY DEF AsQuery, q
<1> HIDE DEF k
<1>4. [k EXCEPT !.eq = TRUE] = k
  <2>1. [k EXCEPT !.eq = TRUE] = [key |-> k.key, eq |-> TRUE, value |-> k.value]
    BY <1>2, PairExcept
  <2>2. k = [key |-> k.key, eq |-> k.eq, value |-> k.value] BY <1>2, PairFields
  <2> QED BY <1>1, <1>2, <2>1, <2>2
<1>5. AsQuery(k, allowed) = k BY <1>2, <1>4 DEF AsQuery
<1> QED BY <1>1, <1>2, <1>3, <1>4, <1>5

LEMMA QueryShown ==
  ASSUME NEW pairs \in Seq(PairsOfUrl), NEW allowed
  PROVE  LET shown == RedactQueryString(pairs, allowed) IN
           /\ shown \in Seq(PairsOfUrl) /\ AllShown(shown, allowed)
           /\ [i \in DOMAIN shown |-> shown[i].key] = [i \in DOMAIN pairs |-> pairs[i].key]
           /\ RedactQueryString(shown, allowed) = shown
<1> DEFINE shown == RedactQueryString(pairs, allowed)
           P == PairsOfUrl
<1>1. shown = [i \in DOMAIN pairs |-> AsQuery(pairs[i], allowed)] BY DEF RedactQueryString, AsQuery
<1>2. pairs \in Seq(P) OBVIOUS
<1> HIDE DEF P, shown
<1>3. /\ DOMAIN pairs = 1 .. Len(pairs) /\ Len(pairs) \in Nat /\ \A i \in DOMAIN pairs : pairs[i] \in P
  BY <1>2
<1>4. ASSUME NEW i \in DOMAIN pairs
      PROVE  /\ shown[i] = AsQuery(pairs[i], allowed)
             /\ shown[i] \in P /\ MayShow(shown[i], allowed)
             /\ shown[i].key = pairs[i].key /\ AsQuery(shown[i], allowed) = shown[i]
  <2>1. pairs[i] \in PairsOfUrl BY <1>3 DEF P
  <2>2. shown[i] = AsQuery(pairs[i], allowed) BY <1>1
  <2> QED BY <2>1, <2>2, QueryPair DEF P
<1>5. DOMAIN shown = DOMAIN pairs BY <1>1
<1>6. shown = [i \in DOMAIN pairs |-> shown[i]] BY <1>1
<1>7. shown \in [1 .. Len(pairs) -> P] BY <1>3, <1>4, <1>6
<1>8. shown \in Seq(P) BY <1>3, <1>7
<1>9. AllShown(shown, allowed) BY <1>4, <1>5 DEF AllShown
<1>10. [i \in DOMAIN shown |-> shown[i].key] = [i \in DOMAIN pairs |-> pairs[i].key] BY <1>4, <1>5
<1>11. RedactQueryString(shown, allowed) = [i \in DOMAIN shown |-> AsQuery(shown[i], allowed)]
  BY DEF RedactQueryString, AsQuery
<1>12. RedactQueryString(shown, allowed) = shown BY <1>4, <1>5, <1>6, <1>11
<1> QED BY <1>8, <1>9, <1>10, <1>12 DEF P, shown

LEMMA FragmentShown ==
  ASSUME NEW pairs \in Seq(PairsOfUrl), NEW allowed
  PROVE  LET shown == RedactFragment(pairs, allowed) IN
           /\ shown \in Seq(PairsOfUrl) /\ AllShown(shown, allowed)
           /\ RedactFragment(shown, allowed) = shown
<1> DEFINE shown == RedactFragment(pairs, allowed)
           P == PairsOfUrl
<1>1. pairs \in Seq(P) OBVIOUS
<1> HIDE DEF P
<1>2. /\ DOMAIN pairs = 1 .. Len(pairs) /\ Len(pairs) \in Nat /\ \A i \in DOMAIN pairs : pairs[i] \in P
  BY <1>1
<1>3. CASE \A i \in DOMAIN pairs : ~pairs[i].eq
  <2>1. shown = pairs BY <1>3 DEF RedactFragment
  <2>2. AllShown(pairs, allowed) BY <1>3 DEF AllShown, MayShow
  <2> QED BY <1>1, <2>1, <2>2 DEF P
<1>4. CASE \E i \in DOMAIN pairs : pairs[i].eq
  <2>1. shown = [i \in DOMAIN pairs |-> Kept(pairs[i], allowed)] BY <1>4 DEF RedactFragment
  <2> HIDE DEF shown
  <2>2. ASSUME NEW i \in DOMAIN pairs
        PROVE  /\ shown[i] \in P /\ MayShow(shown[i], allowed)
               /\ shown[i].eq = pairs[i].eq /\ Kept(shown[i], allowed) = shown[i]
    <3>1. pairs[i] \in PairsOfUrl BY <1>2 DEF P
    <3>2. shown[i] = Kept(pairs[i], allowed) BY <2>1
    <3> QED BY <3>1, <3>2, KeptPair DEF P
  <2>3. DOMAIN shown = DOMAIN pairs BY <2>1
  <2>4. shown = [i \in DOMAIN pairs |-> shown[i]] BY <2>1
  <2>5. shown \in [1 .. Len(pairs) -> P] BY <1>2, <2>2, <2>4
  <2>6. shown \in Seq(P) BY <1>2, <2>5
  <2>7. AllShown(shown, allowed) BY <2>2, <2>3 DEF AllShown
  <2>8. \E i \in DOMAIN shown : shown[i].eq BY <1>4, <2>2, <2>3
  <2>9. RedactFragment(shown, allowed) = [i \in DOMAIN shown |-> Kept(shown[i], allowed)]
    BY <2>8 DEF RedactFragment
  <2>10. RedactFragment(shown, allowed) = shown BY <2>2, <2>3, <2>4, <2>9
  <2> QED BY <2>6, <2>7, <2>10 DEF P, shown
<1> QED BY <1>3, <1>4

\* What a whole URL shows.
Credentials(userinfo) == IF userinfo = "" THEN "" ELSE "***:***"
LEMMA CredentialsHidden ==
  ASSUME NEW userinfo
  PROVE  /\ Credentials(userinfo) # "user" /\ Credentials(userinfo) \in Texts
         /\ Credentials(Credentials(userinfo)) = Credentials(userinfo)
<1>1. "***:***" # "user" /\ "" # "user" /\ "***:***" # "" BY Zenon
<1>2. "***:***" \in Texts /\ "" \in Texts BY Zenon DEF Texts
<1>3. CASE userinfo = ""
  <2>1. Credentials(userinfo) = "" /\ Credentials("") = "" BY <1>3, Zenon DEF Credentials
  <2> QED BY <1>1, <1>2, <2>1, Zenon
<1>4. CASE userinfo # ""
  <2>1. Credentials(userinfo) = "***:***" BY <1>4, Zenon DEF Credentials
  <2>2. Credentials("***:***") = "***:***" BY <1>1, Zenon DEF Credentials
  <2> QED BY <1>1, <1>2, <2>1, <2>2, Zenon
<1> QED BY <1>3, <1>4, Zenon

LEMMA UrlShown ==
  ASSUME NEW url \in UrlParts, NEW allowed, url.absolute
  PROVE  LET shown == RedactUrl(url, allowed) IN
           /\ shown.userinfo # "user" /\ shown.path = url.path
           /\ AllShown(shown.query, allowed) /\ AllShown(shown.fragment, allowed)
           /\ [i \in DOMAIN shown.query |-> shown.query[i].key] = [i \in DOMAIN url.query |-> url.query[i].key]
           /\ RedactUrl(shown, allowed) = shown
<1> DEFINE q == RedactQueryString(url.query, allowed)
           f == RedactFragment(url.fragment, allowed)
           u == Credentials(url.userinfo)
           made == [absolute |-> url.absolute, userinfo |-> u, path |-> url.path, query |-> q, fragment |-> f]
<1>1. /\ url.query \in Seq(PairsOfUrl) /\ url.fragment \in Seq(PairsOfUrl)
      /\ url.path \in Texts /\ url.absolute \in BOOLEAN
  BY DEF UrlParts
<1>2. /\ q \in Seq(PairsOfUrl) /\ AllShown(q, allowed) /\ RedactQueryString(q, allowed) = q
      /\ [i \in DOMAIN q |-> q[i].key] = [i \in DOMAIN url.query |-> url.query[i].key]
  BY <1>1, QueryShown
<1>3. f \in Seq(PairsOfUrl) /\ AllShown(f, allowed) /\ RedactFragment(f, allowed) = f BY <1>1, FragmentShown
<1>4. RedactUrl(url, allowed) = UrlWith(url, u, q, f)
  BY Zenon DEF RedactUrl, UrlWith, Credentials
<1>5. u # "user" /\ u \in Texts /\ Credentials(u) = u BY CredentialsHidden
<1> HIDE DEF q, f, u
<1>6. UrlWith(url, u, q, f) = made BY UrlExcept
<1>7. /\ made.userinfo = u /\ made.query = q /\ made.fragment = f /\ made.path = url.path
      /\ made.absolute = url.absolute
  OBVIOUS
<1>8. made \in UrlParts BY <1>1, <1>2, <1>3, <1>5 DEF UrlParts
<1> HIDE DEF made
<1>9. UrlWith(made, u, q, f) = made
  <2>1. UrlWith(made, u, q, f) =
          [absolute |-> made.absolute, userinfo |-> u, path |-> made.path, query |-> q, fragment |-> f]
    BY <1>8, UrlExcept
  <2> QED BY <1>7, <2>1 DEF made
<1>10. RedactUrl(made, allowed) = made
  <2>1. RedactUrl(made, allowed) =
          UrlWith(made, Credentials(made.userinfo), RedactQueryString(made.query, allowed),
                  RedactFragment(made.fragment, allowed))
    BY <1>1, <1>7, Zenon DEF RedactUrl, UrlWith, Credentials
  <2> QED BY <1>2, <1>3, <1>5, <1>7, <1>9, <2>1
<1> QED BY <1>2, <1>3, <1>4, <1>5, <1>6, <1>7, <1>10

\* Whatever a URL holds and whatever parameters are allowed, what is logged of
\* it, alone or in a header, has neither its credentials nor the value of a
\* parameter that is not allowed, names the same parameters, and is itself when
\* it is redacted again.
THEOREM SecretsAreRedacted ==
  ASSUME NEW url \in UrlParts, NEW allowed
  PROVE  RedactionHolds(url, allowed)
<1> DEFINE shown == RedactUrl(url, allowed)
           hidden(pairs) == \A i \in DOMAIN pairs :
             pairs[i].value = "secret" => pairs[i].key \in allowed \/ ~pairs[i].eq
           header(name) == RedactHeaderValue(name, url, "mark", allowed)
           reference == RedactReference(url, allowed)
<1>1. \A pairs : AllShown(pairs, allowed) => hidden(pairs) BY DEF AllShown, MayShow
<1> HIDE DEF hidden
<1>2. url.absolute =>
        /\ shown.userinfo # "user" /\ hidden(shown.query) /\ hidden(shown.fragment)
        /\ [i \in DOMAIN shown.query |-> shown.query[i].key] = [i \in DOMAIN url.query |-> url.query[i].key]
        /\ RedactUrl(shown, allowed) = shown
  BY <1>1, UrlShown
<1>3. hidden(reference.query) /\ hidden(reference.fragment) /\ (~url.absolute => reference.path = url.path)
  <2>1. CASE url.absolute
    <3>1. reference = shown BY <2>1 DEF RedactReference
    <3> QED BY <1>2, <2>1, <3>1
  <2>2. CASE ~url.absolute /\ url.query = <<>> /\ url.fragment = <<>>
    <3>1. reference = url BY <2>2 DEF RedactReference
    <3> QED BY <2>2, <3>1 DEF hidden
  <2>3. CASE ~url.absolute /\ ~(url.query = <<>> /\ url.fragment = <<>>)
    <3> DEFINE star == "***"
               none == ""
               mark == <<[key |-> none, eq |-> FALSE, value |-> star]>>
               other == ReferenceWith(url, mark, <<>>)
    <3>1. star # "secret" BY Zenon
    <3>2. reference = IF url.absolute THEN RedactUrl(url, allowed)
                      ELSE IF url.query = <<>> /\ url.fragment = <<>> THEN url ELSE other
      BY Zenon DEF RedactReference, ReferenceWith
    <3> HIDE DEF star, none
    <3>3. DOMAIN mark = {1} /\ mark[1].value = star OBVIOUS
    <3> HIDE DEF mark, reference
    <3>4. other = [absolute |-> url.absolute, userinfo |-> url.userinfo, path |-> url.path,
                   query |-> mark, fragment |-> <<>>]
      BY UrlExcept
    <3> HIDE DEF other
    <3>5. reference = other BY <2>3, <3>2
    <3>6. reference.query = mark /\ reference.fragment = <<>> /\ reference.path = url.path BY <3>4, <3>5
    <3>7. hidden(mark) BY <3>1, <3>3 DEF hidden
    <3>8. hidden(<<>>) BY DEF hidden
    <3> QED BY <3>6, <3>7, <3>8
  <2> QED BY <2>1, <2>2, <2>3
<1>4. header("location") = {reference}
  <2>1. "location" \in {"location", "content-location"} /\ "location" \notin ShownHeaders BY DEF ShownHeaders
  <2> QED BY <2>1, Zenon DEF RedactHeaderValue
<1>5. header("authorization") = {"REDACTED"}
  <2>1. "authorization" \notin {"location", "content-location"} /\ "authorization" \notin ShownHeaders
    BY DEF ShownHeaders
  <2>2. header("authorization") = {v \in {"REDACTED"} : "mark" = "mark"} BY <2>1, Zenon DEF RedactHeaderValue
  <2> QED BY <2>2
<1>6. RedactHeaderValue("authorization", url, "omit", allowed) = {}
  <2>1. "authorization" \notin {"location", "content-location"} /\ "authorization" \notin ShownHeaders
    BY DEF ShownHeaders
  <2>2. RedactHeaderValue("authorization", url, "omit", allowed) = {v \in {"REDACTED"} : "omit" = "mark"}
    BY <2>1, Zenon DEF RedactHeaderValue
  <2> QED BY <2>2
<1>7. \A v \in header("location") :
        hidden(v.query) /\ hidden(v.fragment) /\ (~url.absolute => v.path = url.path)
  <2> HIDE DEF reference, header
  <2> QED BY <1>3, <1>4
<1> HIDE DEF shown, header
<1> QED BY <1>2, <1>5, <1>6, <1>7, Zenon DEF RedactionHolds, shown, header, hidden
=============================================================================
