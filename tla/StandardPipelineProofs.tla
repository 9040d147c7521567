----------------------- MODULE StandardPipelineProofs -----------------------
(***************************************************************************)
(* Proofs about StandardPipeline, for every set of targets, every hop cap  *)
(* and every attempt cap; and about the builder of the headers it sends    *)
(* (HeaderFields), for every sequence of calls.                            *)
(***************************************************************************)
EXTENDS StandardPipeline, HeaderFields, SequenceFacts, FiniteSetTheorems, TLAPS

USE DEF policyVars, hopVars, authVars, wireVars

-----------------------------------------------------------------------------
(* What the helpers make of a request.                                     *)

(* Stripping clears the marker and nothing else.                           *)
LEMMA StripFields ==
    ASSUME NEW r \in Request
    PROVE  /\ Strip(r) \in Request
           /\ Strip(r).url = r.url /\ Strip(r).body = r.body
           /\ Strip(r).authorization = r.authorization
           /\ Strip(r).apiKey = r.apiKey /\ Strip(r).cookie = r.cookie
           /\ Strip(r).marker = FALSE
  BY DEF Strip, Request

(* Stamping adds the credential of the scheme and nothing else.            *)
LEMMA StampFields ==
    ASSUME NEW r \in Request
    PROVE  /\ Stamp(r) \in Request
           /\ Stamp(r).url = r.url /\ Stamp(r).body = r.body
           /\ Stamp(r).cookie = r.cookie /\ Stamp(r).marker = r.marker
           /\ Stamp(r).apiKey => r.apiKey \/ scheme = "API_KEY"
           /\ Stamp(r).authorization # r.authorization => scheme = "OAUTH2"
<1>1. CASE scheme = "OAUTH2"
  <2>1. Stamp(r) = [r EXCEPT !.authorization = "stamped"]
    BY <1>1 DEF Stamp
  <2>. QED
    BY <1>1, <2>1 DEF Request
<1>2. CASE scheme = "API_KEY"
  <2>1. Stamp(r) = [r EXCEPT !.apiKey = TRUE]
    BY <1>2 DEF Stamp
  <2>. QED
    BY <1>2, <2>1 DEF Request
<1>3. CASE scheme \notin {"OAUTH2", "API_KEY"}
  <2>1. Stamp(r) = r
    BY <1>3 DEF Stamp
  <2>. QED
    BY <2>1
<1>. QED
  BY <1>1, <1>2, <1>3

(* A hook keeps what it does not set.                                      *)
LEMMA ReplacementFields ==
    ASSUME outbound \in Request, UrlAssumption,
           NEW u \in {outbound.url} \cup Plaintext, NEW a \in {outbound.authorization, "hook"}
    PROVE  LET r == Replacement(u, a) IN
           /\ r \in Request
           /\ r.body = outbound.body /\ r.apiKey = outbound.apiKey
           /\ r.cookie = outbound.cookie /\ r.marker = outbound.marker
<1>1. u \in Url /\ a \in {"none", "caller", "stamped", "hook"}
  BY DEF UrlAssumption, Request
<1>. QED
  BY <1>1 DEF Replacement, Request

(* What a followed hop keeps and what it loses.                            *)
LEMMA FollowFields ==
    ASSUME request \in Request, answer.location \in Url
    PROVE  /\ FollowRequest \in Request
           /\ FollowRequest.url = answer.location
           /\ FollowRequest.apiKey = request.apiKey
           /\ FollowRequest.authorization = "none"
           /\ Origin[answer.location] # Origin[seed] =>
                FollowRequest.cookie = FALSE /\ FollowRequest.marker = TRUE
           /\ FollowRequest.body =
                IF answer.status = "seeOther" THEN "none" ELSE request.body
<1>. DEFINE foreign == Origin[answer.location] # Origin[seed]
            seeOther == answer.status = "seeOther"
            cookie == request.cookie /\ ~foreign
            idempotent == request.idempotent \/ seeOther
            body == IF seeOther THEN "none" ELSE request.body
<1>1. FollowRequest =
        [request EXCEPT !.url = answer.location, !.authorization = "none",
                        !.cookie = cookie, !.marker = foreign,
                        !.idempotent = idempotent, !.body = body]
  BY Zenon DEF FollowRequest, IsCrossOrigin
<1>2. /\ foreign \in BOOLEAN /\ cookie \in BOOLEAN /\ idempotent \in BOOLEAN
      /\ body \in {"none", "replayable", "oneShot"}
  BY DEF Request
<1>3. foreign => cookie = FALSE /\ foreign = TRUE
  OBVIOUS
<1>. HIDE DEF foreign, cookie, idempotent, body
<1>4. /\ FollowRequest \in Request
      /\ FollowRequest.url = answer.location
      /\ FollowRequest.apiKey = request.apiKey
      /\ FollowRequest.authorization = "none"
      /\ FollowRequest.cookie = cookie /\ FollowRequest.marker = foreign
      /\ FollowRequest.body = body
  BY <1>1, <1>2 DEF Request
<1>. QED
  BY <1>3, <1>4 DEF foreign, body

(* What travels outwards: exactly one of nothing, a failure, a response.   *)
LEMMA PendingFields == Pending \in Answer /\ Pending.kind = "pending"
  BY DEF Pending, Answer

(* A failure is an answer that is no response.                             *)
LEMMA ErrorFields ==
    ASSUME NEW e \in Raised \cup AbortFailure \cup {"fatal"}
    PROVE  Error(e) \in Answer /\ Error(e).kind = "error"
  BY DEF Error, Answer, Failure, Raised, AbortFailure

(* A response carries the number of the send it answers.                   *)
LEMMA ResponseFields ==
    ASSUME sends \in Nat, NEW s \in Status, NEW to \in Url \cup {NoUrl}
    PROVE  /\ Response(s, to) \in Answer
           /\ Response(s, to).kind = "response" /\ Response(s, to).id = sends
           /\ Response(s, to).status = s /\ Response(s, to).location = to
  BY DEF Response, Answer

(* A response in hand has an id and a location.                            *)
LEMMA AnswerFields ==
    ASSUME answer \in Answer, IsResponse
    PROVE  answer.status \in Status /\ answer.location \in Url \cup {NoUrl}
           /\ answer.id \in Nat
  BY DEF Answer, IsResponse, Pending, Error

(* A dispatch keeps the types and counts itself.                           *)
LEMMA TransmitEffect ==
    ASSUME TypeOK, NEW r \in Request, Transmit(r)
    PROVE  /\ pc' = "wire"
           /\ answer' \in Answer /\ answer'.kind = "pending"
           /\ outbound' \in Request /\ ~outbound'.marker
           /\ outbound'.url = r.url /\ outbound'.body = r.body
           /\ outbound'.authorization = r.authorization
           /\ outbound'.apiKey = r.apiKey /\ outbound'.cookie = r.cookie
           /\ sends' = sends + 1
           /\ oneShotSends' \in 0..sends'
           /\ r.body = "oneShot" => oneShotSends' = oneShotSends + 1
           /\ r.body # "oneShot" => oneShotSends' = oneShotSends
<1>1. sends \in Nat /\ oneShotSends \in 0..sends
  BY DEF TypeOK
<1>2. /\ sends' = sends + 1
      /\ oneShotSends' \in 0..sends'
      /\ r.body = "oneShot" => oneShotSends' = oneShotSends + 1
      /\ r.body # "oneShot" => oneShotSends' = oneShotSends
  BY <1>1 DEF Transmit
<1>3. pc' = "wire" /\ outbound' = Strip(r) /\ answer' = Pending
  BY DEF Transmit
<1>. QED
  BY <1>2, <1>3, StripFields, PendingFields

(* The top of an attempt: the call ends on the signal, the https guard     *)
(* refuses, the request is planned, or it goes straight to the wire.       *)
Ended == aborted /\ pc' = "done" /\ UNCHANGED <<attempt, authVars, wireVars>>

Planned ==
    /\ scheme # "absent"
    /\ crossOrigin' = request.marker
    /\ guarded' = (~request.marker /\ scheme # "NO_AUTH")
    /\ replayed' = FALSE
    /\ outbound' \in Request
    /\ UNCHANGED wireVars

Refused == Planned /\ pc' = "decideRetry"

ToSend ==
    /\ Planned
    /\ pc' = "planned"
    /\ ~outbound'.marker
    /\ outbound'.cookie = request.cookie
    /\ outbound'.body = request.body
    /\ outbound'.url = request.url
    /\ request.marker =>
        ~outbound'.apiKey /\ outbound'.authorization = request.authorization
    /\ outbound'.apiKey \/ outbound'.authorization # request.authorization => guarded'
    /\ guarded' => request.url \notin Plaintext

Direct ==
    /\ scheme = "absent"
    /\ Transmit(request)
    /\ UNCHANGED <<crossOrigin, guarded, replayed>>

(* planOutbound() either raises or plans a typed request.                  *)
LEMMA PlanOutboundEffect ==
    ASSUME TypeOK, HopClean, scheme # "absent", PlanOutbound
    PROVE  \/ Refused /\ answer' \in Answer /\ answer'.kind = "error"
           \/ ToSend /\ answer' \in Answer /\ answer'.kind = "pending"
<1>. DEFINE cleared == [request EXCEPT !.marker = FALSE]
<1>1. /\ cleared \in Request /\ ~cleared.marker
      /\ cleared.url = request.url /\ cleared.body = request.body
      /\ cleared.cookie = request.cookie /\ ~cleared.apiKey
      /\ cleared.authorization = request.authorization
  BY DEF TypeOK, HopClean, Request
<1>. HIDE DEF cleared
<1>2. /\ crossOrigin' = request.marker
      /\ guarded' = (~request.marker /\ scheme # "NO_AUTH")
      /\ replayed' = FALSE
      /\ UNCHANGED wireVars
  BY Zenon DEF PlanOutbound
<1>3. CASE guarded' /\ request.url \in Plaintext
  <2>1. Raise("fatal", "decideRetry") /\ outbound' = cleared
    BY <1>3 DEF PlanOutbound, cleared
  <2>2. "fatal" \in Raised \cup AbortFailure \cup {"fatal"}
    OBVIOUS
  <2>. QED
    BY <1>1, <1>2, <1>3, <2>1, <2>2, ErrorFields DEF Raise, Refused, Planned
<1>4. CASE ~(guarded' /\ request.url \in Plaintext)
  <2>1. /\ pc' = "planned"
        /\ outbound' = IF request.marker THEN cleared ELSE Stamp(cleared)
        /\ answer' = Pending
    BY <1>4 DEF PlanOutbound, cleared
  <2>2. ~request.marker /\ scheme \in {"OAUTH2", "API_KEY"} => guarded'
    BY <1>2
  <2>3. request.marker \in BOOLEAN
    BY DEF TypeOK, Request
  <2>4. CASE request.marker
    BY <1>1, <1>2, <1>4, <2>1, <2>4, PendingFields DEF ToSend, Planned
  <2>5. CASE ~request.marker
    BY <1>1, <1>2, <1>4, <2>1, <2>2, <2>5, StampFields, PendingFields DEF ToSend, Planned
  <2>. QED
    BY <2>4, <2>5
<1>. QED
  BY <1>3, <1>4

(* The top of the retry loop raises, plans or dispatches.                  *)
LEMMA StartAttemptEffect ==
    ASSUME TypeOK, HopClean, NEW n \in Nat, StartAttempt(n)
    PROVE  \/ Ended /\ answer' \in Answer /\ answer'.kind = "error"
           \/ Refused /\ attempt' = n /\ answer' \in Answer /\ answer'.kind = "error"
           \/ ToSend /\ attempt' = n /\ answer' \in Answer /\ answer'.kind = "pending"
           \/ Direct /\ attempt' = n
<1>1. CASE aborted
  <2>1. PICK e \in AbortFailure : Raise(e, "done")
    BY <1>1 DEF StartAttempt
  <2>2. UNCHANGED <<attempt, authVars, wireVars>>
    BY <1>1 DEF StartAttempt
  <2>. QED
    BY <1>1, <2>1, <2>2, ErrorFields DEF Raise, Ended
<1>2. CASE ~aborted
  <2>1. attempt' = n /\ ((scheme # "absent" /\ PlanOutbound) \/ Direct)
    BY <1>2 DEF StartAttempt, Direct
  <2>. QED
    BY <2>1, PlanOutboundEffect
<1>. QED
  BY <1>1, <1>2

-----------------------------------------------------------------------------
(* Type correctness.                                                       *)

(* Whatever is raised, the failure travels outwards.                       *)
LEMMA RaiseEffect ==
    ASSUME NEW next, \/ \E e \in Raised \cup AbortFailure : Raise(e, next)
                     \/ Raise("fatal", next)
    PROVE  pc' = next /\ answer' \in Answer /\ answer'.kind = "error"
<1>1. PICK e \in Raised \cup AbortFailure \cup {"fatal"} : Raise(e, next)
  OBVIOUS
<1>. QED
  BY <1>1, ErrorFields DEF Raise

(* What no action changes except the one named: the policy, the hop, the   *)
(* plan and the counters.                                                  *)
Passes == UNCHANGED <<policyVars, hopVars, attempt, authVars, wireVars, aborted>>

(* What leaves requests and counters alone keeps their types.              *)
LEMMA PassesType ==
    ASSUME TypeOK, Passes, pc' \in PC, answer' \in Answer, open' \in {open, {}}
    PROVE  TypeOK'
  BY DEF TypeOK, Passes

(* The top of the retry loop keeps the types.                              *)
LEMMA StartAttemptType ==
    ASSUME TypeOK, HopClean, NEW n \in 1..MaxAttempts, StartAttempt(n),
           UNCHANGED <<policyVars, hopVars, open, aborted>>
    PROVE  TypeOK'
<1>. USE BoundAssumption
<1>1. CASE Ended /\ answer' \in Answer
  BY <1>1 DEF Ended, TypeOK, PC
<1>2. CASE (Refused \/ ToSend) /\ attempt' = n /\ answer' \in Answer
  <2>1. crossOrigin' \in BOOLEAN /\ guarded' \in BOOLEAN /\ replayed' \in BOOLEAN
    BY <1>2 DEF Refused, ToSend, Planned, TypeOK, Request
  <2>2. pc' \in PC /\ outbound' \in Request /\ UNCHANGED wireVars
    BY <1>2 DEF Refused, ToSend, Planned, PC
  <2>. QED
    BY <1>2, <2>1, <2>2 DEF TypeOK
<1>3. CASE Direct /\ attempt' = n
  <2>1. request \in Request
    BY DEF TypeOK
  <2>2. /\ pc' = "wire" /\ answer' \in Answer /\ outbound' \in Request
        /\ sends' = sends + 1 /\ oneShotSends' \in 0..sends'
    BY <1>3, <2>1, TransmitEffect DEF Direct
  <2>. QED
    BY <1>3, <2>2 DEF Direct, TypeOK, PC
<1>. QED
  BY <1>1, <1>2, <1>3, StartAttemptEffect

(* A call starts well typed.                                               *)
LEMMA TypeInit == Init => TypeOK
<1>. SUFFICES ASSUME Init PROVE TypeOK
  OBVIOUS
<1>1. seed \in Url /\ Cardinality(visited) = 1
  BY UrlAssumption, FS_Singleton DEF Init
<1>2. request \in Request /\ outbound \in Request /\ answer \in Answer
  BY PendingFields DEF Init
<1>3. pc \in PC /\ followed \in 0..MaxHops /\ attempt \in 0..MaxAttempts
      /\ oneShotSends \in 0..sends /\ open \subseteq 1..sends /\ sends \in Nat
  BY BoundAssumption DEF Init, PC
<1>4. crossOrigin \in BOOLEAN /\ guarded \in BOOLEAN /\ replayed \in BOOLEAN
      /\ aborted \in BOOLEAN /\ scheme \in Scheme /\ allowDowngrade \in BOOLEAN
  BY DEF Init
<1>5. seed \in Seed /\ visited \in SUBSET Url /\ seed \in visited
      /\ Cardinality(visited) = followed + 1
  BY <1>1 DEF Init
<1>. QED
  BY <1>2, <1>3, <1>4, <1>5 DEF TypeOK

(* No step leaves the types of the variables.                              *)
LEMMA TypeStep ==
    ASSUME IndInv, [Next]_vars
    PROVE  TypeOK'
<1>. USE UrlAssumption, BoundAssumption
<1>0. TypeOK /\ HopClean
  BY DEF IndInv
<1>1. CASE DispatchHop
  BY <1>0, <1>1, StartAttemptType DEF DispatchHop
<1>2. CASE Wake
  <2>1. attempt + 1 \in 1..MaxAttempts
    BY <1>2 DEF Wake, IndInv, TypeOK, Counted
  <2>. QED
    BY <1>0, <1>2, <2>1, StartAttemptType DEF Wake
<1>3. CASE SendPlanned \/ SendReplay
  <2>1. CASE Transmit(outbound)
    <3>1. /\ pc' = "wire" /\ answer' \in Answer /\ outbound' \in Request
          /\ sends' = sends + 1 /\ oneShotSends' \in 0..sends'
      BY <1>0, <2>1, TransmitEffect DEF TypeOK
    <3>2. UNCHANGED <<policyVars, hopVars, attempt, crossOrigin, guarded, replayed, open,
                      aborted>>
      BY <1>3 DEF SendPlanned, SendReplay
    <3>3. open' \subseteq 1..sends' /\ sends' \in Nat
      BY <1>0, <3>1, <3>2 DEF TypeOK
    <3>. QED
      BY <1>0, <3>1, <3>2, <3>3 DEF TypeOK, PC
  <2>2. CASE /\ \E e \in Raised \cup AbortFailure : Raise(e, "decideRetry")
             /\ UNCHANGED <<outbound, wireVars>>
    <3>1. CASE SendPlanned
      BY <1>0, <2>2, <3>1, RaiseEffect, PassesType DEF SendPlanned, Passes, PC
    <3>2. CASE SendReplay
      BY <1>0, <2>2, <3>2, RaiseEffect, PassesType DEF SendReplay, Passes, PC
    <3>. QED
      BY <1>3, <3>1, <3>2
  <2>. QED
    BY <1>3, <2>1, <2>2 DEF SendPlanned, SendReplay
<1>4. CASE Respond
  <2>1. answer' \in Answer
    BY <1>0, <1>4, ResponseFields DEF Respond, TypeOK
  <2>2. sends >= 1
    BY <1>4 DEF Respond, IndInv, Counted
  <2>. QED
    BY <1>0, <1>4, <2>1, <2>2 DEF Respond, TypeOK, PC
<1>5. CASE TransportFails
  BY <1>0, <1>5, RaiseEffect, PassesType DEF TransportFails, Passes, PC
<1>6. CASE \/ PassOutwards \/ ConsultHook \/ HookDeclines \/ StopRetrying
           \/ RetireResponse \/ ScheduleRetry \/ ReturnCurrent \/ FollowHop
  BY <1>0, <1>6, PassesType
     DEF PassOutwards, ConsultHook, HookDeclines, StopRetrying, RetireResponse,
         ScheduleRetry, ReturnCurrent, FollowHop, Quiet, Passes, PC, TypeOK
<1>7. CASE \/ HookThrows \/ Retired \/ SleepRejects \/ PredicateThrows \/ FailHop
           \/ HopCloseThrows
  <2>1. \E next \in PC : \/ \E e \in Raised \cup AbortFailure : Raise(e, next)
                        \/ Raise("fatal", next)
    BY <1>7 DEF HookThrows, Retired, SleepRejects, PredicateThrows, FailHop,
         HopCloseThrows, PC
  <2>2. Passes /\ open' \in {open, {}}
    BY <1>7 DEF HookThrows, Retired, SleepRejects, PredicateThrows, FailHop,
         HopCloseThrows, Quiet, Passes
  <2>. QED
    BY <1>0, <2>1, <2>2, RaiseEffect, PassesType
<1>8. CASE HookAnswers
  <2>1. PICK u \in {outbound.url} \cup Plaintext, a \in {outbound.authorization, "hook"} :
          AnswerWith(Replacement(u, a))
    BY <1>8 DEF HookAnswers
  <2>2. Replacement(u, a) \in Request
    BY <1>0, ReplacementFields DEF TypeOK
  <2>3. pc' \in PC /\ answer' \in Answer
    BY <1>0, <2>1, RaiseEffect DEF AnswerWith, PC, TypeOK
  <2>4. open' \in {open, {}} /\ outbound' \in Request /\ replayed' \in BOOLEAN
    BY <1>0, <2>1, <2>2 DEF AnswerWith, TypeOK
  <2>. QED
    BY <1>0, <1>8, <2>3, <2>4 DEF HookAnswers, TypeOK
<1>9. CASE HopClosed
  <2>1. answer.location \in Url \ visited /\ followed + 1 <= MaxHops
        /\ IsFiniteSet(visited)
    BY <1>9 DEF HopClosed, IndInv, Chain
  <2>2. Cardinality(visited \cup {answer.location}) = Cardinality(visited) + 1
    BY <2>1, FS_AddElement
  <2>3. request' \in Request
    BY <1>0, <1>9, <2>1, FollowFields DEF HopClosed, TypeOK
  <2>. QED
    BY <1>0, <1>9, <2>1, <2>2, <2>3, PendingFields DEF HopClosed, TypeOK, PC
<1>10. CASE Abort \/ UNCHANGED vars
  BY <1>0, <1>10 DEF Abort, vars, TypeOK
<1>. QED
  BY <1>1, <1>2, <1>3, <1>4, <1>5, <1>6, <1>7, <1>8, <1>9, <1>10 DEF Next, Step

-----------------------------------------------------------------------------
(* The hop and the chain of hops.                                          *)

(* The actions that change nothing but where the call is, its outcome and  *)
(* the response it holds, and that leave the stages below RETRY.           *)
OuterPC == {"decideRetry", "retiring", "waiting", "decideHop", "following", "done"}

OuterStep ==
    \/ TransportFails \/ PassOutwards \/ HookDeclines \/ HookThrows
    \/ StopRetrying \/ RetireResponse \/ Retired \/ ScheduleRetry \/ SleepRejects
    \/ ReturnCurrent \/ PredicateThrows \/ FailHop \/ FollowHop \/ HopCloseThrows

(* The decisions of the retry and redirect loops send nothing.             *)
LEMMA OuterStepFrame ==
    ASSUME OuterStep
    PROVE  Passes /\ pc' \in OuterPC
<1>1. CASE TransportFails \/ PassOutwards \/ HookDeclines \/ HookThrows
  BY <1>1 DEF TransportFails, PassOutwards, HookDeclines, HookThrows, Quiet, Passes,
       Raise, OuterPC
<1>2. CASE StopRetrying \/ RetireResponse \/ Retired \/ ScheduleRetry \/ SleepRejects
  BY <1>2 DEF StopRetrying, RetireResponse, Retired, ScheduleRetry, SleepRejects, Quiet,
       Passes, Raise, OuterPC
<1>3. CASE ReturnCurrent \/ PredicateThrows \/ FailHop \/ FollowHop \/ HopCloseThrows
  BY <1>3 DEF ReturnCurrent, PredicateThrows, FailHop, FollowHop, HopCloseThrows, Quiet,
       Passes, Raise, OuterPC
<1>. QED
  BY <1>1, <1>2, <1>3 DEF OuterStep

(* The two awaits before a dispatch end in it or in a failure.             *)
LEMMA DispatchStep ==
    ASSUME SendPlanned \/ SendReplay
    PROVE  /\ UNCHANGED <<policyVars, hopVars, attempt, crossOrigin, guarded, replayed,
                          open, aborted>>
           /\ \/ Transmit(outbound)
              \/ /\ \E e \in Raised \cup AbortFailure : Raise(e, "decideRetry")
                 /\ UNCHANGED <<outbound, wireVars>>
<1>1. CASE SendPlanned
  BY <1>1 DEF SendPlanned
<1>2. CASE SendReplay
  BY <1>2 DEF SendReplay
<1>. QED
  BY <1>1, <1>2

(* The actions, grouped by what they may change.                           *)
LEMMA StepGroups ==
    ASSUME [Next]_vars
    PROVE  \/ DispatchHop \/ Wake \/ SendPlanned \/ SendReplay \/ Respond
           \/ ConsultHook \/ HookAnswers \/ HopClosed \/ OuterStep
           \/ Abort \/ UNCHANGED vars
  BY DEF Next, Step, OuterStep

(* Only a followed hop changes the request, and no step the policy.        *)
LEMMA HopFrame ==
    ASSUME [Next]_vars
    PROVE  UNCHANGED policyVars /\ (UNCHANGED hopVars \/ HopClosed)
<1>1. CASE DispatchHop \/ Wake \/ SendPlanned \/ SendReplay
  BY <1>1, DispatchStep DEF DispatchHop, Wake
<1>2. CASE Respond \/ ConsultHook \/ HookAnswers \/ HopClosed
  BY <1>2 DEF Respond, ConsultHook, HookAnswers, HopClosed, Quiet
<1>3. CASE OuterStep
  BY <1>3, OuterStepFrame DEF Passes
<1>4. CASE Abort \/ UNCHANGED vars
  BY <1>4 DEF Abort, vars
<1>. QED
  BY <1>1, <1>2, <1>3, <1>4, StepGroups

(* Following a hop strips and marks it; no other step touches it.          *)
LEMMA HopCleanStep ==
    ASSUME IndInv, [Next]_vars
    PROVE  HopClean'
<1>1. CASE HopClosed
  <2>1. request \in Request /\ answer.location \in Url /\ request' = FollowRequest
        /\ seed' = seed /\ ~request.apiKey
    BY <1>1 DEF IndInv, TypeOK, Chain, HopClean, HopClosed
  <2>2. /\ request'.url = answer.location
        /\ request'.apiKey = request.apiKey
        /\ request'.authorization = "none"
        /\ Origin[answer.location] # Origin[seed] =>
             request'.cookie = FALSE /\ request'.marker = TRUE
    BY <2>1, FollowFields
  <2>. QED
    BY <2>1, <2>2 DEF HopClean
<1>2. CASE UNCHANGED hopVars
  BY <1>2, HopFrame DEF HopClean, IndInv
<1>. QED
  BY <1>1, <1>2, HopFrame

(* The step that starts to follow a response has looked at its Location.   *)
LEMMA ChainStep ==
    ASSUME IndInv, [Next]_vars
    PROVE  Chain'
<1>0. TypeOK /\ HopClean /\ Held /\ IsFiniteSet(visited)
  BY DEF IndInv, Chain
<1>1. CASE HopClosed
  <2>1. IsFiniteSet(visited \cup {answer.location})
    BY <1>0, FS_AddElement
  <2>. QED
    BY <1>1, <2>1 DEF HopClosed, Chain
<1>2. CASE FollowHop
  <2>1. IsResponse
    BY <1>0, <1>2 DEF FollowHop, Held
  <2>2. answer.location \in Url \cup {NoUrl}
    BY <1>0, <2>1, AnswerFields DEF TypeOK
  <2>. QED
    BY <1>0, <1>2, <2>2 DEF FollowHop, Followable, Quiet, Chain
<1>3. CASE UNCHANGED hopVars /\ pc' # "following"
  BY <1>0, <1>3 DEF Chain
<1>4. CASE DispatchHop \/ Wake
  <2>1. PICK n \in Nat : StartAttempt(n)
    BY <1>0, <1>4 DEF DispatchHop, Wake, TypeOK
  <2>2. pc' # "following"
    BY <1>0, <2>1, StartAttemptEffect DEF Ended, Refused, ToSend, Direct, Transmit
  <2>. QED
    BY <1>3, <1>4, <2>2 DEF DispatchHop, Wake
<1>5. CASE SendPlanned \/ SendReplay
  BY <1>3, <1>5, DispatchStep DEF Transmit, Raise
<1>6. CASE Respond \/ ConsultHook \/ HookAnswers
  BY <1>3, <1>6 DEF Respond, ConsultHook, HookAnswers, AnswerWith, Raise, Quiet
<1>7. CASE OuterStep
  <2>1. FollowHop \/ pc' # "following"
    BY <1>7 DEF OuterStep, TransportFails, PassOutwards, HookDeclines, HookThrows,
         StopRetrying, RetireResponse, Retired, ScheduleRetry, SleepRejects,
         ReturnCurrent, PredicateThrows, FailHop, HopCloseThrows, Raise
  <2>. QED
    BY <1>2, <1>3, <1>7, <2>1, OuterStepFrame DEF Passes
<1>8. CASE Abort \/ UNCHANGED vars
  BY <1>8 DEF Abort, vars, Chain, IndInv
<1>. QED
  BY <1>1, <1>4, <1>5, <1>6, <1>7, <1>8, StepGroups

-----------------------------------------------------------------------------
(* The auth plan.                                                          *)

(* Outside the AUTH stage the plan constrains only a missing step.         *)
LEMMA PlanOKOutside ==
    ASSUME PlanOK, UNCHANGED <<scheme, crossOrigin, guarded, replayed>>, ~InAuth'
    PROVE  PlanOK'
  BY DEF PlanOK, InAuth

(* A plan made for a clean hop is a good one.                              *)
LEMMA StartAttemptPlan ==
    ASSUME TypeOK, HopClean, PlanOK, NEW n \in Nat, StartAttempt(n),
           UNCHANGED <<policyVars, hopVars>>
    PROVE  PlanOK'
<1>1. CASE Ended
  BY <1>1, PlanOKOutside DEF Ended, InAuth
<1>2. CASE Refused
  BY <1>2 DEF Refused, Planned, PlanOK, InAuth
<1>3. CASE ToSend
  <2>1. request.marker \in BOOLEAN
    BY DEF TypeOK, Request
  <2>. QED
    BY <1>3, <2>1 DEF ToSend, Planned, PlanOK, InAuth, HopClean, HasOwnCredential
<1>4. CASE Direct
  <2>1. /\ pc' = "wire" /\ ~outbound'.marker
        /\ outbound'.body = request.body /\ outbound'.cookie = request.cookie
        /\ outbound'.authorization = request.authorization
        /\ outbound'.apiKey = request.apiKey
    BY <1>4, TransmitEffect DEF Direct, TypeOK
  <2>. QED
    BY <1>4, <2>1 DEF Direct, PlanOK, InAuth, HopClean, HasOwnCredential
<1>. QED
  BY <1>1, <1>2, <1>3, <1>4, StartAttemptEffect

(* Every step keeps the plan of the attempt.                               *)
LEMMA PlanOKStep ==
    ASSUME IndInv, [Next]_vars
    PROVE  PlanOK'
<1>0. TypeOK /\ HopClean /\ PlanOK
  BY DEF IndInv
<1>1. CASE DispatchHop \/ Wake
  <2>1. PICK n \in Nat : StartAttempt(n)
    BY <1>0, <1>1 DEF DispatchHop, Wake, TypeOK
  <2>. QED
    BY <1>0, <1>1, <2>1, StartAttemptPlan DEF DispatchHop, Wake
<1>2. CASE SendPlanned \/ SendReplay
  <2>1. CASE Transmit(outbound)
    <3>1. InAuth /\ pc' = "wire"
      BY <1>2, <2>1 DEF SendPlanned, SendReplay, InAuth, Transmit
    <3>2. /\ ~outbound'.marker /\ outbound'.url = outbound.url
          /\ outbound'.body = outbound.body /\ outbound'.cookie = outbound.cookie
          /\ outbound'.authorization = outbound.authorization
          /\ outbound'.apiKey = outbound.apiKey
      BY <1>0, <2>1, TransmitEffect DEF TypeOK
    <3>. QED
      BY <1>0, <1>2, <3>1, <3>2, DispatchStep DEF PlanOK, InAuth, HasOwnCredential
  <2>2. CASE \E e \in Raised \cup AbortFailure : Raise(e, "decideRetry")
    BY <1>0, <1>2, <2>2, DispatchStep, PlanOKOutside DEF Raise, InAuth
  <2>. QED
    BY <1>2, <2>1, <2>2, DispatchStep
<1>3. CASE Respond
  <2>1. scheme # "absent" \/ ~InAuth'
    BY <1>3 DEF Respond, InAuth
  <2>. QED
    BY <1>0, <1>3, <2>1, PlanOKOutside DEF Respond, PlanOK, InAuth
<1>4. CASE ConsultHook
  BY <1>0, <1>4 DEF ConsultHook, Reacts, Quiet, PlanOK, InAuth
<1>5. CASE HookAnswers
  <2>1. PICK u \in {outbound.url} \cup Plaintext, a \in {outbound.authorization, "hook"} :
          AnswerWith(Replacement(u, a))
    BY <1>5 DEF HookAnswers
  <2>. DEFINE r == Replacement(u, a)
  <2>2. /\ r.body = outbound.body /\ r.apiKey = outbound.apiKey
        /\ r.cookie = outbound.cookie /\ r.marker = outbound.marker
    BY <1>0, UrlAssumption, ReplacementFields DEF TypeOK
  <2>. HIDE DEF r
  <2>3. CASE outbound' = r /\ replayed' = TRUE /\ pc' = "replaying"
             /\ ~(Attaches(r) /\ r.url \in Plaintext)
    <3>1. HasOwnCredential(r) => Attaches(r)
      BY <1>0, <1>5, <2>2 DEF HasOwnCredential, Attaches, PlanOK, InAuth, HookAnswers
    <3>. QED
      BY <1>0, <1>5, <2>2, <2>3, <3>1 DEF HookAnswers, PlanOK, InAuth, HasOwnCredential
  <2>4. CASE UNCHANGED <<outbound, replayed>> /\ pc' = "decideRetry"
    BY <1>0, <1>5, <2>4, PlanOKOutside DEF HookAnswers, InAuth
  <2>. QED
    BY <2>1, <2>3, <2>4 DEF AnswerWith, Raise, r
<1>6. CASE HopClosed
  BY <1>0, <1>6, PlanOKOutside DEF HopClosed, InAuth
<1>7. CASE OuterStep
  BY <1>0, <1>7, OuterStepFrame, PlanOKOutside DEF Passes, OuterPC, InAuth
<1>8. CASE Abort \/ UNCHANGED vars
  BY <1>0, <1>8 DEF Abort, vars, PlanOK, InAuth
<1>. QED
  BY <1>1, <1>2, <1>3, <1>4, <1>5, <1>6, <1>7, <1>8, StepGroups

-----------------------------------------------------------------------------
(* The response in hand.                                                   *)

(* An attempt starts with nothing held.                                    *)
LEMMA StartAttemptHeld ==
    ASSUME TypeOK, HopClean, open = {}, NEW n \in Nat, StartAttempt(n), open' = open
    PROVE  Held'
<1>1. CASE (Ended \/ Refused) /\ answer'.kind = "error"
  BY <1>1 DEF Ended, Refused, Held, IsResponse
<1>2. CASE ToSend /\ answer'.kind = "pending"
  BY <1>2 DEF ToSend, Held, IsResponse
<1>3. CASE Direct
  <2>1. pc' = "wire" /\ answer'.kind = "pending"
    BY <1>3, TransmitEffect DEF Direct, TypeOK
  <2>. QED
    BY <2>1 DEF Held, IsResponse
<1>. QED
  BY <1>1, <1>2, <1>3, StartAttemptEffect

(* A failure is raised once nothing is held.                               *)
LEMMA RaiseHeld ==
    ASSUME NEW next \in {"decideRetry", "waiting", "done"}, open' = {},
           \/ \E e \in Raised \cup AbortFailure : Raise(e, next)
           \/ Raise("fatal", next)
    PROVE  Held'
  BY RaiseEffect DEF Held, IsResponse

(* Every step keeps the one live response the one in hand.                 *)
LEMMA HeldStep ==
    ASSUME IndInv, [Next]_vars
    PROVE  Held'
<1>0. TypeOK /\ HopClean /\ Held
  BY DEF IndInv
<1>1. CASE DispatchHop \/ Wake
  <2>1. PICK n \in Nat : StartAttempt(n)
    BY <1>0, <1>1 DEF DispatchHop, Wake, TypeOK
  <2>2. open = {} /\ open' = open
    BY <1>0, <1>1 DEF DispatchHop, Wake, Held
  <2>. QED
    BY <1>0, <2>1, <2>2, StartAttemptHeld
<1>2. CASE SendPlanned \/ SendReplay
  <2>1. open' = {}
    BY <1>0, <1>2, DispatchStep DEF SendPlanned, SendReplay, Held
  <2>2. CASE Transmit(outbound)
    <3>1. pc' = "wire" /\ answer'.kind = "pending"
      BY <1>0, <2>2, TransmitEffect DEF TypeOK
    <3>. QED
      BY <2>1, <3>1 DEF Held, IsResponse
  <2>3. CASE \E e \in Raised \cup AbortFailure : Raise(e, "decideRetry")
    BY <2>1, <2>3, RaiseHeld
  <2>. QED
    BY <1>2, <2>2, <2>3, DispatchStep
<1>3. CASE Respond
  <2>1. answer'.kind = "response" /\ answer'.id = sends
    BY <1>0, <1>3, ResponseFields DEF Respond, TypeOK
  <2>2. open' = {sends} /\ sends' = sends /\ pc' \in {"decideRetry", "challenged"}
    BY <1>0, <1>3 DEF Respond, Held
  <2>. QED
    BY <2>1, <2>2 DEF Held, IsResponse
<1>4. CASE TransportFails
  <2>1. open' = {}
    BY <1>0, <1>4 DEF TransportFails, Held
  <2>. QED
    BY <1>4, <2>1, RaiseHeld DEF TransportFails
<1>5. CASE PassOutwards \/ ConsultHook \/ HookDeclines
  BY <1>0, <1>5 DEF PassOutwards, ConsultHook, HookDeclines, Quiet, Held, IsResponse
<1>6. CASE HookThrows \/ Retired \/ PredicateThrows \/ FailHop
  <2>1. open' = {}
    BY <1>6 DEF HookThrows, Retired, PredicateThrows, FailHop
  <2>2. \E next \in {"decideRetry", "waiting", "done"} :
            \/ \E e \in Raised \cup AbortFailure : Raise(e, next)
            \/ Raise("fatal", next)
    BY <1>6 DEF HookThrows, Retired, PredicateThrows, FailHop
  <2>. QED
    BY <2>1, <2>2, RaiseHeld
<1>7. CASE SleepRejects \/ HopCloseThrows
  <2>1. open' = {}
    BY <1>0, <1>7 DEF SleepRejects, HopCloseThrows, Held
  <2>2. \/ \E e \in Raised \cup AbortFailure : Raise(e, "done")
        \/ Raise("fatal", "done")
    BY <1>7 DEF SleepRejects, HopCloseThrows
  <2>. QED
    BY <2>1, <2>2, RaiseHeld
<1>8. CASE HookAnswers
  <2>1. PICK u \in {outbound.url} \cup Plaintext, a \in {outbound.authorization, "hook"} :
          AnswerWith(Replacement(u, a))
    BY <1>8 DEF HookAnswers
  <2>2. CASE open' = {} /\ Raise("fatal", "decideRetry")
    BY <2>2, RaiseHeld
  <2>3. CASE \/ pc' = "decideRetry" /\ UNCHANGED <<answer, open>>
             \/ pc' = "replaying" /\ open' = {} /\ UNCHANGED answer
    BY <1>0, <1>8, <2>3 DEF HookAnswers, Held, IsResponse
  <2>. QED
    BY <2>1, <2>2, <2>3 DEF AnswerWith
<1>9. CASE StopRetrying \/ RetireResponse
  BY <1>0, <1>9 DEF StopRetrying, RetireResponse, Quiet, Held, IsResponse
<1>10. CASE ScheduleRetry
  BY <1>0, <1>10 DEF ScheduleRetry, Quiet, Held, IsResponse
<1>11. CASE ReturnCurrent \/ FollowHop
  BY <1>0, <1>11 DEF ReturnCurrent, FollowHop, Quiet, Held, IsResponse
<1>12. CASE HopClosed
  BY <1>0, <1>12, PendingFields DEF HopClosed, Held, IsResponse
<1>13. CASE Abort \/ UNCHANGED vars
  BY <1>0, <1>13 DEF Abort, vars, Held, IsResponse
<1>. QED
  BY <1>1, <1>2, <1>3, <1>4, <1>5, <1>6, <1>7, <1>8, <1>9, <1>10, <1>11, <1>12, <1>13,
     StepGroups DEF OuterStep

-----------------------------------------------------------------------------
(* The one-shot body.                                                      *)

OneShotOK == OneShotUnsent /\ OneShotSentOnce

(* No gate lets a one-shot body out a second time.                         *)
LEMMA OneShotStep ==
    ASSUME IndInv, [Next]_vars
    PROVE  OneShotOK'
<1>0. TypeOK /\ HopClean /\ PlanOK /\ OneShotUnsent /\ OneShotSentOnce
  BY DEF IndInv
<1>a. oneShotSends \in Nat
  BY <1>0 DEF TypeOK
<1>1. CASE DispatchHop \/ Wake
  <2>1. PICK n \in Nat : StartAttempt(n)
    BY <1>0, <1>1 DEF DispatchHop, Wake, TypeOK
  <2>2. request.body = "oneShot" => oneShotSends = 0
    BY <1>0, <1>1 DEF DispatchHop, Wake, OneShotUnsent
  <2>3. request' = request
    BY <1>1 DEF DispatchHop, Wake
  <2>4. CASE (Ended \/ Refused \/ ToSend) /\ UNCHANGED oneShotSends
    BY <1>0, <2>2, <2>3, <2>4
       DEF Ended, Refused, ToSend, OneShotOK, OneShotUnsent, OneShotSentOnce
  <2>5. CASE Direct
    <3>1. /\ pc' = "wire"
          /\ request.body = "oneShot" => oneShotSends' = oneShotSends + 1
          /\ request.body # "oneShot" => oneShotSends' = oneShotSends
      BY <1>0, <2>5, TransmitEffect DEF Direct, TypeOK
    <3>. QED
      BY <1>0, <1>a, <2>2, <3>1 DEF OneShotOK, OneShotUnsent, OneShotSentOnce
  <2>. QED
    BY <1>0, <2>1, <2>4, <2>5, StartAttemptEffect DEF Ended, Refused, ToSend, Planned
<1>2. CASE SendPlanned \/ SendReplay
  <2>1. CASE Transmit(outbound)
    <3>1. outbound.body = "oneShot" => oneShotSends = 0
      BY <1>0, <1>2 DEF SendPlanned, SendReplay, PlanOK, InAuth, OneShotUnsent
    <3>2. /\ pc' = "wire"
          /\ outbound.body = "oneShot" => oneShotSends' = oneShotSends + 1
          /\ outbound.body # "oneShot" => oneShotSends' = oneShotSends
      BY <1>0, <2>1, TransmitEffect DEF TypeOK
    <3>. QED
      BY <1>0, <1>a, <3>1, <3>2 DEF OneShotOK, OneShotUnsent, OneShotSentOnce
  <2>2. CASE (\E e \in Raised \cup AbortFailure : Raise(e, "decideRetry"))
             /\ UNCHANGED wireVars
    BY <1>0, <2>2 DEF Raise, OneShotOK, OneShotUnsent, OneShotSentOnce
  <2>. QED
    BY <1>2, <2>1, <2>2, DispatchStep
<1>3. CASE Respond \/ ConsultHook
  BY <1>0, <1>3 DEF Respond, ConsultHook, Quiet, OneShotOK, OneShotUnsent, OneShotSentOnce
<1>4. CASE HookAnswers
  <2>1. PICK u \in {outbound.url} \cup Plaintext, a \in {outbound.authorization, "hook"} :
          AnswerWith(Replacement(u, a))
    BY <1>4 DEF HookAnswers
  <2>2. Replacement(u, a).body = request.body
    BY <1>0, <1>4, UrlAssumption, ReplacementFields DEF TypeOK, HookAnswers, PlanOK, InAuth
  <2>3. pc' = "decideRetry" \/ (pc' = "replaying" /\ request.body # "oneShot")
    BY <2>1, <2>2 DEF AnswerWith, Raise
  <2>. QED
    BY <1>0, <1>4, <2>3 DEF HookAnswers, OneShotOK, OneShotUnsent, OneShotSentOnce
<1>5. CASE HopClosed
  <2>1. request'.body = IF answer.status = "seeOther" THEN "none" ELSE request.body
    BY <1>0, <1>5, FollowFields DEF HopClosed, TypeOK, IndInv, Chain
  <2>2. request'.body # "oneShot" /\ pc' = "hop" /\ oneShotSends' = oneShotSends
    BY <1>0, <1>5, <2>1 DEF HopClosed, OneShotUnsent
  <2>. QED
    BY <1>0, <2>2 DEF OneShotOK, OneShotUnsent, OneShotSentOnce
<1>6. CASE OuterStep
  <2>1. CASE RetireResponse \/ ScheduleRetry
    <3>1. request.body # "oneShot"
      BY <2>1 DEF RetireResponse, ScheduleRetry, Resendable
    <3>. QED
      BY <1>0, <2>1, <3>1
         DEF RetireResponse, ScheduleRetry, Quiet, OneShotOK, OneShotUnsent, OneShotSentOnce
  <2>2. CASE Retired
    BY <1>0, <2>2 DEF Retired, Raise, Quiet, OneShotOK, OneShotUnsent, OneShotSentOnce
  <2>3. CASE FollowHop
    BY <1>0, <2>3
       DEF FollowHop, Forbidden, Quiet, OneShotOK, OneShotUnsent, OneShotSentOnce
  <2>4. CASE pc' \in {"decideRetry", "decideHop", "done"} /\ Passes
    BY <1>0, <2>4 DEF Passes, OneShotOK, OneShotUnsent, OneShotSentOnce
  <2>. QED
    BY <1>6, <2>1, <2>2, <2>3, <2>4, OuterStepFrame
       DEF OuterStep, TransportFails, PassOutwards, HookDeclines, HookThrows, StopRetrying,
           SleepRejects, ReturnCurrent, PredicateThrows, FailHop, HopCloseThrows, Raise
<1>7. CASE Abort \/ UNCHANGED vars
  BY <1>0, <1>7 DEF Abort, vars, OneShotOK, OneShotUnsent, OneShotSentOnce
<1>. QED
  BY <1>1, <1>2, <1>3, <1>4, <1>5, <1>6, <1>7, StepGroups

-----------------------------------------------------------------------------
(* The number of dispatches.                                               *)

(* With the products abstracted away, what remains is linear.              *)
LEMMA SentBeforeIsNat == TypeOK => SentBefore \in Nat
  BY BoundAssumption DEF TypeOK, SentBefore

(* One more hop makes room for its own attempts.                           *)
LEMMA SentBeforeGrows ==
    ASSUME TypeOK, followed' = followed + 1
    PROVE  SentBefore' = SentBefore + MaxAttempts * 2
<1>. DEFINE M == MaxAttempts * 2
<1>1. M \in Nat /\ followed \in Nat
  BY BoundAssumption DEF TypeOK
<1>2. SentBefore = followed * M /\ SentBefore' = (followed + 1) * M
  BY DEF SentBefore
<1>. HIDE DEF M
<1>3. (followed + 1) * M = followed * M + M
  BY <1>1
<1>. QED
  BY <1>2, <1>3 DEF M

(* Every step stays within what hops and attempts have room for.           *)
LEMMA CountedStep ==
    ASSUME IndInv, [Next]_vars
    PROVE  Counted'
<1>0. TypeOK /\ HopClean /\ PlanOK /\ Counted /\ Held
  BY DEF IndInv
<1>a. /\ sends \in Nat /\ attempt \in Nat /\ attempt <= MaxAttempts
      /\ MaxAttempts \in Nat \ {0} /\ replayed \in BOOLEAN /\ SentBefore \in Nat
  BY <1>0, BoundAssumption, SentBeforeIsNat DEF TypeOK
<1>b. followed' = followed => SentBefore' = SentBefore
  BY DEF SentBefore
<1>1. CASE DispatchHop \/ Wake
  <2>1. PICK n \in 1..MaxAttempts :
          /\ StartAttempt(n)
          /\ (pc = "hop" /\ n = 1) \/ (pc = "waiting" /\ n = attempt + 1)
    BY <1>0, <1>1, <1>a DEF DispatchHop, Wake, Counted
  <2>2. sends <= SentBefore + (n - 1) * 2
    BY <1>0, <1>a, <2>1 DEF Counted
  <2>3. SentBefore' = SentBefore
    BY <1>1, <1>b DEF DispatchHop, Wake
  <2>4. CASE Ended
    <3>1. sends <= SentBefore + attempt * 2
      BY <1>0, <1>a, <2>1 DEF Counted
    <3>. QED
      BY <2>3, <2>4, <3>1 DEF Ended, Counted
  <2>5. CASE (Refused \/ ToSend) /\ attempt' = n
    <3>1. sends' = sends /\ pc' \in {"decideRetry", "planned"}
      BY <2>5 DEF Refused, ToSend, Planned
    <3>. QED
      BY <1>a, <2>1, <2>2, <2>3, <2>5, <3>1 DEF Counted
  <2>6. CASE Direct /\ attempt' = n
    <3>1. pc' = "wire" /\ sends' = sends + 1 /\ replayed' = replayed
      BY <1>0, <2>6, TransmitEffect DEF Direct, TypeOK
    <3>. QED
      BY <1>a, <2>1, <2>2, <2>3, <2>6, <3>1 DEF Counted
  <2>. QED
    BY <1>0, <2>1, <2>4, <2>5, <2>6, StartAttemptEffect
<1>2. CASE SendPlanned \/ SendReplay
  <2>1. SentBefore' = SentBefore /\ attempt' = attempt /\ replayed' = replayed /\ attempt >= 1
    BY <1>0, <1>2, <1>b, DispatchStep DEF SendPlanned, SendReplay, Counted
  <2>2. \/ pc = "planned" /\ sends <= SentBefore + (attempt - 1) * 2
        \/ pc = "replaying" /\ replayed = TRUE /\ sends <= SentBefore + (attempt - 1) * 2 + 1
    BY <1>0, <1>2 DEF SendPlanned, SendReplay, Counted
  <2>3. CASE Transmit(outbound)
    BY <1>a, <2>1, <2>2, <2>3 DEF Transmit, Counted
  <2>4. CASE (\E e \in Raised \cup AbortFailure : Raise(e, "decideRetry"))
             /\ UNCHANGED wireVars
    BY <1>a, <2>1, <2>2, <2>4 DEF Raise, Counted
  <2>. QED
    BY <1>2, <2>3, <2>4, DispatchStep
<1>3. CASE Respond \/ ConsultHook
  <2>1. CASE Respond
    BY <1>0, <1>a, <1>b, <2>1 DEF Respond, Counted
  <2>2. CASE ConsultHook
    BY <1>0, <1>a, <1>b, <2>2 DEF ConsultHook, Reacts, Quiet, Counted
  <2>. QED
    BY <1>3, <2>1, <2>2
<1>4. CASE HookAnswers
  <2>1. UNCHANGED <<hopVars, attempt, wireVars>>
    BY <1>4 DEF HookAnswers
  <2>2. pc' = "decideRetry" \/ (pc' = "replaying" /\ replayed' = TRUE)
    BY <1>4 DEF HookAnswers, AnswerWith, Raise
  <2>3. sends <= SentBefore + (attempt - 1) * 2 + 1 /\ sends >= 1 /\ attempt >= 1
    BY <1>0, <1>4 DEF HookAnswers, Counted
  <2>. QED
    BY <1>a, <1>b, <2>1, <2>2, <2>3 DEF Counted
<1>5. CASE HopClosed
  <2>1. SentBefore' = SentBefore + MaxAttempts * 2
    BY <1>0, <1>5, SentBeforeGrows DEF HopClosed
  <2>2. sends <= SentBefore + attempt * 2
    BY <1>0, <1>5 DEF HopClosed, Counted
  <2>3. sends' <= SentBefore' /\ pc' = "hop"
    BY <1>5, <1>a, <2>1, <2>2 DEF HopClosed
  <2>. QED
    BY <2>3 DEF Counted
<1>6. CASE OuterStep
  <2>1. sends <= SentBefore + attempt * 2 /\ attempt >= 1
    BY <1>0, <1>6, <1>a
       DEF OuterStep, TransportFails, PassOutwards, HookDeclines, HookThrows, StopRetrying,
           RetireResponse, Retired, ScheduleRetry, SleepRejects, ReturnCurrent,
           PredicateThrows, FailHop, FollowHop, HopCloseThrows, Counted
  <2>2. pc' \in {"retiring", "waiting"} => attempt < MaxAttempts
    BY <1>0, <1>6
       DEF OuterStep, TransportFails, PassOutwards, HookDeclines, HookThrows, StopRetrying,
           RetireResponse, Retired, ScheduleRetry, SleepRejects, ReturnCurrent,
           PredicateThrows, FailHop, FollowHop, HopCloseThrows, AttemptsLeft, Raise, Counted
  <2>. QED
    BY <1>6, <1>b, <2>1, <2>2, OuterStepFrame DEF Passes, OuterPC, Counted
<1>7. CASE Abort \/ UNCHANGED vars
  BY <1>0, <1>7, <1>b DEF Abort, vars, Counted
<1>. QED
  BY <1>1, <1>2, <1>3, <1>4, <1>5, <1>6, <1>7, StepGroups

-----------------------------------------------------------------------------
(* The inductive invariant.                                                *)

(* A call starts in the invariant.                                         *)
LEMMA IndInvInit == Init => IndInv
<1>. SUFFICES ASSUME Init PROVE IndInv
  OBVIOUS
<1>1. TypeOK
  BY TypeInit
<1>2. HopClean /\ PlanOK
  BY DEF Init, HopClean, PlanOK, InAuth
<1>3. Held /\ OneShotUnsent /\ OneShotSentOnce
  BY PendingFields DEF Init, Held, IsResponse, OneShotUnsent, OneShotSentOnce
<1>4. Counted
  BY BoundAssumption DEF Init, Counted, SentBefore
<1>5. Chain
  BY FS_Singleton DEF Init, Chain
<1>. QED
  BY <1>1, <1>2, <1>3, <1>4, <1>5 DEF IndInv

(* Every step keeps the invariant.                                         *)
LEMMA IndInvStep == IndInv /\ [Next]_vars => IndInv'
<1>. SUFFICES ASSUME IndInv, [Next]_vars PROVE IndInv'
  OBVIOUS
<1>1. TypeOK' /\ HopClean' /\ PlanOK'
  BY TypeStep, HopCleanStep, PlanOKStep
<1>2. Held' /\ OneShotOK' /\ Counted' /\ Chain'
  BY HeldStep, OneShotStep, CountedStep, ChainStep
<1>. QED
  BY <1>1, <1>2 DEF IndInv, OneShotOK

(* The chain of hops, the auth plan, the response in hand, the one-shot    *)
(* body and the count of dispatches, as one invariant of every behaviour.  *)
THEOREM PipelineInvariant == Spec => []IndInv
  BY IndInvInit, IndInvStep, PTL DEF Spec

-----------------------------------------------------------------------------
(* The safety properties.                                                  *)

(* Every state a call passes through has the types, so that no loop leaves *)
(* its caps and every hop has been visited once.                           *)
THEOREM PipelineTypeCorrect == Spec => []TypeOK
<1>1. IndInv => TypeOK
  BY DEF IndInv
<1>. QED
  BY <1>1, PipelineInvariant, PTL

(* Every response is released or handed to the caller, and none is held    *)
(* while another request is on its way.                                    *)
THEOREM NoResponseLeaks == Spec => []ResponseOwned
<1>1. IndInv => ResponseOwned
  <2>. SUFFICES ASSUME IndInv PROVE ResponseOwned
    OBVIOUS
  <2>1. Held /\ pc \in PC
    BY DEF IndInv, TypeOK
  <2>2. open \subseteq (IF IsResponse THEN {answer.id} ELSE {})
    BY <2>1 DEF Held, PC, IsResponse
  <2>3. pc = "done" => (IsResponse <=> open # {})
    BY <2>1 DEF Held, IsResponse
  <2>. QED
    BY <2>1, <2>2, <2>3 DEF Held, ResponseOwned
<1>. QED
  BY <1>1, PipelineInvariant, PTL

(* No credential goes out on a hop of another origin than the caller's.    *)
THEOREM NoCrossOriginCredential == Spec => []CredentialsStayHome
<1>1. IndInv => CredentialsStayHome
  BY DEF IndInv, HopClean, PlanOK, InAuth, CredentialsStayHome, HasCallerCredential,
         HasOwnCredential
<1>. QED
  BY <1>1, PipelineInvariant, PTL

(* A credential of the AUTH stage never goes out in clear text.            *)
THEOREM NoCredentialInClear == Spec => []NoPlaintextCredential
<1>1. IndInv => NoPlaintextCredential
  BY DEF IndInv, PlanOK, InAuth, NoPlaintextCredential
<1>. QED
  BY <1>1, PipelineInvariant, PTL

(* The cross-origin marker never reaches the transport.                    *)
THEOREM MarkerStaysInside == Spec => []MarkerNeverOnWire
<1>1. IndInv => MarkerNeverOnWire
  BY DEF IndInv, PlanOK, InAuth, MarkerNeverOnWire
<1>. QED
  BY <1>1, PipelineInvariant, PTL

(* A one-shot body is sent at most once.                                   *)
THEOREM OneShotBodySentOnce == Spec => []OneShotSentOnce
<1>1. IndInv => OneShotSentOnce
  BY DEF IndInv
<1>. QED
  BY <1>1, PipelineInvariant, PTL

(* A call dispatches at most twice the attempts of each of its hops.       *)
THEOREM DispatchesBounded == Spec => []SendsBounded
<1>1. IndInv => SendsBounded
  <2>. SUFFICES ASSUME IndInv PROVE SendsBounded
    OBVIOUS
  <2>1. /\ sends \in Nat /\ attempt \in Nat /\ attempt <= MaxAttempts
        /\ followed \in Nat /\ MaxAttempts \in Nat \ {0} /\ pc \in PC
        /\ replayed \in BOOLEAN /\ SentBefore \in Nat
    BY BoundAssumption, SentBeforeIsNat DEF IndInv, TypeOK
  <2>2. sends <= SentBefore + MaxAttempts * 2
    BY <2>1 DEF IndInv, Counted, PC
  <2>. DEFINE M == MaxAttempts * 2
  <2>3. SentBefore = followed * M /\ M \in Nat
    BY <2>1 DEF SentBefore
  <2>4. (followed + 1) * MaxAttempts * 2 = (followed + 1) * M
    BY <2>1
  <2>. HIDE DEF M
  <2>5. (followed + 1) * M = followed * M + M
    BY <2>1, <2>3
  <2>. QED
    BY <2>2, <2>3, <2>4, <2>5 DEF SendsBounded, M
<1>. QED
  BY <1>1, PipelineInvariant, PTL

(* Once the signal has fired nothing more is dispatched.                   *)
LEMMA AbortedStep == IndInv /\ [Next]_vars => (aborted => sends' = sends)
<1>. SUFFICES ASSUME [Next]_vars, aborted PROVE sends' = sends
  OBVIOUS
<1>1. CASE DispatchHop \/ Wake
  BY <1>1 DEF DispatchHop, Wake, StartAttempt
<1>2. CASE SendPlanned \/ SendReplay
  BY <1>2 DEF SendPlanned, SendReplay, BoundaryOpen
<1>3. CASE Respond \/ ConsultHook \/ HookAnswers \/ HopClosed
  BY <1>3 DEF Respond, ConsultHook, HookAnswers, HopClosed, Quiet
<1>4. CASE OuterStep
  BY <1>4, OuterStepFrame DEF Passes
<1>5. CASE Abort \/ UNCHANGED vars
  BY <1>5 DEF Abort, vars
<1>. QED
  BY <1>1, <1>2, <1>3, <1>4, <1>5, StepGroups

(* Once the caller has given up nothing more is dispatched.                *)
THEOREM AbortStopsDispatch == Spec => NothingSentAfterAbort
  BY AbortedStep, PipelineInvariant, PTL DEF Spec, NothingSentAfterAbort
-----------------------------------------------------------------------------
(* The headers' builder.  What each call does to the fields is one of three *)
(* changes: another field in the place of one of the same name, one more   *)
(* behind the others, one taken out.                                       *)

BuilderCalls == {"add", "set", "addInbound", "setInbound", "remove", "newBuilder"}
BuilderOps(Names, Values) == [call : BuilderCalls, name : Names, value : Values]

LegalField(Names, Values, f) ==
  /\ f \in [name : Names, values : Seq(Values)]
  /\ ValidName(f.name) /\ f.values # <<>> /\ \A k \in DOMAIN f.values : ValidInbound(f.values[k])

LegalFields(Names, Values) ==
  {fs \in Seq([name : Names, values : Seq(Values)]) :
     /\ \A i \in DOMAIN fs : LegalField(Names, Values, fs[i])
     /\ \A i, j \in DOMAIN fs : fs[i].name.lower = fs[j].name.lower => i = j}

PutAt(fs, gs, i, f) ==
  /\ i \in DOMAIN fs /\ DOMAIN gs = DOMAIN fs /\ gs[i] = f /\ f.name.lower = fs[i].name.lower
  /\ \A j \in DOMAIN fs : j # i => gs[j] = fs[j]
PutLast(fs, gs, f) ==
  gs = Append(fs, f) /\ \A i \in DOMAIN fs : fs[i].name.lower # f.name.lower
TakenOut(fs, gs, i) ==
  /\ i \in DOMAIN fs /\ Len(gs) + 1 = Len(fs)
  /\ \A j \in 1 .. i - 1 : gs[j] = fs[j]
  /\ \A j \in i .. Len(gs) : gs[j] = fs[j + 1]

\* A name has one field at the most.
LEMMA OneField ==
  ASSUME NEW Names, NEW Values, NEW fs \in LegalFields(Names, Values)
  PROVE  /\ \A lower : HasField(fs, lower) <=> \E i \in DOMAIN fs : fs[i].name.lower = lower
         /\ \A i \in DOMAIN fs : /\ FieldAt(fs, fs[i].name.lower) = {i}
                                 /\ TheField(fs, fs[i].name.lower) = fs[i]
                                 /\ GetAll(fs, fs[i].name.lower) = fs[i].values
<1>1. \A lower : HasField(fs, lower) <=> \E i \in DOMAIN fs : fs[i].name.lower = lower
  BY DEF HasField, FieldAt
<1>2. ASSUME NEW i \in DOMAIN fs
      PROVE  /\ FieldAt(fs, fs[i].name.lower) = {i} /\ TheField(fs, fs[i].name.lower) = fs[i]
             /\ GetAll(fs, fs[i].name.lower) = fs[i].values
  <2>1. FieldAt(fs, fs[i].name.lower) = {i} BY DEF FieldAt, LegalFields
  <2>2. (CHOOSE j \in FieldAt(fs, fs[i].name.lower) : TRUE) = i BY <2>1
  <2>3. TheField(fs, fs[i].name.lower) = fs[i] BY <2>2 DEF TheField
  <2>4. HasField(fs, fs[i].name.lower) BY <1>1
  <2> QED BY <2>1, <2>3, <2>4 DEF GetAll
<1> QED BY <1>1, <1>2

\* The changes, and that what they leave is legal.
LEMMA PutAtKeeps ==
  ASSUME NEW Names, NEW Values, NEW fs \in LegalFields(Names, Values), NEW gs, NEW i, NEW f,
         LegalField(Names, Values, f), PutAt(fs, gs, i, f), gs = [j \in DOMAIN gs |-> gs[j]]
  PROVE  gs \in LegalFields(Names, Values)
<1> DEFINE F == [name : Names, values : Seq(Values)]
<1>1. fs \in Seq(F) /\ DOMAIN fs = 1 .. Len(fs) /\ Len(fs) \in Nat BY DEF LegalFields
<1>2. \A j \in DOMAIN fs : fs[j] \in F /\ LegalField(Names, Values, fs[j]) BY DEF LegalFields, LegalField
<1>3. \A j \in DOMAIN gs : gs[j] \in F /\ LegalField(Names, Values, gs[j]) /\ gs[j].name.lower = fs[j].name.lower
  BY <1>2 DEF PutAt, LegalField
<1>4. gs \in Seq(F)
  <2>1. DOMAIN gs = 1 .. Len(fs) BY <1>1 DEF PutAt
  <2>2. gs \in [1 .. Len(fs) -> F] BY <1>3, <2>1
  <2> HIDE DEF F
  <2> QED BY <1>1, <2>2
<1>5. \A j, k \in DOMAIN gs : gs[j].name.lower = gs[k].name.lower => j = k
  <2>1. \A j, k \in DOMAIN fs : fs[j].name.lower = fs[k].name.lower => j = k BY DEF LegalFields
  <2> QED BY <1>3, <2>1 DEF PutAt
<1> QED BY <1>3, <1>4, <1>5 DEF LegalFields

\* The same for a field behind the others.
LEMMA PutLastKeeps ==
  ASSUME NEW Names, NEW Values, NEW fs \in LegalFields(Names, Values), NEW gs, NEW f,
         LegalField(Names, Values, f), PutLast(fs, gs, f)
  PROVE  /\ gs \in LegalFields(Names, Values)
         /\ Len(gs) = Len(fs) + 1 /\ gs[Len(fs) + 1] = f /\ \A j \in 1 .. Len(fs) : gs[j] = fs[j]
<1> DEFINE F == [name : Names, values : Seq(Values)]
           n == Len(fs)
<1>1. fs \in Seq(F) /\ DOMAIN fs = 1 .. n /\ n \in Nat /\ f \in F BY DEF LegalFields, LegalField
<1> HIDE DEF F, n
<1>2. gs \in Seq(F) /\ Len(gs) = n + 1 /\ gs[n + 1] = f /\ \A j \in 1 .. n : gs[j] = fs[j]
  BY <1>1 DEF PutLast, n
<1>3. DOMAIN gs = 1 .. n + 1 BY <1>1, <1>2
<1>4. \A j \in DOMAIN gs : j = n + 1 \/ (j # n + 1 /\ j \in 1 .. n) BY <1>1, <1>3
<1>5. \A j \in 1 .. n : LegalField(Names, Values, fs[j]) /\ fs[j].name.lower # f.name.lower
  BY <1>1 DEF LegalFields, PutLast
<1>6. \A j \in DOMAIN gs : LegalField(Names, Values, gs[j]) BY <1>2, <1>4, <1>5
<1>7. ASSUME NEW j \in DOMAIN gs, NEW k \in DOMAIN gs, gs[j].name.lower = gs[k].name.lower PROVE j = k
  <2>1. \A x, y \in 1 .. n : fs[x].name.lower = fs[y].name.lower => x = y BY <1>1 DEF LegalFields
  <2>2. CASE j = n + 1 /\ k = n + 1 BY <2>2
  <2>3. CASE j = n + 1 /\ k # n + 1 BY <1>2, <1>4, <1>5, <1>7, <2>3
  <2>4. CASE j # n + 1 /\ k = n + 1 BY <1>2, <1>4, <1>5, <1>7, <2>4
  <2>5. CASE j # n + 1 /\ k # n + 1
    <3>1. gs[j] = fs[j] /\ gs[k] = fs[k] /\ j \in 1 .. n /\ k \in 1 .. n BY <1>2, <1>4, <2>5
    <3> QED BY <1>7, <2>1, <3>1
  <2> QED BY <2>2, <2>3, <2>4, <2>5
<1> QED BY <1>2, <1>6, <1>7 DEF LegalFields, F, n

\* And for one that is taken out.
LEMMA TakenOutKeeps ==
  ASSUME NEW Names, NEW Values, NEW fs \in LegalFields(Names, Values), NEW gs, NEW i,
         gs \in Seq([name : Names, values : Seq(Values)]), TakenOut(fs, gs, i)
  PROVE  gs \in LegalFields(Names, Values)
<1> DEFINE n == Len(gs)
           m == Len(fs)
           Was(j) == IF j < i THEN j ELSE j + 1
<1>1. n \in Nat /\ m \in Nat /\ m = n + 1 /\ DOMAIN gs = 1 .. n /\ DOMAIN fs = 1 .. m /\ i \in 1 .. m
  BY DEF TakenOut, LegalFields
<1> HIDE DEF n, m
<1>2. \A j \in 1 .. n : Was(j) \in 1 .. m BY <1>1
<1>3. \A j \in 1 .. n : gs[j] = fs[Was(j)]
  <2>1. \A j \in 1 .. n : (j < i => j \in 1 .. i - 1) /\ (~ j < i => j \in i .. n) BY <1>1
  <2> QED BY <2>1 DEF TakenOut, n
<1>4. \A j, k \in 1 .. n : Was(j) = Was(k) => j = k BY <1>1
<1> HIDE DEF Was
<1>5. \A x \in 1 .. m : LegalField(Names, Values, fs[x]) BY <1>1 DEF LegalFields
<1>6. \A x, y \in 1 .. m : fs[x].name.lower = fs[y].name.lower => x = y BY <1>1 DEF LegalFields
<1>7. \A j \in 1 .. n : LegalField(Names, Values, gs[j]) BY <1>2, <1>3, <1>5
<1>8. \A j, k \in 1 .. n : gs[j].name.lower = gs[k].name.lower => j = k
  <2> SUFFICES ASSUME NEW j \in 1 .. n, NEW k \in 1 .. n, gs[j].name.lower = gs[k].name.lower PROVE j = k
    OBVIOUS
  <2>1. fs[Was(j)].name.lower = fs[Was(k)].name.lower BY <1>3
  <2>2. Was(j) = Was(k) BY <1>2, <1>6, <2>1
  <2> QED BY <1>4, <2>2
<1> QED BY <1>1, <1>7, <1>8 DEF LegalFields

\* Other values for a field.
LEMMA FieldExcept ==
  ASSUME NEW N, NEW V, NEW r \in [name : N, values : V], NEW w
  PROVE  [r EXCEPT !.values = w] = [name |-> r.name, values |-> w]
OBVIOUS

\* add: a value more for the name, or a field more.
LEMMA Appended ==
  ASSUME NEW Names, NEW Values, NEW fs \in LegalFields(Names, Values),
         NEW name \in Names, NEW value \in Values, ValidName(name), ValidInbound(value)
  PROVE  LET gs == AppendField(fs, name, value) IN
         /\ gs \in LegalFields(Names, Values)
         /\ HasField(fs, name.lower) => \E i \in DOMAIN fs :
              /\ fs[i].name.lower = name.lower
              /\ PutAt(fs, gs, i, [name |-> fs[i].name, values |-> Append(fs[i].values, value)])
         /\ ~ HasField(fs, name.lower) => PutLast(fs, gs, [name |-> name, values |-> <<value>>])
<1> DEFINE gs == AppendField(fs, name, value)
<1>1. CASE HasField(fs, name.lower)
  <2>1. PICK i \in DOMAIN fs : fs[i].name.lower = name.lower BY <1>1, OneField
  <2>2. FieldAt(fs, name.lower) = {i} BY <2>1, OneField
  <2> DEFINE f == [name |-> fs[i].name, values |-> Append(fs[i].values, value)]
  <2>3. LegalField(Names, Values, fs[i]) BY DEF LegalFields
  <2>4. [fs[i] EXCEPT !.values = Append(@, value)] = f
    <3>1. fs[i] \in [name : Names, values : Seq(Values)] BY <2>3 DEF LegalField
    <3> DEFINE w == Append(fs[i].values, value)
               r == fs[i]
    <3> HIDE DEF w, r
    <3>2. [r EXCEPT !.values = w] = [name |-> r.name, values |-> w] BY <3>1, FieldExcept DEF r
    <3> QED BY <3>2 DEF w, r
  <2>5. LegalField(Names, Values, f)
    <3> DEFINE old == fs[i].values
               new == Append(old, value)
    <3>1. old \in Seq(Values) /\ \A k \in DOMAIN old : ValidInbound(old[k]) BY <2>3 DEF LegalField
    <3> HIDE DEF old
    <3>2. /\ new \in Seq(Values) /\ new # <<>> /\ Len(old) \in Nat /\ DOMAIN new = 1 .. Len(old) + 1
          /\ DOMAIN old = 1 .. Len(old)
          /\ \A k \in 1 .. Len(old) + 1 : IF k = Len(old) + 1 THEN new[k] = value ELSE new[k] = old[k]
      BY <3>1
    <3> HIDE DEF new
    <3>3. \A k \in DOMAIN new : k # Len(old) + 1 => k \in DOMAIN old BY <3>2
    <3>4. \A k \in DOMAIN new : ValidInbound(new[k]) BY <3>1, <3>2, <3>3
    <3>5. fs[i].name \in Names /\ ValidName(fs[i].name) BY <2>3 DEF LegalField
    <3>6. f.name = fs[i].name /\ f.values = new /\ f \in [name : Names, values : Seq(Values)]
      BY <3>2, <3>5 DEF new, old
    <3> HIDE DEF f
    <3> QED BY <3>2, <3>4, <3>5, <3>6 DEF LegalField
  <2>6. gs = [j \in DOMAIN fs |-> IF j = i THEN f ELSE fs[j]]
    <3>1. \A j \in DOMAIN fs : j \in FieldAt(fs, name.lower) <=> j = i BY <2>2
    <3> HIDE DEF f
    <3>2. gs = [j \in DOMAIN fs |-> IF j \in FieldAt(fs, name.lower)
                                    THEN [fs[j] EXCEPT !.values = Append(@, value)] ELSE fs[j]]
      BY <1>1 DEF AppendField
    <3> QED BY <2>4, <3>1, <3>2
  <2>7. PutAt(fs, gs, i, f)
    <3>1. f.name.lower = fs[i].name.lower OBVIOUS
    <3> HIDE DEF f
    <3> QED BY <2>6, <3>1 DEF PutAt
  <2>8. gs = [j \in DOMAIN gs |-> gs[j]] BY <2>6
  <2> HIDE DEF f, gs
  <2>9. gs \in LegalFields(Names, Values) BY <2>5, <2>7, <2>8, PutAtKeeps
  <2> QED BY <1>1, <2>1, <2>7, <2>9 DEF f, gs
<1>2. CASE ~ HasField(fs, name.lower)
  <2> DEFINE f == [name |-> name, values |-> <<value>>]
  <2>1. LegalField(Names, Values, f) BY DEF LegalField
  <2>2. gs = Append(fs, f) BY <1>2 DEF AppendField
  <2>3. PutLast(fs, gs, f)
    <3>1. f.name = name OBVIOUS
    <3> HIDE DEF f, gs
    <3> QED BY <1>2, <2>2, <3>1, OneField DEF PutLast
  <2> HIDE DEF f, gs
  <2>4. gs \in LegalFields(Names, Values) BY <2>1, <2>3, PutLastKeeps
  <2> QED BY <1>2, <2>3, <2>4 DEF f, gs
<1> QED BY <1>1, <1>2

\* set: the one value under the new spelling, where the name was or as a field more.
LEMMA Replaced ==
  ASSUME NEW Names, NEW Values, NEW fs \in LegalFields(Names, Values),
         NEW name \in Names, NEW value \in Values, ValidName(name), ValidInbound(value)
  PROVE  LET gs == ReplaceField(fs, name, value)
             f == [name |-> name, values |-> <<value>>]
         IN  /\ gs \in LegalFields(Names, Values)
             /\ HasField(fs, name.lower) => \E i \in DOMAIN fs : PutAt(fs, gs, i, f)
             /\ ~ HasField(fs, name.lower) => PutLast(fs, gs, f)
<1> DEFINE gs == ReplaceField(fs, name, value)
           f == [name |-> name, values |-> <<value>>]
<1>1. LegalField(Names, Values, f) /\ f.name = name BY DEF LegalField
<1>2. CASE HasField(fs, name.lower)
  <2>1. PICK i \in DOMAIN fs : fs[i].name.lower = name.lower BY <1>2, OneField
  <2>2. FieldAt(fs, name.lower) = {i} BY <2>1, OneField
  <2>3. gs = [j \in DOMAIN fs |-> IF j \in FieldAt(fs, name.lower) THEN f ELSE fs[j]]
    BY <1>2 DEF ReplaceField
  <2> HIDE DEF f, gs
  <2>4. PutAt(fs, gs, i, f) BY <1>1, <2>1, <2>2, <2>3 DEF PutAt
  <2>5. gs = [j \in DOMAIN gs |-> gs[j]] BY <2>3
  <2>6. gs \in LegalFields(Names, Values) BY <1>1, <2>4, <2>5, PutAtKeeps
  <2> QED BY <1>2, <2>4, <2>6 DEF f, gs
<1>3. CASE ~ HasField(fs, name.lower)
  <2>1. gs = Append(fs, f) BY <1>3 DEF ReplaceField
  <2> HIDE DEF f, gs
  <2>2. PutLast(fs, gs, f) BY <1>1, <1>3, <2>1, OneField DEF PutLast
  <2>3. gs \in LegalFields(Names, Values) BY <1>1, <2>2, PutLastKeeps
  <2> QED BY <1>3, <2>2, <2>3 DEF f, gs
<1> QED BY <1>2, <1>3

\* remove: the field of the name, when there is one.
LEMMA Removed ==
  ASSUME NEW Names, NEW Values, NEW fs \in LegalFields(Names, Values), NEW name
  PROVE  LET gs == RemoveField(fs, name) IN
         /\ gs \in LegalFields(Names, Values)
         /\ HasField(fs, name.lower) => \E i \in DOMAIN fs :
              fs[i].name.lower = name.lower /\ TakenOut(fs, gs, i)
         /\ ~ HasField(fs, name.lower) => gs = fs
<1> DEFINE gs == RemoveField(fs, name)
           F == [name : Names, values : Seq(Values)]
<1>1. CASE HasField(fs, name.lower)
  <2>1. PICK i \in DOMAIN fs : fs[i].name.lower = name.lower BY <1>1, OneField
  <2>2. FieldAt(fs, name.lower) = {i} BY <2>1, OneField
  <2>3. (CHOOSE j \in FieldAt(fs, name.lower) : TRUE) = i BY <2>2
  <2>4. gs = SubSeq(fs, 1, i - 1) \o SubSeq(fs, i + 1, Len(fs)) BY <1>1, <2>3 DEF RemoveField, RemoveAt
  <2> DEFINE n == Len(fs)
             front == SubSeq(fs, 1, i - 1)
             back == SubSeq(fs, i + 1, n)
  <2>5. fs \in Seq(F) /\ n \in Nat /\ i \in 1 .. n BY DEF LegalFields
  <2> HIDE DEF F, n
  <2>6. front \in Seq(F) /\ Len(front) = i - 1 /\ \A j \in 1 .. i - 1 : front[j] = fs[j]
    <3>1. \A j \in 1 .. i - 1 : j \in 1 .. n BY <2>5
    <3>2. \A j \in 1 .. i - 1 : fs[j] \in F BY <2>5, <3>1 DEF n
    <3>3. i - 1 \in Nat BY <2>5
    <3> QED BY <2>5, <3>2, <3>3
  <2>7. back \in Seq(F) /\ Len(back) = n - i /\ \A j \in 1 .. n - i : back[j] = fs[i + j]
    <3>1. \A j \in i + 1 .. n : j \in 1 .. n BY <2>5
    <3>2. \A j \in i + 1 .. n : fs[j] \in F BY <2>5, <3>1 DEF n
    <3>3. i + 1 \in Int /\ n \in Int /\ n - i \in Nat /\ n - (i + 1) + 1 = n - i BY <2>5
    <3>4. \A j \in 1 .. n - i : (i + 1) + j - 1 = i + j BY <2>5
    <3> QED BY <2>5, <3>2, <3>3, <3>4
  <2>8. gs = front \o back BY <2>4 DEF n
  <2> HIDE DEF front, back, gs
  <2>9. gs \in Seq(F) /\ Len(gs) = (i - 1) + (n - i)
    <3>1. gs \in Seq(F) /\ Len(gs) = Len(front) + Len(back) BY <2>6, <2>7, <2>8, ConcatProperties
    <3> QED BY <2>6, <2>7, <3>1
  <2>10. \A j \in 1 .. i - 1 : gs[j] = fs[j]
    <3>1. \A j \in 1 .. i - 1 : j \in 1 .. (Len(front) + Len(back)) /\ j <= Len(front) BY <2>5, <2>6, <2>7
    <3> QED BY <2>6, <2>7, <2>8, <3>1, ConcatProperties
  <2>11. \A j \in i .. Len(gs) : gs[j] = fs[j + 1]
    <3> SUFFICES ASSUME NEW j \in i .. Len(gs) PROVE gs[j] = fs[j + 1] OBVIOUS
    <3>1. j - (i - 1) \in 1 .. n - i /\ j \in Int /\ j > i - 1 /\ i + (j - (i - 1)) = j + 1 BY <2>5, <2>9
    <3>2. gs[j] = back[j - Len(front)]
      <4>1. j \in 1 .. (Len(front) + Len(back)) /\ ~ j <= Len(front)
        <5>1. j \in 1 .. ((i - 1) + (n - i)) /\ ~ j <= i - 1 BY <2>5, <2>9, <3>1
        <5> QED BY <2>6, <2>7, <5>1
      <4> QED BY <2>6, <2>7, <2>8, <4>1, ConcatProperties
    <3>3. back[j - (i - 1)] = fs[i + (j - (i - 1))] BY <2>7, <3>1
    <3> QED BY <2>6, <3>1, <3>2, <3>3
  <2>12. TakenOut(fs, gs, i)
    <3>1. Len(gs) + 1 = n BY <2>5, <2>9
    <3> QED BY <2>10, <2>11, <3>1 DEF TakenOut, n
  <2>13. gs \in LegalFields(Names, Values) BY <2>9, <2>12, TakenOutKeeps DEF F
  <2> QED BY <1>1, <2>1, <2>12, <2>13 DEF gs
<1>2. CASE ~ HasField(fs, name.lower) BY <1>2 DEF RemoveField
<1> QED BY <1>1, <1>2

-----------------------------------------------------------------------------
(* A copy: the fold of the builder's add along the entries.                 *)

HeaderEntries(Names, Values) == [name : Names, value : Values]

CopyStep(copy, e) ==
  IF Accepted("addInbound", e.name, e.value) THEN AppendField(copy, e.name, e.value) ELSE copy
CopyStepOf(Names, Values) ==
  [p \in LegalFields(Names, Values) \X HeaderEntries(Names, Values) |-> CopyStep(p[1], p[2])]

Copied(es) ==
  FoldLeft(LAMBDA copy, e : IF Accepted("addInbound", e.name, e.value)
                            THEN AppendField(copy, e.name, e.value) ELSE copy, <<>>, es)

CopyFold(iter, es, n) ==
  iter = [S \in SUBSET (1 .. n) |->
            IF S = {} THEN <<>> ELSE CopyStep(iter[S \ {Max(S)}], es[Max(S)])]
IsCopyStep(A, E, step) ==
  /\ <<>> \in A /\ step \in [A \X E -> A]
  /\ \A fs \in A, e \in E : step[<<fs, e>>] = CopyStep(fs, e)

\* A step of the copy, as a function.
LEMMA CopyStepIs ==
  ASSUME NEW Names, NEW Values
  PROVE  IsCopyStep(LegalFields(Names, Values), HeaderEntries(Names, Values), CopyStepOf(Names, Values))
<1> DEFINE A == LegalFields(Names, Values)
           E == HeaderEntries(Names, Values)
<1>1. <<>> \in A
  <2>1. <<>> \in Seq([name : Names, values : Seq(Values)]) /\ DOMAIN <<>> = {} OBVIOUS
  <2> QED BY <2>1 DEF LegalFields
<1>2. \A fs \in A, e \in E : CopyStep(fs, e) \in A
  <2> SUFFICES ASSUME NEW fs \in A, NEW e \in E PROVE CopyStep(fs, e) \in A OBVIOUS
  <2>1. e.name \in Names /\ e.value \in Values BY DEF HeaderEntries
  <2>2. CASE Accepted("addInbound", e.name, e.value)
    <3>1. ValidName(e.name) /\ ValidInbound(e.value) BY <2>2 DEF Accepted
    <3> QED BY <2>1, <2>2, <3>1, Appended DEF CopyStep
  <2>3. CASE ~ Accepted("addInbound", e.name, e.value) BY <2>3 DEF CopyStep
  <2> QED BY <2>2, <2>3
<1>3. \A p \in A \X E : p[1] \in A /\ p[2] \in E OBVIOUS
<1> HIDE DEF A, E
<1>4. CopyStepOf(Names, Values) = [p \in A \X E |-> CopyStep(p[1], p[2])] BY DEF CopyStepOf, A, E
<1>5. CopyStepOf(Names, Values) \in [A \X E -> A]
  <2>1. \A p \in A \X E : CopyStep(p[1], p[2]) \in A BY <1>2, <1>3
  <2> QED BY <1>4, <2>1
<1>6. \A fs \in A, e \in E : CopyStepOf(Names, Values)[<<fs, e>>] = CopyStep(fs, e) BY <1>4
<1> QED BY <1>1, <1>5, <1>6 DEF IsCopyStep, A, E

\* A copy is what a run along the entries comes to.
LEMMA CopyRuns ==
  ASSUME NEW Names, NEW Values, NEW es \in Seq(HeaderEntries(Names, Values))
  PROVE  \E r : /\ RunsAlong(r, LegalFields(Names, Values), CopyStepOf(Names, Values), <<>>, es)
                /\ Copied(es) = r[Len(es)]
<1> DEFINE A == LegalFields(Names, Values)
           E == HeaderEntries(Names, Values)
           step == CopyStepOf(Names, Values)
           n == Len(es)
<1>0. IsCopyStep(A, E, step) BY CopyStepIs
<1>2. n \in Nat /\ DOMAIN es = 1 .. n /\ es \in Seq(E) /\ \A k \in 1 .. n : es[k] \in E OBVIOUS
<1> HIDE DEF A, E, step, n
<1>1. /\ <<>> \in A /\ step \in [A \X E -> A]
      /\ \A fs \in A, e \in E : step[<<fs, e>>] = CopyStep(fs, e)
  BY <1>0 DEF IsCopyStep
<1>3. \E iter : CopyFold(iter, es, n)
  <2>1. PICK iter \in [SUBSET (1 .. Len(es)) -> A] : FoldOver(iter, step, <<>>, es) BY <1>1, <1>2, FoldsExist
  <2> DEFINE h == [S \in SUBSET (1 .. n) |->
                     IF S = {} THEN <<>> ELSE CopyStep(iter[S \ {Max(S)}], es[Max(S)])]
  <2>2. ASSUME NEW S \in SUBSET (1 .. n) PROVE iter[S] = h[S]
    <3>1. CASE S = {} BY <2>1, <3>1 DEF FoldOver
    <3>2. CASE S # {}
      <4>1. Max(S) \in 1 .. n /\ S \ {Max(S)} \in SUBSET (1 .. n) BY <1>2, <3>2, MaxOf
      <4>2. iter[S \ {Max(S)}] \in A /\ es[Max(S)] \in E BY <1>2, <2>1, <4>1 DEF n
      <4>3. iter[S] = step[<<iter[S \ {Max(S)}], es[Max(S)]>>] BY <2>1, <3>2 DEF FoldOver, n
      <4>4. iter[S] = CopyStep(iter[S \ {Max(S)}], es[Max(S)]) BY <1>1, <4>2, <4>3
      <4> QED BY <3>2, <4>4
    <3> QED BY <3>1, <3>2
  <2>3. iter = h
    <3>1. DOMAIN h = SUBSET (1 .. n) /\ h = [S \in SUBSET (1 .. n) |-> h[S]] OBVIOUS
    <3>2. iter = [S \in SUBSET (1 .. n) |-> iter[S]] BY <2>1 DEF n
    <3> HIDE DEF h
    <3> QED BY <2>2, <3>1, <3>2
  <2> HIDE DEF h
  <2>4. CopyFold(iter, es, n) BY <2>3 DEF CopyFold, h
  <2> QED BY <2>4
<1>4. Copied(es) = (CHOOSE iter : CopyFold(iter, es, n))[1 .. n]
  BY <1>2 DEF Copied, CopyFold, CopyStep, FoldLeft, MapThenFoldSet
<1>5. PICK g : CopyFold(g, es, n) /\ Copied(es) = g[1 .. n] BY <1>3, <1>4
<1> DEFINE h == [S \in SUBSET (1 .. n) |->
                   IF S = {} THEN <<>> ELSE CopyStep(g[S \ {Max(S)}], es[Max(S)])]
<1>6. g = h BY <1>5 DEF CopyFold
<1>7. h[{}] = <<>> OBVIOUS
<1>8. ASSUME NEW k \in 1 .. n PROVE h[1 .. k] = CopyStep(g[1 .. k - 1], es[k])
  <2>1. /\ 1 .. k \in SUBSET (1 .. n) /\ 1 .. k # {} /\ Max(1 .. k) = k
        /\ (1 .. k) \ {k} = 1 .. (k - 1)
    BY <1>2, FoldOverAt
  <2>2. h[1 .. k] = CopyStep(g[(1 .. k) \ {Max(1 .. k)}], es[Max(1 .. k)]) BY <2>1
  <2> HIDE DEF h
  <2> QED BY <2>1, <2>2
<1> HIDE DEF h
<1>9. ASSUME NEW k \in 1 .. n, g[1 .. k - 1] \in A PROVE g[1 .. k] = step[<<g[1 .. k - 1], es[k]>>]
  BY <1>1, <1>2, <1>6, <1>8, <1>9
<1>10. g[{}] = <<>> BY <1>6, <1>7
<1>11. GoesAlong(g, A, step, es) BY <1>9 DEF GoesAlong, n
<1>12. RunEnds(A, step, <<>>, es, g[1 .. Len(es)])
  <2> DEFINE base == <<>>
  <2>1. base \in A /\ step \in [A \X E -> A] /\ es \in Seq(E) /\ g[{}] = base BY <1>1, <1>2, <1>10
  <2> HIDE DEF base
  <2>2. RunEnds(A, step, base, es, g[1 .. Len(es)]) BY <1>11, <2>1, FoldRuns
  <2> QED BY <2>2 DEF base
<1> QED BY <1>5, <1>12 DEF RunEnds, A, step, n

\* An entry more.
LEMMA CopiedGrows ==
  ASSUME NEW Names, NEW Values
  PROVE  /\ Copied(<<>>) = <<>>
         /\ \A es \in Seq(HeaderEntries(Names, Values)) : Copied(es) \in LegalFields(Names, Values)
         /\ \A es \in Seq(HeaderEntries(Names, Values)), e \in HeaderEntries(Names, Values) :
              Copied(Append(es, e)) = CopyStep(Copied(es), e)
<1> DEFINE A == LegalFields(Names, Values)
           E == HeaderEntries(Names, Values)
           step == CopyStepOf(Names, Values)
<1>0. IsCopyStep(A, E, step) BY CopyStepIs
<1>2. \A es \in Seq(E) : \E r : RunsAlong(r, A, step, <<>>, es) /\ Copied(es) = r[Len(es)] BY CopyRuns
<1> HIDE DEF A, E, step
<1>1. /\ <<>> \in A /\ step \in [A \X E -> A]
      /\ \A fs \in A, e \in E : step[<<fs, e>>] = CopyStep(fs, e)
  BY <1>0 DEF IsCopyStep
<1>3. Copied(<<>>) = <<>>
  <2>1. <<>> \in Seq(E) /\ Len(<<>>) = 0 OBVIOUS
  <2>2. PICK r : RunsAlong(r, A, step, <<>>, <<>>) /\ Copied(<<>>) = r[Len(<<>>)] BY <1>2, <2>1
  <2> QED BY <2>1, <2>2 DEF RunsAlong
<1>4. ASSUME NEW es \in Seq(E) PROVE Copied(es) \in A
  <2>1. PICK r : RunsAlong(r, A, step, <<>>, es) /\ Copied(es) = r[Len(es)] BY <1>2
  <2>2. Len(es) \in 0 .. Len(es) OBVIOUS
  <2> QED BY <2>1, <2>2 DEF RunsAlong
<1>5. ASSUME NEW es \in Seq(E), NEW e \in E PROVE Copied(Append(es, e)) = CopyStep(Copied(es), e)
  <2>1. PICK r : RunsAlong(r, A, step, <<>>, es) /\ Copied(es) = r[Len(es)] BY <1>2
  <2>2. Append(es, e) \in Seq(E) /\ Len(Append(es, e)) = Len(es) + 1 OBVIOUS
  <2>3. PICK q : RunsAlong(q, A, step, <<>>, Append(es, e)) /\ Copied(Append(es, e)) = q[Len(Append(es, e))]
    BY <1>2, <2>2
  <2>4. q[Len(es) + 1] = step[<<r[Len(es)], e>>] /\ r[Len(es)] \in A BY <1>1, <2>1, <2>3, RunsGoOn
  <2> QED BY <1>1, <2>1, <2>2, <2>3, <2>4
<1> QED BY <1>3, <1>4, <1>5 DEF A, E

\* The entries of one name.
EntriesIn(name, vs) == [j \in DOMAIN vs |-> [name |-> name, value |-> vs[j]]]

LEMMA EntriesInAre ==
  ASSUME NEW Names, NEW Values, NEW name \in Names
  PROVE  /\ EntriesIn(name, <<>>) = <<>>
         /\ \A vs \in Seq(Values) : EntriesIn(name, vs) \in Seq(HeaderEntries(Names, Values))
         /\ \A vs \in Seq(Values), v \in Values :
              EntriesIn(name, Append(vs, v)) = Append(EntriesIn(name, vs), [name |-> name, value |-> v])
<1> DEFINE E == HeaderEntries(Names, Values)
<1>1. EntriesIn(name, <<>>) = <<>> BY DEF EntriesIn
<1>2. ASSUME NEW vs \in Seq(Values) PROVE EntriesIn(name, vs) \in Seq(E) /\ Len(EntriesIn(name, vs)) = Len(vs)
  <2> DEFINE n == Len(vs)
             es == EntriesIn(name, vs)
  <2>1. n \in Nat /\ DOMAIN vs = 1 .. n /\ \A j \in 1 .. n : vs[j] \in Values OBVIOUS
  <2> HIDE DEF n
  <2>2. es = [j \in 1 .. n |-> [name |-> name, value |-> vs[j]]] BY <2>1 DEF EntriesIn
  <2>3. \A j \in 1 .. n : [name |-> name, value |-> vs[j]] \in E BY <2>1 DEF HeaderEntries
  <2> HIDE DEF E
  <2>4. es \in [1 .. n -> E] BY <2>2, <2>3
  <2> HIDE DEF es
  <2>5. es \in Seq(E) /\ Len(es) = n BY <2>1, <2>4
  <2> QED BY <2>5 DEF es, n
<1>3. ASSUME NEW vs \in Seq(Values), NEW v \in Values
      PROVE  EntriesIn(name, Append(vs, v)) = Append(EntriesIn(name, vs), [name |-> name, value |-> v])
  <2> DEFINE n == Len(vs)
             e == [name |-> name, value |-> v]
             ws == Append(vs, v)
             left == EntriesIn(name, ws)
             right == Append(EntriesIn(name, vs), e)
  <2>1. /\ n \in Nat /\ ws \in Seq(Values) /\ Len(ws) = n + 1 /\ ws[n + 1] = v /\ e \in E
        /\ DOMAIN ws = 1 .. n + 1 /\ DOMAIN vs = 1 .. n /\ \A j \in 1 .. n : ws[j] = vs[j]
    BY DEF HeaderEntries
  <2>2. /\ EntriesIn(name, vs) \in Seq(E) /\ Len(EntriesIn(name, vs)) = n
        /\ left \in Seq(E) /\ Len(left) = n + 1
    <3> HIDE DEF E
    <3> QED BY <1>2, <2>1
  <2> HIDE DEF n, ws, E
  <2>3. /\ \A j \in 1 .. n : EntriesIn(name, vs)[j] = [name |-> name, value |-> vs[j]]
        /\ \A j \in 1 .. n + 1 : left[j] = [name |-> name, value |-> ws[j]]
    BY <2>1 DEF EntriesIn
  <2> HIDE DEF e, left
  <2>4. /\ right \in Seq(E) /\ Len(right) = n + 1 /\ right[n + 1] = e
        /\ \A j \in 1 .. n : right[j] = EntriesIn(name, vs)[j]
    BY <2>1, <2>2
  <2> HIDE DEF right
  <2>5. \A j \in 1 .. n + 1 : left[j] = right[j]
    <3> TAKE j \in 1 .. n + 1
    <3>1. CASE j = n + 1 BY <2>1, <2>3, <2>4, <3>1 DEF e
    <3>2. CASE j # n + 1
      <4>1. j \in 1 .. n BY <2>1, <3>2
      <4> QED BY <2>1, <2>3, <2>4, <4>1
    <3> QED BY <3>1, <3>2
  <2>6. left = right BY <2>1, <2>2, <2>4, <2>5, SeqEqual
  <2> QED BY <2>6 DEF left, right, ws, e
<1> QED BY <1>1, <1>2, <1>3

\* A field is copied value by value.
LEMMA FieldCopied ==
  ASSUME NEW Names, NEW Values, NEW fs \in LegalFields(Names, Values),
         NEW es \in Seq(HeaderEntries(Names, Values)), Copied(es) = fs,
         NEW f, LegalField(Names, Values, f), ~ HasField(fs, f.name.lower)
  PROVE  Copied(es \o EntriesIn(f.name, f.values)) = Append(fs, f)
<1> DEFINE E == HeaderEntries(Names, Values)
           name == f.name
           Holding(vs) == [name |-> name, values |-> vs]
           Fine(vs) == \A k \in DOMAIN vs : ValidInbound(vs[k])
           S == {vs \in Seq(Values) : Fine(vs) =>
                   /\ es \o EntriesIn(name, vs) \in Seq(E)
                   /\ Copied(es \o EntriesIn(name, vs)) = IF vs = <<>> THEN fs ELSE Append(fs, Holding(vs))}
<1>1. name \in Names /\ ValidName(name) /\ f.values \in Seq(Values) /\ f.values # <<>> /\ Fine(f.values)
      /\ f = Holding(f.values)
  BY DEF LegalField
<1>2. es \in Seq(E) OBVIOUS
<1>3. <<>> \in S
  <2>1. EntriesIn(name, <<>>) = <<>> BY <1>1, EntriesInAre
  <2>2. es \o EntriesIn(name, <<>>) = es
    <3> HIDE DEF E
    <3> QED BY <1>2, <2>1, ConcatEmptySeq
  <2>3. <<>> \in Seq(Values) OBVIOUS
  <2> HIDE DEF E, Holding, Fine, name
  <2> QED BY <1>2, <2>2, <2>3
<1>4. ASSUME NEW vs \in Seq(Values), NEW v \in Values, vs \in S PROVE Append(vs, v) \in S
  <2> DEFINE ws == Append(vs, v)
             e == [name |-> name, value |-> v]
             before == es \o EntriesIn(name, vs)
             gs == AppendField(Copied(before), name, v)
  <2>1. /\ ws \in Seq(Values) /\ ws # <<>> /\ Len(vs) \in Nat /\ DOMAIN vs = 1 .. Len(vs)
        /\ DOMAIN ws = 1 .. Len(vs) + 1 /\ ws[Len(vs) + 1] = v /\ \A j \in 1 .. Len(vs) : ws[j] = vs[j]
    OBVIOUS
  <2> HIDE DEF ws
  <2> SUFFICES ASSUME Fine(ws)
               PROVE  /\ es \o EntriesIn(name, ws) \in Seq(E)
                      /\ Copied(es \o EntriesIn(name, ws)) = Append(fs, Holding(ws))
    <3> HIDE DEF E, Holding, Fine
    <3> QED BY <2>1 DEF ws
  <2>2. Fine(vs) /\ ValidInbound(v)
    <3>1. \A j \in 1 .. Len(vs) : j \in 1 .. Len(vs) + 1 BY <2>1
    <3>2. Len(vs) + 1 \in 1 .. Len(vs) + 1 BY <2>1
    <3> QED BY <2>1, <3>1, <3>2
  <2> HIDE DEF Fine
  <2>3. before \in Seq(E) /\ Copied(before) = IF vs = <<>> THEN fs ELSE Append(fs, Holding(vs))
    <3> HIDE DEF E, Holding
    <3> QED BY <1>4, <2>2
  <2>4. es \o EntriesIn(name, ws) = Append(before, e) /\ e \in E
    <3>1. EntriesIn(name, vs) \in Seq(E) /\ EntriesIn(name, ws) = Append(EntriesIn(name, vs), e)
      BY <1>1, EntriesInAre DEF ws
    <3>2. e \in E BY <1>1 DEF HeaderEntries
    <3> HIDE DEF E, e
    <3> QED BY <1>2, <3>1, <3>2, ConcatOneMore
  <2>5. Append(before, e) \in Seq(E)
    <3> HIDE DEF E, e, before
    <3> QED BY <2>3, <2>4
  <2>6. Copied(Append(before, e)) = gs
    <3>1. Copied(Append(before, e)) = CopyStep(Copied(before), e)
      <4>1. \A ds \in Seq(E), d \in E : Copied(Append(ds, d)) = CopyStep(Copied(ds), d) BY CopiedGrows
      <4>2. before \in Seq(E) /\ e \in E BY <2>3, <2>4
      <4> HIDE DEF before, e, E
      <4> QED BY <4>1, <4>2
    <3>2. e.name = name /\ e.value = v OBVIOUS
    <3>3. Accepted("addInbound", name, v) BY <1>1, <2>2 DEF Accepted
    <3> HIDE DEF e, before, name
    <3> QED BY <3>1, <3>2, <3>3 DEF CopyStep
  <2>7. gs = Append(fs, Holding(ws))
    <3>1. CASE vs = <<>>
      <4>1. Copied(before) = fs /\ ws = <<v>> BY <2>3, <3>1 DEF ws
      <4>2. gs = Append(fs, [name |-> name, values |-> <<v>>]) BY <4>1 DEF AppendField
      <4> QED BY <4>1, <4>2
    <3>2. CASE vs # <<>>
      <4> DEFINE cs == Append(fs, Holding(vs))
                 n == Len(fs)
      <4>1. LegalField(Names, Values, Holding(vs))
        <5>1. Holding(vs) \in [name : Names, values : Seq(Values)] /\ Holding(vs).name = name
              /\ Holding(vs).values = vs
          BY <1>1
        <5> HIDE DEF Holding
        <5> QED BY <1>1, <2>2, <3>2, <5>1 DEF LegalField, Fine
      <4>2. PutLast(fs, cs, Holding(vs))
        <5>1. \A i \in DOMAIN fs : fs[i].name.lower # name.lower BY OneField
        <5>2. Holding(vs).name = name OBVIOUS
        <5> HIDE DEF Holding, name
        <5> QED BY <5>1, <5>2 DEF PutLast
      <4> HIDE DEF cs
      <4>3. /\ cs \in LegalFields(Names, Values) /\ Len(cs) = n + 1 /\ cs[n + 1] = Holding(vs)
            /\ \A j \in 1 .. n : cs[j] = fs[j]
        BY <4>1, <4>2, PutLastKeeps
      <4>4. cs[n + 1].name = name /\ cs[n + 1].values = vs BY <4>3
      <4>5. Len(fs) \in Nat /\ fs \in Seq([name : Names, values : Seq(Values)]) /\ n \in Nat BY DEF LegalFields
      <4>6. DOMAIN cs = 1 .. n + 1 /\ cs \in Seq([name : Names, values : Seq(Values)]) BY <4>3 DEF LegalFields
      <4> HIDE DEF Holding, name, n
      <4>7. HasField(cs, name.lower)
        <5>1. n + 1 \in DOMAIN cs BY <4>5, <4>6
        <5> QED BY <4>3, <4>4, <5>1, OneField
      <4>8. gs = AppendField(cs, name, v) BY <2>3, <3>2 DEF cs
      <4> HIDE DEF gs
      <4>9. /\ gs \in LegalFields(Names, Values)
            /\ \E i \in DOMAIN cs :
                 /\ cs[i].name.lower = name.lower
                 /\ PutAt(cs, gs, i, [name |-> cs[i].name, values |-> Append(cs[i].values, v)])
        BY <1>1, <2>2, <4>3, <4>7, <4>8, Appended
      <4>10. PICK i \in DOMAIN cs : /\ cs[i].name.lower = name.lower
                                   /\ PutAt(cs, gs, i, [name |-> cs[i].name, values |-> Append(cs[i].values, v)])
        BY <4>9
      <4>11. i = n + 1
        <5>1. n + 1 \in DOMAIN cs BY <4>5, <4>6
        <5>2. \A j, k \in DOMAIN cs : cs[j].name.lower = cs[k].name.lower => j = k BY <4>3 DEF LegalFields
        <5> QED BY <4>4, <4>10, <5>1, <5>2
      <4>12. /\ DOMAIN gs = 1 .. n + 1 /\ gs[n + 1] = Holding(ws) /\ \A j \in 1 .. n : gs[j] = fs[j]
        <5>1. [name |-> cs[i].name, values |-> Append(cs[i].values, v)] = Holding(ws)
          BY <4>4, <4>11 DEF Holding, ws
        <5>2. DOMAIN gs = DOMAIN cs /\ gs[i] = Holding(ws) /\ \A j \in DOMAIN cs : j # i => gs[j] = cs[j]
          BY <4>10, <5>1 DEF PutAt
        <5>3. \A j \in 1 .. n : j \in 1 .. n + 1 /\ j # n + 1 BY <4>5
        <5> QED BY <4>3, <4>6, <4>11, <5>2, <5>3
      <4> DEFINE F == [name : Names, values : Seq(Values)]
                 right == Append(fs, Holding(ws))
      <4>13. gs \in Seq(F) BY <4>9 DEF LegalFields
      <4>14. Holding(ws) \in F BY <1>1, <2>1 DEF Holding
      <4> HIDE DEF F
      <4>15. /\ right \in Seq(F) /\ Len(right) = n + 1 /\ right[n + 1] = Holding(ws)
             /\ \A j \in 1 .. n : right[j] = fs[j]
        BY <4>5, <4>14 DEF n, F
      <4> HIDE DEF right
      <4>16. Len(gs) = n + 1 BY <4>5, <4>12, <4>13
      <4>17. \A j \in 1 .. n + 1 : gs[j] = right[j]
        <5> TAKE j \in 1 .. n + 1
        <5>1. j = n + 1 \/ j \in 1 .. n BY <4>5
        <5> QED BY <4>12, <4>15, <5>1
      <4>18. gs = right BY <4>13, <4>15, <4>16, <4>17, SeqEqual
      <4> QED BY <4>18 DEF right
    <3> QED BY <3>1, <3>2
  <2> HIDE DEF gs, e, before
  <2> QED BY <2>4, <2>5, <2>6, <2>7
<1>5. Seq(Values) \subseteq S
  <2> HIDE DEF S
  <2> QED BY <1>3, <1>4, SequenceInduction
<1>6. f.values \in S BY <1>1, <1>5
<1> HIDE DEF Holding, Fine, E
<1> QED BY <1>1, <1>6

\* The entries, field by field.
FieldSet(Names, Values) == [name : Names, values : Seq(Values)]
EntrySeqs(fs) == [i \in DOMAIN fs |-> EntriesIn(fs[i].name, fs[i].values)]
EntrySeqsFit(E, fs) ==
  /\ EntriesOf(fs) = FlattenSeq(EntrySeqs(fs))
  /\ EntrySeqs(fs) \in Seq(Seq(E)) /\ Len(EntrySeqs(fs)) = Len(fs)
  /\ \A i \in 1 .. Len(fs) : EntrySeqs(fs)[i] = EntriesIn(fs[i].name, fs[i].values)

LEMMA EntrySeqsAre ==
  ASSUME NEW Names, NEW Values, NEW fs \in Seq(FieldSet(Names, Values))
  PROVE  EntrySeqsFit(HeaderEntries(Names, Values), fs)
<1> DEFINE n == Len(fs)
           E == HeaderEntries(Names, Values)
           ss == EntrySeqs(fs)
<1>1. /\ n \in Nat /\ DOMAIN fs = 1 .. n
      /\ \A i \in 1 .. n : fs[i].name \in Names /\ fs[i].values \in Seq(Values)
  <2>1. n \in Nat /\ DOMAIN fs = 1 .. n /\ \A i \in 1 .. n : fs[i] \in FieldSet(Names, Values) OBVIOUS
  <2> QED BY <2>1 DEF FieldSet
<1>2. EntriesOf(fs) = FlattenSeq(ss) BY DEF EntriesOf, EntrySeqs, EntriesIn
<1>3. \A i \in 1 .. n : EntriesIn(fs[i].name, fs[i].values) \in Seq(E)
  <2> TAKE i \in 1 .. n
  <2>1. fs[i].name \in Names /\ fs[i].values \in Seq(Values) BY <1>1
  <2> HIDE DEF n
  <2> QED BY <2>1, EntriesInAre
<1> HIDE DEF n, E
<1>4. ss = [i \in 1 .. n |-> EntriesIn(fs[i].name, fs[i].values)] BY <1>1 DEF EntrySeqs
<1>5. ss \in [1 .. n -> Seq(E)] BY <1>3, <1>4
<1>6. \A i \in 1 .. n : ss[i] = EntriesIn(fs[i].name, fs[i].values) BY <1>4
<1> HIDE DEF ss
<1>7. ss \in Seq(Seq(E)) /\ Len(ss) = n
  <2> DEFINE T == Seq(E)
  <2>1. ss \in [1 .. n -> T] BY <1>5
  <2> HIDE DEF T
  <2>2. ss \in Seq(T) /\ Len(ss) = n BY <1>1, <2>1
  <2> QED BY <2>2 DEF T
<1> QED BY <1>2, <1>6, <1>7 DEF ss, n, E, EntrySeqsFit

LEMMA EntriesGrow ==
  ASSUME NEW Names, NEW Values, NEW fs \in Seq(FieldSet(Names, Values)),
         NEW f \in FieldSet(Names, Values)
  PROVE  EntriesOf(Append(fs, f)) = EntriesOf(fs) \o EntriesIn(f.name, f.values)
<1> DEFINE F == FieldSet(Names, Values)
           E == HeaderEntries(Names, Values)
           T == Seq(E)
           n == Len(fs)
           gs == Append(fs, f)
           ss == EntrySeqs(fs)
           tt == EntrySeqs(gs)
           t == EntriesIn(f.name, f.values)
           right == Append(ss, t)
<1>1. /\ n \in Nat /\ gs \in Seq(F) /\ Len(gs) = n + 1 /\ gs[n + 1] = f
      /\ \A i \in 1 .. n : gs[i] = fs[i]
  OBVIOUS
<1>2. f.name \in Names /\ f.values \in Seq(Values) BY DEF FieldSet
<1>3. t \in T
  <2> DEFINE name == f.name
             vs == f.values
  <2>1. name \in Names /\ vs \in Seq(Values) BY <1>2
  <2> HIDE DEF name, vs
  <2>2. EntriesIn(name, vs) \in Seq(HeaderEntries(Names, Values)) BY <2>1, EntriesInAre
  <2> QED BY <2>2 DEF name, vs
<1> HIDE DEF gs, n
<1>4. /\ EntriesOf(fs) = FlattenSeq(ss) /\ ss \in Seq(T) /\ Len(ss) = n
      /\ \A i \in 1 .. n : ss[i] = EntriesIn(fs[i].name, fs[i].values)
  <2>1. EntrySeqsFit(E, fs) BY EntrySeqsAre
  <2> QED BY <2>1 DEF n, EntrySeqsFit
<1>5. /\ EntriesOf(gs) = FlattenSeq(tt) /\ tt \in Seq(T) /\ Len(tt) = n + 1
      /\ \A i \in 1 .. n + 1 : tt[i] = EntriesIn(gs[i].name, gs[i].values)
  <2>1. EntrySeqsFit(E, gs) BY <1>1, EntrySeqsAre
  <2> QED BY <1>1, <2>1 DEF EntrySeqsFit
<1> HIDE DEF ss, tt, t, F
<1>6. FlattenSeq(right) = FlattenSeq(ss) \o t
  <2> HIDE DEF E
  <2> QED BY <1>3, <1>4, FlattenAppend
<1> HIDE DEF T
<1>7. right \in Seq(T) /\ Len(right) = n + 1 /\ right[n + 1] = t /\ \A i \in 1 .. n : right[i] = ss[i]
  BY <1>1, <1>3, <1>4
<1> HIDE DEF right
<1>8. \A i \in 1 .. n + 1 : tt[i] = right[i]
  <2> TAKE i \in 1 .. n + 1
  <2>1. CASE i = n + 1 BY <1>1, <1>5, <1>7, <2>1 DEF t
  <2>2. CASE i # n + 1
    <3>1. i \in 1 .. n BY <1>1, <2>2
    <3> QED BY <1>1, <1>4, <1>5, <1>7, <3>1
  <2> QED BY <2>1, <2>2
<1>9. tt = right BY <1>1, <1>5, <1>7, <1>8, SeqEqual
<1> QED BY <1>4, <1>5, <1>6, <1>9 DEF gs, t

\* What is legal is legal without its last field, which has a name of its own.
LEMMA LegalBefore ==
  ASSUME NEW Names, NEW Values, NEW fs \in Seq(FieldSet(Names, Values)),
         NEW f \in FieldSet(Names, Values), Append(fs, f) \in LegalFields(Names, Values)
  PROVE  fs \in LegalFields(Names, Values) /\ LegalField(Names, Values, f) /\ ~ HasField(fs, f.name.lower)
<1> DEFINE F == FieldSet(Names, Values)
           n == Len(fs)
           gs == Append(fs, f)
<1>1. /\ n \in Nat /\ DOMAIN fs = 1 .. n /\ DOMAIN gs = 1 .. n + 1 /\ gs[n + 1] = f
      /\ \A i \in 1 .. n : gs[i] = fs[i]
  OBVIOUS
<1>2. /\ \A i \in DOMAIN gs : LegalField(Names, Values, gs[i])
      /\ \A i, j \in DOMAIN gs : gs[i].name.lower = gs[j].name.lower => i = j
  BY DEF LegalFields
<1> HIDE DEF n, gs
<1>3. n + 1 \in DOMAIN gs /\ \A i \in DOMAIN fs : i \in DOMAIN gs /\ i # n + 1 BY <1>1
<1>4. fs \in LegalFields(Names, Values) BY <1>1, <1>2, <1>3 DEF LegalFields, FieldSet
<1>5. ~ HasField(fs, f.name.lower) BY <1>1, <1>2, <1>3 DEF HasField, FieldAt
<1> QED BY <1>1, <1>2, <1>3, <1>4, <1>5

\* A copy of legal headers is the same headers.
LEMMA CopyIsTheSame ==
  ASSUME NEW Names, NEW Values
  PROVE  \A fs \in LegalFields(Names, Values) : CopyFields(fs) = fs
<1> DEFINE F == FieldSet(Names, Values)
           E == HeaderEntries(Names, Values)
           S == {fs \in Seq(F) : fs \in LegalFields(Names, Values) =>
                                   EntriesOf(fs) \in Seq(E) /\ Copied(EntriesOf(fs)) = fs}
<1>1. <<>> \in S
  <2>1. <<>> \in Seq(F) OBVIOUS
  <2>2. EntriesOf(<<>>) = FlattenSeq(EntrySeqs(<<>>)) BY <2>1, EntrySeqsAre DEF EntrySeqsFit
  <2>3. EntrySeqs(<<>>) = <<>> BY DEF EntrySeqs
  <2>4. EntriesOf(<<>>) = <<>> BY <2>2, <2>3, FlattenEmpty
  <2>5. <<>> \in Seq(E) OBVIOUS
  <2>6. Copied(<<>>) = <<>> BY CopiedGrows
  <2> HIDE DEF F, E
  <2> QED BY <2>1, <2>4, <2>5, <2>6
<1>2. ASSUME NEW fs \in Seq(F), NEW f \in F, fs \in S PROVE Append(fs, f) \in S
  <2> DEFINE gs == Append(fs, f)
             es == EntriesOf(fs)
             t == EntriesIn(f.name, f.values)
  <2>1. gs \in Seq(F)
    <3> HIDE DEF F
    <3> QED OBVIOUS
  <2> SUFFICES ASSUME gs \in LegalFields(Names, Values)
               PROVE  EntriesOf(gs) \in Seq(E) /\ Copied(EntriesOf(gs)) = gs
    <3> HIDE DEF F, E, gs
    <3> QED BY <2>1 DEF gs
  <2>2. fs \in LegalFields(Names, Values) /\ LegalField(Names, Values, f) /\ ~ HasField(fs, f.name.lower)
    BY LegalBefore
  <2>3. es \in Seq(E) /\ Copied(es) = fs
    <3> HIDE DEF E, F
    <3> QED BY <1>2, <2>2
  <2>4. EntriesOf(gs) = es \o t BY EntriesGrow
  <2>5. t \in Seq(E)
    <3> DEFINE name == f.name
               vs == f.values
    <3>1. name \in Names /\ vs \in Seq(Values) BY DEF FieldSet
    <3> HIDE DEF name, vs
    <3>2. EntriesIn(name, vs) \in Seq(HeaderEntries(Names, Values)) BY <3>1, EntriesInAre
    <3> QED BY <3>2 DEF name, vs
  <2> HIDE DEF es
  <2>6. Copied(es \o t) = gs BY <2>2, <2>3, FieldCopied
  <2>7. es \o t \in Seq(E)
    <3> HIDE DEF E, t
    <3> QED BY <2>3, <2>5, ConcatProperties
  <2> QED BY <2>4, <2>6, <2>7
<1>3. Seq(F) \subseteq S
  <2> HIDE DEF S, F
  <2> QED BY <1>1, <1>2, SequenceInduction
<1>4. ASSUME NEW fs \in LegalFields(Names, Values) PROVE CopyFields(fs) = fs
  <2>1. fs \in Seq(F) BY DEF LegalFields, FieldSet
  <2>2. CopyFields(fs) = Copied(EntriesOf(fs)) BY DEF CopyFields, Copied
  <2> QED BY <1>3, <2>1, <2>2
<1> QED BY <1>4

\* Headers are equal to themselves in another order.
LEMMA OrderIsNothing ==
  ASSUME NEW Names, NEW Values, NEW fs \in LegalFields(Names, Values)
  PROVE  HeadersEqual(fs, Reverse(fs))
<1> DEFINE F == FieldSet(Names, Values)
           n == Len(fs)
           gs == Reverse(fs)
<1>0. fs \in Seq(F) BY DEF LegalFields, FieldSet
<1>1. /\ fs \in Seq(F) /\ n \in Nat /\ DOMAIN fs = 1 .. n /\ \A i \in 1 .. n : fs[i] \in F
      /\ \A i \in 1 .. n : LegalField(Names, Values, fs[i])
      /\ \A i, j \in 1 .. n : fs[i].name.lower = fs[j].name.lower => i = j
  <2> HIDE DEF F
  <2>1. n \in Nat /\ DOMAIN fs = 1 .. n /\ \A i \in 1 .. n : fs[i] \in F BY <1>0
  <2> QED BY <1>0, <2>1 DEF LegalFields
<1> HIDE DEF F, n
<1>2. gs = [i \in 1 .. n |-> fs[n - i + 1]] BY DEF Reverse, n
<1>3. \A i \in 1 .. n : n - i + 1 \in 1 .. n /\ n - (n - i + 1) + 1 = i BY <1>1
<1>4. DOMAIN gs = 1 .. n /\ \A i \in 1 .. n : gs[i] = fs[n - i + 1] /\ gs[n - i + 1] = fs[i] BY <1>2, <1>3
<1>5. gs \in Seq(F) /\ Len(gs) = n
  <2>1. gs \in [1 .. n -> F] BY <1>1, <1>2, <1>3
  <2> HIDE DEF gs
  <2> QED BY <1>1, <2>1
<1> HIDE DEF gs
<1>6. \A i, j \in 1 .. n : gs[i].name.lower = gs[j].name.lower => i = j
  <2> TAKE i, j \in 1 .. n
  <2> HAVE gs[i].name.lower = gs[j].name.lower
  <2>1. n - i + 1 = n - j + 1 BY <1>1, <1>3, <1>4
  <2> QED BY <1>1, <2>1
<1>7. \A i \in 1 .. n : LegalField(Names, Values, gs[i]) BY <1>1, <1>3, <1>4
<1>8. gs \in LegalFields(Names, Values) BY <1>4, <1>5, <1>6, <1>7 DEF LegalFields, F, FieldSet
<1>9. ASSUME NEW i \in 1 .. n PROVE GetAll(gs, fs[i].name.lower) = fs[i].values
  <2>1. n - i + 1 \in DOMAIN gs /\ gs[n - i + 1] = fs[i] BY <1>3, <1>4
  <2>2. \A k \in DOMAIN gs : GetAll(gs, gs[k].name.lower) = gs[k].values BY <1>8, OneField
  <2> QED BY <2>1, <2>2
<1> QED BY <1>1, <1>5, <1>9 DEF HeadersEqual, gs, n

-----------------------------------------------------------------------------
(* What is built: the fold of the edits along the calls.                    *)

\* An edit keeps headers legal, and does one of the three changes or nothing.
LEMMA EditIsLegal ==
  ASSUME NEW Names, NEW Values, NEW fs \in LegalFields(Names, Values), NEW op \in BuilderOps(Names, Values)
  PROVE  Edited(fs, op) \in LegalFields(Names, Values)
<1>1. op.call \in BuilderCalls /\ op.name \in Names /\ op.value \in Values BY DEF BuilderOps
<1>2. CASE op.call = "newBuilder" BY <1>2, CopyIsTheSame DEF Edited
<1>3. CASE op.call # "newBuilder" /\ ~ Accepted(op.call, op.name, op.value) BY <1>3 DEF Edited
<1>4. CASE op.call # "newBuilder" /\ Accepted(op.call, op.name, op.value)
  <2>1. ValidName(op.name) BY <1>4 DEF Accepted
  <2>2. CASE op.call \in {"add", "addInbound"}
    <3>1. Edited(fs, op) = AppendField(fs, op.name, op.value) BY <1>4, <2>2 DEF Edited
    <3>2. ValidInbound(op.value) BY <1>4, <2>2 DEF Accepted, ValidOutbound, ValidInbound
    <3>3. AppendField(fs, op.name, op.value) \in LegalFields(Names, Values) BY <1>1, <2>1, <3>2, Appended
    <3> QED BY <3>1, <3>3
  <2>3. CASE op.call \in {"set", "setInbound"}
    <3>1. Edited(fs, op) = ReplaceField(fs, op.name, op.value) BY <1>4, <2>3 DEF Edited
    <3>2. ValidInbound(op.value) BY <1>4, <2>3 DEF Accepted, ValidOutbound, ValidInbound
    <3>3. ReplaceField(fs, op.name, op.value) \in LegalFields(Names, Values) BY <1>1, <2>1, <3>2, Replaced
    <3> QED BY <3>1, <3>3
  <2>4. CASE op.call = "remove"
    <3>1. Edited(fs, op) = RemoveField(fs, op.name) BY <1>4, <2>4 DEF Edited
    <3> QED BY <3>1, Removed
  <2> QED BY <1>1, <1>4, <2>2, <2>3, <2>4 DEF BuilderCalls
<1> QED BY <1>2, <1>3, <1>4

BuildStepOf(Names, Values) ==
  [p \in LegalFields(Names, Values) \X BuilderOps(Names, Values) |-> Edited(p[1], p[2])]
BuildFold(iter, ops, n) ==
  iter = [S \in SUBSET (1 .. n) |->
            IF S = {} THEN <<>> ELSE Edited(iter[S \ {Max(S)}], ops[Max(S)])]
IsBuildStep(A, E, step) ==
  /\ <<>> \in A /\ step \in [A \X E -> A]
  /\ \A fs \in A, op \in E : step[<<fs, op>>] = Edited(fs, op)

LEMMA BuildStepIs ==
  ASSUME NEW Names, NEW Values
  PROVE  IsBuildStep(LegalFields(Names, Values), BuilderOps(Names, Values), BuildStepOf(Names, Values))
<1> DEFINE A == LegalFields(Names, Values)
           E == BuilderOps(Names, Values)
<1>1. <<>> \in A
  <2>1. <<>> \in Seq([name : Names, values : Seq(Values)]) /\ DOMAIN <<>> = {} OBVIOUS
  <2> QED BY <2>1 DEF LegalFields
<1>2. \A fs \in A, op \in E : Edited(fs, op) \in A BY EditIsLegal
<1>3. \A p \in A \X E : p[1] \in A /\ p[2] \in E OBVIOUS
<1> HIDE DEF A, E
<1>4. BuildStepOf(Names, Values) = [p \in A \X E |-> Edited(p[1], p[2])] BY DEF BuildStepOf, A, E
<1>5. BuildStepOf(Names, Values) \in [A \X E -> A]
  <2>1. \A p \in A \X E : Edited(p[1], p[2]) \in A BY <1>2, <1>3
  <2> QED BY <1>4, <2>1
<1>6. \A fs \in A, op \in E : BuildStepOf(Names, Values)[<<fs, op>>] = Edited(fs, op) BY <1>4
<1> QED BY <1>1, <1>5, <1>6 DEF IsBuildStep, A, E

\* What is built is what a run along the calls comes to.
LEMMA BuildRuns ==
  ASSUME NEW Names, NEW Values, NEW ops \in Seq(BuilderOps(Names, Values))
  PROVE  \E r : /\ RunsAlong(r, LegalFields(Names, Values), BuildStepOf(Names, Values), <<>>, ops)
                /\ HeadersBuilt(ops) = r[Len(ops)]
<1> DEFINE A == LegalFields(Names, Values)
           E == BuilderOps(Names, Values)
           step == BuildStepOf(Names, Values)
           n == Len(ops)
<1>0. IsBuildStep(A, E, step) BY BuildStepIs
<1>2. n \in Nat /\ DOMAIN ops = 1 .. n /\ ops \in Seq(E) /\ \A k \in 1 .. n : ops[k] \in E OBVIOUS
<1> HIDE DEF A, E, step, n
<1>1. /\ <<>> \in A /\ step \in [A \X E -> A]
      /\ \A fs \in A, op \in E : step[<<fs, op>>] = Edited(fs, op)
  BY <1>0 DEF IsBuildStep
<1>3. \E iter : BuildFold(iter, ops, n)
  <2>1. PICK iter \in [SUBSET (1 .. Len(ops)) -> A] : FoldOver(iter, step, <<>>, ops) BY <1>1, <1>2, FoldsExist
  <2> DEFINE h == [S \in SUBSET (1 .. n) |->
                     IF S = {} THEN <<>> ELSE Edited(iter[S \ {Max(S)}], ops[Max(S)])]
  <2>2. ASSUME NEW S \in SUBSET (1 .. n) PROVE iter[S] = h[S]
    <3>1. CASE S = {} BY <2>1, <3>1 DEF FoldOver
    <3>2. CASE S # {}
      <4>1. Max(S) \in 1 .. n /\ S \ {Max(S)} \in SUBSET (1 .. n) BY <1>2, <3>2, MaxOf
      <4>2. iter[S \ {Max(S)}] \in A /\ ops[Max(S)] \in E BY <1>2, <2>1, <4>1 DEF n
      <4>3. iter[S] = step[<<iter[S \ {Max(S)}], ops[Max(S)]>>] BY <2>1, <3>2 DEF FoldOver, n
      <4>4. iter[S] = Edited(iter[S \ {Max(S)}], ops[Max(S)]) BY <1>1, <4>2, <4>3
      <4> QED BY <3>2, <4>4
    <3> QED BY <3>1, <3>2
  <2>3. iter = h
    <3>1. DOMAIN h = SUBSET (1 .. n) /\ h = [S \in SUBSET (1 .. n) |-> h[S]] OBVIOUS
    <3>2. iter = [S \in SUBSET (1 .. n) |-> iter[S]] BY <2>1 DEF n
    <3> HIDE DEF h
    <3> QED BY <2>2, <3>1, <3>2
  <2> HIDE DEF h
  <2>4. BuildFold(iter, ops, n) BY <2>3 DEF BuildFold, h
  <2> QED BY <2>4
<1>4. HeadersBuilt(ops) = (CHOOSE iter : BuildFold(iter, ops, n))[1 .. n]
  BY <1>2 DEF HeadersBuilt, BuildFold, FoldLeft, MapThenFoldSet
<1>5. PICK g : BuildFold(g, ops, n) /\ HeadersBuilt(ops) = g[1 .. n] BY <1>3, <1>4
<1> DEFINE h == [S \in SUBSET (1 .. n) |->
                   IF S = {} THEN <<>> ELSE Edited(g[S \ {Max(S)}], ops[Max(S)])]
<1>6. g = h BY <1>5 DEF BuildFold
<1>7. h[{}] = <<>> OBVIOUS
<1>8. ASSUME NEW k \in 1 .. n PROVE h[1 .. k] = Edited(g[1 .. k - 1], ops[k])
  <2>1. /\ 1 .. k \in SUBSET (1 .. n) /\ 1 .. k # {} /\ Max(1 .. k) = k
        /\ (1 .. k) \ {k} = 1 .. (k - 1)
    BY <1>2, FoldOverAt
  <2>2. h[1 .. k] = Edited(g[(1 .. k) \ {Max(1 .. k)}], ops[Max(1 .. k)]) BY <2>1
  <2> HIDE DEF h
  <2> QED BY <2>1, <2>2
<1> HIDE DEF h
<1>9. ASSUME NEW k \in 1 .. n, g[1 .. k - 1] \in A PROVE g[1 .. k] = step[<<g[1 .. k - 1], ops[k]>>]
  BY <1>1, <1>2, <1>6, <1>8, <1>9
<1>10. g[{}] = <<>> BY <1>6, <1>7
<1>11. GoesAlong(g, A, step, ops) BY <1>9 DEF GoesAlong, n
<1>12. RunEnds(A, step, <<>>, ops, g[1 .. Len(ops)])
  <2> DEFINE base == <<>>
  <2>1. base \in A /\ step \in [A \X E -> A] /\ ops \in Seq(E) /\ g[{}] = base BY <1>1, <1>2, <1>10
  <2> HIDE DEF base
  <2>2. RunEnds(A, step, base, ops, g[1 .. Len(ops)]) BY <1>11, <2>1, FoldRuns
  <2> QED BY <2>2 DEF base
<1> QED BY <1>5, <1>12 DEF RunEnds, A, step, n

\* A call more.
LEMMA BuiltGrows ==
  ASSUME NEW Names, NEW Values
  PROVE  /\ HeadersBuilt(<<>>) = <<>>
         /\ \A ops \in Seq(BuilderOps(Names, Values)) : HeadersBuilt(ops) \in LegalFields(Names, Values)
         /\ \A ops \in Seq(BuilderOps(Names, Values)), op \in BuilderOps(Names, Values) :
              HeadersBuilt(Append(ops, op)) = Edited(HeadersBuilt(ops), op)
<1> DEFINE A == LegalFields(Names, Values)
           E == BuilderOps(Names, Values)
           step == BuildStepOf(Names, Values)
<1>0. IsBuildStep(A, E, step) BY BuildStepIs
<1>2. \A ops \in Seq(E) : \E r : RunsAlong(r, A, step, <<>>, ops) /\ HeadersBuilt(ops) = r[Len(ops)] BY BuildRuns
<1> HIDE DEF A, E, step
<1>1. /\ <<>> \in A /\ step \in [A \X E -> A]
      /\ \A fs \in A, op \in E : step[<<fs, op>>] = Edited(fs, op)
  BY <1>0 DEF IsBuildStep
<1>3. HeadersBuilt(<<>>) = <<>>
  <2>1. <<>> \in Seq(E) /\ Len(<<>>) = 0 OBVIOUS
  <2>2. PICK r : RunsAlong(r, A, step, <<>>, <<>>) /\ HeadersBuilt(<<>>) = r[Len(<<>>)] BY <1>2, <2>1
  <2> QED BY <2>1, <2>2 DEF RunsAlong
<1>4. ASSUME NEW ops \in Seq(E) PROVE HeadersBuilt(ops) \in A
  <2>1. PICK r : RunsAlong(r, A, step, <<>>, ops) /\ HeadersBuilt(ops) = r[Len(ops)] BY <1>2
  <2>2. Len(ops) \in 0 .. Len(ops) OBVIOUS
  <2> QED BY <2>1, <2>2 DEF RunsAlong
<1>5. ASSUME NEW ops \in Seq(E), NEW op \in E PROVE HeadersBuilt(Append(ops, op)) = Edited(HeadersBuilt(ops), op)
  <2>1. PICK r : RunsAlong(r, A, step, <<>>, ops) /\ HeadersBuilt(ops) = r[Len(ops)] BY <1>2
  <2>2. Append(ops, op) \in Seq(E) /\ Len(Append(ops, op)) = Len(ops) + 1 OBVIOUS
  <2>3. PICK q : RunsAlong(q, A, step, <<>>, Append(ops, op)) /\ HeadersBuilt(Append(ops, op)) = q[Len(Append(ops, op))]
    BY <1>2, <2>2
  <2>4. q[Len(ops) + 1] = step[<<r[Len(ops)], op>>] /\ r[Len(ops)] \in A BY <1>1, <2>1, <2>3, RunsGoOn
  <2> QED BY <1>1, <2>1, <2>2, <2>3, <2>4
<1> QED BY <1>3, <1>4, <1>5 DEF A, E

-----------------------------------------------------------------------------
(* A call more in the history, and the field it leaves behind.              *)

Hits(op, lower) ==
  op.call # "newBuilder" /\ op.name.lower = lower /\ Accepted(op.call, op.name, op.value)
Sets(op) == op.call \in {"set", "setInbound"}

\* What the calls of a name are when there is one more call.
LEMMA AboutGrows ==
  ASSUME NEW E, NEW ops \in Seq(E), NEW op \in E, NEW lower
  PROVE  /\ \A i \in 1 .. Len(ops) : About(Append(ops, op), i, lower) <=> About(ops, i, lower)
         /\ About(Append(ops, op), Len(ops) + 1, lower) <=> Hits(op, lower)
<1> DEFINE n == Len(ops)
           all == Append(ops, op)
<1>1. all[n + 1] = op /\ \A i \in 1 .. n : all[i] = ops[i] OBVIOUS
<1> HIDE DEF n, all
<1> QED BY <1>1 DEF About, Hits, n, all

LEMMA CallsAre ==
  ASSUME NEW E, NEW ops \in Seq(E), NEW lower
  PROVE  /\ SinceRemoval(ops, lower) \in SUBSET (1 .. Len(ops))
         /\ SinceSet(ops, lower) \subseteq SinceRemoval(ops, lower)
<1>1. DOMAIN ops = 1 .. Len(ops) OBVIOUS
<1> QED BY <1>1 DEF SinceRemoval, SinceSet

\* A call about something else.
LEMMA CallsRest ==
  ASSUME NEW E, NEW ops \in Seq(E), NEW op \in E, NEW lower, ~ Hits(op, lower)
  PROVE  /\ SinceRemoval(Append(ops, op), lower) = SinceRemoval(ops, lower)
         /\ SinceSet(Append(ops, op), lower) = SinceSet(ops, lower)
<1> DEFINE n == Len(ops)
           all == Append(ops, op)
           Was(i) == About(ops, i, lower)
           Is(i) == About(all, i, lower)
<1>1. /\ n \in Nat /\ DOMAIN ops = 1 .. n /\ DOMAIN all = 1 .. n + 1 /\ Len(all) = n + 1
      /\ \A i \in 1 .. n : all[i] = ops[i]
  OBVIOUS
<1>2. ~ Is(n + 1) /\ \A i \in 1 .. n : Is(i) <=> Was(i) BY AboutGrows
<1> DEFINE Lives(i) == Was(i) /\ \A j \in i .. n : Was(j) => ops[j].call # "remove"
           LivesOn(i) == Is(i) /\ \A j \in i .. n + 1 : Is(j) => all[j].call # "remove"
           Counts(i) == \A j \in i + 1 .. n : Was(j) => ~ Sets(ops[j])
           CountsOn(i) == \A j \in i + 1 .. n + 1 : Is(j) => ~ Sets(all[j])
<1>3. /\ SinceRemoval(ops, lower) = {i \in 1 .. n : Lives(i)}
      /\ SinceRemoval(all, lower) = {i \in 1 .. n + 1 : LivesOn(i)}
      /\ SinceSet(ops, lower) = {i \in SinceRemoval(ops, lower) : Counts(i)}
      /\ SinceSet(all, lower) = {i \in SinceRemoval(all, lower) : CountsOn(i)}
  <2> HIDE DEF all
  <2> QED BY <1>1 DEF SinceRemoval, SinceSet, Sets
<1> HIDE DEF n, all, Was, Is
<1>4. \A i \in 1 .. n + 1 : i = n + 1 \/ i \in 1 .. n BY <1>1
<1>5. \A i \in 1 .. n : LivesOn(i) <=> Lives(i)
  <2> TAKE i \in 1 .. n
  <2>1. \A j \in i .. n : j \in i .. n + 1 /\ j \in 1 .. n BY <1>1
  <2>2. \A j \in i .. n + 1 : j = n + 1 \/ j \in i .. n BY <1>1
  <2> QED BY <1>1, <1>2, <2>1, <2>2
<1>6. \A i \in 1 .. n : CountsOn(i) <=> Counts(i)
  <2> TAKE i \in 1 .. n
  <2>1. \A j \in i + 1 .. n : j \in i + 1 .. n + 1 /\ j \in 1 .. n BY <1>1
  <2>2. \A j \in i + 1 .. n + 1 : j = n + 1 \/ j \in i + 1 .. n BY <1>1
  <2> QED BY <1>1, <1>2, <2>1, <2>2
<1>7. ~ LivesOn(n + 1) BY <1>2
<1> HIDE DEF Lives, LivesOn, Counts, CountsOn
<1>8. {i \in 1 .. n + 1 : LivesOn(i)} = {i \in 1 .. n : Lives(i)}
  <2>1. \A i \in 1 .. n : i \in 1 .. n + 1 BY <1>1
  <2> QED BY <1>4, <1>5, <1>7, <2>1
<1>9. SinceSet(all, lower) = SinceSet(ops, lower) BY <1>3, <1>6, <1>8
<1> QED BY <1>3, <1>8, <1>9 DEF all

\* A removal.
LEMMA CallsRemoved ==
  ASSUME NEW E, NEW ops \in Seq(E), NEW op \in E, NEW lower, Hits(op, lower), op.call = "remove"
  PROVE  SinceRemoval(Append(ops, op), lower) = {}
<1> DEFINE n == Len(ops)
           all == Append(ops, op)
<1>1. n \in Nat /\ DOMAIN all = 1 .. n + 1 /\ Len(all) = n + 1 /\ all[n + 1] = op OBVIOUS
<1>2. About(all, n + 1, lower) BY AboutGrows
<1> HIDE DEF n, all
<1>3. \A i \in 1 .. n + 1 : n + 1 \in i .. n + 1 BY <1>1
<1> QED BY <1>1, <1>2, <1>3 DEF SinceRemoval, all

\* A value more, or a first one.
LEMMA CallsMore ==
  ASSUME NEW E, NEW ops \in Seq(E), NEW op \in E, NEW lower, Hits(op, lower), op.call # "remove"
  PROVE  /\ SinceRemoval(Append(ops, op), lower) = SinceRemoval(ops, lower) \cup {Len(ops) + 1}
         /\ SinceSet(Append(ops, op), lower) =
              IF Sets(op) THEN {Len(ops) + 1} ELSE SinceSet(ops, lower) \cup {Len(ops) + 1}
<1> DEFINE n == Len(ops)
           all == Append(ops, op)
           Was(i) == About(ops, i, lower)
           Is(i) == About(all, i, lower)
<1>1. /\ n \in Nat /\ DOMAIN ops = 1 .. n /\ DOMAIN all = 1 .. n + 1 /\ Len(all) = n + 1
      /\ all[n + 1] = op /\ \A i \in 1 .. n : all[i] = ops[i]
  OBVIOUS
<1>2. Is(n + 1) /\ \A i \in 1 .. n : Is(i) <=> Was(i) BY AboutGrows
<1> DEFINE Lives(i) == Was(i) /\ \A j \in i .. n : Was(j) => ops[j].call # "remove"
           LivesOn(i) == Is(i) /\ \A j \in i .. n + 1 : Is(j) => all[j].call # "remove"
           Counts(i) == \A j \in i + 1 .. n : Was(j) => ~ Sets(ops[j])
           CountsOn(i) == \A j \in i + 1 .. n + 1 : Is(j) => ~ Sets(all[j])
<1>3. /\ SinceRemoval(ops, lower) = {i \in 1 .. n : Lives(i)}
      /\ SinceRemoval(all, lower) = {i \in 1 .. n + 1 : LivesOn(i)}
      /\ SinceSet(ops, lower) = {i \in SinceRemoval(ops, lower) : Counts(i)}
      /\ SinceSet(all, lower) = {i \in SinceRemoval(all, lower) : CountsOn(i)}
  <2> HIDE DEF all
  <2> QED BY <1>1 DEF SinceRemoval, SinceSet, Sets
<1> HIDE DEF n, all, Was, Is
<1>4. \A i \in 1 .. n + 1 : i = n + 1 \/ i \in 1 .. n BY <1>1
<1>5. \A i \in 1 .. n : LivesOn(i) <=> Lives(i)
  <2> TAKE i \in 1 .. n
  <2>1. \A j \in i .. n : j \in i .. n + 1 /\ j \in 1 .. n BY <1>1
  <2>2. \A j \in i .. n + 1 : j = n + 1 \/ j \in i .. n BY <1>1
  <2> QED BY <1>1, <1>2, <2>1, <2>2
<1>6. \A i \in 1 .. n : CountsOn(i) <=> ~ Sets(op) /\ Counts(i)
  <2> TAKE i \in 1 .. n
  <2>1. \A j \in i + 1 .. n : j \in i + 1 .. n + 1 /\ j \in 1 .. n BY <1>1
  <2>2. \A j \in i + 1 .. n + 1 : j = n + 1 \/ j \in i + 1 .. n BY <1>1
  <2>3. n + 1 \in i + 1 .. n + 1 BY <1>1
  <2> QED BY <1>1, <1>2, <2>1, <2>2, <2>3
<1>7. LivesOn(n + 1) /\ CountsOn(n + 1)
  <2>1. \A j \in n + 1 .. n + 1 : j = n + 1 BY <1>1
  <2>2. ~ \E j \in n + 1 + 1 .. n + 1 : TRUE BY <1>1
  <2> QED BY <1>1, <1>2, <2>1, <2>2
<1> HIDE DEF Lives, LivesOn, Counts, CountsOn
<1>8. {i \in 1 .. n + 1 : LivesOn(i)} = {i \in 1 .. n : Lives(i)} \cup {n + 1}
  <2>1. n + 1 \in 1 .. n + 1 /\ \A i \in 1 .. n : i \in 1 .. n + 1 BY <1>1
  <2> QED BY <1>4, <1>5, <1>7, <2>1
<1>9. SinceRemoval(all, lower) = SinceRemoval(ops, lower) \cup {n + 1} BY <1>3, <1>8
<1>10. SinceRemoval(ops, lower) \in SUBSET (1 .. n) BY <1>3
<1>11. CASE Sets(op)
  <2>1. SinceSet(all, lower) = {n + 1}
    <3>1. \A i \in SinceRemoval(all, lower) : CountsOn(i) <=> i = n + 1 BY <1>6, <1>7, <1>9, <1>10, <1>11
    <3>2. n + 1 \in SinceRemoval(all, lower) BY <1>9
    <3> QED BY <1>3, <3>1, <3>2
  <2> QED BY <1>9, <1>11, <2>1 DEF all, n
<1>12. CASE ~ Sets(op)
  <2>1. SinceSet(all, lower) = SinceSet(ops, lower) \cup {n + 1}
    <3>1. \A i \in SinceRemoval(ops, lower) : CountsOn(i) <=> Counts(i) BY <1>6, <1>10, <1>12
    <3>2. {i \in SinceRemoval(all, lower) : CountsOn(i)} = {i \in SinceRemoval(ops, lower) : Counts(i)} \cup {n + 1}
      BY <1>7, <1>9, <3>1
    <3> QED BY <1>3, <3>2
  <2> QED BY <1>9, <1>12, <2>1 DEF all, n
<1> QED BY <1>11, <1>12

\* A field that is left stays so when there is one more call.
LEMMA LeftStays ==
  ASSUME NEW E, NEW ops \in Seq(E), NEW op \in E, NEW calls \in SUBSET (1 .. Len(ops)), NEW field,
         LeftBy(ops, calls, field), NEW V, field.values \in Seq(V)
  PROVE  LeftBy(Append(ops, op), calls, field) /\ calls # {}
<1> DEFINE n == Len(ops)
           all == Append(ops, op)
           vs == field.values
<1>1. \A i \in 1 .. n : all[i] = ops[i] OBVIOUS
<1>2. PICK at \in [DOMAIN vs -> calls] :
        /\ calls = {at[k] : k \in DOMAIN vs}
        /\ \A k \in DOMAIN vs : vs[k] = ops[at[k]].value /\ \A j \in 1 .. k - 1 : at[j] < at[k]
        /\ vs # <<>> /\ field.name = ops[at[1]].name
  BY DEF LeftBy
<1>3. 1 \in DOMAIN vs
  <2>1. vs \in Seq(V) /\ vs # <<>> BY <1>2
  <2> HIDE DEF vs
  <2>2. Len(vs) \in Nat /\ DOMAIN vs = 1 .. Len(vs) /\ Len(vs) # 0 BY <2>1, EmptySeq
  <2> QED BY <2>2
<1> HIDE DEF n, all, vs
<1>4. \A k \in DOMAIN vs : at[k] \in 1 .. n BY <1>2 DEF n
<1>5. /\ \A k \in DOMAIN vs : vs[k] = all[at[k]].value /\ \A j \in 1 .. k - 1 : at[j] < at[k]
      /\ vs # <<>> /\ field.name = all[at[1]].name
  BY <1>1, <1>2, <1>3, <1>4
<1>6. LeftBy(all, calls, field) BY <1>2, <1>5 DEF LeftBy, vs
<1>7. calls # {} BY <1>2, <1>3
<1> QED BY <1>6, <1>7 DEF all

\* A value more in it.
LEMMA LeftMore ==
  ASSUME NEW E, NEW ops \in Seq(E), NEW op \in E, NEW calls \in SUBSET (1 .. Len(ops)), NEW field,
         LeftBy(ops, calls, field), NEW V, field.values \in Seq(V), op.value \in V
  PROVE  LeftBy(Append(ops, op), calls \cup {Len(ops) + 1},
                [name |-> field.name, values |-> Append(field.values, op.value)])
<1> DEFINE m == Len(ops) + 1
           all == Append(ops, op)
           vs == field.values
           n == Len(vs)
           ws == Append(vs, op.value)
           more == [name |-> field.name, values |-> ws]
<1>1. m \in Nat /\ all[m] = op /\ \A i \in 1 .. Len(ops) : all[i] = ops[i] /\ i < m OBVIOUS
<1>2. PICK at \in [DOMAIN vs -> calls] :
        /\ calls = {at[k] : k \in DOMAIN vs}
        /\ \A k \in DOMAIN vs : vs[k] = ops[at[k]].value /\ \A j \in 1 .. k - 1 : at[j] < at[k]
        /\ vs # <<>> /\ field.name = ops[at[1]].name
  BY DEF LeftBy
<1>3. more.values = ws /\ more.name = field.name OBVIOUS
<1> HIDE DEF more
<1>4. vs \in Seq(V) /\ op.value \in V OBVIOUS
<1> HIDE DEF vs, m, all
<1>5. /\ n \in Nat /\ DOMAIN vs = 1 .. n /\ DOMAIN ws = 1 .. n + 1 /\ ws[n + 1] = op.value
      /\ \A k \in 1 .. n : ws[k] = vs[k]
  BY <1>4
<1>6. n # 0 /\ ws # <<>>
  <2>1. n # 0 BY <1>2, <1>4, EmptySeq
  <2>2. n + 1 \in DOMAIN ws BY <1>5
  <2> QED BY <2>1, <2>2
<1> HIDE DEF n, ws
<1> DEFINE to == [k \in 1 .. n + 1 |-> IF k = n + 1 THEN m ELSE at[k]]
<1>7. \A k \in 1 .. n + 1 : k = n + 1 \/ (k \in 1 .. n /\ k # n + 1) BY <1>5
<1>8. \A k \in 1 .. n : k \in 1 .. n + 1 /\ k # n + 1 BY <1>5
<1>9. \A k \in 1 .. n : at[k] \in calls /\ at[k] \in 1 .. Len(ops) BY <1>2, <1>5
<1>10. n + 1 \in 1 .. n + 1 BY <1>5
<1>11. to[n + 1] = m /\ (\A k \in 1 .. n : to[k] = at[k]) /\ DOMAIN to = 1 .. n + 1 BY <1>8, <1>10
<1>12. to \in [1 .. n + 1 -> calls \cup {m}]
  <2>1. \A k \in 1 .. n + 1 : (IF k = n + 1 THEN m ELSE at[k]) \in calls \cup {m} BY <1>7, <1>9
  <2> QED BY <2>1
<1> HIDE DEF to
<1>13. calls \cup {m} = {to[k] : k \in 1 .. n + 1}
  <2>1. ASSUME NEW c \in calls \cup {m} PROVE c \in {to[k] : k \in 1 .. n + 1}
    <3>1. CASE c = m BY <1>10, <1>11, <3>1
    <3>2. CASE c \in calls
      <4>1. PICK k \in 1 .. n : c = at[k] BY <1>2, <1>5, <3>2
      <4> QED BY <1>8, <1>11, <4>1
    <3> QED BY <3>1, <3>2
  <2>2. \A k \in 1 .. n + 1 : to[k] \in calls \cup {m} BY <1>12
  <2> QED BY <2>1, <2>2
<1>14. ASSUME NEW k \in 1 .. n + 1
       PROVE  ws[k] = all[to[k]].value /\ \A j \in 1 .. k - 1 : to[j] < to[k]
  <2>1. CASE k = n + 1
    <3>1. ws[k] = all[to[k]].value BY <1>1, <1>5, <1>11, <2>1
    <3>2. \A j \in 1 .. k - 1 : j \in 1 .. n BY <1>5, <2>1
    <3>3. \A j \in 1 .. n : to[j] < m BY <1>1, <1>9, <1>11
    <3> QED BY <1>11, <2>1, <3>1, <3>2, <3>3
  <2>2. CASE k # n + 1
    <3>1. k \in 1 .. n /\ \A j \in 1 .. k - 1 : j \in 1 .. n BY <1>5, <2>2
    <3>2. ws[k] = all[to[k]].value
      <4>1. ws[k] = vs[k] /\ to[k] = at[k] /\ k \in DOMAIN vs BY <1>5, <1>11, <3>1
      <4>2. vs[k] = ops[at[k]].value BY <1>2, <4>1
      <4>3. all[at[k]] = ops[at[k]] BY <1>1, <1>9, <3>1
      <4> QED BY <4>1, <4>2, <4>3
    <3>3. \A j \in 1 .. k - 1 : at[j] < at[k] BY <1>2, <1>5, <3>1
    <3> QED BY <1>11, <3>1, <3>2, <3>3
  <2> QED BY <2>1, <2>2
<1>15. field.name = all[to[1]].name
  <2>1. 1 \in 1 .. n BY <1>5, <1>6
  <2> QED BY <1>1, <1>2, <1>9, <1>11, <2>1
<1>16. LeftBy(all, calls \cup {m}, more) BY <1>3, <1>5, <1>6, <1>12, <1>13, <1>14, <1>15 DEF LeftBy
<1> QED BY <1>16 DEF all, m, more, ws, vs

\* A first value.
LEMMA LeftFirst ==
  ASSUME NEW E, NEW ops \in Seq(E), NEW op \in E
  PROVE  LeftBy(Append(ops, op), {Len(ops) + 1}, [name |-> op.name, values |-> <<op.value>>])
<1> DEFINE m == Len(ops) + 1
           all == Append(ops, op)
           vs == <<op.value>>
           field == [name |-> op.name, values |-> vs]
           at == [k \in 1 .. 1 |-> m]
<1>1. all[m] = op OBVIOUS
<1>2. DOMAIN vs = 1 .. 1 /\ vs[1] = op.value /\ vs # <<>> OBVIOUS
<1>3. field.values = vs /\ field.name = op.name OBVIOUS
<1>4. \A k \in 1 .. 1 : k = 1 /\ ~ \E j \in 1 .. k - 1 : TRUE OBVIOUS
<1>5. 1 \in 1 .. 1 OBVIOUS
<1> HIDE DEF m, all, vs, field
<1>6. at \in [1 .. 1 -> {m}] /\ at[1] = m /\ {m} = {at[k] : k \in 1 .. 1} BY <1>4, <1>5
<1> HIDE DEF at
<1>7. \A k \in DOMAIN vs : vs[k] = all[at[k]].value /\ \A j \in 1 .. k - 1 : at[j] < at[k] BY <1>1, <1>2, <1>4, <1>6
<1>8. LeftBy(all, {m}, field) BY <1>1, <1>2, <1>3, <1>6, <1>7 DEF LeftBy
<1> QED BY <1>8 DEF all, m, field, vs

-----------------------------------------------------------------------------
(* The history of the headers that were built.                              *)

HasAll(ops, fs) == \A lower : SinceRemoval(ops, lower) # {} => HasField(fs, lower)
AllLeft(ops, fs) == \A i \in DOMAIN fs : LeftBy(ops, SinceSet(ops, fs[i].name.lower), fs[i])
BornBefore(ops, one, other) ==
  \E birth \in SinceRemoval(ops, one) : \A c \in SinceRemoval(ops, other) : birth < c
InBirths(ops, fs) ==
  \A i \in DOMAIN fs : \A j \in 1 .. i - 1 : BornBefore(ops, fs[j].name.lower, fs[i].name.lower)
History(ops, fs) == HasAll(ops, fs) /\ AllLeft(ops, fs) /\ InBirths(ops, fs)

\* A field keeps its calls when the call is about another name.
LEMMA FieldRests ==
  ASSUME NEW Names, NEW Values, NEW Ops, NEW ops \in Seq(Ops), NEW op \in Ops,
         NEW f, LegalField(Names, Values, f), ~ Hits(op, f.name.lower),
         LeftBy(ops, SinceSet(ops, f.name.lower), f)
  PROVE  LeftBy(Append(ops, op), SinceSet(Append(ops, op), f.name.lower), f)
<1> DEFINE lower == f.name.lower
           calls == SinceSet(ops, lower)
<1>1. f.values \in Seq(Values) BY DEF LegalField
<1>2. calls \in SUBSET (1 .. Len(ops)) BY CallsAre
<1>3. SinceSet(Append(ops, op), lower) = calls BY CallsRest
<1>4. LeftBy(ops, calls, f) OBVIOUS
<1> HIDE DEF calls
<1>5. LeftBy(Append(ops, op), calls, f) BY <1>1, <1>2, <1>4, LeftStays
<1> QED BY <1>3, <1>5

\* A field has a call behind it.
LEMMA FieldLives ==
  ASSUME NEW Names, NEW Values, NEW Ops, NEW ops \in Seq(Ops), NEW op \in Ops,
         NEW f, LegalField(Names, Values, f), LeftBy(ops, SinceSet(ops, f.name.lower), f)
  PROVE  SinceRemoval(ops, f.name.lower) # {}
<1> DEFINE lower == f.name.lower
           calls == SinceSet(ops, lower)
<1>1. f.values \in Seq(Values) BY DEF LegalField
<1>2. calls \in SUBSET (1 .. Len(ops)) /\ calls \subseteq SinceRemoval(ops, lower) BY CallsAre
<1>3. LeftBy(ops, calls, f) OBVIOUS
<1> HIDE DEF calls
<1>4. calls # {} BY <1>1, <1>2, <1>3, LeftStays
<1> QED BY <1>2, <1>4

\* Two names keep the order of their births, unless one is removed.
LEMMA BornStays ==
  ASSUME NEW Ops, NEW ops \in Seq(Ops), NEW op \in Ops, NEW one, NEW other, BornBefore(ops, one, other),
         op.call # "remove" \/ (~ Hits(op, one) /\ ~ Hits(op, other))
  PROVE  BornBefore(Append(ops, op), one, other)
<1> DEFINE m == Len(ops) + 1
           all == Append(ops, op)
<1>1. /\ m \in Nat /\ SinceRemoval(ops, one) \in SUBSET (1 .. Len(ops)) /\ \A i \in 1 .. Len(ops) : i < m
  BY CallsAre
<1>2. SinceRemoval(all, one) \in {SinceRemoval(ops, one), SinceRemoval(ops, one) \cup {m}}
  <2>1. CASE Hits(op, one) BY <2>1, CallsMore
  <2>2. CASE ~ Hits(op, one) BY <2>2, CallsRest
  <2> QED BY <2>1, <2>2
<1>3. SinceRemoval(all, other) \in {SinceRemoval(ops, other), SinceRemoval(ops, other) \cup {m}}
  <2>1. CASE Hits(op, other) BY <2>1, CallsMore
  <2>2. CASE ~ Hits(op, other) BY <2>2, CallsRest
  <2> QED BY <2>1, <2>2
<1> HIDE DEF m, all
<1>4. PICK birth \in SinceRemoval(ops, one) : \A c \in SinceRemoval(ops, other) : birth < c BY DEF BornBefore
<1>5. birth \in SinceRemoval(all, one) /\ birth < m BY <1>1, <1>2, <1>4
<1>6. \A c \in SinceRemoval(all, other) : c = m \/ c \in SinceRemoval(ops, other) BY <1>3
<1>7. BornBefore(all, one, other) BY <1>4, <1>5, <1>6 DEF BornBefore
<1> QED BY <1>7 DEF all

\* What is said of every field of legal headers.
FieldsAre(Names, Values, fs) ==
  /\ Len(fs) \in Nat /\ DOMAIN fs = 1 .. Len(fs)
  /\ \A i \in DOMAIN fs : LegalField(Names, Values, fs[i])
  /\ \A i, j \in DOMAIN fs : fs[i].name.lower = fs[j].name.lower => i = j
LEMMA LegalFieldsAre ==
  ASSUME NEW Names, NEW Values, NEW fs \in LegalFields(Names, Values)
  PROVE  FieldsAre(Names, Values, fs)
BY DEF FieldsAre, LegalFields
LEMMA HasFieldIs ==
  ASSUME NEW fs, NEW lower
  PROVE  HasField(fs, lower) <=> \E i \in DOMAIN fs : fs[i].name.lower = lower
BY DEF HasField, FieldAt

\* A call that changes nothing: it is about none of the fields, or refused.
LEMMA RestHistory ==
  ASSUME NEW Names, NEW Values, NEW Ops, NEW ops \in Seq(Ops), NEW op \in Ops,
         NEW fs \in LegalFields(Names, Values), History(ops, fs),
         \A lower : Hits(op, lower) => op.call = "remove" /\ ~ HasField(fs, lower)
  PROVE  History(Append(ops, op), fs)
<1> DEFINE all == Append(ops, op)
<1>0. FieldsAre(Names, Values, fs) BY LegalFieldsAre
<1>1. \A i \in DOMAIN fs : ~ Hits(op, fs[i].name.lower) BY HasFieldIs
<1>2. ASSUME NEW lower, SinceRemoval(all, lower) # {} PROVE HasField(fs, lower)
  <2>1. CASE Hits(op, lower) BY <1>2, <2>1, CallsRemoved
  <2>2. CASE ~ Hits(op, lower)
    <3>1. SinceRemoval(all, lower) = SinceRemoval(ops, lower) BY <2>2, CallsRest
    <3> QED BY <1>2, <3>1 DEF History, HasAll
  <2> QED BY <2>1, <2>2
<1>3. ASSUME NEW i \in DOMAIN fs PROVE LeftBy(all, SinceSet(all, fs[i].name.lower), fs[i])
  <2> DEFINE f == fs[i]
  <2>1. LegalField(Names, Values, f) /\ ~ Hits(op, f.name.lower) /\ LeftBy(ops, SinceSet(ops, f.name.lower), f)
    BY <1>0, <1>1 DEF FieldsAre, History, AllLeft
  <2> HIDE DEF f
  <2>2. LeftBy(all, SinceSet(all, f.name.lower), f) BY <2>1, FieldRests
  <2> QED BY <2>2 DEF f
<1>4. ASSUME NEW i \in DOMAIN fs, NEW j \in 1 .. i - 1
      PROVE  BornBefore(all, fs[j].name.lower, fs[i].name.lower)
  <2>1. j \in DOMAIN fs BY <1>0 DEF FieldsAre
  <2>2. BornBefore(ops, fs[j].name.lower, fs[i].name.lower) BY DEF History, InBirths
  <2> QED BY <1>1, <2>1, <2>2, BornStays
<1> HIDE DEF all
<1>5. History(all, fs) BY <1>2, <1>3, <1>4 DEF History, HasAll, AllLeft, InBirths
<1> QED BY <1>5 DEF all

\* A call that puts another field in the place of one of the same name.
LEMMA PutHistory ==
  ASSUME NEW Names, NEW Values, NEW Ops, NEW ops \in Seq(Ops), NEW op \in Ops,
         NEW fs \in LegalFields(Names, Values), History(ops, fs), NEW gs, NEW i, NEW f, PutAt(fs, gs, i, f),
         Hits(op, f.name.lower), op.call # "remove",
         LeftBy(Append(ops, op), SinceSet(Append(ops, op), f.name.lower), f)
  PROVE  History(Append(ops, op), gs)
<1> DEFINE all == Append(ops, op)
<1>0. FieldsAre(Names, Values, fs) BY LegalFieldsAre
<1>1. /\ i \in DOMAIN fs /\ DOMAIN gs = DOMAIN fs /\ gs[i] = f
      /\ \A j \in DOMAIN fs : gs[j].name.lower = fs[j].name.lower
      /\ \A j \in DOMAIN fs : j # i => gs[j] = fs[j]
  BY DEF PutAt
<1>2. \A j \in DOMAIN fs : j # i => ~ Hits(op, fs[j].name.lower)
  <2>1. \A lower : Hits(op, lower) => lower = f.name.lower BY DEF Hits
  <2> QED BY <1>0, <1>1, <2>1 DEF FieldsAre
<1>3. ASSUME NEW lower, SinceRemoval(all, lower) # {} PROVE HasField(gs, lower)
  <2>1. CASE Hits(op, lower)
    <3>1. lower = gs[i].name.lower BY <1>1, <2>1 DEF Hits
    <3> QED BY <1>1, <3>1, HasFieldIs
  <2>2. CASE ~ Hits(op, lower)
    <3>1. SinceRemoval(all, lower) = SinceRemoval(ops, lower) BY <2>2, CallsRest
    <3>2. HasField(fs, lower) BY <1>3, <3>1 DEF History, HasAll
    <3> QED BY <1>1, <3>2, HasFieldIs
  <2> QED BY <2>1, <2>2
<1>4. ASSUME NEW j \in DOMAIN gs PROVE LeftBy(all, SinceSet(all, gs[j].name.lower), gs[j])
  <2>1. CASE j = i BY <1>1, <2>1
  <2>2. CASE j # i
    <3> DEFINE h == fs[j]
    <3>1. LegalField(Names, Values, h) /\ ~ Hits(op, h.name.lower) /\ LeftBy(ops, SinceSet(ops, h.name.lower), h)
      BY <1>0, <1>1, <1>2, <2>2 DEF FieldsAre, History, AllLeft
    <3>2. gs[j] = h BY <1>1, <2>2
    <3> HIDE DEF h
    <3>3. LeftBy(all, SinceSet(all, h.name.lower), h) BY <3>1, FieldRests
    <3> QED BY <3>2, <3>3
  <2> QED BY <2>1, <2>2
<1>5. ASSUME NEW k \in DOMAIN gs, NEW j \in 1 .. k - 1
      PROVE  BornBefore(all, gs[j].name.lower, gs[k].name.lower)
  <2>1. j \in DOMAIN fs /\ k \in DOMAIN fs BY <1>0, <1>1 DEF FieldsAre
  <2>2. BornBefore(ops, fs[j].name.lower, fs[k].name.lower) BY <2>1 DEF History, InBirths
  <2>3. BornBefore(all, fs[j].name.lower, fs[k].name.lower) BY <2>2, BornStays
  <2> QED BY <1>1, <2>1, <2>3
<1> HIDE DEF all
<1>6. History(all, gs) BY <1>3, <1>4, <1>5 DEF History, HasAll, AllLeft, InBirths
<1> QED BY <1>6 DEF all

\* A call that puts a field behind the others.
LEMMA LastHistory ==
  ASSUME NEW Names, NEW Values, NEW Ops, NEW ops \in Seq(Ops), NEW op \in Ops,
         NEW fs \in LegalFields(Names, Values), History(ops, fs), NEW gs, NEW f, PutLast(fs, gs, f),
         gs \in LegalFields(Names, Values), Len(gs) = Len(fs) + 1, gs[Len(fs) + 1] = f,
         \A j \in 1 .. Len(fs) : gs[j] = fs[j],
         Hits(op, f.name.lower), op.call # "remove",
         LeftBy(Append(ops, op), SinceSet(Append(ops, op), f.name.lower), f)
  PROVE  History(Append(ops, op), gs)
<1> DEFINE all == Append(ops, op)
           n == Len(fs)
           m == Len(ops) + 1
<1>0. FieldsAre(Names, Values, fs) /\ FieldsAre(Names, Values, gs) BY LegalFieldsAre
<1>1. /\ n \in Nat /\ DOMAIN fs = 1 .. n /\ DOMAIN gs = 1 .. n + 1 /\ gs[n + 1] = f
      /\ \A j \in 1 .. n : gs[j] = fs[j] /\ fs[j].name.lower # f.name.lower
  BY <1>0 DEF FieldsAre, PutLast
<1>2. \A lower : Hits(op, lower) => lower = f.name.lower BY DEF Hits
<1> HIDE DEF n
<1>3. \A j \in DOMAIN gs : j = n + 1 \/ j \in DOMAIN fs BY <1>1
<1>4. n + 1 \in DOMAIN gs /\ \A j \in DOMAIN fs : j \in DOMAIN gs BY <1>1
<1>5. ASSUME NEW lower, SinceRemoval(all, lower) # {} PROVE HasField(gs, lower)
  <2>1. CASE Hits(op, lower)
    <3>1. lower = gs[n + 1].name.lower BY <1>1, <1>2, <2>1
    <3> QED BY <1>4, <3>1, HasFieldIs
  <2>2. CASE ~ Hits(op, lower)
    <3>1. SinceRemoval(all, lower) = SinceRemoval(ops, lower) BY <2>2, CallsRest
    <3>2. HasField(fs, lower) BY <1>5, <3>1 DEF History, HasAll
    <3> QED BY <1>1, <1>4, <3>2, HasFieldIs
  <2> QED BY <2>1, <2>2
<1>6. ASSUME NEW j \in DOMAIN gs PROVE LeftBy(all, SinceSet(all, gs[j].name.lower), gs[j])
  <2>1. CASE j = n + 1 BY <1>1, <2>1
  <2>2. CASE j # n + 1
    <3> DEFINE h == fs[j]
    <3>1. LegalField(Names, Values, h) /\ ~ Hits(op, h.name.lower) /\ LeftBy(ops, SinceSet(ops, h.name.lower), h)
      BY <1>0, <1>1, <1>2, <1>3, <2>2 DEF FieldsAre, History, AllLeft
    <3>2. gs[j] = h BY <1>1, <1>3, <2>2
    <3> HIDE DEF h
    <3>3. LeftBy(all, SinceSet(all, h.name.lower), h) BY <3>1, FieldRests
    <3> QED BY <3>2, <3>3
  <2> QED BY <2>1, <2>2
<1>7. ASSUME NEW k \in DOMAIN gs, NEW j \in 1 .. k - 1
      PROVE  BornBefore(all, gs[j].name.lower, gs[k].name.lower)
  <2>1. j \in DOMAIN fs /\ gs[j] = fs[j] BY <1>1
  <2>2. CASE k = n + 1
    <3> DEFINE lower == f.name.lower
               h == fs[j]
               one == h.name.lower
    <3>1. SinceRemoval(ops, lower) = {}
      <4>1. ~ HasField(fs, lower) BY <1>1, HasFieldIs
      <4> QED BY <4>1 DEF History, HasAll
    <3>2. SinceRemoval(all, lower) = {m} BY <3>1, CallsMore
    <3>3. SinceRemoval(all, one) = SinceRemoval(ops, one) BY <1>1, <1>2, <2>1, CallsRest
    <3>4. LegalField(Names, Values, h) /\ LeftBy(ops, SinceSet(ops, h.name.lower), h)
      BY <1>0, <2>1 DEF FieldsAre, History, AllLeft
    <3> HIDE DEF h
    <3>5. SinceRemoval(ops, one) # {} BY <3>4, FieldLives
    <3>6. SinceRemoval(ops, one) \in SUBSET (1 .. Len(ops)) /\ \A c \in 1 .. Len(ops) : c < m BY CallsAre
    <3> HIDE DEF m, one, lower
    <3>7. BornBefore(all, one, lower) BY <3>2, <3>3, <3>5, <3>6 DEF BornBefore
    <3> QED BY <1>1, <2>1, <2>2, <3>7 DEF h, one, lower
  <2>3. CASE k # n + 1
    <3>1. k \in DOMAIN fs /\ gs[k] = fs[k] BY <1>1, <1>3, <2>3
    <3>2. BornBefore(ops, fs[j].name.lower, fs[k].name.lower) BY <3>1 DEF History, InBirths
    <3>3. BornBefore(all, fs[j].name.lower, fs[k].name.lower) BY <3>2, BornStays
    <3> QED BY <2>1, <3>1, <3>3
  <2> QED BY <2>2, <2>3
<1> HIDE DEF all
<1>8. History(all, gs) BY <1>5, <1>6, <1>7 DEF History, HasAll, AllLeft, InBirths
<1> QED BY <1>8 DEF all

\* A call that takes a field out.
LEMMA OutHistory ==
  ASSUME NEW Names, NEW Values, NEW Ops, NEW ops \in Seq(Ops), NEW op \in Ops,
         NEW fs \in LegalFields(Names, Values), History(ops, fs), NEW i,
         NEW gs \in LegalFields(Names, Values), TakenOut(fs, gs, i),
         Hits(op, fs[i].name.lower), op.call = "remove"
  PROVE  History(Append(ops, op), gs)
<1> DEFINE all == Append(ops, op)
           n == Len(gs)
           Was(j) == IF j < i THEN j ELSE j + 1
<1>0. FieldsAre(Names, Values, fs) /\ FieldsAre(Names, Values, gs) BY LegalFieldsAre
<1>1. /\ n \in Nat /\ DOMAIN fs = 1 .. n + 1 /\ DOMAIN gs = 1 .. n /\ i \in 1 .. n + 1
      /\ \A j \in 1 .. i - 1 : gs[j] = fs[j]
      /\ \A j \in i .. n : gs[j] = fs[j + 1]
  BY <1>0 DEF FieldsAre, TakenOut
<1>2. \A lower : Hits(op, lower) => lower = fs[i].name.lower BY DEF Hits
<1> HIDE DEF n
<1>3. \A j \in 1 .. n : Was(j) \in 1 .. n + 1 /\ Was(j) # i BY <1>1
<1>4. \A j \in 1 .. n : gs[j] = fs[Was(j)]
  <2> TAKE j \in 1 .. n
  <2>1. (j < i /\ j \in 1 .. i - 1) \/ (~ j < i /\ j \in i .. n) BY <1>1
  <2> QED BY <1>1, <2>1
<1>5. \A j \in 1 .. n + 1 : j # i => \E k \in 1 .. n : Was(k) = j
  <2> TAKE j \in 1 .. n + 1
  <2> HAVE j # i
  <2>1. CASE j < i
    <3>1. j \in 1 .. n /\ Was(j) = j BY <1>1, <2>1
    <3> QED BY <3>1
  <2>2. CASE ~ j < i
    <3>1. j - 1 \in 1 .. n /\ ~ j - 1 < i /\ (j - 1) + 1 = j BY <1>1, <2>2
    <3>2. Was(j - 1) = j BY <3>1
    <3> QED BY <3>1, <3>2
  <2> QED BY <2>1, <2>2
<1>6. \A k \in 1 .. n : \A j \in 1 .. k - 1 : j \in 1 .. n /\ Was(j) \in 1 .. Was(k) - 1
  <2> TAKE k \in 1 .. n
  <2> TAKE j \in 1 .. k - 1
  <2>1. j \in 1 .. n /\ j < k BY <1>1
  <2> QED BY <1>1, <2>1
<1> HIDE DEF Was
<1>7. \A j \in DOMAIN fs : j # i => ~ Hits(op, fs[j].name.lower) BY <1>0, <1>1, <1>2 DEF FieldsAre
<1>8. ASSUME NEW lower, SinceRemoval(all, lower) # {} PROVE HasField(gs, lower)
  <2>1. ~ Hits(op, lower) BY <1>8, CallsRemoved
  <2>2. SinceRemoval(all, lower) = SinceRemoval(ops, lower) BY <2>1, CallsRest
  <2>3. HasField(fs, lower) BY <1>8, <2>2 DEF History, HasAll
  <2>4. PICK j \in DOMAIN fs : fs[j].name.lower = lower BY <2>3, HasFieldIs
  <2>5. j # i BY <2>1, <2>4
  <2>6. PICK k \in 1 .. n : Was(k) = j BY <1>1, <1>5, <2>5
  <2>7. k \in DOMAIN gs /\ gs[k].name.lower = lower BY <1>1, <1>4, <2>4, <2>6
  <2> QED BY <2>7, HasFieldIs
<1>9. ASSUME NEW j \in DOMAIN gs PROVE LeftBy(all, SinceSet(all, gs[j].name.lower), gs[j])
  <2> DEFINE w == Was(j)
             h == fs[w]
  <2>1. w \in DOMAIN fs /\ w # i /\ gs[j] = h BY <1>1, <1>3, <1>4
  <2>2. LegalField(Names, Values, h) /\ ~ Hits(op, h.name.lower) /\ LeftBy(ops, SinceSet(ops, h.name.lower), h)
    BY <1>0, <1>7, <2>1 DEF FieldsAre, History, AllLeft
  <2> HIDE DEF h
  <2>3. LeftBy(all, SinceSet(all, h.name.lower), h) BY <2>2, FieldRests
  <2> QED BY <2>1, <2>3
<1>10. ASSUME NEW k \in DOMAIN gs, NEW j \in 1 .. k - 1
       PROVE  BornBefore(all, gs[j].name.lower, gs[k].name.lower)
  <2> DEFINE v == Was(j)
             w == Was(k)
  <2>1. /\ v \in DOMAIN fs /\ v # i /\ gs[j] = fs[v] /\ w \in DOMAIN fs /\ w # i /\ gs[k] = fs[w]
        /\ v \in 1 .. w - 1
    BY <1>1, <1>3, <1>4, <1>6
  <2> HIDE DEF v, w
  <2>2. BornBefore(ops, fs[v].name.lower, fs[w].name.lower) BY <2>1 DEF History, InBirths
  <2>3. BornBefore(all, fs[v].name.lower, fs[w].name.lower) BY <1>7, <2>1, <2>2, BornStays
  <2> QED BY <2>1, <2>3
<1> HIDE DEF all
<1>11. History(all, gs) BY <1>8, <1>9, <1>10 DEF History, HasAll, AllLeft, InBirths
<1> QED BY <1>11 DEF all

\* One call, whatever it is.
LEMMA EditedHistory ==
  ASSUME NEW Names, NEW Values, NEW ops \in Seq(BuilderOps(Names, Values)),
         NEW op \in BuilderOps(Names, Values), NEW fs \in LegalFields(Names, Values), History(ops, fs)
  PROVE  History(Append(ops, op), Edited(fs, op))
<1> DEFINE O == BuilderOps(Names, Values)
           all == Append(ops, op)
           gs == Edited(fs, op)
           m == Len(ops) + 1
           lower == op.name.lower
<1>1. op.call \in BuilderCalls /\ op.name \in Names /\ op.value \in Values BY DEF BuilderOps
<1>2. ops \in Seq(O) /\ op \in O OBVIOUS
<1>3. gs \in LegalFields(Names, Values) BY EditIsLegal
<1> HIDE DEF O
<1>4. CASE op.call = "newBuilder" \/ ~ Accepted(op.call, op.name, op.value)
  <2>1. gs = fs BY <1>4, CopyIsTheSame DEF Edited
  <2>2. \A l : ~ Hits(op, l) BY <1>4 DEF Hits
  <2>3. History(all, fs) BY <1>2, <2>2, RestHistory
  <2> QED BY <2>1, <2>3
<1>5. CASE op.call # "newBuilder" /\ Accepted(op.call, op.name, op.value)
  <2>1. ValidName(op.name) /\ Hits(op, lower) /\ \A l : Hits(op, l) <=> l = lower
    BY <1>5 DEF Accepted, Hits
  <2>2. CASE op.call = "remove"
    <3>1. gs = RemoveField(fs, op.name) BY <1>5, <2>2 DEF Edited
    <3>2. CASE HasField(fs, lower)
      <4>1. PICK i \in DOMAIN fs : fs[i].name.lower = lower /\ TakenOut(fs, gs, i) BY <3>1, <3>2, Removed
      <4> HIDE DEF gs, lower
      <4>2. Hits(op, fs[i].name.lower) BY <2>1, <4>1
      <4>3. History(all, gs) BY <1>2, <1>3, <2>2, <4>1, <4>2, OutHistory
      <4> QED BY <4>3 DEF gs
    <3>3. CASE ~ HasField(fs, lower)
      <4>1. gs = fs BY <3>1, <3>3, Removed
      <4>2. \A l : Hits(op, l) => op.call = "remove" /\ ~ HasField(fs, l) BY <2>1, <2>2, <3>3
      <4>3. History(all, fs) BY <1>2, <4>2, RestHistory
      <4> QED BY <4>1, <4>3
    <3> QED BY <3>2, <3>3
  <2>3. CASE op.call \in {"set", "setInbound"}
    <3> DEFINE f == [name |-> op.name, values |-> <<op.value>>]
    <3>1. gs = ReplaceField(fs, op.name, op.value) BY <1>5, <2>3 DEF Edited
    <3>2. ValidInbound(op.value) BY <1>5, <2>3 DEF Accepted, ValidOutbound, ValidInbound
    <3>3. Sets(op) /\ op.call # "remove" BY <2>3 DEF Sets
    <3>4. SinceSet(all, lower) = {m} BY <1>2, <2>1, <3>3, CallsMore
    <3>5. f.name = op.name OBVIOUS
    <3>6. LeftBy(all, {m}, f) BY <1>2, LeftFirst
    <3>7. LegalField(Names, Values, f) BY <1>1, <2>1, <3>2 DEF LegalField
    <3>8. /\ HasField(fs, lower) => \E i \in DOMAIN fs : PutAt(fs, gs, i, f)
          /\ ~ HasField(fs, lower) => PutLast(fs, gs, f)
      BY <1>1, <2>1, <3>1, <3>2, Replaced
    <3> HIDE DEF f, gs, lower, m
    <3>9. LeftBy(all, SinceSet(all, f.name.lower), f) /\ Hits(op, f.name.lower)
      BY <2>1, <3>4, <3>5, <3>6 DEF lower
    <3>10. CASE HasField(fs, lower)
      <4>1. PICK i \in DOMAIN fs : PutAt(fs, gs, i, f) BY <3>8, <3>10
      <4>2. History(all, gs) BY <1>2, <3>3, <3>9, <4>1, PutHistory
      <4> QED BY <4>2 DEF gs
    <3>11. CASE ~ HasField(fs, lower)
      <4>1. /\ PutLast(fs, gs, f) /\ Len(gs) = Len(fs) + 1 /\ gs[Len(fs) + 1] = f
            /\ \A j \in 1 .. Len(fs) : gs[j] = fs[j]
        BY <3>7, <3>8, <3>11, PutLastKeeps
      <4>2. History(all, gs) BY <1>2, <1>3, <3>3, <3>9, <4>1, LastHistory
      <4> QED BY <4>2 DEF gs
    <3> QED BY <3>10, <3>11
  <2>4. CASE op.call \in {"add", "addInbound"}
    <3>1. gs = AppendField(fs, op.name, op.value) BY <1>5, <2>4 DEF Edited
    <3>2. ValidInbound(op.value) BY <1>5, <2>4 DEF Accepted, ValidOutbound, ValidInbound
    <3>3. ~ Sets(op) /\ op.call # "remove" BY <2>4 DEF Sets
    <3>4. SinceSet(all, lower) = SinceSet(ops, lower) \cup {m} BY <1>2, <2>1, <3>3, CallsMore
    <3>5. CASE HasField(fs, lower)
      <4>1. PICK i \in DOMAIN fs :
              /\ fs[i].name.lower = lower
              /\ PutAt(fs, gs, i, [name |-> fs[i].name, values |-> Append(fs[i].values, op.value)])
        <5> DEFINE name == op.name
                   value == op.value
                   hs == AppendField(fs, name, value)
        <5>1. name \in Names /\ value \in Values /\ ValidName(name) /\ ValidInbound(value) /\ HasField(fs, name.lower)
          BY <1>1, <2>1, <3>2, <3>5
        <5> HIDE DEF name, value
        <5>2. \E i \in DOMAIN fs :
                /\ fs[i].name.lower = name.lower
                /\ PutAt(fs, hs, i, [name |-> fs[i].name, values |-> Append(fs[i].values, value)])
          BY <5>1, Appended
        <5>3. hs = gs BY <3>1 DEF name, value
        <5> HIDE DEF hs, gs
        <5> QED BY <5>2, <5>3 DEF name, value
      <4> DEFINE h == fs[i]
                 f == [name |-> h.name, values |-> Append(h.values, op.value)]
                 calls == SinceSet(ops, lower)
      <4>2. FieldsAre(Names, Values, fs) BY LegalFieldsAre
      <4>3. h.values \in Seq(Values) BY <4>1, <4>2 DEF FieldsAre, LegalField
      <4>4. LeftBy(ops, calls, h) BY <4>1 DEF History, AllLeft
      <4>5. calls \in SUBSET (1 .. Len(ops)) BY <1>2, CallsAre
      <4>6. h.name.lower = lower /\ PutAt(fs, gs, i, f) BY <4>1
      <4>7. f.name = h.name OBVIOUS
      <4> HIDE DEF h, calls
      <4>8. LeftBy(all, calls \cup {m}, f) BY <1>1, <1>2, <4>3, <4>4, <4>5, LeftMore
      <4> HIDE DEF f, gs, lower, m
      <4>9. LeftBy(all, SinceSet(all, f.name.lower), f) /\ Hits(op, f.name.lower)
        BY <2>1, <3>4, <4>6, <4>7, <4>8 DEF calls
      <4>10. History(all, gs) BY <1>2, <3>3, <4>6, <4>9, PutHistory
      <4> QED BY <4>10 DEF gs
    <3>6. CASE ~ HasField(fs, lower)
      <4> DEFINE f == [name |-> op.name, values |-> <<op.value>>]
      <4>1. PutLast(fs, gs, f) BY <1>1, <2>1, <3>1, <3>2, <3>6, Appended
      <4>2. SinceSet(ops, lower) = {}
        <5>1. SinceRemoval(ops, lower) = {} BY <3>6 DEF History, HasAll
        <5>2. SinceSet(ops, lower) \subseteq SinceRemoval(ops, lower) BY <1>2, CallsAre
        <5> QED BY <5>1, <5>2
      <4>3. f.name = op.name OBVIOUS
      <4>4. LeftBy(all, {m}, f) BY <1>2, LeftFirst
      <4>5. LegalField(Names, Values, f) BY <1>1, <2>1, <3>2 DEF LegalField
      <4> HIDE DEF f, gs, m
      <4>6. SinceSet(all, lower) = {m} BY <3>4, <4>2
      <4>7. LeftBy(all, SinceSet(all, f.name.lower), f) /\ Hits(op, f.name.lower) BY <2>1, <4>3, <4>4, <4>6
      <4>8. /\ Len(gs) = Len(fs) + 1 /\ gs[Len(fs) + 1] = f /\ \A j \in 1 .. Len(fs) : gs[j] = fs[j]
        BY <4>1, <4>5, PutLastKeeps
      <4>9. History(all, gs) BY <1>2, <1>3, <3>3, <4>1, <4>7, <4>8, LastHistory
      <4> QED BY <4>9 DEF gs
    <3> QED BY <3>5, <3>6
  <2> QED BY <1>1, <1>5, <2>2, <2>3, <2>4 DEF BuilderCalls
<1> QED BY <1>4, <1>5

LEMMA BuiltHistory ==
  ASSUME NEW Names, NEW Values
  PROVE  \A ops \in Seq(BuilderOps(Names, Values)) : History(ops, HeadersBuilt(ops))
<1> DEFINE O == BuilderOps(Names, Values)
           S == {ops \in Seq(O) : History(ops, HeadersBuilt(ops))}
<1>1. <<>> \in S
  <2>1. HeadersBuilt(<<>>) = <<>> BY BuiltGrows
  <2>2. \A lower : SinceRemoval(<<>>, lower) = {} BY DEF SinceRemoval
  <2>3. DOMAIN <<>> = {} OBVIOUS
  <2>4. History(<<>>, <<>>) BY <2>2, <2>3 DEF History, HasAll, AllLeft, InBirths
  <2>5. <<>> \in Seq(O) OBVIOUS
  <2> HIDE DEF O
  <2> QED BY <2>1, <2>4, <2>5
<1>2. ASSUME NEW ops \in Seq(O), NEW op \in O, ops \in S PROVE Append(ops, op) \in S
  <2> DEFINE fs == HeadersBuilt(ops)
  <2>1. fs \in LegalFields(Names, Values) /\ HeadersBuilt(Append(ops, op)) = Edited(fs, op) BY BuiltGrows
  <2>2. History(ops, fs)
    <3> HIDE DEF O
    <3> QED BY <1>2
  <2> HIDE DEF fs
  <2>3. History(Append(ops, op), Edited(fs, op)) BY <2>1, <2>2, EditedHistory
  <2>4. Append(ops, op) \in Seq(O)
    <3> HIDE DEF O
    <3> QED OBVIOUS
  <2> HIDE DEF O
  <2> QED BY <2>1, <2>3, <2>4
<1>3. Seq(O) \subseteq S
  <2> HIDE DEF S, O
  <2> QED BY <1>1, <1>2, SequenceInduction
<1> QED BY <1>3

\* Whatever was called on a builder, in any order and however often, copies and
\* refused calls included: the headers hold for each name the values since its
\* last set, under the spelling of the first of them; a removal forgets both, and
\* the place; the names stand in the order in which they last came up; and a copy
\* is the same headers.
THEOREM BuildersKeepHistory ==
  ASSUME NEW Names, NEW Values, NEW ops \in Seq(BuilderOps(Names, Values))
  PROVE  BuilderKeepsHistory(ops)
<1> DEFINE fs == HeadersBuilt(ops)
<1>1. fs \in LegalFields(Names, Values) BY BuiltGrows
<1>2. History(ops, fs) BY BuiltHistory
<1> HIDE DEF fs
<1>3. CopyFields(fs) = fs BY <1>1, CopyIsTheSame
<1>4. HeadersEqual(fs, Reverse(fs)) BY <1>1, OrderIsNothing
<1>5. /\ \A i \in DOMAIN ops : SinceRemoval(ops, ops[i].name.lower) # {} => HasField(fs, ops[i].name.lower)
      /\ \A i \in DOMAIN fs : LeftBy(ops, SinceSet(ops, fs[i].name.lower), fs[i])
      /\ \A i \in DOMAIN fs : \A j \in 1 .. i - 1 :
           \E birth \in SinceRemoval(ops, fs[j].name.lower) :
             \A c \in SinceRemoval(ops, fs[i].name.lower) : birth < c
  BY <1>2 DEF History, HasAll, AllLeft, InBirths, BornBefore
<1> QED BY <1>3, <1>4, <1>5 DEF BuilderKeepsHistory, fs
=============================================================================
