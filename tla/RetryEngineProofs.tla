------------------------- MODULE RetryEngineProofs -------------------------
(***************************************************************************)
(* Proofs about RetryEngine, for every number of calls, settings, hint,    *)
(* override and schedule, and about RetrySchedule, for all settings that   *)
(* are accepted, all pacing headers and all dates.                         *)
(***************************************************************************)
EXTENDS RetryEngine, RetrySchedule, SequenceFacts

-----------------------------------------------------------------------------
(* Types and the attempt count, which hold together: the name of an error  *)
(* of a call's own is a type only as long as the count is bounded.         *)

Base ==
    /\ TypeOK
    /\ DOMAIN trails = Error
    /\ \A c \in Call : Counted(c) /\ InHand(c)

(* An error of a call's own is an error, while the trail is not full.      *)
LEMMA OwnType ==
    ASSUME Base, NEW c \in Call, pc[c] \notin {"idle", "done"}
    PROVE  Own(c) \in {c} \X Attempt /\ Own(c) \in Error
<1>1. trail[c] \in Seq(Error) /\ attempt[c] \in Attempt /\ pc[c] \in PC
  BY DEF Base, TypeOK
<1>2. Len(trail[c]) \in Nat /\ Len(trail[c]) <= attempt[c]
  BY <1>1 DEF Base, Counted, PC, Waits, Attempt
<1>. QED
  BY <1>1, <1>2, SettingsAssumption DEF Own, Error, Attempt

(* What a step of one call does to the others: nothing, but for the table, *)
(* where it touches entries keyed by its own errors or surfaces one.       *)
Same(d) ==
    /\ pc'[d] = pc[d] /\ attempt'[d] = attempt[d] /\ startedAt'[d] = startedAt[d]
    /\ aborted'[d] = aborted[d] /\ open'[d] = open[d] /\ err'[d] = err[d]
    /\ hint'[d] = hint[d] /\ delay'[d] = delay[d] /\ overshoots'[d] = overshoots[d]
    /\ due'[d] = due[d] /\ trail'[d] = trail[d] /\ failed'[d] = failed[d]
    /\ owed'[d] = owed[d] /\ readAt'[d] = readAt[d] /\ drifted'[d] = drifted[d]

TableStep(c) ==
    \A e \in Error :
        \/ e \in {c} \X Attempt
        \/ surfacer'[e] = c
        \/ trails'[e] = trails[e] /\ surfacer'[e] = surfacer[e]

(* Surfacing writes one entry.                                             *)
LEMMA SurfaceTable ==
    ASSUME Base, NEW c \in Call, NEW e, Surface(c, e)
    PROVE  TableStep(c)
  BY DEF Base, TypeOK, TableStep, Surface, RecordAttempts

(* No other call is touched.                                               *)
LEMMA OthersSame ==
    ASSUME Base, NEW c \in Call, CallStep(c)
    PROVE  clock' = clock /\ (\A d \in Call \ {c} : Same(d)) /\ TableStep(c)
<1>. USE DEF Same, timing, table, loop
<1>1. CASE Begin(c)
  <2>1. TableStep(c)
    BY <1>1 DEF Begin, Base, TypeOK, TableStep
  <2>. QED
    BY <1>1, <2>1 DEF Begin, Base, TypeOK, NewTurn
<1>2. CASE Cancel(c)
  BY <1>2, SurfaceTable DEF Cancel, Base, TypeOK, Surface
<1>3. CASE Dispatch(c)
  BY <1>3 DEF Dispatch, Base, TypeOK, NewTurn, TableStep
<1>4. CASE Respond(c)
  BY <1>4 DEF Respond, Base, TypeOK, TableStep
<1>5. CASE Fail(c)
  <2>1. TableStep(c)
    BY <1>5, SurfaceTable DEF Fail, TableStep
  <2>2. clock' = clock
    BY <1>5 DEF Fail
  <2>3. PICK e : /\ failed' = [failed EXCEPT ![c] = Append(@, e)]
                 /\ \/ /\ pc' = [pc EXCEPT ![c] = "scheduling"]
                       /\ err' = [err EXCEPT ![c] = e]
                       /\ hint' = [hint EXCEPT ![c] = NoHint]
                       /\ owed' = [owed EXCEPT ![c] = clock]
                    \/ Surface(c, e) /\ UNCHANGED <<hint, owed>>
    BY <1>5 DEF Fail
  <2>. QED
    BY <1>5, <2>1, <2>2, <2>3 DEF Fail, Base, TypeOK, Surface
<1>6. CASE Retire(c)
  BY <1>6 DEF Retire, Base, TypeOK, TableStep
<1>7. CASE Rethrow(c)
  BY <1>7, SurfaceTable DEF Rethrow, Base, TypeOK, Surface, Close
<1>8. CASE Schedule(c)
  BY <1>8 DEF Schedule, Base, TypeOK, TableStep
<1>9. CASE Clamp(c)
  BY <1>9 DEF Clamp, Base, TypeOK, TableStep
<1>10. CASE Release(c)
  <2>1. TableStep(c)
    BY <1>10, SurfaceTable DEF Release, TableStep
  <2>. QED
    BY <1>10, <2>1 DEF Release, Base, TypeOK, Surface, Close
<1>11. CASE StartSlice(c)
  BY <1>11 DEF StartSlice, Base, TypeOK, TableStep
<1>12. CASE Fire(c)
  BY <1>12 DEF Fire, Base, TypeOK, TableStep
<1>13. CASE WakeOnAbort(c)
  BY <1>13 DEF WakeOnAbort, Base, TypeOK, TableStep
<1>14. CASE SleepFails(c)
  BY <1>14, SurfaceTable DEF SleepFails, Base, TypeOK, Surface
<1>15. CASE Abort(c)
  BY <1>15 DEF Abort, Base, TypeOK, TableStep
<1>. QED
  BY <1>1, <1>2, <1>3, <1>4, <1>5, <1>6, <1>7, <1>8, <1>9, <1>10, <1>11, <1>12, <1>13,
     <1>14, <1>15 DEF CallStep

(* Surfacing keeps the types of what it writes.                            *)
LEMMA SurfaceType ==
    ASSUME Base, NEW c \in Call, NEW e \in Error, Surface(c, e)
    PROVE  /\ pc' \in [Call -> PC] /\ pc'[c] = "done"
           /\ err' \in [Call -> Error \cup {NoError}]
           /\ surfacer' \in [Error -> Call \cup {NoCall}]
           /\ DOMAIN trails' = Error
  BY DEF Base, TypeOK, Surface, RecordAttempts, PC

(* The count of a call follows its own steps only.                         *)
LEMMA CountedSame ==
    ASSUME NEW c \in Call, Counted(c), pc'[c] = pc[c], attempt'[c] = attempt[c],
           trail'[c] = trail[c]
    PROVE  Counted(c)'
  BY DEF Counted

(* An error that may be in the call's hands, and is one.                   *)
LEMMA HandError ==
    ASSUME Base, NEW c \in Call
    PROVE  /\ err[c] \in Error \cup {NoError}
           /\ err[c] # NoError => err[c] \in SharedError \cup ({c} \X Attempt)
           /\ \A e \in SharedError \cup ({c} \X Attempt) : e \in Error /\ e # NoError
  BY ErrorAssumption DEF Base, TypeOK, InHand, Error

(* A call starts with nothing counted and nothing in hand.                 *)
LEMMA BeginBase ==
    ASSUME Base, NEW c \in Call, Begin(c)
    PROVE  TypeOK' /\ DOMAIN trails' = Error /\ Counted(c)' /\ InHand(c)'
<1>1. TypeOK'
  <2>1. 0 \in Attempt /\ "head" \in PC /\ <<>> \in Seq(Error)
    BY SettingsAssumption DEF Attempt, PC
  <2>2. TypeOK
    BY DEF Base
  <2>3. /\ clock' \in Nat /\ pc' \in [Call -> PC] /\ attempt' \in [Call -> Attempt]
        /\ startedAt' \in [Call -> Nat] /\ trail' \in [Call -> Seq(Error)]
        /\ failed' \in [Call -> Seq(Error)] /\ err' \in [Call -> Error \cup {NoError}]
        /\ aborted' \in [Call -> BOOLEAN] /\ open' \in [Call -> BOOLEAN]
        /\ surfacer' \in [Error -> Call \cup {NoCall}]
    BY <2>1, <2>2 DEF TypeOK, Begin
  <2>4. /\ hint' \in [Call -> Hint \cup {NoHint}] /\ delay' \in [Call -> Int]
        /\ overshoots' \in [Call -> BOOLEAN] /\ due' \in [Call -> Int]
        /\ owed' \in [Call -> Int] /\ readAt' \in [Call -> Nat]
        /\ drifted' \in [Call -> BOOLEAN]
    BY <2>2 DEF TypeOK, Begin, NewTurn
  <2>. QED
    BY <2>3, <2>4 DEF TypeOK
<1>2. /\ trail'[c] = <<>> /\ attempt'[c] = 0 /\ pc'[c] = "head"
      /\ err'[c] = NoError /\ open'[c] = FALSE
  BY DEF Base, TypeOK, Begin
<1>3. DOMAIN trails' = Error
  BY DEF Begin
<1>4. Counted(c)'
  BY <1>2, SettingsAssumption DEF Counted, Waits
<1>. QED
  BY <1>1, <1>2, <1>3, <1>4 DEF InHand, Waits

(* A step of a call that surfaces an error and does nothing else but close *)
(* a response or note a failure.                                           *)
LEMMA SurfaceBase ==
    ASSUME Base, NEW c \in Call, NEW e \in SharedError \cup ({c} \X Attempt), Surface(c, e),
           clock' = clock, UNCHANGED <<aborted, timing, loop>>,
           open' \in [Call -> BOOLEAN], ~open'[c], failed' \in [Call -> Seq(Error)]
    PROVE  TypeOK' /\ DOMAIN trails' = Error /\ Counted(c)' /\ InHand(c)'
<1>1. e \in Error /\ e # NoError
  BY HandError
<1>2. TypeOK' /\ DOMAIN trails' = Error /\ pc'[c] = "done"
  BY <1>1, SurfaceType DEF Base, TypeOK, timing, loop
<1>3. err'[c] = e
  BY DEF Surface, Base, TypeOK
<1>4. Counted(c)'
  BY <1>2 DEF Counted, Waits
<1>. QED
  BY <1>1, <1>2, <1>3, <1>4 DEF InHand, Waits

(* A failure is noted as one more error of the call.                       *)
LEMMA NoteType ==
    ASSUME Base, NEW c \in Call, NEW e \in Error,
           failed' = [failed EXCEPT ![c] = Append(@, e)]
    PROVE  failed' \in [Call -> Seq(Error)] /\ failed'[c] = Append(failed[c], e)
<1>1. failed \in [Call -> Seq(Error)]
  BY DEF Base, TypeOK
<1>2. Append(failed[c], e) \in Seq(Error)
  BY <1>1
<1>. QED
  BY <1>1, <1>2

(* A retried failure joins the trail.                                      *)
LEMMA JoinType ==
    ASSUME Base, NEW c \in Call, NEW e \in Error,
           trail' = [trail EXCEPT ![c] = Append(@, e)]
    PROVE  /\ trail' \in [Call -> Seq(Error)]
           /\ trail'[c] = Append(trail[c], e)
           /\ Len(trail'[c]) = Len(trail[c]) + 1
<1>1. trail \in [Call -> Seq(Error)]
  BY DEF Base, TypeOK
<1>2. Append(trail[c], e) \in Seq(Error) /\ Len(Append(trail[c], e)) = Len(trail[c]) + 1
  BY <1>1
<1>. QED
  BY <1>1, <1>2

(* A hint is a number, and no hint is a negative one.                      *)
LEMMA HintType ==
    ASSUME Base, NEW c \in Call
    PROVE  hint[c] \in Int /\ (hint[c] # NoHint => hint[c] \in Nat)
<1>1. hint[c] \in Hint \cup {NoHint}
  BY DEF Base, TypeOK
<1>2. Hint \subseteq Nat
  BY DelayAssumption
<1>3. NoHint \in Int
  BY DEF NoHint
<1>4. hint[c] # NoHint => hint[c] \in Nat
  BY <1>1, <1>2
<1>5. CASE hint[c] = NoHint
  BY <1>3, <1>5
<1>6. CASE hint[c] # NoHint
  BY <1>4, <1>6
<1>. QED
  BY <1>4, <1>5, <1>6

(* Each step of a call keeps the types, its count and what it has in hand. *)
LEMMA BaseCallStep ==
    ASSUME Base, NEW c \in Call, CallStep(c)
    PROVE  TypeOK' /\ DOMAIN trails' = Error /\ Counted(c)' /\ InHand(c)'
<1>0. TypeOK /\ DOMAIN trails = Error /\ Counted(c) /\ InHand(c)
  BY DEF Base
<1>t. /\ pc[c] \in PC /\ attempt[c] \in Nat /\ trail[c] \in Seq(Error)
      /\ clock \in Nat /\ startedAt[c] \in Nat /\ open[c] \in BOOLEAN
      /\ hint[c] \in Hint \cup {NoHint} /\ delay[c] \in Int /\ owed[c] \in Int
      /\ Len(trail[c]) \in Nat
  BY <1>0, SettingsAssumption DEF TypeOK, Attempt
<1>1. CASE Begin(c)
  BY <1>1, BeginBase
<1>2. CASE Cancel(c)
  <2>1. Own(c) \in {c} \X Attempt
    BY <1>2, OwnType DEF Cancel
  <2>2. ~open[c]
    BY <1>0, <1>2 DEF Cancel, InHand
  <2>. QED
    BY <1>0, <1>2, <2>1, <2>2, SurfaceBase DEF Cancel, TypeOK
<1>3. CASE Dispatch(c)
  <2>1. attempt[c] < MaxAttempts /\ Len(trail[c]) = attempt[c] /\ ~open[c]
    BY <1>0, <1>3 DEF Dispatch, Counted, InHand
  <2>2. TypeOK'
    BY <1>0, <1>t, <1>3, <2>1, SettingsAssumption
    DEF Dispatch, TypeOK, NewTurn, Attempt, PC, NoHint, table
  <2>3. /\ pc'[c] = "sent" /\ attempt'[c] = attempt[c] + 1 /\ trail'[c] = trail[c]
        /\ err'[c] = NoError /\ open'[c] = FALSE /\ DOMAIN trails' = Error
    BY <1>0, <1>3, <2>1 DEF Dispatch, TypeOK, table
  <2>. QED
    BY <1>t, <2>1, <2>2, <2>3 DEF Counted, InHand, Waits
<1>4. CASE Respond(c)
  <2>1. \A h \in Hint \cup {NoHint} : clock + Larger(h, 0) \in Int
    BY <1>t, DelayAssumption DEF Larger, NoHint
  <2>2. /\ pc'[c] \in {"done", "retiring"}
        /\ pc'[c] = "retiring" => attempt[c] < MaxAttempts
        /\ attempt' = attempt /\ trail' = trail /\ err' = err /\ open'[c] = TRUE
        /\ DOMAIN trails' = Error
    BY <1>0, <1>4 DEF Respond, TypeOK, table, loop, MayRetry
  <2>3. hint' \in [Call -> Hint \cup {NoHint}] /\ owed' \in [Call -> Int]
    <3>1. CASE UNCHANGED <<hint, owed>>
      BY <1>0, <3>1 DEF TypeOK
    <3>2. CASE \E h \in Hint \cup {NoHint} :
                  /\ hint' = [hint EXCEPT ![c] = h]
                  /\ owed' = [owed EXCEPT ![c] = clock + Larger(h, 0)]
      BY <1>0, <2>1, <3>2 DEF TypeOK
    <3>. QED
      BY <1>4, <3>1, <3>2 DEF Respond
  <2>4. TypeOK'
    BY <1>0, <1>4, <2>3 DEF Respond, TypeOK, PC, table, loop
  <2>5. pc[c] = "sent" /\ err[c] = NoError /\ Len(trail[c]) = attempt[c] - 1
    BY <1>0, <1>4 DEF Respond, Counted, InHand
  <2>. QED
    BY <1>t, <2>2, <2>4, <2>5 DEF Counted, InHand, Waits
<1>5. CASE Fail(c)
  <2>1. PICK e \in SharedError \cup {Own(c)} :
          /\ failed' = [failed EXCEPT ![c] = Append(@, e)]
          /\ \/ /\ MayRetry(c)
                /\ pc' = [pc EXCEPT ![c] = "scheduling"]
                /\ err' = [err EXCEPT ![c] = e]
                /\ hint' = [hint EXCEPT ![c] = NoHint]
                /\ owed' = [owed EXCEPT ![c] = clock]
                /\ UNCHANGED table
             \/ Surface(c, e) /\ UNCHANGED <<hint, owed>>
    BY <1>5 DEF Fail
  <2>2. e \in SharedError \cup ({c} \X Attempt) /\ e \in Error /\ e # NoError
    BY <1>5, OwnType, HandError DEF Fail
  <2>3. failed' \in [Call -> Seq(Error)]
    BY <2>1, <2>2, NoteType
  <2>4. /\ UNCHANGED <<clock, aborted, open, delay, overshoots, due, readAt, drifted, loop>>
        /\ ~open[c] /\ pc[c] = "sent"
    BY <1>0, <1>5 DEF Fail, InHand
  <2>5. CASE Surface(c, e) /\ UNCHANGED <<hint, owed>>
    BY <1>0, <2>2, <2>3, <2>4, <2>5, SurfaceBase DEF timing, TypeOK
  <2>6. CASE /\ MayRetry(c)
             /\ pc' = [pc EXCEPT ![c] = "scheduling"]
             /\ err' = [err EXCEPT ![c] = e]
             /\ hint' = [hint EXCEPT ![c] = NoHint]
             /\ owed' = [owed EXCEPT ![c] = clock]
             /\ UNCHANGED table
    <3>1. TypeOK' /\ DOMAIN trails' = Error
      BY <1>0, <1>t, <2>2, <2>3, <2>4, <2>6 DEF TypeOK, PC, table, loop
    <3>2. pc'[c] = "scheduling" /\ attempt' = attempt /\ trail' = trail /\ err'[c] = e
      BY <1>0, <2>4, <2>6 DEF TypeOK, loop
    <3>3. attempt[c] < MaxAttempts
      BY <2>6 DEF MayRetry
    <3>. QED
      BY <1>0, <1>t, <2>2, <2>4, <3>1, <3>2, <3>3 DEF Counted, InHand, Waits
  <2>. QED
    BY <2>1, <2>5, <2>6
<1>6. CASE Retire(c)
  <2>1. Own(c) \in {c} \X Attempt /\ Own(c) \in Error /\ Own(c) # NoError
    BY <1>6, OwnType, HandError DEF Retire
  <2>2. failed' \in [Call -> Seq(Error)]
    BY <1>6, <2>1, NoteType DEF Retire
  <2>3. TypeOK' /\ DOMAIN trails' = Error
    BY <1>0, <1>6, <2>1, <2>2 DEF Retire, TypeOK, PC, timing, table, loop
  <2>4. /\ pc'[c] \in {"scheduling", "throwing"} /\ err'[c] = Own(c)
        /\ pc'[c] = "throwing" => ~open'[c]
        /\ attempt' = attempt /\ trail' = trail
    BY <1>0, <1>6 DEF Retire, TypeOK, loop
  <2>. QED
    BY <1>0, <1>t, <1>6, <2>1, <2>3, <2>4 DEF Retire, Counted, InHand, Waits
<1>7. CASE Rethrow(c)
  <2>1. err[c] \in SharedError \cup ({c} \X Attempt)
    BY <1>0, <1>7, HandError DEF Rethrow, InHand
  <2>. QED
    BY <1>0, <1>7, <2>1, SurfaceBase DEF Rethrow, Close, TypeOK
<1>8. CASE Schedule(c)
  <2>1. PICK d \in Override \cup Scheduled(c) :
          /\ delay' = [delay EXCEPT ![c] = d]
          /\ overshoots' = [overshoots EXCEPT ![c] = OvershootsBudget(c, d)]
          /\ \/ owed' = [owed EXCEPT ![c] = clock + d]
             \/ owed' = [owed EXCEPT ![c] = Larger(@, clock + d)]
    BY <1>8 DEF Schedule
  <2>2. attempt[c] \in 1..MaxAttempts
    BY <1>0, <1>t, <1>8, SettingsAssumption DEF Schedule, Counted
  <2>3. Backoff[attempt[c]] \subseteq Nat
    BY <2>2, DelayAssumption
  <2>4. d \in Int
    <3>1. Override \subseteq Int
      BY DelayAssumption
    <3>2. hint[c] # NoHint => hint[c] \in Nat
      BY HintType
    <3>. QED
      BY <2>3, <3>1, <3>2 DEF Scheduled
  <2>5. clock + d \in Int /\ Larger(owed[c], clock + d) \in Int
    BY <1>t, <2>4 DEF Larger
  <2>6. delay' \in [Call -> Int] /\ owed' \in [Call -> Int] /\ overshoots' \in [Call -> BOOLEAN]
    BY <1>0, <2>1, <2>4, <2>5, SMTT(20) DEF TypeOK, OvershootsBudget
  <2>7. TypeOK' /\ DOMAIN trails' = Error
    BY <1>0, <1>t, <1>8, <2>6 DEF Schedule, TypeOK, PC, table, loop
  <2>8. /\ pc'[c] = "clamping" /\ attempt' = attempt /\ trail' = trail /\ err' = err
    BY <1>0, <1>8 DEF Schedule, TypeOK, loop
  <2>. QED
    BY <1>0, <1>t, <1>8, <2>7, <2>8 DEF Schedule, Counted, InHand, Waits
<1>9. CASE Clamp(c)
  <2>1. ClampToBudget(c, delay[c]) \in Int
    BY <1>t, SettingsAssumption DEF ClampToBudget, Larger, Smaller, Elapsed
  <2>2. TypeOK' /\ DOMAIN trails' = Error
    BY <1>0, <1>9, <2>1 DEF Clamp, TypeOK, PC, table, loop
  <2>3. pc'[c] = "releasing" /\ attempt' = attempt /\ trail' = trail /\ err' = err
    BY <1>0, <1>9 DEF Clamp, TypeOK, loop
  <2>. QED
    BY <1>0, <1>t, <1>9, <2>2, <2>3 DEF Clamp, Counted, InHand, Waits
<1>10. CASE Release(c)
  <2>1. err[c] \in SharedError \cup ({c} \X Attempt) /\ err[c] \in Error
    BY <1>0, <1>10, HandError DEF Release, InHand
  <2>2. open' \in [Call -> BOOLEAN] /\ ~open'[c]
    BY <1>0, <1>10 DEF Release, Close, TypeOK
  <2>3. CASE Surface(c, err[c]) /\ UNCHANGED trail
    BY <1>0, <1>10, <2>1, <2>2, <2>3, SurfaceBase DEF Release, TypeOK, loop
  <2>4. CASE /\ trail' = [trail EXCEPT ![c] = Append(@, err[c])]
             /\ pc' = [pc EXCEPT ![c] = IF delay[c] > 0 THEN "slicing" ELSE "head"]
             /\ UNCHANGED <<err, table>>
    <3>1. trail' \in [Call -> Seq(Error)] /\ Len(trail'[c]) = Len(trail[c]) + 1
      BY <2>1, <2>4, JoinType
    <3>2. TypeOK' /\ DOMAIN trails' = Error
      BY <1>0, <1>10, <2>2, <2>4, <3>1 DEF Release, TypeOK, PC, timing, table
    <3>3. pc'[c] \in {"slicing", "head"} /\ attempt' = attempt /\ err' = err
      BY <1>0, <1>10, <2>4 DEF Release, TypeOK
    <3>. QED
      BY <1>0, <1>t, <1>10, <2>2, <3>1, <3>2, <3>3 DEF Release, Counted, InHand, Waits
  <2>. QED
    BY <1>10, <2>3, <2>4 DEF Release
<1>11. CASE StartSlice(c)
  <2>1. clock + Slice(c) \in Int
    BY <1>t, SettingsAssumption DEF Slice, Smaller
  <2>2. TypeOK' /\ DOMAIN trails' = Error
    BY <1>0, <1>11, <2>1 DEF StartSlice, TypeOK, PC, table, loop
  <2>3. /\ pc'[c] \in {"head", "waiting"} /\ attempt' = attempt /\ trail' = trail
        /\ err' = err /\ open' = open
    BY <1>0, <1>11 DEF StartSlice, TypeOK, loop
  <2>. QED
    BY <1>0, <1>t, <1>11, <2>2, <2>3 DEF StartSlice, Counted, InHand, Waits
<1>12. CASE Fire(c)
  <2>1. delay[c] - Slice(c) \in Int
    BY <1>t, SettingsAssumption DEF Slice, Smaller
  <2>2. TypeOK' /\ DOMAIN trails' = Error
    BY <1>0, <1>12, <2>1 DEF Fire, TypeOK, PC, table, loop
  <2>3. /\ pc'[c] \in {"head", "slicing"} /\ attempt' = attempt /\ trail' = trail
        /\ err' = err /\ open' = open
    BY <1>0, <1>12 DEF Fire, TypeOK, loop
  <2>. QED
    BY <1>0, <1>t, <1>12, <2>2, <2>3 DEF Fire, Counted, InHand, Waits
<1>13. CASE WakeOnAbort(c)
  <2>1. TypeOK' /\ DOMAIN trails' = Error
    BY <1>0, <1>13 DEF WakeOnAbort, TypeOK, PC, timing, table, loop
  <2>2. /\ pc'[c] = "head" /\ attempt' = attempt /\ trail' = trail
        /\ err' = err /\ open' = open
    BY <1>0, <1>13 DEF WakeOnAbort, TypeOK, loop
  <2>. QED
    BY <1>0, <1>t, <1>13, <2>1, <2>2 DEF WakeOnAbort, Counted, InHand, Waits
<1>14. CASE SleepFails(c)
  <2>1. Own(c) \in {c} \X Attempt
    BY <1>14, OwnType DEF SleepFails
  <2>2. ~open[c]
    BY <1>0, <1>14 DEF SleepFails, InHand, Waits
  <2>. QED
    BY <1>0, <1>14, <2>1, <2>2, SurfaceBase DEF SleepFails, TypeOK
<1>15. CASE Abort(c)
  <2>1. TypeOK' /\ DOMAIN trails' = Error
    BY <1>0, <1>15 DEF Abort, TypeOK, timing, table, loop
  <2>2. UNCHANGED <<pc, attempt, trail, err, open>>
    BY <1>15 DEF Abort, loop
  <2>. QED
    BY <1>0, <2>1, <2>2 DEF Counted, InHand
<1>. QED
  BY <1>1, <1>2, <1>3, <1>4, <1>5, <1>6, <1>7, <1>8, <1>9, <1>10, <1>11, <1>12, <1>13,
     <1>14, <1>15 DEF CallStep

(* The invariant of types, counts and what is in hand.                     *)
LEMMA BaseInit == Init => Base
<1>. SUFFICES ASSUME Init PROVE Base
  OBVIOUS
<1>1. TypeOK
  <2>1. <<>> \in Seq(Error) /\ 0 \in Attempt
    BY SettingsAssumption DEF Attempt
  <2>. QED
    BY <2>1 DEF Init, TypeOK, PC
<1>2. DOMAIN trails = Error
  BY DEF Init
<1>3. \A c \in Call : Counted(c)
  BY SettingsAssumption DEF Init, Counted, Waits
<1>4. \A c \in Call : InHand(c)
  BY DEF Init, InHand, Waits
<1>. QED
  BY <1>1, <1>2, <1>3, <1>4 DEF Base

(* What is true of a call that is not touched stays so.                    *)
LEMMA BaseSame ==
    ASSUME NEW d \in Call, Counted(d), InHand(d), Same(d)
    PROVE  Counted(d)' /\ InHand(d)'
  BY DEF Counted, InHand, Same

LEMMA BaseStep == Base /\ [Next]_vars => Base'
<1>. SUFFICES ASSUME Base, [Next]_vars PROVE Base'
  OBVIOUS
<1>0. TypeOK /\ DOMAIN trails = Error /\ \A c \in Call : Counted(c) /\ InHand(c)
  BY DEF Base
<1>1. CASE UNCHANGED vars
  <2>1. TypeOK' /\ DOMAIN trails' = Error
    BY <1>0, <1>1 DEF TypeOK, vars, timing, table, loop
  <2>2. \A d \in Call : Same(d)
    BY <1>1 DEF Same, vars, timing, loop
  <2>. QED
    BY <1>0, <2>1, <2>2, BaseSame DEF Base
<1>2. CASE Tick
  <2>1. TypeOK' /\ DOMAIN trails' = Error
    BY <1>0, <1>2 DEF Tick, TypeOK, timing, table, loop
  <2>2. \A d \in Call : Same(d)
    BY <1>2 DEF Tick, Same, timing, loop
  <2>. QED
    BY <1>0, <2>1, <2>2, BaseSame DEF Base
<1>3. ASSUME NEW c \in Call, CallStep(c) PROVE Base'
  <2>1. TypeOK' /\ DOMAIN trails' = Error /\ Counted(c)' /\ InHand(c)'
    BY <1>3, BaseCallStep
  <2>2. \A d \in Call \ {c} : Counted(d)' /\ InHand(d)'
    BY <1>0, <1>3, OthersSame, BaseSame
  <2>. QED
    BY <2>1, <2>2 DEF Base
<1>. QED
  BY <1>1, <1>2, <1>3 DEF Next

(* Every variable keeps its type: a call never makes more attempts than    *)
(* its settings allow, and every error the table is read with is one it    *)
(* has an entry for.                                                       *)
THEOREM RetryTypeCorrect == Spec => []TypeOK
<1>1. Base => TypeOK
  BY DEF Base
<1>. QED
  BY BaseInit, BaseStep, <1>1, PTL DEF Spec

(* No response of a call is open across a wait or an attempt, or behind a  *)
(* failure, and the one that ends the loop is open.                        *)
THEOREM ResponsesAreAccounted == Spec => []ResponseAccounted
<1>1. Base => ResponseAccounted
  BY DEF Base, InHand, ResponseAccounted, Waits
<1>. QED
  BY BaseInit, BaseStep, <1>1, PTL DEF Spec

-----------------------------------------------------------------------------
(* Pacing.                                                                 *)

(* What holds of an instant holds of every later one.                      *)
LEMMA HonoursLater ==
    ASSUME Base, NEW c \in Call, NEW s \in Int, NEW t \in Int, s <= t, Honours(c, s)
    PROVE  Honours(c, t)
<1>1. owed[c] \in Int /\ startedAt[c] \in Nat /\ Budget \in Nat
  BY SettingsAssumption DEF Base, TypeOK
<1>. QED
  BY <1>1 DEF Honours

(* A call that is not touched stays in step while the clock runs or not.   *)
LEMMA PaceSame ==
    ASSUME Base, NEW d \in Call, Pace(d), Same(d), clock' \in Nat, clock <= clock'
    PROVE  Pace(d)'
<1>1. /\ clock \in Nat /\ startedAt[d] \in Nat /\ owed[d] \in Int /\ delay[d] \in Int
      /\ readAt[d] \in Nat /\ due[d] \in Int
  BY DEF Base, TypeOK
<1>3. Slice(d)' = Slice(d)
  BY DEF Same, Slice
<1>4. startedAt'[d] <= clock'
  BY <1>1 DEF Pace, Same
<1>5. pc'[d] \in {"retiring", "scheduling"} => owed'[d] <= clock' + Larger(hint'[d], 0)
  <2>1. Larger(hint[d], 0) \in Int
    BY HintType DEF Larger
  <2>. QED
    BY <1>1, <2>1 DEF Pace, Same
<1>6. pc'[d] = "clamping" =>
        /\ startedAt'[d] <= readAt'[d] /\ readAt'[d] <= clock'
        /\ owed'[d] = readAt'[d] + delay'[d]
        /\ overshoots'[d] <=>
            Budget # 0 /\ readAt'[d] - startedAt'[d] + delay'[d] > Budget
  BY <1>1 DEF Pace, Same
<1>7. ASSUME pc'[d] = "releasing" /\ ~overshoots'[d] PROVE Honours(d, clock' + delay'[d])
  <2>1. Honours(d, clock + delay[d]) /\ delay'[d] = delay[d]
    BY <1>7 DEF Pace, Same
  <2>. QED
    BY <1>1, <2>1, HonoursLater
<1>8. ASSUME pc'[d] = "slicing" PROVE Honours(d, clock' + delay'[d])
  <2>1. Honours(d, clock + delay[d]) /\ delay'[d] = delay[d]
    BY <1>8 DEF Pace, Same
  <2>. QED
    BY <1>1, <2>1, HonoursLater
<1>9. pc'[d] = "waiting" => Honours(d, due'[d] + delay'[d] - Slice(d))
  BY DEF Pace, Same
<1>10. ASSUME pc'[d] = "head", attempt'[d] > 0, ~aborted'[d]
       PROVE  Honours(d, clock')
  <2>1. Honours(d, clock)
    BY <1>10 DEF Pace, Same
  <2>. QED
    BY <1>1, <2>1, HonoursLater
<1>. QED
  BY <1>3, <1>4, <1>5, <1>6, <1>7, <1>8, <1>9, <1>10 DEF Pace, Honours, Same

(* A delay within the budget at one reading of the clock satisfies at the  *)
(* next one what it owes, or the budget has cut it short in between.       *)
LEMMA ClampHonours ==
    ASSUME NEW now \in Nat, NEW start \in Nat, NEW read \in Nat, NEW d \in Int,
           start <= read, read <= now,
           ~(Budget # 0 /\ read - start + d > Budget),
           NEW left \in Int,
           left = IF Budget = 0 THEN d ELSE Larger(0, Smaller(d, Budget - (now - start)))
    PROVE  now + left >= read + d \/ (now # read /\ now + left >= start + Budget)
<1>1. Budget \in Nat
  BY SettingsAssumption
<1>2. CASE Budget = 0
  BY <1>2
<1>3. CASE Budget # 0 /\ d <= Budget - (now - start)
  BY <1>1, <1>3 DEF Larger, Smaller
<1>4. CASE Budget # 0 /\ d > Budget - (now - start)
  BY <1>1, <1>4 DEF Larger, Smaller
<1>. QED
  BY <1>1, <1>2, <1>3, <1>4

(* Each step of a call keeps its pace.                                     *)
LEMMA PaceCallStep ==
    ASSUME Base, NEW c \in Call, Pace(c), CallStep(c)
    PROVE  Pace(c)'
<1>t. /\ clock \in Nat /\ startedAt[c] \in Nat /\ owed[c] \in Int /\ delay[c] \in Int
      /\ readAt[c] \in Nat /\ due[c] \in Int /\ attempt[c] \in Nat /\ hint[c] \in Int
  BY HintType, SettingsAssumption DEF Base, TypeOK, Attempt
<1>o. TypeOK /\ startedAt[c] <= clock
  BY DEF Base, Pace
<1>c. clock' = clock
  BY OthersSame
<1>s. ASSUME pc'[c] = "done", startedAt' = startedAt PROVE Pace(c)'
  BY <1>o, <1>c, <1>s DEF Pace
<1>1. CASE Begin(c)
  <2>1. pc'[c] = "head" /\ attempt'[c] = 0 /\ startedAt'[c] = clock
    BY <1>o, <1>1 DEF Begin, TypeOK
  <2>. QED
    BY <1>t, <1>c, <2>1 DEF Pace
<1>2. CASE Cancel(c)
  <2>1. pc'[c] = "done" /\ startedAt' = startedAt
    BY <1>o, <1>2 DEF Cancel, Surface, TypeOK, loop
  <2>. QED
    BY <1>s, <2>1
<1>3. CASE Dispatch(c)
  <2>1. pc'[c] = "sent" /\ startedAt' = startedAt
    BY <1>o, <1>3 DEF Dispatch, TypeOK
  <2>. QED
    BY <1>o, <1>c, <2>1 DEF Pace
<1>4. CASE Respond(c)
  <2>1. CASE pc' = [pc EXCEPT ![c] = "done"]
    <3>1. pc'[c] = "done" /\ startedAt' = startedAt
      BY <1>o, <1>4, <2>1 DEF Respond, TypeOK, loop
    <3>. QED
      BY <1>s, <3>1
  <2>2. CASE /\ pc' = [pc EXCEPT ![c] = "retiring"]
             /\ \E h \in Hint \cup {NoHint} :
                   /\ hint' = [hint EXCEPT ![c] = h]
                   /\ owed' = [owed EXCEPT ![c] = clock + Larger(h, 0)]
    <3>1. /\ pc'[c] = "retiring" /\ startedAt' = startedAt
          /\ owed'[c] = clock + Larger(hint'[c], 0)
      BY <1>o, <1>4, <2>2 DEF Respond, TypeOK, loop
    <3>2. hint'[c] \in Int
      BY <1>o, <2>2, DelayAssumption DEF TypeOK, NoHint
    <3>3. Larger(hint'[c], 0) \in Int
      BY <3>2 DEF Larger
    <3>. QED
      BY <1>t, <1>o, <1>c, <3>1, <3>3 DEF Pace
  <2>. QED
    BY <1>4, <2>1, <2>2 DEF Respond
<1>5. CASE Fail(c)
  <2>1. CASE pc' = [pc EXCEPT ![c] = "done"]
    <3>1. pc'[c] = "done" /\ startedAt' = startedAt
      BY <1>o, <1>5, <2>1 DEF Fail, TypeOK, loop
    <3>. QED
      BY <1>s, <3>1
  <2>2. CASE /\ pc' = [pc EXCEPT ![c] = "scheduling"]
             /\ hint' = [hint EXCEPT ![c] = NoHint]
             /\ owed' = [owed EXCEPT ![c] = clock]
    <3>1. /\ pc'[c] = "scheduling" /\ startedAt' = startedAt
          /\ owed'[c] = clock /\ hint'[c] = NoHint
      BY <1>o, <1>5, <2>2 DEF Fail, TypeOK, loop
    <3>2. Larger(NoHint, 0) = 0
      BY DEF Larger, NoHint
    <3>. QED
      BY <1>t, <1>o, <1>c, <3>1, <3>2 DEF Pace
  <2>. QED
    BY <1>5, <2>1, <2>2 DEF Fail, Surface
<1>6. CASE Retire(c)
  <2>1. /\ pc'[c] \in {"scheduling", "throwing"} /\ startedAt' = startedAt
        /\ owed' = owed /\ hint' = hint
    BY <1>o, <1>6 DEF Retire, TypeOK, timing, loop
  <2>2. owed[c] <= clock + Larger(hint[c], 0)
    BY <1>6 DEF Retire, Pace
  <2>. QED
    BY <1>o, <1>c, <2>1, <2>2 DEF Pace
<1>7. CASE Rethrow(c)
  <2>1. pc'[c] = "done" /\ startedAt' = startedAt
    BY <1>o, <1>7 DEF Rethrow, Surface, TypeOK, loop
  <2>. QED
    BY <1>s, <2>1
<1>8. CASE Schedule(c)
  <2>1. PICK d \in Override \cup Scheduled(c) :
          /\ delay' = [delay EXCEPT ![c] = d]
          /\ overshoots' = [overshoots EXCEPT ![c] = OvershootsBudget(c, d)]
          /\ \/ owed' = [owed EXCEPT ![c] = clock + d]
             \/ d \in Scheduled(c) /\ owed' = [owed EXCEPT ![c] = Larger(@, clock + d)]
    BY <1>8 DEF Schedule
  <2>2. attempt[c] \in 1..MaxAttempts
    BY <1>t, <1>8, SettingsAssumption DEF Schedule, Counted, Base, TypeOK
  <2>3. Backoff[attempt[c]] \subseteq Nat
    BY <2>2, DelayAssumption
  <2>4. d \in Int
    <3>1. Override \subseteq Int
      BY DelayAssumption
    <3>2. hint[c] # NoHint => hint[c] \in Nat
      BY HintType
    <3>. QED
      BY <2>3, <3>1, <3>2 DEF Scheduled
  <2>5. /\ pc'[c] = "clamping" /\ startedAt' = startedAt /\ readAt'[c] = clock
        /\ delay'[c] = d
        /\ overshoots'[c] <=> OvershootsBudget(c, d)
    BY <1>o, <1>8, <2>1 DEF Schedule, TypeOK, loop, OvershootsBudget
  <2>6. owed'[c] = clock + d
    <3>1. CASE owed' = [owed EXCEPT ![c] = clock + d]
      BY <1>o, <3>1 DEF TypeOK
    <3>2. CASE d \in Scheduled(c) /\ owed' = [owed EXCEPT ![c] = Larger(@, clock + d)]
      <4>1. owed[c] <= clock + Larger(hint[c], 0)
        BY <1>8 DEF Schedule, Pace
      <4>2. owed[c] <= clock + d
        <5>1. CASE hint[c] = NoHint
          <6>1. d \in Nat /\ Larger(hint[c], 0) = 0
            BY <2>3, <3>2, <5>1 DEF Scheduled, Larger, NoHint
          <6>. QED
            BY <1>t, <4>1, <6>1
        <5>2. CASE hint[c] # NoHint
          <6>1. d \in Nat /\ Larger(hint[c], 0) = d
            BY <3>2, <5>2, HintType DEF Scheduled, Larger
          <6>. QED
            BY <1>t, <4>1, <6>1
        <5>. QED
          BY <5>1, <5>2
      <4>3. Larger(owed[c], clock + d) = clock + d
        BY <1>t, <2>4, <4>2 DEF Larger
      <4>. QED
        BY <1>o, <3>2, <4>3 DEF TypeOK
    <3>. QED
      BY <2>1, <3>1, <3>2
  <2>. QED
    BY <1>t, <1>o, <1>c, <2>4, <2>5, <2>6 DEF Pace, OvershootsBudget, Elapsed
<1>9. CASE Clamp(c)
  <2>1. /\ readAt[c] <= clock /\ owed[c] = readAt[c] + delay[c]
        /\ overshoots[c] <=> Budget # 0 /\ readAt[c] - startedAt[c] + delay[c] > Budget
    BY <1>9 DEF Clamp, Pace
  <2>2. /\ pc'[c] = "releasing" /\ startedAt' = startedAt /\ owed' = owed
        /\ overshoots' = overshoots
        /\ delay'[c] = ClampToBudget(c, delay[c])
        /\ drifted'[c] <=> clock # readAt[c]
    BY <1>o, <1>9 DEF Clamp, TypeOK, loop
  <2>3. ClampToBudget(c, delay[c]) \in Int
    BY <1>t, SettingsAssumption DEF ClampToBudget, Larger, Smaller, Elapsed
  <2>4. ASSUME ~overshoots[c]
        PROVE  \/ clock + delay'[c] >= owed[c]
               \/ clock # readAt[c] /\ clock + delay'[c] >= startedAt[c] + Budget
    <3>1. delay'[c] = IF Budget = 0 THEN delay[c]
                      ELSE Larger(0, Smaller(delay[c], Budget - (clock - startedAt[c])))
      BY <2>2 DEF ClampToBudget, Elapsed
    <3>2. ~(Budget # 0 /\ readAt[c] - startedAt[c] + delay[c] > Budget)
      BY <2>1, <2>4
    <3>3. delay'[c] \in Int
      BY <2>2, <2>3
    <3>4. startedAt[c] <= readAt[c]
      BY <1>9 DEF Clamp, Pace
    <3>. QED
      BY <1>t, <2>1, <3>1, <3>2, <3>3, <3>4, ClampHonours
  <2>. QED
    BY <1>o, <1>c, <2>2, <2>4 DEF Pace, Honours
<1>10. CASE Release(c)
  <2>1. CASE pc' = [pc EXCEPT ![c] = "done"]
    <3>1. pc'[c] = "done" /\ startedAt' = startedAt
      BY <1>o, <1>10, <2>1 DEF Release, TypeOK
    <3>. QED
      BY <1>s, <3>1
  <2>2. CASE ~overshoots[c] /\ pc' = [pc EXCEPT ![c] = IF delay[c] > 0 THEN "slicing" ELSE "head"]
    <3>1. /\ pc'[c] = IF delay[c] > 0 THEN "slicing" ELSE "head"
          /\ UNCHANGED <<startedAt, owed, drifted, delay>>
      BY <1>o, <1>10, <2>2 DEF Release, TypeOK, timing
    <3>2. Honours(c, clock + delay[c])
      BY <1>10, <2>2 DEF Release, Pace
    <3>3. delay[c] <= 0 => Honours(c, clock)
      BY <1>t, <3>2, HonoursLater
    <3>. QED
      BY <1>t, <1>o, <1>c, <3>1, <3>2, <3>3 DEF Pace, Honours
  <2>. QED
    BY <1>10, <2>1, <2>2 DEF Release, Surface
<1>11. CASE StartSlice(c)
  <2>1. Honours(c, clock + delay[c])
    BY <1>11 DEF StartSlice, Pace
  <2>2. UNCHANGED <<startedAt, owed, drifted, delay, aborted>>
    BY <1>11 DEF StartSlice, loop
  <2>3. CASE aborted[c]
    BY <1>o, <1>c, <1>11, <2>2, <2>3 DEF StartSlice, TypeOK, Pace
  <2>4. CASE ~aborted[c]
    <3>1. pc'[c] = "waiting" /\ due'[c] = clock + Slice(c)
      BY <1>o, <1>11, <2>4 DEF StartSlice, TypeOK
    <3>2. Slice(c) \in Int
      BY <1>t, SettingsAssumption DEF Slice, Smaller
    <3>3. due'[c] + delay[c] - Slice(c) = clock + delay[c] /\ Slice(c)' = Slice(c)
      BY <1>t, <2>2, <3>1, <3>2 DEF Slice
    <3>. QED
      BY <1>o, <1>c, <2>1, <2>2, <3>1, <3>3 DEF Pace, Honours
  <2>. QED
    BY <2>3, <2>4
<1>12. CASE Fire(c)
  <2>1. /\ pc'[c] = IF delay'[c] > 0 THEN "slicing" ELSE "head"
        /\ delay'[c] = delay[c] - Slice(c)
        /\ UNCHANGED <<startedAt, owed, drifted>>
    BY <1>o, <1>12 DEF Fire, TypeOK, loop
  <2>2. Slice(c) \in Int
    BY <1>t, SettingsAssumption DEF Slice, Smaller
  <2>3. Honours(c, due[c] + delay[c] - Slice(c)) /\ clock >= due[c]
    BY <1>12 DEF Fire, Pace
  <2>4. Honours(c, clock + delay'[c])
    BY <1>t, <2>1, <2>2, <2>3, HonoursLater
  <2>5. delay'[c] <= 0 => Honours(c, clock)
    BY <1>t, <2>1, <2>2, <2>4, HonoursLater
  <2>. QED
    BY <1>t, <1>o, <1>c, <2>1, <2>2, <2>4, <2>5 DEF Pace, Honours
<1>13. CASE WakeOnAbort(c)
  <2>1. pc'[c] = "head" /\ startedAt' = startedAt /\ aborted'[c]
    BY <1>o, <1>13 DEF WakeOnAbort, TypeOK, loop
  <2>. QED
    BY <1>o, <1>c, <2>1 DEF Pace
<1>14. CASE SleepFails(c)
  <2>1. pc'[c] = "done" /\ startedAt' = startedAt
    BY <1>o, <1>14 DEF SleepFails, Surface, TypeOK, loop
  <2>. QED
    BY <1>s, <2>1
<1>15. CASE Abort(c)
  <2>1. UNCHANGED <<clock, pc, startedAt, attempt, timing>> /\ aborted'[c]
    BY <1>o, <1>15 DEF Abort, TypeOK, loop
  <2>. QED
    BY <2>1 DEF Pace, Honours, Slice, timing
<1>. QED
  BY <1>1, <1>2, <1>3, <1>4, <1>5, <1>6, <1>7, <1>8, <1>9, <1>10, <1>11, <1>12, <1>13,
     <1>14, <1>15 DEF CallStep

-----------------------------------------------------------------------------
(* The trail.                                                              *)

(* An error appended to a sequence leaves the same others before it.       *)
LEMMA WithoutLast ==
    ASSUME NEW S, NEW s \in Seq(S), NEW e \in S
    PROVE  Without(Append(s, e), e) = Without(s, e)
<1>. DEFINE t == Append(s, e)
<1>1. /\ t \in Seq(S) /\ Len(t) = Len(s) + 1 /\ t[Len(s) + 1] = e
      /\ \A n \in 1..Len(s) : t[n] = s[n]
  OBVIOUS
<1>2. DOMAIN s = 1..Len(s) /\ DOMAIN t = 1..(Len(s) + 1) /\ Len(s) \in Nat
  BY <1>1
<1>3. {n \in DOMAIN t : t[n] # e} = {n \in DOMAIN s : s[n] # e}
  BY <1>1, <1>2
<1>4. \A n \in {m \in DOMAIN s : s[m] # e} : t[n] = s[n]
  BY <1>1, <1>2
<1>. QED
  BY <1>3, <1>4 DEF Without, Restrict

(* A call that surfaces an error finds under it the failures before it.    *)
LEMMA SurfaceTrail ==
    ASSUME Base, NEW c \in Call, NEW e \in SharedError \cup ({c} \X Attempt), Surface(c, e),
           \/ failed'[c] = trail[c]
           \/ failed'[c] = Append(trail[c], e)
    PROVE  TrailOK(c)'
<1>1. e \in Error /\ e # NoError
  BY HandError
<1>2. trail[c] \in Seq(Error)
  BY DEF Base, TypeOK
<1>3. Without(failed'[c], e) = Without(trail[c], e)
  BY <1>1, <1>2, WithoutLast
<1>4. pc'[c] = "done" /\ err'[c] = e /\ trails'[e] = Without(trail[c], e)
  BY <1>1 DEF Surface, RecordAttempts, Base, TypeOK
<1>. QED
  BY <1>3, <1>4 DEF TrailOK, Caught, Waits, Without

(* A call that is not touched keeps its trail and, unless another call     *)
(* surfaces the error it caught, its entry.                                *)
LEMMA TrailSame ==
    ASSUME Base, NEW c \in Call, NEW d \in Call, c # d, TrailOK(d), Same(d), TableStep(c)
    PROVE  TrailOK(d)'
<1>1. ASSUME Caught(d), surfacer'[err[d]] = d
      PROVE  trails'[err[d]] = trails[err[d]] /\ surfacer'[err[d]] = surfacer[err[d]]
  <2>1. err[d] \in SharedError \cup ({d} \X Attempt) /\ err[d] \in Error
    BY <1>1, HandError DEF Caught
  <2>2. err[d] \notin {c} \X Attempt
    BY <2>1, ErrorAssumption
  <2>. QED
    BY <1>1, <2>1, <2>2 DEF TableStep
<1>. QED
  BY <1>1 DEF TrailOK, Caught, Same, Without

(* A step of a call that leaves its history and the table alone.           *)
LEMMA TrailKept ==
    ASSUME NEW c \in Call, TrailOK(c), UNCHANGED <<failed, trail, table>>,
           err'[c] = err[c] \/ err'[c] = NoError,
           \/ pc'[c] = pc[c] /\ err'[c] = err[c]
           \/ pc'[c] = "done" /\ err'[c] = NoError
           \/ /\ pc[c] \in {"head", "sent"} \cup Waits
              /\ pc'[c] \in {"head", "sent", "retiring"} \cup Waits
           \/ /\ pc[c] \in {"scheduling", "clamping"}
              /\ pc'[c] \in {"clamping", "releasing"}
              /\ err'[c] = err[c]
    PROVE  TrailOK(c)'
<1>1. trails' = trails /\ surfacer' = surfacer /\ failed' = failed /\ trail' = trail
  BY DEF table
<1>2. pc'[c] \in {"head", "sent", "retiring"} \cup Waits => failed'[c] = trail'[c]
  BY <1>1 DEF TrailOK, Waits
<1>3. pc'[c] \in {"scheduling", "throwing", "clamping", "releasing"} =>
        failed'[c] = Append(trail'[c], err'[c])
  BY <1>1 DEF TrailOK, Waits
<1>4. ASSUME pc'[c] = "done", err'[c] # NoError
      PROVE  pc[c] = "done" /\ err'[c] = err[c]
  BY <1>4 DEF Waits
<1>5. (Caught(c) /\ surfacer[err[c]] = c => trails[err[c]] = Without(failed[c], err[c]))'
  BY <1>1, <1>4 DEF TrailOK, Caught, Without
<1>. QED
  BY <1>2, <1>3, <1>5 DEF TrailOK, Waits

LEMMA TrailCallStep ==
    ASSUME Base, NEW c \in Call, TrailOK(c), CallStep(c)
    PROVE  TrailOK(c)'
<1>o. TypeOK /\ InHand(c)
  BY DEF Base
<1>1. CASE Begin(c)
  <2>1. pc'[c] = "head" /\ failed'[c] = <<>> /\ trail'[c] = <<>>
    BY <1>o, <1>1 DEF Begin, TypeOK
  <2>. QED
    BY <2>1 DEF TrailOK, Caught
<1>2. CASE Cancel(c)
  <2>1. Own(c) \in {c} \X Attempt
    BY <1>2, OwnType DEF Cancel
  <2>2. failed'[c] = trail[c]
    BY <1>2 DEF Cancel, TrailOK
  <2>. QED
    BY <1>2, <2>1, <2>2, SurfaceTrail DEF Cancel
<1>3. CASE Dispatch(c)
  <2>1. pc[c] = "head" /\ pc'[c] = "sent" /\ err'[c] = NoError
    BY <1>o, <1>3 DEF Dispatch, TypeOK
  <2>. QED
    BY <1>3, <2>1, TrailKept DEF Dispatch
<1>4. CASE Respond(c)
  <2>1. /\ pc[c] = "sent" /\ pc'[c] \in {"done", "retiring"} /\ err'[c] = NoError
        /\ UNCHANGED <<failed, trail, table, err>>
    BY <1>o, <1>4 DEF Respond, TypeOK, InHand, loop
  <2>. QED
    BY <2>1, TrailKept
<1>5. CASE Fail(c)
  <2>1. PICK e \in SharedError \cup {Own(c)} :
          /\ failed' = [failed EXCEPT ![c] = Append(@, e)]
          /\ \/ pc' = [pc EXCEPT ![c] = "scheduling"] /\ err' = [err EXCEPT ![c] = e]
             \/ Surface(c, e)
    BY <1>5 DEF Fail
  <2>2. e \in SharedError \cup ({c} \X Attempt)
    BY <1>5, OwnType DEF Fail
  <2>3. failed'[c] = Append(trail[c], e) /\ trail' = trail
    BY <1>o, <1>5, <2>1 DEF Fail, TrailOK, TypeOK, loop
  <2>4. CASE pc' = [pc EXCEPT ![c] = "scheduling"] /\ err' = [err EXCEPT ![c] = e]
    <3>1. pc'[c] = "scheduling" /\ err'[c] = e
      BY <1>o, <2>4 DEF TypeOK
    <3>. QED
      BY <2>3, <3>1 DEF TrailOK, Caught, Waits
  <2>. QED
    BY <2>1, <2>2, <2>3, <2>4, SurfaceTrail
<1>6. CASE Retire(c)
  <2>1. /\ pc'[c] \in {"scheduling", "throwing"} /\ err'[c] = Own(c) /\ trail' = trail
        /\ failed'[c] = Append(failed[c], Own(c))
    BY <1>o, <1>6 DEF Retire, TypeOK, loop
  <2>2. failed[c] = trail[c]
    BY <1>6 DEF Retire, TrailOK
  <2>. QED
    BY <2>1, <2>2 DEF TrailOK, Caught, Waits
<1>7. CASE Rethrow(c)
  <2>1. err[c] \in SharedError \cup ({c} \X Attempt)
    BY <1>o, <1>7, HandError DEF Rethrow, InHand
  <2>2. failed'[c] = Append(trail[c], err[c])
    BY <1>7 DEF Rethrow, TrailOK
  <2>. QED
    BY <1>7, <2>1, <2>2, SurfaceTrail DEF Rethrow
<1>8. CASE Schedule(c)
  <2>1. pc[c] = "scheduling" /\ pc'[c] = "clamping" /\ UNCHANGED <<failed, trail, table, err>>
    BY <1>o, <1>8 DEF Schedule, TypeOK, loop
  <2>. QED
    BY <2>1, TrailKept
<1>9. CASE Clamp(c)
  <2>1. pc[c] = "clamping" /\ pc'[c] = "releasing" /\ UNCHANGED <<failed, trail, table, err>>
    BY <1>o, <1>9 DEF Clamp, TypeOK, loop
  <2>. QED
    BY <2>1, TrailKept
<1>10. CASE Release(c)
  <2>1. err[c] \in SharedError \cup ({c} \X Attempt) /\ err[c] \in Error
    BY <1>o, <1>10, HandError DEF Release, InHand
  <2>2. failed'[c] = Append(trail[c], err[c])
    BY <1>10 DEF Release, TrailOK
  <2>3. CASE Surface(c, err[c])
    BY <2>1, <2>2, <2>3, SurfaceTrail
  <2>4. CASE /\ trail' = [trail EXCEPT ![c] = Append(@, err[c])]
             /\ pc' = [pc EXCEPT ![c] = IF delay[c] > 0 THEN "slicing" ELSE "head"]
    <3>1. trail'[c] = Append(trail[c], err[c])
      BY <2>1, <2>4, JoinType
    <3>2. pc'[c] \in {"slicing", "head"}
      BY <1>o, <2>4 DEF TypeOK
    <3>. QED
      BY <2>2, <3>1, <3>2 DEF TrailOK, Caught, Waits
  <2>. QED
    BY <1>10, <2>3, <2>4 DEF Release
<1>11. CASE StartSlice(c)
  <2>1. /\ pc[c] = "slicing" /\ pc'[c] \in {"head", "waiting"}
        /\ UNCHANGED <<failed, trail, table, err>>
    BY <1>o, <1>11 DEF StartSlice, TypeOK, loop
  <2>. QED
    BY <2>1, TrailKept DEF Waits
<1>12. CASE Fire(c)
  <2>1. /\ pc[c] = "waiting" /\ pc'[c] \in {"head", "slicing"}
        /\ UNCHANGED <<failed, trail, table, err>>
    BY <1>o, <1>12 DEF Fire, TypeOK, loop
  <2>. QED
    BY <2>1, TrailKept DEF Waits
<1>13. CASE WakeOnAbort(c)
  <2>1. /\ pc[c] = "waiting" /\ pc'[c] = "head"
        /\ UNCHANGED <<failed, trail, table, err>>
    BY <1>o, <1>13 DEF WakeOnAbort, TypeOK, loop
  <2>. QED
    BY <2>1, TrailKept DEF Waits
<1>14. CASE SleepFails(c)
  <2>1. Own(c) \in {c} \X Attempt
    BY <1>14, OwnType DEF SleepFails
  <2>2. failed'[c] = trail[c]
    BY <1>14 DEF SleepFails, TrailOK, Waits
  <2>. QED
    BY <1>14, <2>1, <2>2, SurfaceTrail DEF SleepFails
<1>15. CASE Abort(c)
  <2>1. UNCHANGED <<pc, failed, trail, table, err>>
    BY <1>15 DEF Abort, loop
  <2>. QED
    BY <2>1, TrailKept
<1>. QED
  BY <1>1, <1>2, <1>3, <1>4, <1>5, <1>6, <1>7, <1>8, <1>9, <1>10, <1>11, <1>12, <1>13,
     <1>14, <1>15 DEF CallStep

-----------------------------------------------------------------------------
(* The invariant and what follows from it.                                 *)

LEMMA InvBase == IndInv <=> Base /\ \A c \in Call : Pace(c) /\ TrailOK(c)
  BY DEF IndInv, Base

LEMMA InvInit == Init => IndInv
<1>. SUFFICES ASSUME Init PROVE IndInv
  OBVIOUS
<1>1. Base
  BY BaseInit
<1>2. \A c \in Call : Pace(c)
  BY DEF Init, Pace
<1>3. \A c \in Call : TrailOK(c)
  BY DEF Init, TrailOK, Caught, Waits
<1>. QED
  BY <1>1, <1>2, <1>3, InvBase

LEMMA InvStep == IndInv /\ [Next]_vars => IndInv'
<1>. SUFFICES ASSUME IndInv, [Next]_vars PROVE IndInv'
  OBVIOUS
<1>0. Base /\ \A c \in Call : Pace(c) /\ TrailOK(c)
  BY InvBase
<1>1. Base'
  BY <1>0, BaseStep
<1>2. CASE Tick \/ UNCHANGED vars
  <2>1. /\ \A d \in Call : Same(d)
        /\ clock' = clock \/ clock' = clock + 1
        /\ UNCHANGED <<pc, err, failed, trail, table>>
    BY <1>2 DEF Tick, Same, vars, timing, loop
  <2>2. clock \in Nat
    BY <1>0 DEF Base, TypeOK
  <2>3. \A d \in Call : Pace(d)'
    BY <1>0, <2>1, <2>2, PaceSame
  <2>4. \A d \in Call : TrailOK(d)'
    BY <1>0, <2>1, TrailKept
  <2>. QED
    BY <1>1, <2>3, <2>4 DEF IndInv, Base
<1>3. ASSUME NEW c \in Call, CallStep(c) PROVE IndInv'
  <2>1. clock' = clock /\ (\A d \in Call \ {c} : Same(d)) /\ TableStep(c)
    BY <1>0, <1>3, OthersSame
  <2>2. clock \in Nat
    BY <1>0 DEF Base, TypeOK
  <2>3. \A d \in Call : Pace(d)'
    BY <1>0, <1>3, <2>1, <2>2, PaceSame, PaceCallStep
  <2>4. \A d \in Call : TrailOK(d)'
    BY <1>0, <1>3, <2>1, TrailSame, TrailCallStep
  <2>. QED
    BY <1>1, <2>3, <2>4 DEF IndInv, Base
<1>. QED
  BY <1>2, <1>3 DEF Next

(* The entry under the error a caller catches is the failures of its call  *)
(* before that error, until another call surfaces the same error.          *)
THEOREM TrailsAreTheCalls == Spec => []TrailIsTheCalls
<1>1. IndInv => TrailIsTheCalls
  BY DEF IndInv, TrailOK, TrailIsTheCalls
<1>. QED
  BY InvInit, InvStep, <1>1, PTL DEF Spec

(* No retry goes out before the wait it owes is over, except at the end of *)
(* a budget that ran while the wait was being worked out.                  *)
THEOREM PacingIsHonoured == Spec => PacingHonoured
<1>1. ASSUME IndInv, [Next]_vars
      PROVE  \A c \in Call : attempt[c] > 0 /\ attempt'[c] > attempt[c] =>
                 \/ clock >= owed[c]
                 \/ drifted[c] /\ clock >= startedAt[c] + Budget
  <2>. TAKE d \in Call
  <2>. HAVE attempt[d] > 0 /\ attempt'[d] > attempt[d]
  <2>0. Base /\ Pace(d) /\ attempt[d] \in Nat
    BY <1>1, InvBase, SettingsAssumption DEF Base, TypeOK, Attempt
  <2>1. attempt'[d] # attempt[d]
    BY <2>0
  <2>2. PICK c \in Call : CallStep(c)
    BY <1>1, <2>1 DEF Next, Tick, vars, loop
  <2>3. c = d
    BY <2>0, <2>1, <2>2, OthersSame DEF Same
  <2>4. ~Begin(d)
    <3>1. Begin(d) => attempt'[d] = 0
      BY <2>0 DEF Begin, Base, TypeOK
    <3>. QED
      BY <2>0, <3>1
  <2>5. Dispatch(d)
    BY <2>1, <2>2, <2>3, <2>4
    DEF CallStep, Cancel, Respond, Fail, Retire, Rethrow, Schedule, Clamp, Release,
        StartSlice, Fire, WakeOnAbort, SleepFails, Abort, loop
  <2>. QED
    BY <2>0, <2>5 DEF Dispatch, Pace, Honours
<1>. QED
  BY InvInit, InvStep, <1>1, PTL DEF Spec, PacingHonoured

-----------------------------------------------------------------------------
(* The schedule.                                                            *)

PowerUpto(base, n, p) == p = [i \in 0 .. n |-> IF i = 0 THEN 1 ELSE Times(p[i - 1], base)]

\* What a function of powers is at each exponent.
LEMMA PowerAt ==
  ASSUME NEW base, NEW n \in Nat, NEW p, PowerUpto(base, n, p)
  PROVE  p[0] = 1 /\ \A i \in 1 .. n : p[i] = Times(p[i - 1], base)
<1> DEFINE body(i) == IF i = 0 THEN 1 ELSE Times(p[i - 1], base)
<1>1. p = [i \in 0 .. n |-> body(i)] BY DEF PowerUpto
<1> HIDE DEF body
<1>2. \A i \in 0 .. n : p[i] = body(i) BY <1>1
<1>3. 0 \in 0 .. n /\ \A i \in 1 .. n : i \in 0 .. n /\ i # 0 OBVIOUS
<1> QED BY <1>2, <1>3 DEF body

\* There is one, up to any exponent.
LEMMA PowersExist ==
  ASSUME NEW base
  PROVE  \A n \in Nat : \E p : PowerUpto(base, n, p)
<1> DEFINE S == {n \in Nat : \E p : PowerUpto(base, n, p)}
<1>1. 0 \in S
  <2> DEFINE p == [i \in 0 .. 0 |-> 1]
  <2>1. \A i \in 0 .. 0 : i = 0 OBVIOUS
  <2>2. PowerUpto(base, 0, p) BY <2>1 DEF PowerUpto
  <2> HIDE DEF p
  <2> QED BY <2>2
<1>2. ASSUME NEW n \in Nat, n \in S PROVE n + 1 \in S
  <2>1. PICK p : PowerUpto(base, n, p) BY <1>2
  <2> DEFINE q == [i \in 0 .. n + 1 |-> IF i = n + 1 THEN Times(p[n], base) ELSE p[i]]
             body(i) == IF i = 0 THEN 1 ELSE Times(q[i - 1], base)
  <2>2. p[0] = 1 /\ \A i \in 1 .. n : p[i] = Times(p[i - 1], base) BY <2>1, PowerAt
  <2>3. q[n + 1] = Times(p[n], base) /\ \A i \in 0 .. n : q[i] = p[i] OBVIOUS
  <2>4. q = [i \in 0 .. n + 1 |-> q[i]] OBVIOUS
  <2> HIDE DEF q
  <2>5. \A i \in 0 .. n + 1 : q[i] = body(i)
    <3> SUFFICES ASSUME NEW i \in 0 .. n + 1 PROVE q[i] = body(i) OBVIOUS
    <3>1. CASE i = n + 1
      <4>1. i # 0 /\ i - 1 = n /\ n \in 0 .. n BY <3>1
      <4> QED BY <2>3, <3>1, <4>1
    <3>2. CASE i = 0
      <4>1. 0 \in 0 .. n OBVIOUS
      <4> QED BY <2>2, <2>3, <3>2, <4>1
    <3>3. CASE i # 0 /\ i # n + 1
      <4>1. i \in 1 .. n /\ i \in 0 .. n /\ i - 1 \in 0 .. n BY <3>3
      <4> QED BY <2>2, <2>3, <3>3, <4>1
    <3> QED BY <3>1, <3>2, <3>3
  <2> HIDE DEF body
  <2>6. q = [i \in 0 .. n + 1 |-> body(i)] BY <2>4, <2>5
  <2>7. PowerUpto(base, n + 1, q) BY <2>6 DEF PowerUpto, body
  <2> QED BY <2>7
<1>3. Nat \subseteq S
  <2> HIDE DEF S
  <2> QED BY <1>1, <1>2, SetInduction
<1> QED BY <1>3

\* One more factor.
LEMMA PowerStep ==
  ASSUME NEW base, NEW n \in Nat
  PROVE  Power(base, 0) = 1 /\ Power(base, n + 1) = Times(Power(base, n), base)
<1> DEFINE P(m) == CHOOSE p : PowerUpto(base, m, p)
<1>1. \A m \in Nat : PowerUpto(base, m, P(m)) BY PowersExist
<1>2. \A m \in Nat : Power(base, m) = P(m)[m] BY DEF Power, PowerUpto
<1> HIDE DEF P
<1>3. \A m \in Nat : P(m)[0] = 1 /\ \A i \in 1 .. m : P(m)[i] = Times(P(m)[i - 1], base)
  BY <1>1, PowerAt
<1> DEFINE S == {i \in Nat : i <= n => P(n)[i] = P(n + 1)[i]}
<1>4. 0 \in S BY <1>3
<1>5. ASSUME NEW i \in Nat, i \in S PROVE i + 1 \in S
  <2> SUFFICES ASSUME i + 1 <= n PROVE P(n)[i + 1] = P(n + 1)[i + 1] OBVIOUS
  <2>1. i + 1 \in 1 .. n /\ i + 1 \in 1 .. n + 1 /\ (i + 1) - 1 = i /\ i <= n OBVIOUS
  <2>2. P(n)[i] = P(n + 1)[i] BY <1>5, <2>1
  <2>3. P(n)[i + 1] = Times(P(n)[i], base) BY <1>3, <2>1
  <2>4. P(n + 1)[i + 1] = Times(P(n + 1)[i], base) BY <1>3, <2>1
  <2> QED BY <2>2, <2>3, <2>4
<1>6. Nat \subseteq S
  <2> HIDE DEF S
  <2> QED BY <1>4, <1>5, SetInduction
<1>7. P(n)[n] = P(n + 1)[n] BY <1>6
<1>8. n + 1 \in 1 .. n + 1 /\ (n + 1) - 1 = n /\ n + 1 \in Nat OBVIOUS
<1> QED BY <1>2, <1>3, <1>7, <1>8

\* A product grows with its factors.
LEMMA Grows ==
  ASSUME NEW a \in Nat, NEW b \in Nat, NEW c \in Nat, b <= c
  PROVE  a * b \in Nat /\ a * b <= a * c /\ b * a <= c * a
<1> DEFINE d == c - b
<1>1. d \in Nat /\ c = b + d OBVIOUS
<1> HIDE DEF d
<1>2. a * c = a * b + a * d /\ a * b \in Nat /\ a * d \in Nat BY <1>1
<1>3. c * a = b * a + d * a /\ b * a \in Nat /\ d * a \in Nat BY <1>1
<1> QED BY <1>2, <1>3

Positive(n) == n \in Nat /\ 1 <= n /\ n <= Inf

\* A factor of at least one makes nothing smaller, below Infinity and at it.
LEMMA TimesGrows ==
  ASSUME NEW a, NEW b, NEW c, Positive(a), Positive(b), Positive(c)
  PROVE  /\ Positive(Times(a, b)) /\ a <= Times(a, b)
         /\ b <= c => Times(a, b) <= Times(a, c)
<1>1. Inf \in Nat /\ Inf > 1 /\ ~ (NaN \in {a, b}) /\ ~ (NaN \in {a, c}) /\ {a, b} # {0, Inf} /\ {a, c} # {0, Inf}
  BY DEF Inf, NaN, Positive
<1>2. /\ Times(a, b) = IF a * b > Inf THEN Inf ELSE a * b
      /\ Times(a, c) = IF a * c > Inf THEN Inf ELSE a * c
  BY <1>1 DEF Times
<1>3. a * b \in Nat /\ a * c \in Nat /\ a <= a * b /\ (b <= c => a * b <= a * c)
  <2>1. a * 1 <= a * b /\ a * 1 = a BY Grows DEF Positive
  <2>2. a * b \in Nat /\ a * c \in Nat BY DEF Positive
  <2>3. b <= c => a * b <= a * c BY Grows DEF Positive
  <2> QED BY <2>1, <2>2, <2>3
<1> DEFINE x == a * b
           y == a * c
<1> HIDE DEF x, y
<1>4. /\ x \in Nat /\ y \in Nat /\ a <= x /\ (b <= c => x <= y)
      /\ Times(a, b) = IF x > Inf THEN Inf ELSE x
      /\ Times(a, c) = IF y > Inf THEN Inf ELSE y
  BY <1>2, <1>3 DEF x, y
<1>5. a \in Nat /\ 1 <= a /\ a <= Inf BY DEF Positive
<1> QED BY <1>1, <1>4, <1>5 DEF Positive

\* So the powers never fall.
LEMMA PowersGrow ==
  ASSUME NEW base, Positive(base)
  PROVE  \A n \in Nat : Positive(Power(base, n)) /\ Power(base, n) <= Power(base, n + 1)
<1> DEFINE S == {n \in Nat : Positive(Power(base, n))}
<1>1. 0 \in S
  <2>1. Power(base, 0) = 1 BY PowerStep
  <2> QED BY <2>1 DEF Positive, Inf
<1>2. ASSUME NEW n \in Nat, n \in S PROVE n + 1 \in S BY <1>2, PowerStep, TimesGrows
<1>3. Nat \subseteq S
  <2> HIDE DEF S
  <2> QED BY <1>1, <1>2, SetInduction
<1> QED BY <1>3, PowerStep, TimesGrows

\* A jittered delay, by the jitter.
LEMMA JitterKeeps ==
  ASSUME NEW d \in Nat, NEW e \in Nat, d <= e, NEW m \in Nat, d <= m,
         NEW j \in 0 .. 2, NEW r \in 0 .. 3
  PROVE  /\ Jittered(d, j, r) \in Nat
         /\ 2 * Jittered(d, j, r) <= 8 * m * 2 + 8 * m * j
         /\ Jittered(d, j, r) <= Jittered(e, j, r)
<1>1. NaN # d /\ NaN # e BY DEF NaN
<1>2. \A x \in {d, e} : Jittered(x, j, r) =
        IF 8 * x - 2 * x * j + r * x * j < 0 THEN 0 ELSE 8 * x - 2 * x * j + r * x * j
  BY <1>1 DEF Jittered
<1>3. j = 0 \/ j = 1 \/ j = 2 OBVIOUS
<1>4. r = 0 \/ r = 1 \/ r = 2 \/ r = 3 OBVIOUS
<1>5. CASE j = 0 BY <1>2, <1>5
<1>6. CASE j = 1 BY <1>2, <1>4, <1>6
<1>7. CASE j = 2 BY <1>2, <1>4, <1>7
<1> QED BY <1>3, <1>5, <1>6, <1>7

Settings ==
  [initialDelayMs : Int \ {NoValue}, multiplier : Int, maxDelayMs : Int \ {NoValue}, jitter : Int,
   fixedDelayMs : Int, maxAttempts : Int]

\* Whatever the settings that are accepted, the delay before every attempt, the
\* hundredth too, is a number that is not negative and not below the one before
\* it, and goes no more than half a jitter over its cap; the fixed delay is the
\* delay.  The growth saturates at Infinity before the cap is applied, and no
\* accepted setting makes the product of zero and Infinity.
THEOREM DelaysAreBounded ==
  ASSUME NEW s \in Settings
  PROVE  /\ DelaysHold(s)
         /\ \A t \in RetrySettings(s), random \in 0 .. 3, nth \in Nat \ {0} : DelayHolds(t, random, nth)
<1>1. ASSUME NEW t \in RetrySettings(s), NEW random \in 0 .. 3, NEW nth \in Nat \ {0}
      PROVE  DelayHolds(t, random, nth)
  <2> DEFINE i == t.initialDelayMs
             m == t.maxDelayMs
             j == t.jitter
             f == t.fixedDelayMs
             b == t.multiplier
  <2>1. /\ IsDuration(i) /\ IsDuration(m) /\ IsDuration(f) /\ b \in 1 .. Inf - 1 /\ j \in 0 .. 2
        /\ i # NoValue /\ m # NoValue
    BY DEF RetrySettings, Settings
  <2>2. /\ i \in Nat /\ i <= Inf /\ m \in Nat /\ m <= Inf /\ Positive(b)
        /\ f # NoValue => f \in Nat
    <3>1. Inf \in Nat BY DEF Inf
    <3>2. \A x : IsDuration(x) => x = NoValue \/ (x \in Nat /\ x <= Inf) BY <3>1 DEF IsDuration
    <3>3. b \in Nat /\ 1 <= b /\ b <= Inf BY <2>1, <3>1
    <3> HIDE DEF i, m, f, b
    <3> QED BY <2>1, <3>2, <3>3 DEF Positive
  <2>3. CASE f # NoValue
    <3>1. \A a : ComputeDelay(a, t, random) = 8 * f BY <2>3 DEF ComputeDelay
    <3> QED BY <2>2, <2>3, <3>1 DEF DelayHolds
  <2>4. CASE f = NoValue /\ i = 0
    <3>1. \A a : ComputeDelay(a, t, random) = 0 BY <2>4 DEF ComputeDelay
    <3>2. 8 * m * 2 + 8 * m * j >= 0
      <4>1. j = 0 \/ j = 1 \/ j = 2 BY <2>1
      <4> QED BY <2>2, <4>1
    <3> HIDE DEF m, j, f
    <3>3. f = NoValue => 2 * 0 <= 8 * m * 2 + 8 * m * j BY <3>2
    <3> QED BY <2>4, <3>1, <3>3 DEF DelayHolds, m, j, f
  <2>5. CASE f = NoValue /\ i # 0
    <3> DEFINE P(a) == Power(b, a - 1)
               G(a) == LeastOf(Times(i, P(a)), m)
    <3>1. \A a : ComputeDelay(a, t, random) = Jittered(G(a), j, random) BY <2>5 DEF ComputeDelay
    <3>2. /\ Positive(P(nth)) /\ Positive(P(nth + 1)) /\ P(nth) <= P(nth + 1)
      <4>1. nth - 1 \in Nat /\ (nth - 1) + 1 = nth /\ (nth + 1) - 1 = nth /\ nth \in Nat
        OBVIOUS
      <4> HIDE DEF b
      <4> QED BY <2>2, <4>1, PowersGrow
    <3>3. Positive(i) BY <2>2, <2>5 DEF Positive
    <3> DEFINE x == Times(i, P(nth))
               y == Times(i, P(nth + 1))
    <3>4. Positive(x) /\ Positive(y) /\ x <= y
      <4> HIDE DEF P, i
      <4> QED BY <3>2, <3>3, TimesGrows
    <3>5. G(nth) = LeastOf(x, m) /\ G(nth + 1) = LeastOf(y, m) OBVIOUS
    <3> HIDE DEF x, y, G
    <3> DEFINE d == G(nth)
               e == G(nth + 1)
    <3>6. d \in Nat /\ e \in Nat /\ d <= e /\ d <= m
      <4>1. NaN \notin {x, m} /\ NaN \notin {y, m} BY <2>2, <3>4 DEF Positive, NaN
      <4>2. d = (IF x < m THEN x ELSE m) /\ e = (IF y < m THEN y ELSE m) BY <3>5, <4>1 DEF LeastOf
      <4>3. x \in Nat /\ y \in Nat BY <3>4 DEF Positive
      <4> HIDE DEF d, e, m
      <4> QED BY <2>2, <3>4, <4>2, <4>3
    <3> DEFINE v == Jittered(d, j, random)
               w == Jittered(e, j, random)
    <3>7. v \in Nat /\ 2 * v <= 8 * m * 2 + 8 * m * j /\ v <= w
      <4> HIDE DEF d, e, m, j
      <4> QED BY <2>1, <2>2, <3>6, JitterKeeps
    <3>8. ComputeDelay(nth, t, random) = v /\ ComputeDelay(nth + 1, t, random) = w BY <3>1
    <3> HIDE DEF v, w
    <3> QED BY <2>5, <3>7, <3>8 DEF DelayHolds
  <2> QED BY <2>3, <2>4, <2>5
<1>2. ASSUME NEW t \in RetrySettings(s), NEW maxRetries \in 0 .. 2
      PROVE  EffectiveSettings(t, maxRetries) \in RetrySettings(EffectiveSettings(t, maxRetries))
  <2> DEFINE e == [t EXCEPT !.maxAttempts = maxRetries + 1]
  <2>1. EffectiveSettings(t, maxRetries) = e BY DEF EffectiveSettings, NoValue
  <2>2. /\ t \in Settings /\ IsDuration(t.initialDelayMs) /\ IsDuration(t.maxDelayMs) /\ IsDuration(t.fixedDelayMs)
        /\ t.multiplier \in 1 .. Inf - 1 /\ t.jitter \in 0 .. 2
    BY DEF RetrySettings
  <2>3. /\ e.initialDelayMs = t.initialDelayMs /\ e.maxDelayMs = t.maxDelayMs /\ e.fixedDelayMs = t.fixedDelayMs
        /\ e.multiplier = t.multiplier /\ e.jitter = t.jitter /\ e.maxAttempts = maxRetries + 1
    BY <2>2 DEF Settings
  <2> HIDE DEF e
  <2>4. e.maxAttempts >= 1 BY <2>3
  <2>5. e \in RetrySettings(e) BY <2>2, <2>3, <2>4 DEF RetrySettings
  <2> QED BY <2>1, <2>5
<1>3. \A nth \in 1 .. 12 : nth \in Nat \ {0} OBVIOUS
<1> QED BY <1>1, <1>2, <1>3 DEF DelaysHold

-----------------------------------------------------------------------------
(* The hints.                                                               *)

FirstOf(a, b, c, d) ==
  IF a # {} THEN a ELSE IF b # {} THEN b ELSE IF c # {} THEN c ELSE d

\* The first header that can be read is the one that counts.
LEMMA FirstReadable ==
  ASSUME NEW a, NEW b, NEW c, NEW d
  PROVE  LET told == <<a, b, c, d>>
             readable == {i \in 1 .. 4 : told[i] # {}}
         IN  (IF readable = {} THEN {} ELSE told[CHOOSE i \in readable : \A j \in readable : i <= j])
               = FirstOf(a, b, c, d)
<1> DEFINE told == <<a, b, c, d>>
           readable == {i \in 1 .. 4 : told[i] # {}}
           first == CHOOSE i \in readable : \A j \in readable : i <= j
<1>1. told[1] = a /\ told[2] = b /\ told[3] = c /\ told[4] = d OBVIOUS
<1>2. \A i : i \in 1 .. 4 <=> i = 1 \/ i = 2 \/ i = 3 \/ i = 4 OBVIOUS
<1> HIDE DEF told
<1>3. \A i : i \in readable <=> \/ i = 1 /\ a # {}
                                \/ i = 2 /\ b # {}
                                \/ i = 3 /\ c # {}
                                \/ i = 4 /\ d # {}
  BY <1>1, <1>2
<1> HIDE DEF readable
<1>4. ASSUME NEW i \in readable, \A j \in readable : i <= j PROVE first = i
  <2>1. \A k \in readable : k \in Int BY <1>3
  <2>2. \A k \in readable : (\A j \in readable : k <= j) => k = i
    <3> TAKE k \in readable
    <3> HAVE \A j \in readable : k <= j
    <3>1. k <= i /\ i <= k BY <1>4
    <3> QED BY <2>1, <3>1
  <2> QED BY <1>4, <2>2
<1> HIDE DEF first
<1>5. CASE a # {}
  <2>1. 1 \in readable /\ \A j \in readable : 1 <= j BY <1>3, <1>5
  <2>2. first = 1 /\ readable # {} BY <1>4, <2>1
  <2> QED BY <1>1, <1>5, <2>2 DEF first, readable, told, FirstOf
<1>6. CASE a = {} /\ b # {}
  <2>1. 2 \in readable /\ \A j \in readable : 2 <= j BY <1>3, <1>6
  <2>2. first = 2 /\ readable # {} BY <1>4, <2>1
  <2> QED BY <1>1, <1>6, <2>2 DEF first, readable, told, FirstOf
<1>7. CASE a = {} /\ b = {} /\ c # {}
  <2>1. 3 \in readable /\ \A j \in readable : 3 <= j BY <1>3, <1>7
  <2>2. first = 3 /\ readable # {} BY <1>4, <2>1
  <2> QED BY <1>1, <1>7, <2>2 DEF first, readable, told, FirstOf
<1>8. CASE a = {} /\ b = {} /\ c = {} /\ d # {}
  <2>1. 4 \in readable /\ \A j \in readable : 4 <= j BY <1>3, <1>8
  <2>2. first = 4 /\ readable # {} BY <1>4, <2>1
  <2> QED BY <1>1, <1>8, <2>2 DEF first, readable, told, FirstOf
<1>9. CASE a = {} /\ b = {} /\ c = {} /\ d = {}
  <2>1. readable = {} BY <1>3, <1>9
  <2> QED BY <1>9, <2>1 DEF readable, told, FirstOf
<1> QED BY <1>5, <1>6, <1>7, <1>8, <1>9

\* What each header says.
RetryAfterHint(h, now) == {20 * d : d \in ParseRetryAfter(h, now)}
IntegerHint(h) == {20 * ClampPacing(n, MaxPacing) : n \in IntegerValue(h)}

\* What the headers of a response ask for, as one choice after the other.
LEMMA HintIs ==
  ASSUME NEW headers, NEW now, NEW random
  PROVE  ParsePacingHint(headers, now, random) =
           FirstOf(RetryAfterHint(headers.retryAfter, now), IntegerHint(headers.retryAfterMs),
                   IntegerHint(headers.msRetryAfterMs), RateLimitReset(headers.reset, now, random))
<1> DEFINE a == RetryAfterHint(headers.retryAfter, now)
           b == IntegerHint(headers.retryAfterMs)
           c == IntegerHint(headers.msRetryAfterMs)
           d == RateLimitReset(headers.reset, now, random)
           told == <<a, b, c, d>>
           readable == {i \in 1 .. 4 : told[i] # {}}
<1>1. ParsePacingHint(headers, now, random) =
        IF readable = {} THEN {} ELSE told[CHOOSE i \in readable : \A j \in readable : i <= j]
  BY DEF ParsePacingHint, RetryAfterHint, IntegerHint
<1> HIDE DEF a, b, c, d
<1>2. (IF readable = {} THEN {} ELSE told[CHOOSE i \in readable : \A j \in readable : i <= j])
        = FirstOf(a, b, c, d)
  BY FirstReadable
<1> QED BY <1>1, <1>2 DEF a, b, c, d

Unreadable == {"absent", "garbage"}
IntegerForms == [kind : Unreadable \cup {"integer"}, n : Nat]
RetryAfterForms == [kind : Unreadable \cup {"seconds"}, n : Nat] \cup [kind : {"date"}, n : Int]

\* A pacing that is clamped is between nothing and the most.
LEMMA Clamped ==
  ASSUME NEW n \in Int
  PROVE  /\ MaxPacing \in Nat /\ MaxPacing > 0
         /\ ClampPacing(n, MaxPacing) \in Nat /\ ClampPacing(n, MaxPacing) <= MaxPacing
         /\ ClampPacing(n, MaxPacing) = 0 <=> n <= 0
<1>1. MaxPacing \in Nat /\ MaxPacing > 0 BY DEF MaxPacing
<1> QED BY <1>1 DEF ClampPacing

\* What a Retry-After says, in seconds or as a date.
LEMMA RetryAfterSays ==
  ASSUME NEW h \in RetryAfterForms, NEW now \in Int
  PROVE  /\ h.kind \in Unreadable => ParseRetryAfter(h, now) = {}
         /\ \A told \in RetryAfterHint(h, now) :
              /\ told \in Nat /\ told <= 20 * MaxPacing
              /\ told = 0 => /\ h.kind \notin Unreadable
                             /\ h.n = 0 \/ (h.kind = "date" /\ 10 * h.n <= now)
         /\ RetryAfterHint(h, now) = {} <=> ParseRetryAfter(h, now) = {}
         /\ \A x, y \in RetryAfterHint(h, now) : x = y
<1>0. h.n \in Int /\ (h.kind # "date" => h.n \in Nat) BY DEF RetryAfterForms
<1>1. CASE h.kind \in Unreadable
  <2>1. ParseRetryAfter(h, now) = {} BY <1>1 DEF ParseRetryAfter, Unreadable
  <2> QED BY <2>1 DEF RetryAfterHint
<1>2. CASE h.kind = "seconds"
  <2> DEFINE d == ClampPacing(10 * h.n, MaxPacing)
  <2>1. ParseRetryAfter(h, now) = {d} BY <1>2 DEF ParseRetryAfter
  <2>2. MaxPacing \in Nat /\ d \in Nat /\ d <= MaxPacing /\ (d = 0 <=> 10 * h.n <= 0)
    <3>1. 10 * h.n \in Int BY <1>0
    <3> QED BY <3>1, Clamped
  <2> HIDE DEF d
  <2>3. RetryAfterHint(h, now) = {20 * d} BY <2>1 DEF RetryAfterHint
  <2>4. h.kind \notin Unreadable BY <1>2 DEF Unreadable
  <2>5. 20 * d = 0 => h.n = 0 BY <1>0, <1>2, <2>2
  <2>6. 20 * d \in Nat /\ 20 * d <= 20 * MaxPacing BY <2>2
  <2> QED BY <2>1, <2>3, <2>4, <2>5, <2>6
<1>3. CASE h.kind = "date"
  <2> DEFINE d == ClampPacing(10 * h.n - now, MaxPacing)
  <2>1. ParseRetryAfter(h, now) = {d} BY <1>3 DEF ParseRetryAfter
  <2>2. MaxPacing \in Nat /\ d \in Nat /\ d <= MaxPacing /\ (d = 0 <=> 10 * h.n - now <= 0)
    <3>1. 10 * h.n - now \in Int BY <1>0
    <3> QED BY <3>1, Clamped
  <2> HIDE DEF d
  <2>3. RetryAfterHint(h, now) = {20 * d} BY <2>1 DEF RetryAfterHint
  <2>4. h.kind \notin Unreadable BY <1>3 DEF Unreadable
  <2>5. 20 * d = 0 => 10 * h.n <= now BY <1>0, <2>2
  <2>6. 20 * d \in Nat /\ 20 * d <= 20 * MaxPacing BY <2>2
  <2> QED BY <1>3, <2>1, <2>3, <2>4, <2>5, <2>6
<1> QED BY <1>1, <1>2, <1>3 DEF RetryAfterForms, Unreadable

\* What a header in milliseconds says.
LEMMA IntegerSays ==
  ASSUME NEW h \in IntegerForms
  PROVE  /\ h.kind \in Unreadable => IntegerHint(h) = {}
         /\ \A told \in IntegerHint(h) :
              /\ told \in Nat /\ told <= 20 * MaxPacing
              /\ told = 0 => h.kind \notin Unreadable /\ h.n = 0
         /\ \A x, y \in IntegerHint(h) : x = y
<1>0. h.n \in Nat BY DEF IntegerForms
<1>1. CASE h.kind \in Unreadable BY <1>1 DEF IntegerHint, IntegerValue, Unreadable
<1>2. CASE h.kind = "integer"
  <2> DEFINE d == ClampPacing(h.n, MaxPacing)
  <2>1. IntegerHint(h) = {20 * d} BY <1>2 DEF IntegerHint, IntegerValue
  <2>2. MaxPacing \in Nat /\ d \in Nat /\ d <= MaxPacing /\ (d = 0 <=> h.n <= 0) BY <1>0, Clamped
  <2> HIDE DEF d
  <2>4. h.kind \notin Unreadable BY <1>2 DEF Unreadable
  <2>5. 20 * d = 0 => h.n = 0 BY <1>0, <2>2
  <2>6. 20 * d \in Nat /\ 20 * d <= 20 * MaxPacing BY <2>2
  <2> QED BY <2>1, <2>4, <2>5, <2>6
<1> QED BY <1>1, <1>2 DEF IntegerForms

\* What a reset at a time says.
LEMMA ResetSays ==
  ASSUME NEW h \in IntegerForms, NEW now \in Int, NEW random \in 0 .. 3
  PROVE  /\ h.kind \in Unreadable => RateLimitReset(h, now, random) = {}
         /\ \A told \in RateLimitReset(h, now, random) :
              /\ told \in Nat /\ told <= 20 * MaxPacing
              /\ told = 0 => h.kind \notin Unreadable /\ 10 * h.n <= now
              /\ \A sooner \in RateLimitReset(h, now, 0) : sooner <= told
         /\ RateLimitReset(h, now, random) # {} => RateLimitReset(h, now, 0) # {}
<1>0. h.n \in Nat BY DEF IntegerForms
<1>1. CASE h.kind \in Unreadable BY <1>1 DEF RateLimitReset, IntegerValue, Unreadable
<1>2. CASE h.kind = "integer"
  <2> DEFINE d == ClampPacing(10 * h.n - now, MaxPacing)
             told(r) == IF d = 0 THEN 0 ELSE ClampPacing(d * (20 + r), 20 * MaxPacing)
  <2>1. \A r : RateLimitReset(h, now, r) = {told(r)} BY <1>2 DEF RateLimitReset, IntegerValue
  <2>2. MaxPacing \in Nat /\ MaxPacing > 0 /\ d \in Nat /\ d <= MaxPacing /\ (d = 0 <=> 10 * h.n - now <= 0)
    <3>1. 10 * h.n - now \in Int BY <1>0
    <3> QED BY <3>1, Clamped
  <2> HIDE DEF d
  <2>3. random = 0 \/ random = 1 \/ random = 2 \/ random = 3 OBVIOUS
  <2>4. d * (20 + random) \in Nat /\ 20 * d <= d * (20 + random) /\ d * (20 + 0) = 20 * d
    BY <2>2, <2>3
  <2> DEFINE e == d * (20 + random)
             f == d * (20 + 0)
  <2>5. e \in Nat /\ f = 20 * d /\ f <= e BY <2>4
  <2>6. /\ told(random) = IF d = 0 THEN 0 ELSE ClampPacing(e, 20 * MaxPacing)
        /\ told(0) = IF d = 0 THEN 0 ELSE ClampPacing(f, 20 * MaxPacing)
    OBVIOUS
  <2> HIDE DEF e, f, told
  <2>7. /\ told(random) \in Nat /\ told(random) <= 20 * MaxPacing
        /\ told(random) = 0 => d = 0
        /\ told(0) <= told(random)
    BY <2>2, <2>5, <2>6 DEF ClampPacing
  <2>8. d = 0 => 10 * h.n <= now BY <1>0, <2>2
  <2>9. h.kind \notin Unreadable BY <1>2 DEF Unreadable
  <2> QED BY <2>1, <2>7, <2>8, <2>9
<1> QED BY <1>1, <1>2 DEF IntegerForms

\* Whatever the four pacing headers say, what is waited for is one number within
\* the limit, an answer never earlier than the server named it; zero is only read
\* from a header that says now or earlier; a header that cannot be read counts as
\* absent, and a Retry-After that can be read silences the other three.
THEOREM HintsAreHonoured ==
  ASSUME NEW headers \in [retryAfter : RetryAfterForms, retryAfterMs : IntegerForms,
                          msRetryAfterMs : IntegerForms, reset : IntegerForms],
         NEW now \in Int
  PROVE  HintsHold(headers, now)
<1> DEFINE absent == [kind |-> "absent", n |-> 0]
           unread(name) == [headers EXCEPT ![name] = absent]
           A == RetryAfterHint(headers.retryAfter, now)
           B == IntegerHint(headers.retryAfterMs)
           C == IntegerHint(headers.msRetryAfterMs)
           D(r) == RateLimitReset(headers.reset, now, r)
           Wait(r) == ParsePacingHint(headers, now, r)
           Said(name) == LET h == headers[name] IN
             /\ h.kind \notin {"absent", "garbage"}
             /\ h.n = 0 \/ ((h.kind = "date" \/ name = "reset") /\ 10 * h.n <= now)
<1>0. /\ headers.retryAfter \in RetryAfterForms /\ headers.retryAfterMs \in IntegerForms
      /\ headers.msRetryAfterMs \in IntegerForms /\ headers.reset \in IntegerForms
      /\ DOMAIN headers = {"retryAfter", "retryAfterMs", "msRetryAfterMs", "reset"}
  OBVIOUS
<1>1. \A r : Wait(r) = FirstOf(A, B, C, D(r)) BY HintIs
<1>2. /\ RetryAfterHint(absent, now) = {} /\ IntegerHint(absent) = {}
      /\ \A r : RateLimitReset(absent, now, r) = {}
  BY DEF RetryAfterHint, ParseRetryAfter, IntegerHint, IntegerValue, RateLimitReset
<1>3. /\ unread("retryAfter").retryAfter = absent /\ unread("retryAfter").retryAfterMs = headers.retryAfterMs
      /\ unread("retryAfter").msRetryAfterMs = headers.msRetryAfterMs /\ unread("retryAfter").reset = headers.reset
      /\ unread("retryAfterMs").retryAfter = headers.retryAfter /\ unread("retryAfterMs").retryAfterMs = absent
      /\ unread("retryAfterMs").msRetryAfterMs = headers.msRetryAfterMs /\ unread("retryAfterMs").reset = headers.reset
      /\ unread("msRetryAfterMs").retryAfter = headers.retryAfter
      /\ unread("msRetryAfterMs").retryAfterMs = headers.retryAfterMs
      /\ unread("msRetryAfterMs").msRetryAfterMs = absent /\ unread("msRetryAfterMs").reset = headers.reset
      /\ unread("reset").retryAfter = headers.retryAfter /\ unread("reset").retryAfterMs = headers.retryAfterMs
      /\ unread("reset").msRetryAfterMs = headers.msRetryAfterMs /\ unread("reset").reset = absent
  OBVIOUS
<1> HIDE DEF absent, unread
<1>4. \A r : /\ ParsePacingHint(unread("retryAfter"), now, r) = FirstOf({}, B, C, D(r))
             /\ ParsePacingHint(unread("retryAfterMs"), now, r) = FirstOf(A, {}, C, D(r))
             /\ ParsePacingHint(unread("msRetryAfterMs"), now, r) = FirstOf(A, B, {}, D(r))
             /\ ParsePacingHint(unread("reset"), now, r) = FirstOf(A, B, C, {})
  BY <1>2, <1>3, HintIs
<1> SUFFICES ASSUME NEW r \in 0 .. 3
             PROVE  /\ \A told \in Wait(r) :
                         /\ told \in 0 .. 20 * MaxPacing
                         /\ told = 0 => \E name \in DOMAIN headers : Said(name)
                         /\ told >= CHOOSE h \in Wait(0) : TRUE
                    /\ \A name \in DOMAIN headers : headers[name].kind = "garbage" =>
                         Wait(r) = ParsePacingHint(unread(name), now, r)
                    /\ ParseRetryAfter(headers.retryAfter, now) # {} =>
                         \A name \in DOMAIN headers \ {"retryAfter"} :
                           Wait(r) = ParsePacingHint(unread(name), now, r)
  <2> HIDE DEF Wait, Said
  <2> QED BY DEF HintsHold, Wait, Said, unread, absent
<1>5. /\ headers.retryAfter.kind \in Unreadable => A = {}
      /\ headers.retryAfterMs.kind \in Unreadable => B = {}
      /\ headers.msRetryAfterMs.kind \in Unreadable => C = {}
      /\ headers.reset.kind \in Unreadable => D(r) = {}
      /\ A = {} <=> ParseRetryAfter(headers.retryAfter, now) = {}
  BY <1>0, RetryAfterSays, IntegerSays, ResetSays
<1>6. MaxPacing \in Nat BY DEF MaxPacing
<1>7. \A told \in A : told \in Nat /\ told <= 20 * MaxPacing /\ (told = 0 => Said("retryAfter"))
  BY <1>0, RetryAfterSays DEF Unreadable
<1>8. \A told \in B : told \in Nat /\ told <= 20 * MaxPacing /\ (told = 0 => Said("retryAfterMs"))
  BY <1>0, IntegerSays DEF Unreadable
<1>9. \A told \in C : told \in Nat /\ told <= 20 * MaxPacing /\ (told = 0 => Said("msRetryAfterMs"))
  BY <1>0, IntegerSays DEF Unreadable
<1>10. \A told \in D(r) : /\ told \in Nat /\ told <= 20 * MaxPacing /\ (told = 0 => Said("reset"))
                          /\ D(0) # {} /\ \A sooner \in D(0) : sooner <= told
  BY <1>0, ResetSays DEF Unreadable
<1>11. (\A x, y \in A : x = y) /\ (\A x, y \in B : x = y) /\ (\A x, y \in C : x = y)
  BY <1>0, RetryAfterSays, IntegerSays
<1> HIDE DEF A, B, C, D, Said
<1>12. ASSUME NEW told \in Wait(r)
       PROVE  /\ told \in 0 .. 20 * MaxPacing
              /\ told = 0 => \E name \in DOMAIN headers : Said(name)
              /\ told >= CHOOSE h \in Wait(0) : TRUE
  <2>1. told \in FirstOf(A, B, C, D(r)) /\ Wait(0) = FirstOf(A, B, C, D(0)) BY <1>1
  <2> DEFINE soonest == CHOOSE h \in Wait(0) : TRUE
  <2>2. Wait(0) # {} => soonest \in Wait(0) OBVIOUS
  <2> HIDE DEF Wait, soonest
  <2>3. CASE A # {}
    <3>1. told \in A /\ Wait(0) = A BY <2>1, <2>3 DEF FirstOf
    <3>2. soonest = told BY <1>11, <2>2, <3>1
    <3>3. soonest <= told /\ soonest \in Nat BY <1>7, <3>1, <3>2
    <3> QED BY <1>0, <1>6, <1>7, <3>1, <3>3 DEF soonest
  <2>4. CASE A = {} /\ B # {}
    <3>1. told \in B /\ Wait(0) = B BY <2>1, <2>4 DEF FirstOf
    <3>2. soonest = told BY <1>11, <2>2, <3>1
    <3>3. soonest <= told /\ soonest \in Nat BY <1>8, <3>1, <3>2
    <3> QED BY <1>0, <1>6, <1>8, <3>1, <3>3 DEF soonest
  <2>5. CASE A = {} /\ B = {} /\ C # {}
    <3>1. told \in C /\ Wait(0) = C BY <2>1, <2>5 DEF FirstOf
    <3>2. soonest = told BY <1>11, <2>2, <3>1
    <3>3. soonest <= told /\ soonest \in Nat BY <1>9, <3>1, <3>2
    <3> QED BY <1>0, <1>6, <1>9, <3>1, <3>3 DEF soonest
  <2>6. CASE A = {} /\ B = {} /\ C = {}
    <3>1. told \in D(r) /\ Wait(0) = D(0) BY <2>1, <2>6 DEF FirstOf
    <3>2. soonest \in D(0) BY <1>10, <2>2, <3>1
    <3>3. soonest <= told BY <1>10, <3>1, <3>2
    <3>4. soonest \in Nat BY <3>2, <1>0, ResetSays DEF D
    <3> QED BY <1>0, <1>6, <1>10, <3>1, <3>3, <3>4 DEF soonest
  <2> QED BY <2>3, <2>4, <2>5, <2>6
<1>13. ASSUME NEW name \in DOMAIN headers, headers[name].kind = "garbage"
       PROVE  Wait(r) = ParsePacingHint(unread(name), now, r)
  <2>1. headers[name].kind \in Unreadable BY <1>13 DEF Unreadable
  <2>2. CASE name = "retryAfter" BY <1>1, <1>4, <1>5, <2>1, <2>2 DEF FirstOf
  <2>3. CASE name = "retryAfterMs" BY <1>1, <1>4, <1>5, <2>1, <2>3 DEF FirstOf
  <2>4. CASE name = "msRetryAfterMs" BY <1>1, <1>4, <1>5, <2>1, <2>4 DEF FirstOf
  <2>5. CASE name = "reset" BY <1>1, <1>4, <1>5, <2>1, <2>5 DEF FirstOf
  <2> QED BY <1>0, <2>2, <2>3, <2>4, <2>5
<1>14. ASSUME ParseRetryAfter(headers.retryAfter, now) # {}, NEW name \in DOMAIN headers \ {"retryAfter"}
       PROVE  Wait(r) = ParsePacingHint(unread(name), now, r)
  <2>1. A # {} BY <1>5, <1>14
  <2>2. Wait(r) = A BY <1>1, <2>1 DEF FirstOf
  <2>3. CASE name = "retryAfterMs" BY <1>4, <2>1, <2>2, <2>3 DEF FirstOf
  <2>4. CASE name = "msRetryAfterMs" BY <1>4, <2>1, <2>2, <2>4 DEF FirstOf
  <2>5. CASE name = "reset" BY <1>4, <2>1, <2>2, <2>5 DEF FirstOf
  <2> QED BY <1>0, <2>3, <2>4, <2>5
<1> HIDE DEF Wait
<1> QED BY <1>12, <1>13, <1>14

-----------------------------------------------------------------------------
(* The dates hints are told in.                                             *)

\* A year is as long as its months, and a leap year a day longer.
LEMMA YearLength ==
  ASSUME NEW y \in Int
  PROVE  /\ DaysBeforeYear(y) \in Int
         /\ DaysBeforeYear(y + 1) = DaysBeforeYear(y) + (IF Leap(y) THEN 366 ELSE 365)
<1> DEFINE z == y - 1
<1>1. (y + 1) - 1 = y /\ y = z + 1 /\ z \in Int OBVIOUS
<1>2. y \div 4 = z \div 4 + (IF y % 4 = 0 THEN 1 ELSE 0) /\ y \div 4 \in Int /\ z \div 4 \in Int
  BY Z3
<1>3. y \div 100 = z \div 100 + (IF y % 100 = 0 THEN 1 ELSE 0) /\ y \div 100 \in Int /\ z \div 100 \in Int
  BY Z3
<1>4. y \div 400 = z \div 400 + (IF y % 400 = 0 THEN 1 ELSE 0) /\ y \div 400 \in Int /\ z \div 400 \in Int
  BY Z3
<1>5. (y % 100 = 0 => y % 4 = 0) /\ (y % 400 = 0 => y % 100 = 0) BY Z3
<1>6. DaysBeforeYear(y + 1) =
        365 * (y + 1 - 1970) + (y \div 4 - 492) - (y \div 100 - 19) + (y \div 400 - 4)
  BY <1>1 DEF DaysBeforeYear
<1>7. DaysBeforeYear(y) =
        365 * (y - 1970) + (z \div 4 - 492) - (z \div 100 - 19) + (z \div 400 - 4)
  BY DEF DaysBeforeYear
<1>8. DaysBeforeYear(y) \in Int BY <1>2, <1>3, <1>4, <1>7
<1>9. Leap(y) <=> y % 4 = 0 /\ (y % 100 # 0 \/ y % 400 = 0) BY DEF Leap
<1> HIDE DEF z
<1> QED BY <1>2, <1>3, <1>4, <1>5, <1>6, <1>7, <1>8, <1>9

\* Years follow each other, 146097 days to four hundred of them.
LEMMA YearBounds ==
  ASSUME NEW y \in Int
  PROVE  /\ 400 * DaysBeforeYear(y) >= 146097 * (y - 1970) - 2000
         /\ 400 * DaysBeforeYear(y) <= 146097 * (y - 1970) + 2000
<1> DEFINE z == y - 1
           a == z \div 4
           b == z \div 100
           c == z \div 400
<1>1. z \in Int /\ a \in Int /\ b \in Int /\ c \in Int OBVIOUS
<1>2. 4 * a <= z /\ z <= 4 * a + 3 BY Z3
<1>3. 100 * b <= z /\ z <= 100 * b + 99 BY Z3
<1>4. 400 * c <= z /\ z <= 400 * c + 399 BY Z3
<1>5. DaysBeforeYear(y) = 365 * (y - 1970) + (a - 492) - (b - 19) + (c - 4) BY DEF DaysBeforeYear
<1>6. y = z + 1 OBVIOUS
<1> HIDE DEF z, a, b, c
<1> QED BY <1>1, <1>2, <1>3, <1>4, <1>5, <1>6

\* A later year begins later.
LEMMA YearsFollow ==
  ASSUME NEW y \in Int, NEW z \in Int, y < z
  PROVE  DaysBeforeYear(y + 1) <= DaysBeforeYear(z)
<1> DEFINE n == z - y - 1
           w == z - 1
<1>1. n \in Nat /\ w \in Int /\ w = y + n /\ z = w + 1 /\ (y + 1) - 1 = y OBVIOUS
<1>2. y \div 4 \in Int /\ w \div 4 \in Int /\ y \div 4 <= w \div 4 BY Z3
<1>3. y \div 100 \in Int /\ w \div 100 \in Int /\ w \div 100 <= y \div 100 + n BY Z3
<1>4. y \div 400 \in Int /\ w \div 400 \in Int /\ y \div 400 <= w \div 400 BY Z3
<1>5. DaysBeforeYear(y + 1) = 365 * (y + 1 - 1970) + (y \div 4 - 492) - (y \div 100 - 19) + (y \div 400 - 4)
  BY <1>1 DEF DaysBeforeYear
<1>6. DaysBeforeYear(z) = 365 * (z - 1970) + (w \div 4 - 492) - (w \div 100 - 19) + (w \div 400 - 4)
  BY DEF DaysBeforeYear
<1> HIDE DEF n, w
<1> QED BY <1>1, <1>2, <1>3, <1>4, <1>5, <1>6

\* Every day is in one year, and the year near which it is looked for.
About(day) == 1970 + (400 * day) \div 146097
InYear(y, day) == DaysBeforeYear(y) <= day /\ day < DaysBeforeYear(y + 1)

\* Each day is in one year, the one the guess or its neighbour names.
LEMMA YearOfDay ==
  ASSUME NEW day \in Int
  PROVE  /\ About(day) \in Int
         /\ \E y \in About(day) - 1 .. About(day) + 1 : InYear(y, day)
         /\ \A y \in Int : InYear(y, day) => y \in About(day) - 1 .. About(day) + 1
<1> DEFINE q == (400 * day) \div 146097
           g == 1970 + q
<1>1. q \in Int /\ 146097 * q <= 400 * day /\ 400 * day < 146097 * q + 146097 BY Z3
<1>2. g \in Int /\ g - 1 \in Int /\ g + 1 \in Int /\ g + 2 \in Int
      /\ (g - 1) + 1 = g /\ (g + 1) + 1 = g + 2 /\ g = 1970 + q
  BY <1>1
<1>3. /\ DaysBeforeYear(g - 1) \in Int /\ DaysBeforeYear(g) \in Int /\ DaysBeforeYear(g + 1) \in Int
      /\ DaysBeforeYear(g + 2) \in Int
  BY <1>2, YearLength
<1> HIDE DEF q, g
<1>4. DaysBeforeYear(g - 1) <= day
  <2>1. 400 * DaysBeforeYear(g - 1) <= 146097 * ((g - 1) - 1970) + 2000 BY <1>2, YearBounds
  <2> QED BY <1>1, <1>2, <1>3, <2>1
<1>5. day < DaysBeforeYear(g + 2)
  <2>1. 400 * DaysBeforeYear(g + 2) >= 146097 * ((g + 2) - 1970) - 2000 BY <1>2, YearBounds
  <2> QED BY <1>1, <1>2, <1>3, <2>1
<1>6. \E y \in g - 1 .. g + 1 : DaysBeforeYear(y) <= day /\ day < DaysBeforeYear(y + 1)
  <2>1. g - 1 \in g - 1 .. g + 1 /\ g \in g - 1 .. g + 1 /\ g + 1 \in g - 1 .. g + 1 BY <1>2
  <2>2. CASE day < DaysBeforeYear(g) BY <1>2, <1>4, <2>1, <2>2
  <2>3. CASE ~ day < DaysBeforeYear(g) /\ day < DaysBeforeYear(g + 1) BY <1>3, <2>1, <2>3
  <2>4. CASE ~ day < DaysBeforeYear(g + 1) BY <1>2, <1>3, <1>5, <2>1, <2>4
  <2> QED BY <2>2, <2>3, <2>4
<1>7. ASSUME NEW y \in Int, DaysBeforeYear(y) <= day, day < DaysBeforeYear(y + 1) PROVE y \in g - 1 .. g + 1
  <2>1. DaysBeforeYear(y) \in Int /\ DaysBeforeYear(y + 1) \in Int BY YearLength
  <2>2. ~ y < g - 1
    <3> SUFFICES ASSUME y < g - 1 PROVE FALSE OBVIOUS
    <3>1. DaysBeforeYear(y + 1) <= DaysBeforeYear(g - 1) BY <1>2, YearsFollow
    <3> QED BY <1>3, <1>4, <1>7, <2>1, <3>1
  <2>3. ~ g + 1 < y
    <3> SUFFICES ASSUME g + 1 < y PROVE FALSE OBVIOUS
    <3>1. DaysBeforeYear((g + 1) + 1) <= DaysBeforeYear(y) BY <1>2, YearsFollow
    <3> QED BY <1>2, <1>3, <1>5, <1>7, <2>1, <3>1
  <2> QED BY <1>2, <2>2, <2>3
<1>8. About(day) = g BY DEF About, g, q
<1> QED BY <1>2, <1>6, <1>7, <1>8 DEF InYear

\* The months of a year.
LEMMA MonthTable ==
  ASSUME NEW year \in Int
  PROVE  \E leap \in {0, 1} :
           /\ Leap(year) <=> leap = 1
           /\ DaysBeforeMonth(year, 1) = 0 /\ DaysBeforeMonth(year, 2) = 31
           /\ DaysBeforeMonth(year, 3) = 59 + leap /\ DaysBeforeMonth(year, 4) = 90 + leap
           /\ DaysBeforeMonth(year, 5) = 120 + leap /\ DaysBeforeMonth(year, 6) = 151 + leap
           /\ DaysBeforeMonth(year, 7) = 181 + leap /\ DaysBeforeMonth(year, 8) = 212 + leap
           /\ DaysBeforeMonth(year, 9) = 243 + leap /\ DaysBeforeMonth(year, 10) = 273 + leap
           /\ DaysBeforeMonth(year, 11) = 304 + leap /\ DaysBeforeMonth(year, 12) = 334 + leap
           /\ DaysBeforeMonth(year, 13) = 365 + leap
           /\ MonthDays(year) = <<31, 28 + leap, 31, 30, 31, 30, 31, 31, 30, 31, 30, 31>>
<1> DEFINE leap == IF Leap(year) THEN 1 ELSE 0
<1>1. \A m \in 1 .. 13 : DaysBeforeMonth(year, m) =
        <<0, 31, 59, 90, 120, 151, 181, 212, 243, 273, 304, 334, 365>>[m] + (IF m > 2 THEN leap ELSE 0)
  BY DEF DaysBeforeMonth
<1>2. MonthDays(year) = <<31, 28 + leap, 31, 30, 31, 30, 31, 31, 30, 31, 30, 31>>
  <2>1. CASE Leap(year) BY <2>1 DEF MonthDays
  <2>2. CASE ~ Leap(year) BY <2>2 DEF MonthDays
  <2> QED BY <2>1, <2>2
<1>3. leap \in {0, 1} /\ (Leap(year) <=> leap = 1) OBVIOUS
<1> HIDE DEF leap
<1>5. /\ DaysBeforeMonth(year, 1) = 0 /\ DaysBeforeMonth(year, 2) = 31
      /\ DaysBeforeMonth(year, 3) = 59 + leap /\ DaysBeforeMonth(year, 4) = 90 + leap
      /\ DaysBeforeMonth(year, 5) = 120 + leap /\ DaysBeforeMonth(year, 6) = 151 + leap
      /\ DaysBeforeMonth(year, 7) = 181 + leap /\ DaysBeforeMonth(year, 8) = 212 + leap
      /\ DaysBeforeMonth(year, 9) = 243 + leap /\ DaysBeforeMonth(year, 10) = 273 + leap
      /\ DaysBeforeMonth(year, 11) = 304 + leap /\ DaysBeforeMonth(year, 12) = 334 + leap
      /\ DaysBeforeMonth(year, 13) = 365 + leap
  BY <1>1, <1>3
<1> QED BY <1>2, <1>3, <1>5

\* A month is as long as the table of beginnings says.
LEMMA MonthLength ==
  ASSUME NEW year \in Int, NEW month \in 1 .. 12
  PROVE  /\ DaysBeforeMonth(year, month) \in Nat
         /\ MonthDays(year)[month] \in 28 .. 31
         /\ DaysBeforeMonth(year, month + 1) = DaysBeforeMonth(year, month) + MonthDays(year)[month]
<1>1. month = 1 \/ month = 2 \/ month = 3 \/ month = 4 \/ month = 5 \/ month = 6 \/ month = 7 \/ month = 8
      \/ month = 9 \/ month = 10 \/ month = 11 \/ month = 12
  OBVIOUS
<1> QED BY <1>1, MonthTable

\* A later month begins later.
LEMMA MonthsFollow ==
  ASSUME NEW year \in Int, NEW m \in 1 .. 13, NEW n \in 1 .. 13
  PROVE  /\ DaysBeforeMonth(year, m) \in Nat
         /\ m < n => DaysBeforeMonth(year, m) < DaysBeforeMonth(year, n)
<1>1. \A k \in 1 .. 13 : k = 1 \/ k = 2 \/ k = 3 \/ k = 4 \/ k = 5 \/ k = 6 \/ k = 7 \/ k = 8
      \/ k = 9 \/ k = 10 \/ k = 11 \/ k = 12 \/ k = 13
  OBVIOUS
<1> QED BY <1>1, MonthTable

\* What Date makes of a day is a date there is, and the only one of that day.
Exists(year, month, n) == year \in Int /\ month \in 1 .. 12 /\ n \in 1 .. MonthDays(year)[month]

\* The day of a date is in its year.
LEMMA DayInYear ==
  ASSUME NEW year \in Int, NEW month \in 1 .. 12, NEW n \in 1 .. MonthDays(year)[month]
  PROVE  LET rest == DaysBeforeMonth(year, month) + n - 1
             day == DayOf(year, month, n)
         IN  /\ day \in Int /\ rest \in Nat /\ day - DaysBeforeYear(year) = rest
             /\ DaysBeforeMonth(year, month) <= rest /\ rest < DaysBeforeMonth(year, month + 1)
             /\ DaysBeforeYear(year) <= day /\ day < DaysBeforeYear(year + 1)
<1> DEFINE d == DaysBeforeMonth(year, month)
           e == DaysBeforeMonth(year, month + 1)
           len == MonthDays(year)[month]
           b == DaysBeforeYear(year)
           c == DaysBeforeYear(year + 1)
<1>1. d \in Nat /\ len \in 28 .. 31 /\ e = d + len BY MonthLength
<1>2. b \in Int /\ c = b + (IF Leap(year) THEN 366 ELSE 365) BY YearLength
<1>3. e <= IF Leap(year) THEN 366 ELSE 365
  <2>1. month + 1 \in 1 .. 13 /\ 13 \in 1 .. 13 /\ (month + 1 < 13 \/ month + 1 = 13) OBVIOUS
  <2>2. e <= DaysBeforeMonth(year, 13)
    <3>1. e \in Nat /\ DaysBeforeMonth(year, 13) \in Nat BY <2>1, MonthsFollow
    <3>2. CASE month + 1 < 13
      <4>1. e < DaysBeforeMonth(year, 13) BY <2>1, <3>2, MonthsFollow
      <4> QED BY <3>1, <4>1
    <3>3. CASE month + 1 = 13 BY <3>1, <3>3
    <3> QED BY <2>1, <3>2, <3>3
  <2>3. DaysBeforeMonth(year, 13) = IF Leap(year) THEN 366 ELSE 365 BY MonthTable
  <2> QED BY <2>2, <2>3
<1>4. n \in 1 .. len OBVIOUS
<1>5. DayOf(year, month, n) = b + d + n - 1 BY DEF DayOf
<1> HIDE DEF d, e, len, b, c
<1>6. CASE Leap(year)
  <2>1. c = b + 366 /\ e <= 366 BY <1>2, <1>3, <1>6
  <2> QED BY <1>1, <1>2, <1>4, <1>5, <2>1 DEF d, e, b, c
<1>7. CASE ~ Leap(year)
  <2>1. c = b + 365 /\ e <= 365 BY <1>2, <1>3, <1>7
  <2> QED BY <1>1, <1>2, <1>4, <1>5, <2>1 DEF d, e, b, c
<1> QED BY <1>6, <1>7

\* A date that exists is the one its day is counted back to.
LEMMA CivilIs ==
  ASSUME NEW year \in Int, NEW month \in 1 .. 12, NEW n \in 1 .. MonthDays(year)[month]
  PROVE  CivilOf(DayOf(year, month, n)) = [year |-> year, month |-> month, day |-> n]
<1> DEFINE day == DayOf(year, month, n)
           rest == DaysBeforeMonth(year, month) + n - 1
           Within(m) == DaysBeforeMonth(year, m) <= rest /\ rest < DaysBeforeMonth(year, m + 1)
           about == About(day)
<1>1. /\ day \in Int /\ rest \in Nat /\ day - DaysBeforeYear(year) = rest
      /\ Within(month) /\ InYear(year, day)
  BY DayInYear DEF InYear
<1>2. rest - DaysBeforeMonth(year, month) + 1 = n
  <2>1. DaysBeforeMonth(year, month) \in Nat /\ MonthDays(year)[month] \in 28 .. 31 BY MonthLength
  <2> QED BY <2>1
<1> HIDE DEF day, rest
<1>3. about \in Int /\ year \in about - 1 .. about + 1 BY <1>1, YearOfDay
<1>4. ASSUME NEW y \in about - 1 .. about + 1, InYear(y, day) PROVE y = year
  <2>1. y \in Int /\ year + 1 \in Int /\ y + 1 \in Int BY <1>3
  <2>2. /\ DaysBeforeYear(y) \in Int /\ DaysBeforeYear(y + 1) \in Int
        /\ DaysBeforeYear(year) \in Int /\ DaysBeforeYear(year + 1) \in Int
    BY <2>1, YearLength
  <2>3. ~ y < year
    <3>1. y < year => DaysBeforeYear(y + 1) <= DaysBeforeYear(year) BY <2>1, YearsFollow
    <3> QED BY <1>1, <1>4, <2>2, <3>1 DEF InYear
  <2>4. ~ year < y
    <3>1. year < y => DaysBeforeYear(year + 1) <= DaysBeforeYear(y) BY <2>1, YearsFollow
    <3> QED BY <1>1, <1>4, <2>2, <3>1 DEF InYear
  <2> QED BY <2>1, <2>3, <2>4
<1>5. (CHOOSE y \in about - 1 .. about + 1 : InYear(y, day)) = year BY <1>1, <1>3, <1>4
<1>6. ASSUME NEW m \in 1 .. 12, Within(m) PROVE m = month
  <2>1. m + 1 \in 1 .. 13 /\ month + 1 \in 1 .. 13 /\ m \in 1 .. 13 /\ month \in 1 .. 13 OBVIOUS
  <2>2. /\ DaysBeforeMonth(year, m) \in Nat /\ DaysBeforeMonth(year, m + 1) \in Nat
        /\ DaysBeforeMonth(year, month) \in Nat /\ DaysBeforeMonth(year, month + 1) \in Nat
    BY <2>1, MonthsFollow
  <2>3. m < month => DaysBeforeMonth(year, m + 1) <= DaysBeforeMonth(year, month)
    <3>1. m < month => m + 1 < month \/ m + 1 = month OBVIOUS
    <3>2. m + 1 < month => DaysBeforeMonth(year, m + 1) < DaysBeforeMonth(year, month) BY <2>1, MonthsFollow
    <3> QED BY <2>2, <3>1, <3>2
  <2>4. month < m => DaysBeforeMonth(year, month + 1) <= DaysBeforeMonth(year, m)
    <3>1. month < m => month + 1 < m \/ month + 1 = m OBVIOUS
    <3>2. month + 1 < m => DaysBeforeMonth(year, month + 1) < DaysBeforeMonth(year, m) BY <2>1, MonthsFollow
    <3> QED BY <2>2, <3>1, <3>2
  <2>5. ~ m < month /\ ~ month < m BY <1>1, <1>6, <2>2, <2>3, <2>4
  <2> QED BY <2>1, <2>5
<1>7. (CHOOSE m \in 1 .. 12 : Within(m)) = month BY <1>1, <1>6
<1>8. CivilOf(day) = [year |-> year, month |-> month, day |-> rest - DaysBeforeMonth(year, month) + 1]
  <2> DEFINE Y == CHOOSE y \in about - 1 .. about + 1 : InYear(y, day)
             R == day - DaysBeforeYear(Y)
             M == CHOOSE m \in 1 .. 12 : DaysBeforeMonth(Y, m) <= R /\ R < DaysBeforeMonth(Y, m + 1)
  <2>1. CivilOf(day) = [year |-> Y, month |-> M, day |-> R - DaysBeforeMonth(Y, M) + 1]
    BY DEF CivilOf, InYear, About
  <2>2. Y = year BY <1>5
  <2> HIDE DEF Y
  <2>3. R = rest BY <1>1, <2>2
  <2> HIDE DEF R
  <2>4. M = month BY <1>7, <2>2, <2>3
  <2> QED BY <2>1, <2>2, <2>3, <2>4
<1> QED BY <1>2, <1>8 DEF day

\* Every day is the day of a date that exists.
LEMMA CivilExists ==
  ASSUME NEW day \in Int
  PROVE  /\ CivilOf(day) \in [year : Int, month : 1 .. 12, day : Nat]
         /\ CivilOf(day).day \in 1 .. MonthDays(CivilOf(day).year)[CivilOf(day).month]
         /\ DayOf(CivilOf(day).year, CivilOf(day).month, CivilOf(day).day) = day
<1>1. About(day) \in Int /\ \E y \in About(day) - 1 .. About(day) + 1 : InYear(y, day) BY YearOfDay
<1>2. PICK year \in About(day) - 1 .. About(day) + 1 : InYear(year, day) BY <1>1
<1>3. year \in Int BY <1>1
<1> DEFINE rest == day - DaysBeforeYear(year)
           Within(m) == DaysBeforeMonth(year, m) <= rest /\ rest < DaysBeforeMonth(year, m + 1)
<1>4. rest \in Nat /\ rest < IF Leap(year) THEN 366 ELSE 365
  <2>1. DaysBeforeYear(year) \in Int BY <1>3, YearLength
  <2>2. CASE Leap(year)
    <3>1. DaysBeforeYear(year + 1) = DaysBeforeYear(year) + 366 BY <1>3, <2>2, YearLength
    <3> QED BY <1>2, <2>1, <2>2, <3>1 DEF InYear
  <2>3. CASE ~ Leap(year)
    <3>1. DaysBeforeYear(year + 1) = DaysBeforeYear(year) + 365 BY <1>3, <2>3, YearLength
    <3> QED BY <1>2, <2>1, <2>3, <3>1 DEF InYear
  <2> QED BY <2>2, <2>3
<1> HIDE DEF rest
<1>5. PICK month \in 1 .. 12 : Within(month)
  <2>1. PICK leap \in {0, 1} :
           /\ Leap(year) <=> leap = 1
           /\ DaysBeforeMonth(year, 1) = 0 /\ DaysBeforeMonth(year, 2) = 31
           /\ DaysBeforeMonth(year, 3) = 59 + leap /\ DaysBeforeMonth(year, 4) = 90 + leap
           /\ DaysBeforeMonth(year, 5) = 120 + leap /\ DaysBeforeMonth(year, 6) = 151 + leap
           /\ DaysBeforeMonth(year, 7) = 181 + leap /\ DaysBeforeMonth(year, 8) = 212 + leap
           /\ DaysBeforeMonth(year, 9) = 243 + leap /\ DaysBeforeMonth(year, 10) = 273 + leap
           /\ DaysBeforeMonth(year, 11) = 304 + leap /\ DaysBeforeMonth(year, 12) = 334 + leap
           /\ DaysBeforeMonth(year, 13) = 365 + leap
    BY <1>3, MonthTable
  <2>2. rest < 365 + leap BY <1>4, <2>1
  <2>3. /\ 1 \in 1 .. 12 /\ 2 \in 1 .. 12 /\ 3 \in 1 .. 12 /\ 4 \in 1 .. 12 /\ 5 \in 1 .. 12 /\ 6 \in 1 .. 12
        /\ 7 \in 1 .. 12 /\ 8 \in 1 .. 12 /\ 9 \in 1 .. 12 /\ 10 \in 1 .. 12 /\ 11 \in 1 .. 12 /\ 12 \in 1 .. 12
        /\ 1 + 1 = 2 /\ 2 + 1 = 3 /\ 3 + 1 = 4 /\ 4 + 1 = 5 /\ 5 + 1 = 6 /\ 6 + 1 = 7
        /\ 7 + 1 = 8 /\ 8 + 1 = 9 /\ 9 + 1 = 10 /\ 10 + 1 = 11 /\ 11 + 1 = 12 /\ 12 + 1 = 13
    OBVIOUS
  <2>4. \/ Within(1) \/ Within(2) \/ Within(3) \/ Within(4) \/ Within(5) \/ Within(6)
        \/ Within(7) \/ Within(8) \/ Within(9) \/ Within(10) \/ Within(11) \/ Within(12)
    BY <1>4, <2>1, <2>2
  <2> HIDE DEF Within
  <2> QED BY <2>3, <2>4
<1>9. month \in 1 .. 12 BY <1>5
<1> DEFINE n == rest - DaysBeforeMonth(year, month) + 1
<1>6. n \in 1 .. MonthDays(year)[month] /\ DayOf(year, month, n) = day
  <2>1. /\ DaysBeforeMonth(year, month) \in Nat /\ MonthDays(year)[month] \in 28 .. 31
        /\ DaysBeforeMonth(year, month + 1) = DaysBeforeMonth(year, month) + MonthDays(year)[month]
    BY <1>3, <1>9, MonthLength
  <2>2. DaysBeforeYear(year) \in Int BY <1>3, YearLength
  <2>3. n \in 1 .. MonthDays(year)[month] BY <1>4, <1>5, <2>1
  <2>4. DayOf(year, month, n) = day BY <2>1, <2>2, <1>4 DEF DayOf, rest
  <2> QED BY <2>3, <2>4
<1> HIDE DEF n
<1>7. CivilOf(day) = [year |-> year, month |-> month, day |-> n] BY <1>3, <1>9, <1>6, CivilIs
<1>8. n \in Nat
  <2>1. MonthDays(year)[month] \in 28 .. 31 BY <1>3, <1>9, MonthLength
  <2> QED BY <1>6, <2>1
<1> QED BY <1>3, <1>9, <1>6, <1>7, <1>8


There(f) == /\ f.day \in 1 .. MonthDays(f.year)[f.month]
            /\ f.hour <= 23 /\ f.minute <= 59 /\ f.second <= 60
SecondsOf(f) == 3600 * f.hour + 60 * f.minute + f.second
InstantOf(f) == <<DayOf(f.year, f.month, f.day) + SecondsOf(f) \div 86400, SecondsOf(f) % 86400>>
FieldsOfDates == [year : Int, month : 1 .. 12, day : Nat, hour : Nat, minute : Nat, second : Nat]

\* A date is read when its fields are those of a day and a time of day.
LEMMA DatesRead ==
  ASSUME NEW f \in FieldsOfDates
  PROVE  /\ There(f) => ParseHttpDate(f) = {InstantOf(f)}
         /\ ~ There(f) => ParseHttpDate(f) = {}
<1> DEFINE there == f.day \in 1 .. MonthDays(f.year)[f.month]
           inTime == f.hour <= 23 /\ f.minute <= 59 /\ f.second <= 60
           day == DayOf(f.year, f.month, f.day)
           civil == CivilOf(day)
           same == <<civil.year, civil.month, civil.day>> = <<f.year, f.month, f.day>>
<1>1. f.year \in Int /\ f.month \in 1 .. 12 /\ f.day \in Nat /\ f.hour \in Nat /\ f.minute \in Nat /\ f.second \in Nat
  BY DEF FieldsOfDates
<1>2. day \in Int
  <2>1. DaysBeforeYear(f.year) \in Int /\ DaysBeforeMonth(f.year, f.month) \in Nat BY <1>1, YearLength, MonthLength
  <2> QED BY <1>1, <2>1 DEF DayOf
<1>3. there => same
  <2> SUFFICES ASSUME there PROVE same OBVIOUS
  <2>1. civil = [year |-> f.year, month |-> f.month, day |-> f.day] BY <1>1, CivilIs
  <2> HIDE DEF civil
  <2> QED BY <2>1
<1>4. same => there
  <2>1. civil.day \in 1 .. MonthDays(civil.year)[civil.month] BY <1>2, CivilExists
  <2>2. same => civil.year = f.year /\ civil.month = f.month /\ civil.day = f.day
    <3> HIDE DEF civil
    <3> QED OBVIOUS
  <2> QED BY <2>1, <2>2
<1>5. there => ~ f.day < 1 BY <1>1
<1>6. inTime <=> ~ (f.hour > 23 \/ f.minute > 59 \/ f.second > 60) BY <1>1
<1>7. There(f) <=> there /\ inTime BY DEF There
<1>8. ToEpoch(f) = IF ~ same THEN {} ELSE {InstantOf(f)}
  <2> HIDE DEF civil
  <2> QED BY DEF ToEpoch, InstantOf, SecondsOf, civil
<1>9. ParseHttpDate(f) = IF f.day < 1 \/ f.hour > 23 \/ f.minute > 59 \/ f.second > 60 THEN {} ELSE ToEpoch(f)
  BY DEF ParseHttpDate
<1> HIDE DEF there, inTime, same
<1> QED BY <1>3, <1>4, <1>5, <1>6, <1>7, <1>8, <1>9


\* What is formatted is read back.
FourDigits(year) == 0 <= year /\ year <= 9999

\* What a date that exists is formatted as.
LEMMA DatesFormatted ==
  ASSUME NEW d \in Int, NEW s \in Nat, s < 86400
  PROVE  /\ FormatHttpDate(<<d, s>>) = {} <=> ~ FourDigits(CivilOf(d).year)
         /\ \A g \in FormatHttpDate(<<d, s>>) : g.second = s % 60 /\ ParseHttpDate(g) = {<<d, s>>}
<1> DEFINE c == CivilOf(d)
           h == s \div 3600
           m == (s % 3600) \div 60
           x == s % 60
           g == [year |-> c.year, month |-> c.month, day |-> c.day, hour |-> h, minute |-> m, second |-> x]
<1>1. /\ c \in [year : Int, month : 1 .. 12, day : Nat]
      /\ c.day \in 1 .. MonthDays(c.year)[c.month]
      /\ DayOf(c.year, c.month, c.day) = d
  BY CivilExists
<1>2. h \in Nat /\ h <= 23 /\ m \in Nat /\ m <= 59 /\ x \in Nat /\ x <= 59 /\ 3600 * h + 60 * m + x = s BY Z3
<1>3. s \div 86400 = 0 /\ s % 86400 = s BY Z3
<1>4. FormatHttpDate(<<d, s>>) = {f \in {g} : FourDigits(f.year)}
  BY DEF FormatHttpDate, FourDigits
<1>5. g.year = c.year OBVIOUS
<1> HIDE DEF c, h, m, x
<1>7. /\ g.year = c.year /\ g.month = c.month /\ g.day = c.day /\ g.hour = h /\ g.minute = m /\ g.second = x
      /\ g \in FieldsOfDates
  BY <1>1, <1>2 DEF FieldsOfDates
<1> HIDE DEF g
<1>8. InstantOf(g) = <<d + s \div 86400, s % 86400>>
  <2>1. DayOf(g.year, g.month, g.day) = d /\ SecondsOf(g) = s BY <1>1, <1>2, <1>7 DEF SecondsOf
  <2> QED BY <2>1 DEF InstantOf
<1>10. There(g) BY <1>1, <1>2, <1>7 DEF There
<1>11. d + 0 = d OBVIOUS
<1>9. ParseHttpDate(g) = {<<d, s>>} BY <1>3, <1>7, <1>8, <1>10, <1>11, DatesRead
<1> QED BY <1>4, <1>5, <1>7, <1>9 DEF c, x

\* Every date of four digits is read exactly when the calendar has it and its time
\* is one of a day, a leap second included, and what is formatted is read back as
\* the same instant: no day of any year rolls over into another one, or is taken
\* for one that does.  Only the leap second behind 9999 cannot be formatted.
THEOREM DatesAreRead ==
  ASSUME NEW f \in [year : Nat, month : 1 .. 12, day : Nat, hour : Nat, minute : Nat, second : Nat],
         f.year <= 9999
  PROVE  DatesHold(f)
<1> DEFINE day == DayOf(f.year, f.month, f.day)
           seconds == SecondsOf(f)
           d == day + seconds \div 86400
           s == seconds % 86400
<1>1. /\ f.year \in Int /\ FourDigits(f.year) /\ f.month \in 1 .. 12 /\ f.day \in Nat
      /\ f.hour \in Nat /\ f.minute \in Nat /\ f.second \in Nat /\ f \in FieldsOfDates
  BY DEF FieldsOfDates, FourDigits
<1>2. InstantOf(f) = <<d, s>> BY DEF InstantOf
<1> HIDE DEF d, s
<1>3. SUFFICES ASSUME There(f)
               PROVE  /\ f.second < 60 => FormatHttpDate(<<d, s>>) = {f}
                      /\ FormatHttpDate(<<d, s>>) = {} =>
                           <<f.year, f.month, f.day, f.hour, f.minute, f.second>> = <<9999, 12, 31, 23, 59, 60>>
                      /\ \A g \in FormatHttpDate(<<d, s>>) :
                           (f.second = 60 => g.second = 0) /\ ParseHttpDate(g) = {<<d, s>>}
  <2>1. CASE There(f)
    <3>1. ParseHttpDate(f) = {<<d, s>>} BY <1>1, <1>2, <2>1, DatesRead
    <3>2. ParseHttpDate(f) # {} BY <3>1
    <3> QED BY <2>1, <3>1, <3>2 DEF DatesHold, There
  <2>2. CASE ~ There(f)
    <3>1. ParseHttpDate(f) = {} BY <1>1, <2>2, DatesRead
    <3> QED BY <2>2, <3>1 DEF DatesHold, There
  <2> QED BY <2>1, <2>2
<1> USE DEF d, s
<1>4. /\ f.hour \in Nat /\ f.hour <= 23 /\ f.minute \in Nat /\ f.minute <= 59
      /\ f.second \in Nat /\ f.second <= 60
      /\ f.day \in 1 .. MonthDays(f.year)[f.month]
  BY <1>1, <1>3 DEF There
<1>5. day \in Int /\ CivilOf(day) = [year |-> f.year, month |-> f.month, day |-> f.day]
  <2>1. day \in Int BY <1>1, <1>4, DayInYear, SMTT(20)
  <2>2. CivilOf(day) = [year |-> f.year, month |-> f.month, day |-> f.day] BY <1>1, <1>4, CivilIs
  <2> QED BY <2>1, <2>2
<1> HIDE DEF day
<1>6. seconds \in Nat /\ seconds <= 86400 /\ s \in Nat /\ s < 86400 /\ d \in Int
  <2>1. seconds \in Nat /\ seconds <= 86400 BY <1>4 DEF SecondsOf
  <2> HIDE DEF seconds
  <2>2. seconds \div 86400 \in Int /\ seconds % 86400 \in Nat /\ seconds % 86400 < 86400 BY <2>1
  <2> QED BY <1>5, <2>1, <2>2
<1>7. /\ FormatHttpDate(<<d, s>>) = {} <=> ~ FourDigits(CivilOf(d).year)
      /\ \A g \in FormatHttpDate(<<d, s>>) : g.second = s % 60 /\ ParseHttpDate(g) = {<<d, s>>}
  <2> HIDE DEF d, s
  <2> QED BY <1>6, DatesFormatted
<1>8. f.second = 60 => s % 60 = 0
  <2> SUFFICES ASSUME f.second = 60 PROVE s % 60 = 0 OBVIOUS
  <2> DEFINE n == 60 * f.hour + f.minute + 1
  <2>1. seconds = 60 * n /\ n \in Nat /\ n <= 1440 BY <1>4 DEF SecondsOf
  <2> HIDE DEF n, seconds
  <2>2. n = 1440 \/ n < 1440 BY <2>1
  <2>3. CASE n = 1440 BY <2>1, <2>3
  <2>4. CASE n < 1440 BY <2>1, <2>4, Z3
  <2> QED BY <2>2, <2>3, <2>4
<1>9. f.second < 60 => FormatHttpDate(<<d, s>>) = {f}
  <2> SUFFICES ASSUME f.second < 60 PROVE FormatHttpDate(<<d, s>>) = {f} OBVIOUS
  <2>1. seconds \in Nat /\ seconds < 86400 BY <1>4 DEF SecondsOf
  <2>2. seconds \div 86400 = 0 /\ seconds % 86400 = seconds
    <3> HIDE DEF seconds
    <3> QED BY <2>1
  <2>3. d = day /\ s = seconds BY <1>5, <2>2
  <2>4. /\ seconds \div 3600 = f.hour
        /\ (seconds % 3600) \div 60 = f.minute
        /\ seconds % 60 = f.second
    <3> DEFINE h == f.hour
               m == f.minute
               x == f.second
    <3>1. h \in Nat /\ h <= 23 /\ m \in Nat /\ m <= 59 /\ x \in Nat /\ x <= 59 BY <1>4
    <3>2. seconds = 3600 * h + 60 * m + x BY DEF SecondsOf
    <3> HIDE DEF seconds, h, m, x
    <3>3. seconds \div 3600 = h /\ seconds % 3600 = 60 * m + x BY <3>1, <3>2, Z3
    <3>4. (60 * m + x) \div 60 = m BY <3>1, Z3
    <3>5. seconds % 60 = x
      <4> DEFINE n == 60 * h + m
      <4>1. seconds = 60 * n + x /\ n \in Nat BY <3>1, <3>2
      <4> HIDE DEF n
      <4> QED BY <3>1, <4>1, Z3
    <3> QED BY <3>3, <3>4, <3>5 DEF h, m, x
  <2> HIDE DEF seconds, d, s
  <2> DEFINE c == CivilOf(day)
             g == [year |-> c.year, month |-> c.month, day |-> c.day, hour |-> seconds \div 3600,
                   minute |-> (seconds % 3600) \div 60, second |-> seconds % 60]
  <2>5. FormatHttpDate(<<day, seconds>>) = {r \in {g} : FourDigits(r.year)}
    BY DEF FormatHttpDate, FourDigits
  <2>6. c.year = f.year /\ c.month = f.month /\ c.day = f.day BY <1>5
  <2> HIDE DEF c
  <2>7. f = [year |-> f.year, month |-> f.month, day |-> f.day, hour |-> f.hour, minute |-> f.minute,
             second |-> f.second]
    OBVIOUS
  <2>8. g = f BY <2>4, <2>6, <2>7
  <2> HIDE DEF g
  <2>10. FormatHttpDate(<<day, seconds>>) = {f} BY <1>1, <2>5, <2>8
  <2> QED BY <2>3, <2>10
<1>10. ASSUME FormatHttpDate(<<d, s>>) = {}
       PROVE  <<f.year, f.month, f.day, f.hour, f.minute, f.second>> = <<9999, 12, 31, 23, 59, 60>>
  <2>1. f.second = 60 BY <1>4, <1>9, <1>10
  <2>2. ~ FourDigits(CivilOf(d).year) BY <1>7, <1>10
  <2>3. seconds = 86400 /\ d = day + 1
    <3>1. seconds < 86400 => d = day
      <4> SUFFICES ASSUME seconds < 86400 PROVE d = day OBVIOUS
      <4> HIDE DEF seconds
      <4>1. seconds \div 86400 = 0 BY <1>6
      <4> QED BY <1>5, <4>1
    <3>2. d # day BY <1>1, <1>5, <2>2
    <3>3. seconds = 86400
      <4> HIDE DEF seconds, d
      <4> QED BY <1>6, <3>1, <3>2
    <3>4. seconds \div 86400 = 1
      <4>1. 86400 \div 86400 = 1 BY Z3
      <4> HIDE DEF seconds
      <4> QED BY <3>3, <4>1
    <3> QED BY <3>3, <3>4
  <2>4. f.hour = 23 /\ f.minute = 59
    <3>1. 3600 * f.hour + 60 * f.minute + f.second = 86400 BY <2>3 DEF SecondsOf
    <3> HIDE DEF seconds, d, day
    <3> QED BY <1>4, <2>1, <3>1
  <2> DEFINE c == CivilOf(d)
             y == c.year
  <2>5. /\ y \in Int /\ c.month \in 1 .. 12 /\ c.day \in 1 .. MonthDays(c.year)[c.month]
        /\ DayOf(c.year, c.month, c.day) = d
    <3>1. d \in Int BY <1>6
    <3> HIDE DEF d
    <3> QED BY <3>1, CivilExists, SMTT(20)
  <2>6. DaysBeforeYear(y) <= d /\ d < DaysBeforeYear(y + 1)
    <3> DEFINE m == c.month
               n == c.day
               e == DayOf(y, m, n)
    <3>1. y \in Int /\ m \in 1 .. 12 /\ n \in 1 .. MonthDays(y)[m] /\ e = d BY <2>5
    <3> HIDE DEF c, y, m, n, d
    <3>2. DaysBeforeYear(y) <= e /\ e < DaysBeforeYear(y + 1) BY <3>1, DayInYear, SMTT(20)
    <3> HIDE DEF e
    <3> QED BY <3>1, <3>2
  <2>7. DaysBeforeYear(f.year) <= day /\ day < DaysBeforeYear(f.year + 1)
    BY <1>1, <1>4, DayInYear, SMTT(20) DEF day
  <2>8. ~ FourDigits(y) BY <2>2
  <2> HIDE DEF c, y, seconds, d
  <2>9. /\ DaysBeforeYear(y) \in Int /\ DaysBeforeYear(y + 1) \in Int
        /\ DaysBeforeYear(f.year) \in Int /\ DaysBeforeYear(f.year + 1) \in Int
    BY <1>1, <2>5, YearLength
  <2>10. ~ y < f.year
    <3>1. y < f.year => DaysBeforeYear(y + 1) <= DaysBeforeYear(f.year) BY <1>1, <2>5, YearsFollow
    <3> QED BY <1>5, <2>3, <2>6, <2>7, <2>9, <3>1
  <2>11. y > 9999 BY <1>1, <2>5, <2>8, <2>10 DEF FourDigits
  <2>12. DaysBeforeYear(10000) <= DaysBeforeYear(y)
    <3>1. 9999 + 1 = 10000 /\ 9999 \in Int BY Z3
    <3> QED BY <2>5, <2>11, <3>1, YearsFollow
  <2>13. f.year + 1 < 10001 /\ DaysBeforeYear(f.year + 1) <= DaysBeforeYear(10000)
    <3>1. f.year < 10000 /\ 10000 \in Int BY <1>1 DEF FourDigits
    <3> QED BY <1>1, <3>1, YearsFollow
  <2>14. DaysBeforeYear(10000) = day + 1
    <3>1. DaysBeforeYear(10000) \in Int BY YearLength
    <3> QED BY <1>5, <2>3, <2>6, <2>7, <2>9, <2>12, <2>13, <3>1
  <2>15. DayOf(9999, 12, 31) + 1 = DaysBeforeYear(10000)
    <3>1. ~ Leap(9999) BY DEF Leap
    <3>2. DaysBeforeYear(9999) \in Int /\ DaysBeforeYear(9999 + 1) = DaysBeforeYear(9999) + 365
      BY <3>1, YearLength
    <3>3. DaysBeforeMonth(9999, 12) = 334 BY <3>1 DEF DaysBeforeMonth
    <3>4. 9999 + 1 = 10000 OBVIOUS
    <3> QED BY <3>2, <3>3, <3>4 DEF DayOf
  <2>16. MonthDays(9999)[12] = 31 /\ 12 \in 1 .. 12 /\ 31 \in 1 .. 31 BY DEF MonthDays
  <2>17. CivilOf(DayOf(9999, 12, 31)) = [year |-> 9999, month |-> 12, day |-> 31]
    <3>1. 31 \in 1 .. MonthDays(9999)[12] /\ 9999 \in Int BY <2>16
    <3> QED BY <2>16, <3>1, CivilIs
  <2>18. DayOf(9999, 12, 31) = day
    <3>1. 9999 \in Int /\ 31 \in 1 .. MonthDays(9999)[12] BY <2>16
    <3>2. DayOf(9999, 12, 31) \in Int BY <2>16, <3>1, DayInYear
    <3> QED BY <1>5, <2>14, <2>15, <3>2
  <2>19. f.year = 9999 /\ f.month = 12 /\ f.day = 31 BY <1>5, <2>17, <2>18
  <2> QED BY <2>1, <2>4, <2>19
<1> HIDE DEF d, s
<1> QED BY <1>7, <1>8, <1>9, <1>10
=============================================================================
