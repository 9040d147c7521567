---------------------------- MODULE RetryEngine ----------------------------
(***************************************************************************)
(* The retry loop of packages/core/src/retry/engine.ts against a clock and *)
(* a budget, its wait (config/clock.ts) and the side table in which it     *)
(* leaves the trail of earlier failures (retry/attempt-trail.ts).  Several *)
(* calls run at once; all they share is the clock, the table and the error *)
(* instances a transport may raise again.                                  *)
(*                                                                         *)
(* A stretch between two awaits is one action, except that Schedule and    *)
(* Clamp are apart: each reads the clock, and the clock runs in between.   *)
(***************************************************************************)
EXTENDS Integers, Sequences, Functions

CONSTANTS
    Call,         \* concurrent runs of runWithRetry
    Resendable,   \* the calls whose request may be sent again
    SharedError,  \* error instances a transport raises more than once
    Retryable,    \* those of them that the classifier allows
    NoError,      \* the outcome is a response
    NoCall,       \* nobody surfaced the error yet
    MaxAttempts,  \* settings.maxAttempts
    Budget,       \* settings.totalTimeoutMs; 0 disables it
    Chunk,        \* the longest wait one timer carries (MAX_SLEEP_MS)
    Hint,         \* pacing hints a server may send, in ticks
    Override,     \* delays the caller's delayOverride may return
    Backoff,      \* the delays the schedule may draw before the n-th retry
    MaxClock      \* bound: clock ticks in a behaviour

NoHint == -1
Attempt == 0..MaxAttempts
Error == SharedError \cup (Call \X Attempt)
Waits == {"slicing", "waiting"}

ASSUME CallAssumption == Resendable \subseteq Call /\ NoCall \notin Call
ASSUME ErrorAssumption ==
    /\ Retryable \subseteq SharedError
    /\ SharedError \cap (Call \X Attempt) = {}
    /\ NoError \notin Error
ASSUME SettingsAssumption ==
    /\ MaxAttempts \in Nat \ {0}
    /\ Budget \in Nat
    /\ Chunk \in Nat \ {0}
    /\ MaxClock \in Nat
ASSUME DelayAssumption ==
    /\ Hint \subseteq Nat
    /\ Override \subseteq Int
    /\ Backoff \in [1..MaxAttempts -> SUBSET Nat]

VARIABLES
    clock,      \* clock.monotonic()
    pc,         \* where a call is
    attempt,    \* the loop's counter
    startedAt,  \* the clock when the call started
    aborted,    \* the caller's signal
    open,       \* a response of this call is open
    err,        \* the error in hand, or NoError
    hint,       \* the pacing hint read off the response, or NoHint
    delay,      \* the delay resolved, then clamped, then what is left to wait
    overshoots, \* schedule.overshootsBudget
    due,        \* when the timer of the current slice fires
    trail,      \* errors of the attempts before this one
    trails,     \* the side table: trails[e] is the entry of e, <<>> when none
    failed,     \* history: the errors of all attempts of the call
    owed,       \* history: the earliest instant for the next attempt
    readAt,     \* history: the clock when the overshoot was judged
    drifted,    \* history: the clock moved from there to the clamp
    surfacer    \* history: the call that surfaced an error last

timing == <<hint, delay, overshoots, due, owed, readAt, drifted>>
table == <<trails, surfacer>>
loop == <<attempt, startedAt, trail>>
vars == <<clock, pc, aborted, open, err, failed, timing, table, loop>>

PC == {"idle", "head", "sent", "retiring", "throwing", "scheduling", "clamping",
       "releasing", "slicing", "waiting", "done"}

TypeOK ==
    /\ clock \in Nat
    /\ pc \in [Call -> PC]
    /\ attempt \in [Call -> Attempt]
    /\ startedAt \in [Call -> Nat]
    /\ aborted \in [Call -> BOOLEAN]
    /\ open \in [Call -> BOOLEAN]
    /\ err \in [Call -> Error \cup {NoError}]
    /\ hint \in [Call -> Hint \cup {NoHint}]
    /\ delay \in [Call -> Int]
    /\ overshoots \in [Call -> BOOLEAN]
    /\ due \in [Call -> Int]
    /\ trail \in [Call -> Seq(Error)]
    /\ failed \in [Call -> Seq(Error)]
    /\ owed \in [Call -> Int]
    /\ readAt \in [Call -> Nat]
    /\ drifted \in [Call -> BOOLEAN]
    /\ surfacer \in [Error -> Call \cup {NoCall}]

Init ==
    /\ clock = 0
    /\ pc = [c \in Call |-> "idle"]
    /\ attempt = [c \in Call |-> 0]
    /\ startedAt = [c \in Call |-> 0]
    /\ aborted = [c \in Call |-> FALSE]
    /\ open = [c \in Call |-> FALSE]
    /\ err = [c \in Call |-> NoError]
    /\ hint = [c \in Call |-> NoHint]
    /\ delay = [c \in Call |-> 0]
    /\ overshoots = [c \in Call |-> FALSE]
    /\ due = [c \in Call |-> 0]
    /\ trail = [c \in Call |-> <<>>]
    /\ trails = [e \in Error |-> <<>>]
    /\ failed = [c \in Call |-> <<>>]
    /\ owed = [c \in Call |-> 0]
    /\ readAt = [c \in Call |-> 0]
    /\ drifted = [c \in Call |-> FALSE]
    /\ surfacer = [e \in Error |-> NoCall]

-----------------------------------------------------------------------------
(* Helpers.                                                                *)

Elapsed(c) == clock - startedAt[c]

BudgetExhausted(c) == Budget # 0 /\ Elapsed(c) >= Budget

OvershootsNever(c, d) == FALSE      \* mutant: the clamp alone keeps the budget
OvershootsBudget(c, d) == Budget # 0 /\ Elapsed(c) + d > Budget

Larger(a, b) == IF a >= b THEN a ELSE b
Smaller(a, b) == IF a <= b THEN a ELSE b

ClampToBudget(c, d) ==
    IF Budget = 0 THEN d ELSE Larger(0, Smaller(d, Budget - Elapsed(c)))

(* The error of this attempt, or of what follows it, as an instance of its *)
(* own: a status error, a failed drain, a cancellation, a release failure  *)
(* paired with what it must not mask.                                      *)
Own(c) == <<c, Len(trail[c])>>

(* The failures before e, oldest first; e itself leaves a gap.             *)
Without(s, e) == Restrict(s, {n \in DOMAIN s : s[n] # e})

(* The gates that come before anything is done to a response.              *)
MayRetryUncounted(c) == c \in Resendable /\ ~BudgetExhausted(c)    \* mutant: no attempt gate

MayRetry(c) ==
    /\ c \in Resendable
    /\ attempt[c] < MaxAttempts
    /\ ~BudgetExhausted(c)

(* Mutant: an empty trail writes nothing.                                  *)
RecordAttemptsIfAny(e, earlier) ==
    IF earlier = <<>> THEN UNCHANGED trails ELSE trails' = [trails EXCEPT ![e] = earlier]

(* recordAttempts(): an empty trail deletes the entry of an earlier call.  *)
RecordAttempts(e, earlier) == trails' = [trails EXCEPT ![e] = earlier]

(* The release of a response that is discarded; whether its close fails is *)
(* at most a second error behind the first.                                *)
LeaveToDrain(c) == UNCHANGED open   \* mutant: only the drain releases
Close(c) == open' = [open EXCEPT ![c] = FALSE]

(* attachTrail() on a failure, and the call is over.                       *)
Surface(c, e) ==
    /\ pc' = [pc EXCEPT ![c] = "done"]
    /\ err' = [err EXCEPT ![c] = e]
    /\ RecordAttempts(e, Without(trail[c], e))
    /\ surfacer' = [surfacer EXCEPT ![e] = c]

(* The locals of one turn of the loop start afresh.                        *)
NewTurn(c) ==
    /\ hint' = [hint EXCEPT ![c] = NoHint]
    /\ delay' = [delay EXCEPT ![c] = 0]
    /\ overshoots' = [overshoots EXCEPT ![c] = FALSE]
    /\ due' = [due EXCEPT ![c] = 0]
    /\ owed' = [owed EXCEPT ![c] = 0]
    /\ readAt' = [readAt EXCEPT ![c] = 0]
    /\ drifted' = [drifted EXCEPT ![c] = FALSE]

-----------------------------------------------------------------------------
(* The loop.                                                               *)

(* A call starts, with a signal and errors of its own: no entry of the     *)
(* table is keyed by an error it is still to raise.                        *)
Begin(c) ==
    /\ pc[c] \in {"idle", "done"}
    /\ pc' = [pc EXCEPT ![c] = "head"]
    /\ attempt' = [attempt EXCEPT ![c] = 0]
    /\ startedAt' = [startedAt EXCEPT ![c] = clock]
    /\ trail' = [trail EXCEPT ![c] = <<>>]
    /\ failed' = [failed EXCEPT ![c] = <<>>]
    /\ err' = [err EXCEPT ![c] = NoError]
    /\ aborted' = [aborted EXCEPT ![c] = FALSE]
    /\ open' = [open EXCEPT ![c] = FALSE]
    /\ trails' = [e \in Error |-> IF e \in {c} \X Attempt THEN <<>> ELSE trails[e]]
    /\ NewTurn(c)
    /\ UNCHANGED <<clock, surfacer>>

(* The loop's head: a caller that cancelled gets its cancellation, any     *)
(* other call dispatches its next attempt.                                 *)
Cancel(c) ==
    /\ pc[c] = "head"
    /\ aborted[c]
    /\ Surface(c, Own(c))
    /\ UNCHANGED <<clock, aborted, open, failed, timing, loop>>

Dispatch(c) ==
    /\ pc[c] = "head"
    /\ ~aborted[c]
    /\ attempt' = [attempt EXCEPT ![c] = @ + 1]
    /\ pc' = [pc EXCEPT ![c] = "sent"]
    /\ err' = [err EXCEPT ![c] = NoError]
    /\ NewTurn(c)
    /\ UNCHANGED <<clock, aborted, open, failed, startedAt, trail, table>>

(* The attempt yields a response.  One that ends the loop is handed out    *)
(* open; of one that is retried the pacing hint is read before its drain   *)
(* starts.                                                                 *)
Respond(c) ==
    /\ pc[c] = "sent"
    /\ open' = [open EXCEPT ![c] = TRUE]
    /\ \/ /\ pc' = [pc EXCEPT ![c] = "done"]
          /\ UNCHANGED <<hint, owed>>
       \/ /\ MayRetry(c)
          /\ pc' = [pc EXCEPT ![c] = "retiring"]
          /\ \E h \in Hint \cup {NoHint} :
                /\ hint' = [hint EXCEPT ![c] = h]
                /\ owed' = [owed EXCEPT ![c] = clock + Larger(h, 0)]
    /\ UNCHANGED <<clock, aborted, err, failed, delay, overshoots, due, readAt,
                   drifted, table, loop>>

(* The attempt fails, with an instance the transport raised before or a    *)
(* new one; a failure carries no hint.                                     *)
Fail(c) ==
    /\ pc[c] = "sent"
    /\ \E e \in SharedError \cup {Own(c)} :
        /\ failed' = [failed EXCEPT ![c] = Append(@, e)]
        /\ \/ /\ MayRetry(c)
              /\ e \in Retryable \cup {Own(c)}
              /\ pc' = [pc EXCEPT ![c] = "scheduling"]
              /\ err' = [err EXCEPT ![c] = e]
              /\ hint' = [hint EXCEPT ![c] = NoHint]
              /\ owed' = [owed EXCEPT ![c] = clock]
              /\ UNCHANGED table
           \/ /\ e \in Retryable => ~MayRetry(c)
              /\ Surface(c, e)
              /\ UNCHANGED <<hint, owed>>
    /\ UNCHANGED <<clock, aborted, open, delay, overshoots, due, readAt, drifted, loop>>

(* retire(): toHttpError() drains and closes a response of the error band, *)
(* leaves any other one open, and fails when its drain does.               *)
Retire(c) ==
    /\ pc[c] = "retiring"
    /\ err' = [err EXCEPT ![c] = Own(c)]
    /\ failed' = [failed EXCEPT ![c] = Append(@, Own(c))]
    /\ \/ /\ pc' = [pc EXCEPT ![c] = "scheduling"]
          /\ \E o \in BOOLEAN : open' = [open EXCEPT ![c] = o]
       \/ /\ pc' = [pc EXCEPT ![c] = "throwing"]
          /\ open' = [open EXCEPT ![c] = FALSE]
    /\ UNCHANGED <<clock, aborted, timing, table, loop>>

(* The drain failed: the response is released all the same, and its        *)
(* failure ends the loop.                                                  *)
Rethrow(c) ==
    /\ pc[c] = "throwing"
    /\ Close(c)
    /\ Surface(c, err[c])
    /\ UNCHANGED <<clock, aborted, failed, timing, loop>>

(* resolveDelay(): the caller's override, else the server's hint, else the *)
(* schedule.                                                               *)
Scheduled(c) == IF hint[c] # NoHint THEN {hint[c]} ELSE Backoff[attempt[c]]

Schedule(c) ==
    /\ pc[c] = "scheduling"
    /\ \E d \in Override \cup Scheduled(c) :
        /\ delay' = [delay EXCEPT ![c] = d]
        /\ overshoots' = [overshoots EXCEPT ![c] = OvershootsBudget(c, d)]
        /\ \/ d \in Override /\ owed' = [owed EXCEPT ![c] = clock + d]
           \/ d \in Scheduled(c) /\ owed' = [owed EXCEPT ![c] = Larger(@, clock + d)]
    /\ readAt' = [readAt EXCEPT ![c] = clock]
    /\ pc' = [pc EXCEPT ![c] = "clamping"]
    /\ UNCHANGED <<clock, aborted, open, err, failed, hint, due, drifted, table, loop>>

Clamp(c) ==
    /\ pc[c] = "clamping"
    /\ delay' = [delay EXCEPT ![c] = ClampToBudget(c, @)]
    /\ drifted' = [drifted EXCEPT ![c] = clock # readAt[c]]
    /\ pc' = [pc EXCEPT ![c] = "releasing"]
    /\ UNCHANGED <<clock, aborted, open, err, failed, hint, overshoots, due, owed, readAt,
                   table, loop>>

(* The response is released, whatever its close does.  Then the loop stops *)
(* with the failure in hand, or the failure joins the trail and the wait   *)
(* begins; a wait that is not positive is none.                            *)
Release(c) ==
    /\ pc[c] = "releasing"
    /\ Close(c)
    /\ \/ /\ overshoots[c]
          /\ Surface(c, err[c])
          /\ UNCHANGED trail
       \/ /\ ~overshoots[c]
          /\ trail' = [trail EXCEPT ![c] = Append(@, err[c])]
          /\ pc' = [pc EXCEPT ![c] = IF delay[c] > 0 THEN "slicing" ELSE "head"]
          /\ UNCHANGED <<err, table>>
    /\ UNCHANGED <<clock, aborted, failed, attempt, startedAt, timing>>

-----------------------------------------------------------------------------
(* The wait: sleepInChunks() under waitFor().                              *)

Slice(c) == Smaller(delay[c], Chunk)

(* The head of its loop: an abort ends the wait before a timer is set.     *)
StartSlice(c) ==
    /\ pc[c] = "slicing"
    /\ IF aborted[c]
         THEN pc' = [pc EXCEPT ![c] = "head"] /\ UNCHANGED due
         ELSE /\ pc' = [pc EXCEPT ![c] = "waiting"]
              /\ due' = [due EXCEPT ![c] = clock + Slice(c)]
    /\ UNCHANGED <<clock, aborted, open, err, failed, hint, delay, overshoots, owed,
                   readAt, drifted, table, loop>>

(* The timer fires, at its instant or late.                                *)
Fire(c) ==
    /\ pc[c] = "waiting"
    /\ clock >= due[c]
    /\ delay' = [delay EXCEPT ![c] = @ - Slice(c)]
    /\ pc' = [pc EXCEPT ![c] = IF delay'[c] > 0 THEN "slicing" ELSE "head"]
    /\ UNCHANGED <<clock, aborted, open, err, failed, hint, overshoots, due, owed,
                   readAt, drifted, table, loop>>

(* Mutant: the signal is looked at between slices only.                    *)
WakeOnAbortWhenDue(c) ==
    /\ pc[c] = "waiting"
    /\ aborted[c]
    /\ clock >= due[c]
    /\ pc' = [pc EXCEPT ![c] = "head"]
    /\ UNCHANGED <<clock, aborted, open, err, failed, timing, table, loop>>

(* The abort listener of the slice clears the timer; waitFor() absorbs the *)
(* rejection and the loop's head answers it.                               *)
WakeOnAbort(c) ==
    /\ pc[c] = "waiting"
    /\ aborted[c]
    /\ pc' = [pc EXCEPT ![c] = "head"]
    /\ UNCHANGED <<clock, aborted, open, err, failed, timing, table, loop>>

(* A clock of the caller's own rejects for another reason.                 *)
SleepFails(c) ==
    /\ pc[c] = "waiting"
    /\ ~aborted[c]
    /\ Surface(c, Own(c))
    /\ UNCHANGED <<clock, aborted, open, failed, timing, loop>>

Abort(c) ==
    /\ ~aborted[c]
    /\ pc[c] \notin {"idle", "done"}
    /\ aborted' = [aborted EXCEPT ![c] = TRUE]
    /\ UNCHANGED <<clock, pc, open, err, failed, timing, table, loop>>

Tick ==
    /\ clock < MaxClock
    /\ clock' = clock + 1
    /\ UNCHANGED <<pc, aborted, open, err, failed, timing, table, loop>>

-----------------------------------------------------------------------------
CallStep(c) ==
    \/ Begin(c) \/ Cancel(c) \/ Dispatch(c) \/ Respond(c) \/ Fail(c)
    \/ Retire(c) \/ Rethrow(c) \/ Schedule(c) \/ Clamp(c) \/ Release(c)
    \/ StartSlice(c) \/ Fire(c) \/ WakeOnAbort(c) \/ SleepFails(c) \/ Abort(c)

Next == Tick \/ \E c \in Call : CallStep(c)

Spec == Init /\ [][Next]_vars

(* The event loop runs what is ready.  Nothing is assumed of the transport *)
(* of a response that is drained or released, or of the clock: it may      *)
(* stand still.                                                            *)
EventLoop ==
    \A c \in Call : WF_vars(Cancel(c) \/ StartSlice(c) \/ WakeOnAbort(c))

FairSpec == Spec /\ EventLoop

-----------------------------------------------------------------------------
(* Correctness.                                                            *)

(* A response of the call is open only while the loop decides about it or  *)
(* when it is the outcome: none is held across a wait or a new attempt,    *)
(* nor behind a failure (engine.ts 255), and the one that ends the loop is *)
(* handed out open, no gate having touched it (engine.ts 278).             *)
ResponseAccounted ==
    \A c \in Call :
        /\ open[c] => pc[c] \notin Waits \cup {"head", "sent"}
        /\ pc[c] = "done" => (open[c] <=> err[c] = NoError)

(* A retry never goes out before the wait it owes is over: what the caller *)
(* or the schedule asked for, or the server, counted from its answer.  The *)
(* budget never cuts a wait short (engine.ts 91) except for the time that  *)
(* passes between its two readings, and then only at the budget's end.  A  *)
(* wait made of several timers is as long as one (clock.ts 173).           *)
PacingHonoured ==
    [][\A c \in Call : attempt[c] > 0 /\ attempt'[c] > attempt[c] =>
        \/ clock >= owed[c]
        \/ drifted[c] /\ clock >= startedAt[c] + Budget]_vars

(* The entry a caller finds under the error it catches lists the failures  *)
(* of all earlier attempts of its call, in order and without that error,   *)
(* as long as no other call has surfaced the same instance since: no entry *)
(* is left from an earlier call (attempt-trail.ts 39), and no attempt is   *)
(* missing whichever path ended the loop (attempt-trail.ts 70).            *)
Caught(c) == pc[c] = "done" /\ err[c] # NoError

TrailIsTheCalls ==
    \A c \in Call :
        Caught(c) /\ surfacer[err[c]] = c => trails[err[c]] = Without(failed[c], err[c])

(* An abort ends the wait and the call, though the clock stands still.     *)
AbortEndsWait ==
    \A c \in Call : aborted[c] /\ pc[c] \in Waits ~> pc[c] = "done"

-----------------------------------------------------------------------------
(* The inductive invariant behind the safety properties.                   *)

(* Where an error is in hand and where a response may be open.             *)
InHand(c) ==
    /\ pc[c] \in {"idle", "head", "sent", "throwing"} \cup Waits => ~open[c]
    /\ err[c] \in SharedError \cup ({c} \X Attempt) \cup {NoError}
    /\ pc[c] \in {"sent", "retiring"} => err[c] = NoError
    /\ pc[c] \in {"scheduling", "throwing", "clamping", "releasing"} => err[c] # NoError
    /\ pc[c] = "done" => (open[c] <=> err[c] = NoError)

(* A wait that reaches instant t satisfies what the next attempt owes.     *)
Honours(c, t) ==
    \/ t >= owed[c]
    \/ drifted[c] /\ t >= startedAt[c] + Budget

Pace(c) ==
    /\ startedAt[c] <= clock
    /\ pc[c] \in {"retiring", "scheduling"} => owed[c] <= clock + Larger(hint[c], 0)
    /\ pc[c] = "clamping" =>
        /\ startedAt[c] <= readAt[c] /\ readAt[c] <= clock
        /\ owed[c] = readAt[c] + delay[c]
        /\ overshoots[c] <=>
            Budget # 0 /\ readAt[c] - startedAt[c] + delay[c] > Budget
    /\ pc[c] = "releasing" /\ ~overshoots[c] => Honours(c, clock + delay[c])
    /\ pc[c] = "slicing" => Honours(c, clock + delay[c])
    /\ pc[c] = "waiting" => Honours(c, due[c] + delay[c] - Slice(c))
    /\ pc[c] = "head" /\ attempt[c] > 0 => aborted[c] \/ Honours(c, clock)

(* The trail and the history of failures, and the entry of a caught error. *)
TrailOK(c) ==
    /\ pc[c] \in {"head", "sent", "retiring"} \cup Waits => failed[c] = trail[c]
    /\ pc[c] \in {"scheduling", "throwing", "clamping", "releasing"} =>
        failed[c] = Append(trail[c], err[c])
    /\ Caught(c) /\ surfacer[err[c]] = c => trails[err[c]] = Without(failed[c], err[c])

(* The trail has one entry per attempt that was retried, and only an       *)
(* attempt below the cap is.                                               *)
Counted(c) ==
    /\ pc[c] \in {"sent", "retiring", "throwing", "scheduling", "clamping", "releasing"} =>
        Len(trail[c]) = attempt[c] - 1
    /\ pc[c] \in {"head"} \cup Waits => Len(trail[c]) = attempt[c]
    /\ pc[c] \in {"head", "retiring", "scheduling", "clamping", "releasing"} \cup Waits =>
        attempt[c] < MaxAttempts

IndInv ==
    /\ TypeOK
    /\ DOMAIN trails = Error
    /\ \A c \in Call : InHand(c) /\ Pace(c) /\ TrailOK(c) /\ Counted(c)

-----------------------------------------------------------------------------
(* What docs/product-spec/09-retry-and-resilience.md 27 asks (RETRY-27):   *)
(* before each attempt the loop aborts if the elapsed time has reached the *)
(* budget.  The engine reads the budget when an attempt has failed, not    *)
(* again when the release and the wait are over, and a delay that fills    *)
(* the budget does not overshoot it.                                       *)
NoAttemptPastBudget ==
    [][\A c \in Call : attempt[c] > 0 /\ attempt'[c] > attempt[c] =>
        ~BudgetExhausted(c)]_vars
=============================================================================
