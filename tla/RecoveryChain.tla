---------------------------- MODULE RecoveryChain ----------------------------
(***************************************************************************)
(* dispatchWithRecovery: a request chain, the transport, the response      *)
(* steps and the recovery steps, folded over an outcome.  A step is caller *)
(* code: it passes what it got, substitutes something, or throws.  A step  *)
(* that returns something else owns the response it drops (RECOV-13), so   *)
(* it has released it by then; one that throws may leave it open.          *)
(***************************************************************************)
EXTENDS Naturals

CONSTANTS
  RequestSteps, ResponseSteps, RecoverySteps,  \* lengths of the three lists
  MaxResponses                                 \* bound: responses of one call

ASSUME RecoveryAssumption ==
  {RequestSteps, ResponseSteps, RecoverySteps, MaxResponses} \subseteq Nat

VARIABLES
  phase,     \* the list being folded, or what runs between two of them
  index,     \* steps of that list already applied
  outcome,   \* the current outcome
  after,     \* the phase a release under way returns to
  answered,  \* responses that came into being
  response,  \* each response: "open", "closing", "closed" or "failed"
  hookRuns   \* how many recovery steps saw an outcome

recoveryVars == <<phase, index, outcome, after, answered, response, hookRuns>>

Responses == 1 .. MaxResponses

Success(r) == [kind |-> "success", response |-> r]
\* What a caller sees of an error is its primary; the rest rides along.
Failure(e, rides) == [kind |-> "failure", primary |-> e, suppressed |-> rides]

RecoveryInit ==
  /\ phase = "request" /\ index = 0 /\ after = "done"
  /\ outcome = [kind |-> "pending"]
  /\ answered = 0 /\ response = [r \in Responses |-> "none"]
  /\ hookRuns = 0

-----------------------------------------------------------------------------

Goto(p) == phase' = p /\ index' = 0
NextStep == index' = index + 1 /\ UNCHANGED phase

\* RequestRecoveryChain.apply: a left-to-right fold; a throw is the outcome of
\* prepareRequest, and the recovery hooks see it.
RequestStepPasses ==
  /\ phase = "request" /\ index < RequestSteps
  /\ NextStep
  /\ UNCHANGED <<outcome, after, answered, response, hookRuns>>

RequestStepThrows ==
  /\ phase = "request" /\ index < RequestSteps
  /\ outcome' = Failure("request step", {})
  /\ Goto("response")
  /\ UNCHANGED <<after, answered, response, hookRuns>>

RequestReady ==
  /\ phase = "request" /\ index = RequestSteps
  /\ Goto("transport")
  /\ UNCHANGED <<outcome, after, answered, response, hookRuns>>

TransportAnswers ==
  /\ phase = "transport" /\ answered < MaxResponses
  /\ answered' = answered + 1
  /\ response' = [response EXCEPT ![answered + 1] = "open"]
  /\ outcome' = Success(answered + 1)
  /\ Goto("response")
  /\ UNCHANGED <<after, hookRuns>>

TransportRejects ==
  /\ phase = "transport"
  /\ outcome' = Failure("transport", {})
  /\ Goto("response")
  /\ UNCHANGED <<after, answered, response, hookRuns>>

-----------------------------------------------------------------------------

Steps == IF phase = "response" THEN ResponseSteps ELSE RecoverySteps

\* Response steps run on a success only, recovery steps on every outcome.
StepRuns ==
  \/ phase = "response" /\ index < ResponseSteps /\ outcome.kind = "success"
  \/ phase = "recovery" /\ index < RecoverySteps

Counted == hookRuns' = IF phase = "recovery" THEN hookRuns + 1 ELSE hookRuns

StepPasses ==
  /\ StepRuns /\ Counted
  /\ NextStep
  /\ UNCHANGED <<outcome, after, answered, response>>

\* A substitute response; the one it replaces has been released by the step.
StepSubstitutes ==
  /\ StepRuns /\ Counted /\ answered < MaxResponses
  /\ answered' = answered + 1
  /\ outcome' = Success(answered + 1)
  /\ response' = [r \in Responses |->
       IF r = answered + 1 THEN "open"
       ELSE IF response[r] = "open" THEN "closed" ELSE response[r]]
  /\ NextStep
  /\ UNCHANGED after

\* Only a recovery step can return a failure of its own making.
StepReturnsFailure ==
  /\ StepRuns /\ phase = "recovery" /\ Counted
  /\ outcome' = Failure("mapped", {})
  /\ response' = [r \in Responses |->
       IF response[r] = "open" THEN "closed" ELSE response[r]]
  /\ NextStep
  /\ UNCHANGED <<after, answered>>

\* Mutant: a step that throws takes the response it held with it.
HeldOpenNever == FALSE

\* toFailureClosingSuccess: the response held is closed, then the throw is the
\* failure.  A thrown response step ends its phase, a recovery step does not.
HeldOpen == outcome.kind = "success"

StepThrows ==
  /\ StepRuns /\ Counted
  /\ IF HeldOpen
     THEN /\ response' = [response EXCEPT ![outcome.response] =
                            IF @ = "open" THEN "closing" ELSE @]
          /\ phase' = "closing" /\ after' = phase
          /\ UNCHANGED <<outcome, index>>
     ELSE /\ outcome' = Failure("thrown", {})
          /\ NextStep
          /\ UNCHANGED <<after, response>>
  /\ UNCHANGED answered

\* statusMappingStep releases the response itself before it throws.
StatusMapped ==
  /\ phase = "response" /\ StepRuns
  /\ \E how \in {"closed", "failed"} :
       response' = [response EXCEPT ![outcome.response] = how]
  /\ phase' = "closing" /\ after' = "response"
  /\ UNCHANGED <<index, outcome, answered, hookRuns>>

ReleaseAfterThrow ==
  /\ phase = "closing" /\ response[outcome.response] = "closing"
  /\ \E how \in {"closed", "failed"} :
       response' = [response EXCEPT ![outcome.response] = how]
  /\ UNCHANGED <<phase, index, outcome, after, answered, hookRuns>>

ThrowConverted ==
  /\ phase = "closing" /\ response[outcome.response] \in {"closed", "failed"}
  /\ outcome' = Failure("thrown",
       IF response[outcome.response] = "failed" THEN {"close"} ELSE {})
  /\ phase' = after
  /\ index' = IF after = "response" THEN ResponseSteps ELSE index + 1
  /\ UNCHANGED <<after, answered, response, hookRuns>>

ResponsePhaseEnds ==
  /\ phase = "response"
  /\ index = ResponseSteps \/ outcome.kind = "failure"
  /\ Goto("recovery")
  /\ UNCHANGED <<outcome, after, answered, response, hookRuns>>

\* fold: the response is returned, or the primary thrown.
Unwrap ==
  /\ phase = "recovery" /\ index = RecoverySteps
  /\ Goto("done")
  /\ UNCHANGED <<outcome, after, answered, response, hookRuns>>

RecoveryNext ==
  \/ RequestStepPasses \/ RequestStepThrows \/ RequestReady
  \/ TransportAnswers \/ TransportRejects
  \/ StepPasses \/ StepSubstitutes \/ StepReturnsFailure \/ StepThrows
  \/ StatusMapped \/ ReleaseAfterThrow \/ ThrowConverted
  \/ ResponsePhaseEnds \/ Unwrap

RecoverySpec == RecoveryInit /\ [][RecoveryNext]_recoveryVars

-----------------------------------------------------------------------------

Unreleased == {r \in Responses : response[r] \in {"open", "closing"}}

\* Whichever steps throw, and wherever: a call that ends in a failure has
\* released every response it saw, one that ends in a success holds that one
\* alone, a failed release never hides the error of the step (RECOV-12), and
\* every recovery step has seen an outcome, a throw before the transport
\* included (RECOV-2, RECOV-5, RECOV-8).
RecoveryReleases ==
  /\ outcome.kind = "failure" =>
       /\ Unreleased = {}
       /\ outcome.primary # "close"
  /\ outcome.kind = "success" /\ phase # "closing" => Unreleased = {outcome.response}
  /\ phase = "done" => hookRuns = RecoverySteps
=============================================================================
