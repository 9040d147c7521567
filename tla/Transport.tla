------------------------------ MODULE Transport ------------------------------
(***************************************************************************)
(* One send() of the fetch or the undici transport, on the parts they      *)
(* share: the composed abort signal and its fork, the request-body pump,   *)
(* the race of the native client against the body's producer, the          *)
(* adaptation of the answer, and undici's close().                         *)
(*                                                                         *)
(* The native client and the producer (the body's writeTo) are external    *)
(* and move by themselves.  Sends share no state, so one is enough.        *)
(***************************************************************************)
EXTENDS Naturals, FiniteSets

CONSTANTS
  Clients,        \* subset of {"fetch", "undici"}
  SourceMayStall  \* may the request body's own source stop yielding?

ASSUME TransportAssumption ==
  Clients \subseteq {"fetch", "undici"} /\ SourceMayStall \in BOOLEAN

VARIABLES
  client,    \* which transport this is
  sendPc,        \* where send() is
  composed,    \* the composed signal: the caller's abort and the timeout
  fork,      \* the forked signal: its state and whether it is attached
  producer,  \* the streamed request body's writeTo
  severed,   \* has the producer's write end been aborted?
  native,    \* the native exchange
  answer,    \* the native response body
  failure,   \* the error send() rejects with
  pool       \* undici's owned dispatchers: live, and those destroy() failed on

transportVars == <<client, sendPc, composed, fork, producer, severed, native, answer, failure, pool>>

Aborts == {"cancelled", "timedOut"}

TransportStarts(c, owned) ==
  /\ client = c
  /\ sendPc = "start"
  /\ composed = "live"
  /\ fork = [state |-> "live", attached |-> FALSE, detached |-> FALSE]
  /\ producer = "none"
  /\ severed = FALSE
  /\ native = "idle"
  /\ answer = "none"
  /\ failure = "none"
  /\ pool = [owned |-> owned, live |-> owned, closing |-> FALSE, failed |-> {}]

\* undici owns the dispatchers it was not given: none, or its own, with those
\* for a proxy.
TransportInit ==
  \E c \in Clients, owned \in {{}, {"direct"}, {"proxied", "direct"}} :
    TransportStarts(c, owned)

-----------------------------------------------------------------------------
(* Classification                                                          *)

\* What the native client may reject with: a refused argument, a transient
\* failure, or (undici) a destroyed dispatcher.
Rejections == {"permanent", "transient"}

AbortToSdkError(state) ==
  IF state = "timedOut" THEN "TransportFailureError(timeout)" ELSE "CancellationError"

\* isPermanentDispatchFailure: a refused argument can never succeed and is a
\* TypeError; everything else is retryable.  A DexpaceError passes through:
\* the producer's failure is one already.
ToDispatchFailure(error) ==
  IF error = "permanent" THEN "TypeError" ELSE "TransportFailureError"

\* toDispatchError (undici) and the catch of fetch's #dispatch: the abort
\* wins over whatever it made the native client reject with.
ToDispatchError(error) ==
  IF fork.state \in Aborts THEN AbortToSdkError(fork.state)
  ELSE IF error = "destroyed" /\ client = "undici" THEN "CancellationError"
  ELSE ToDispatchFailure(error)

-----------------------------------------------------------------------------
(* Aborting the native exchange                                            *)

\* Aborting the signal the native client was given: a pending exchange
\* rejects, an answer's body errors, and the request stream it was reading
\* is torn down.
SignalFires(state) ==
  /\ fork' = [fork EXCEPT !.state = state]
  /\ native' = IF native = "pending" THEN "aborting" ELSE native
  /\ answer' = IF answer = "open" THEN "torn" ELSE answer
  /\ severed' = TRUE

\* ForkedSignal.abort: inert once detached, and a signal aborts once.
ForkAbort ==
  IF fork.detached \/ fork.state # "live"
  THEN UNCHANGED <<fork, native, answer, severed>>
  ELSE SignalFires("pulled")

\* The caller aborts or the timeout elapses; the fork hears it while attached.
SourceAborts ==
  /\ composed = "live"
  /\ \E state \in Aborts :
       /\ composed' = state
       /\ IF fork.attached /\ ~fork.detached /\ fork.state = "live"
          THEN SignalFires(state)
          ELSE UNCHANGED <<fork, native, answer, severed>>
  /\ UNCHANGED <<client, sendPc, producer, failure, pool>>

-----------------------------------------------------------------------------
(* send()                                                                  *)

Reject(error) == failure' = error /\ sendPc' = "rejected"

\* An abort before anything started.
SendAborted ==
  /\ sendPc = "start"
  /\ composed \in Aborts
  /\ Reject(AbortToSdkError(composed))
  /\ UNCHANGED <<client, composed, fork, producer, severed, native, answer, pool>>

\* The headers are mapped before the body is touched, so a mapping that
\* throws strands no producer.
HeadersThrow ==
  /\ sendPc = "start"
  /\ composed = "live"
  /\ Reject("header error")
  /\ UNCHANGED <<client, composed, fork, producer, severed, native, answer, pool>>

\* prepareBody: no body, a small replayable one buffered first, or a pump.
PrepareBody ==
  /\ sendPc = "start"
  /\ composed = "live"
  /\ \E kind \in {"none", "buffering", "writing"} : producer' = kind
  /\ sendPc' = "preparing"
  /\ UNCHANGED <<client, composed, fork, severed, native, answer, failure, pool>>

\* Buffering the body fails: the retryable failure of this layer.
BufferingFails ==
  /\ sendPc = "preparing"
  /\ producer = "buffering"
  /\ producer' = "failed"
  /\ Reject("TransportFailureError")
  /\ UNCHANGED <<client, composed, fork, severed, native, answer, pool>>

\* #dispatch's catch, entered with the first settlement of the race: the
\* error is mapped before the fork is pulled, then the producer is abandoned.
Catch(error) ==
  /\ sendPc' = "abandoning"
  /\ failure' = error

\* forkSignal and the race: a signal aborted by now aborts the fork at once.
DispatchNative ==
  /\ sendPc = "preparing"
  /\ fork' = [fork EXCEPT !.attached = TRUE,
                          !.state = IF composed \in Aborts THEN composed ELSE @]
  /\ native' = IF composed \in Aborts THEN "aborting" ELSE "pending"
  /\ severed' = (severed \/ composed \in Aborts)
  /\ producer' = IF producer = "buffering" THEN "none" ELSE producer
  /\ IF producer = "failed"
     THEN Catch(IF composed \in Aborts THEN AbortToSdkError(composed)
                ELSE "TransportFailureError")
     ELSE sendPc' = "racing" /\ UNCHANGED failure
  /\ UNCHANGED <<client, composed, answer, pool>>

\* #exchange after the race was won: an abort in between means nobody will
\* receive this answer.  Its body is released, then the producer abandoned.
DiscardAborted ==
  /\ sendPc = "answered"
  /\ IF client = "fetch" THEN composed \in Aborts ELSE fork.state \in Aborts
  /\ answer' = IF answer = "open" THEN "released" ELSE answer
  /\ failure' = AbortToSdkError(IF client = "fetch" THEN composed ELSE fork.state)
  /\ sendPc' = "dropping"
  /\ severed' = TRUE
  /\ UNCHANGED <<client, composed, fork, producer, native, pool>>

\* Adapting the answer throws: released and abandoned the same way.
AdaptThrows ==
  /\ sendPc = "answered"
  /\ IF client = "fetch" THEN composed \notin Aborts ELSE fork.state \notin Aborts
  /\ answer' = IF answer = "open" THEN "released" ELSE answer
  /\ failure' = "adapt error"
  /\ sendPc' = "dropping"
  /\ severed' = TRUE
  /\ UNCHANGED <<client, composed, fork, producer, native, pool>>

\* The adapted response: with a body, or (HEAD, 204, 304, ...) without one,
\* whose native stream is released before the response is handed over.
Adapt ==
  /\ sendPc = "answered"
  /\ IF client = "fetch" THEN composed \notin Aborts ELSE fork.state \notin Aborts
  /\ \E hasBody \in BOOLEAN :
       answer' = IF ~hasBody /\ answer = "open" THEN "released" ELSE answer
  /\ sendPc' = "returning"
  /\ UNCHANGED <<client, composed, fork, producer, severed, native, failure, pool>>

\* Mutant: the fork keeps listening after the response was delivered.
DeliverAttached ==
  /\ sendPc = "returning"
  /\ sendPc' = "delivered"
  /\ UNCHANGED <<client, composed, fork, producer, severed, native, answer, failure, pool>>

\* send()'s finally after a response: the fork lets go of the source.
Deliver ==
  /\ sendPc = "returning"
  /\ fork' = [fork EXCEPT !.detached = TRUE]
  /\ sendPc' = "delivered"
  /\ UNCHANGED <<client, composed, producer, severed, native, answer, failure, pool>>

\* abandon(): abort the write end, then wait for the producer's settlement.
AbandonPump ==
  /\ sendPc = "abandoning"
  /\ severed' = TRUE
  /\ sendPc' = "unwinding"
  /\ UNCHANGED <<client, composed, fork, producer, native, answer, failure, pool>>

ProducerSettled == producer \notin {"writing", "stalled"}

\* Mutant: the native exchange that lost the race is left running.
PullForkNot ==
  /\ sendPc = "unwinding"
  /\ ProducerSettled
  /\ sendPc' = "rejecting"
  /\ UNCHANGED <<client, composed, fork, producer, severed, native, answer, failure, pool>>

\* The producer has unwound: the fork is pulled, so that a native exchange
\* that lost the race is taken down with the send.
PullFork ==
  /\ sendPc = "unwinding"
  /\ ProducerSettled
  /\ ForkAbort
  /\ sendPc' = "rejecting"
  /\ UNCHANGED <<client, composed, producer, failure, pool>>

\* The discarding paths of #exchange pull nothing: the answer is released.
Dropped ==
  /\ sendPc = "dropping"
  /\ ProducerSettled
  /\ sendPc' = "rejecting"
  /\ UNCHANGED <<client, composed, fork, producer, severed, native, answer, failure, pool>>

\* send()'s finally after a failure.
RejectSend ==
  /\ sendPc = "rejecting"
  /\ fork' = [fork EXCEPT !.detached = TRUE]
  /\ sendPc' = "rejected"
  /\ UNCHANGED <<client, composed, producer, severed, native, answer, failure, pool>>

SendStep ==
  \/ SendAborted \/ HeadersThrow \/ PrepareBody \/ BufferingFails \/ DispatchNative
  \/ DiscardAborted \/ AdaptThrows \/ Adapt \/ Deliver
  \/ AbandonPump \/ PullFork \/ Dropped \/ RejectSend

-----------------------------------------------------------------------------
(* The native client                                                       *)

\* An answer arrives: it wins the race, or comes after the race was lost.
NativeAnswers ==
  /\ native = "pending"
  /\ native' = "answered"
  /\ answer' = "open"
  /\ sendPc' = IF sendPc = "racing" THEN "answered" ELSE sendPc
  /\ UNCHANGED <<client, composed, fork, producer, severed, failure, pool>>

\* The native client rejects, by itself or because its signal fired; it stops
\* reading the request stream.
NativeRejects ==
  /\ native \in {"pending", "aborting"}
  /\ \E error \in IF native = "aborting" THEN {"transient"} ELSE Rejections :
       IF sendPc = "racing" THEN Catch(ToDispatchError(error)) ELSE UNCHANGED <<sendPc, failure>>
  /\ native' = "rejected"
  /\ severed' = TRUE
  /\ UNCHANGED <<client, composed, fork, producer, answer, pool>>

-----------------------------------------------------------------------------
(* The producer: body.writeTo behind the pump                              *)

\* producerFailure: the failure of the producer settles the race, wrapped as
\* the retryable failure of this layer; after the race it is only observed.
ProducerRejects(state) ==
  /\ producer' = state
  /\ IF sendPc = "racing"
     THEN Catch(IF fork.state \in Aborts THEN AbortToSdkError(fork.state)
                ELSE "TransportFailureError")
     ELSE UNCHANGED <<sendPc, failure>>
  /\ severed' = TRUE
  /\ UNCHANGED <<client, composed, fork, native, answer, pool>>

ProducerFails == producer = "writing" /\ ProducerRejects("failed")

\* Once its write end is aborted, the next write of the producer rejects.
ProducerUnwinds == producer = "writing" /\ severed /\ ProducerRejects("unwound")

ProducerFinishes ==
  /\ producer = "writing"
  /\ ~severed
  /\ producer' = "done"
  /\ UNCHANGED <<client, sendPc, composed, fork, severed, native, answer, failure, pool>>

\* The body's own source stops yielding.  A producer waiting for it writes
\* nothing, so it does not notice an aborted write end.
SourceStalls ==
  /\ SourceMayStall
  /\ producer = "writing"
  /\ producer' = "stalled"
  /\ UNCHANGED <<client, sendPc, composed, fork, severed, native, answer, failure, pool>>

-----------------------------------------------------------------------------
(* The caller and close()                                                  *)

\* The caller closes the response it was given.
CallerCloses ==
  /\ sendPc = "delivered"
  /\ answer = "open"
  /\ answer' = "released"
  /\ UNCHANGED <<client, sendPc, composed, fork, producer, severed, native, failure, pool>>

\* undici's close(): memoized, releases what the transport owns and nothing
\* it was given, in reverse order of creation, carrying on past a failure.
CloseTransport ==
  /\ client = "undici"
  /\ ~pool.closing
  /\ pool' = [pool EXCEPT !.closing = TRUE]
  /\ UNCHANGED <<client, sendPc, composed, fork, producer, severed, native, answer, failure>>

\* A destroyed dispatcher takes its exchange down.  The exchange runs on any
\* owned dispatcher: which one a proxy's bypass list decides.
DestroyDispatcher ==
  /\ pool.closing
  /\ \E d \in pool.live :
       /\ d = "proxied" => "direct" \notin pool.live
       /\ \E fails \in BOOLEAN :
            pool' = [pool EXCEPT !.live = @ \ {d},
                                 !.failed = IF fails THEN @ \cup {d} ELSE @]
  /\ \/ /\ native = "pending"
        /\ native' = "rejected"
        /\ severed' = TRUE
        /\ IF sendPc = "racing" THEN Catch(ToDispatchError("destroyed"))
                            ELSE UNCHANGED <<sendPc, failure>>
        /\ UNCHANGED answer
     \/ /\ answer' = IF answer = "open" THEN "torn" ELSE answer
        /\ UNCHANGED <<sendPc, failure, native, severed>>
     \/ UNCHANGED <<sendPc, failure, native, severed, answer>>
  /\ UNCHANGED <<client, composed, fork, producer>>

Environment ==
  \/ SourceAborts \/ NativeAnswers \/ NativeRejects
  \/ ProducerFails \/ ProducerUnwinds \/ ProducerFinishes \/ SourceStalls
  \/ CallerCloses \/ CloseTransport \/ DestroyDispatcher

TransportNext == SendStep \/ Environment

TransportSpec == TransportInit /\ [][TransportNext]_transportVars

\* send()'s own continuations run, an aborted exchange rejects, and a producer
\* that is not waiting for its source notices an aborted write end.
TransportFairSpec ==
  /\ TransportSpec
  /\ WF_transportVars(SendStep)
  /\ WF_transportVars(native = "aborting" /\ NativeRejects)
  /\ WF_transportVars(ProducerUnwinds)
-----------------------------------------------------------------------------
(* Properties                                                              *)

\* A send() that has rejected leaves nothing behind: no exchange that could
\* still answer, no answer nobody will read, no producer still writing, no
\* listener on the caller's signal; and it names its cause: a cancellation
\* only when the caller cancelled or the dispatcher was destroyed, a timeout
\* only when it elapsed (#dispatch, #exchange and send's finally).
RejectedSendIsClean ==
  sendPc = "rejected" =>
    /\ native # "pending"
    /\ answer # "open"
    /\ ProducerSettled
    /\ fork.attached => fork.detached
    /\ failure = "CancellationError" => composed = "cancelled" \/ pool.closing
    /\ failure = "TransportFailureError(timeout)" => composed = "timedOut"

\* Delivery is final: whatever the caller's signal, the timeout, a producer
\* that fails late or the native client does afterwards, the delivered body
\* ends only by the caller's close or by the destruction of a dispatcher the
\* transport owns (forkSignal's detach, producerFailure).
DeliveryIsFinal ==
  [][sendPc = "delivered" =>
       /\ sendPc' = "delivered"
       /\ answer' # answer =>
            \/ answer' = "released"
            \/ pool' # pool /\ pool.owned # {}]_transportVars

\* An abort while send() is under way settles it: a request body whose
\* producer never resolves does not outlive the send, as #dispatch's comment
\* has it.
AbortSettlesSend == composed \in Aborts ~> sendPc \in {"delivered", "rejected"}
=============================================================================
