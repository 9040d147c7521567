----------------------------- MODULE SseStream -----------------------------
(***************************************************************************)
(* Ownership of an event stream: the facade and the release it runs at     *)
(* most once (packages/core/src/sse/stream.ts), and the typed adapter over *)
(* it (packages/core/src/sse/typed.ts).                                    *)
(*                                                                         *)
(* The release can be asked for by the iterator's end, by an error in a    *)
(* pull, by callers of close(), by an abort signal and by the typed        *)
(* adapter; it takes two awaits, and its failure must reach somebody.      *)
(*                                                                         *)
(* The iterator is an async generator: requests made while it runs queue   *)
(* up.  A stretch between two awaits is one action; a request and the      *)
(* generator's answer to it are two, as a request may have to wait.        *)
(***************************************************************************)
EXTENDS Naturals, Sequences

CONSTANTS
    Closer,     \* calls of SseStream.close() made besides the consumer
    MaxEvents,  \* bound: events the source carries
    MaxAsks     \* bound: requests a consumer of the raw iterator makes

ASSUME BoundAssumption == MaxEvents \in Nat /\ MaxAsks \in Nat

Request == {"next", "return"}
Settled == {"ok", "failed"}

VARIABLES
    closed,      \* #closed
    closing,     \* #closing and the step it has come to
    sourceFailed,\* closing the source failed, the response is still to close
    gen,         \* where the one iterator is; "none" until it is taken
    pulled,      \* what the parser answered to the pull in hand
    queue,       \* requests the iterator has not answered; the head is served
    caller,      \* the explicit calls of close()
    signal,      \* the abort listener
    consumer,    \* "raw", or where the typed adapter is
    stream,      \* the response's body
    left,        \* events the source may still deliver
    asked,       \* requests of a raw consumer so far
    starter,     \* history: who asked for the release first
    releases,    \* history: calls of resource.close()
    reports,     \* history: calls of onReleaseFailure
    attached     \* history: the errors a release failure was attached to

facade == <<closed, closing, sourceFailed, starter, releases>>
iterator == <<gen, pulled, queue, left>>
heard == <<reports, attached>>
vars == <<facade, iterator, heard, caller, signal, consumer, stream, asked>>

(***************************************************************************)
(* The release.                                                            *)
(***************************************************************************)

(* close() up to its first await: the flag is set, and only the first call *)
(* reaches the resource.  That one removes the abort listener and starts   *)
(* to cancel the body's reader, which tears the source down at once.       *)
Release(who) ==
    /\ closed' = TRUE
    /\ IF closing = "none"
          THEN /\ closing' = "source"
               /\ starter' = who
               /\ releases' = releases + 1
          ELSE UNCHANGED <<closing, starter, releases>>
    /\ UNCHANGED sourceFailed

(* The listener after a Release that is not the abort's own.               *)
Unbind == signal' = IF closing = "none" /\ signal = "armed" THEN "none" ELSE signal

(* Cancelling an ended body succeeds, an errored one rejects; a live one   *)
(* does what the transport does.                                           *)
SourceReleased ==
    /\ closing = "source"
    /\ closing' = "response"
    /\ sourceFailed' \in CASE stream = "ended" -> {FALSE}
                           [] stream = "errored" -> {TRUE}
                           [] OTHER -> BOOLEAN
    /\ UNCHANGED <<closed, starter, releases, iterator, heard, caller, signal,
                   consumer, stream, asked>>

(* The response's own close cancels the same body: it fails only if that   *)
(* is errored.  Both closes run, and either failure fails the release.     *)
ResponseReleased ==
    /\ closing = "response"
    /\ closing' = IF sourceFailed \/ stream = "errored" THEN "failed" ELSE "ok"
    /\ UNCHANGED <<closed, sourceFailed, starter, releases, iterator, heard, caller,
                   signal, consumer, stream, asked>>

(***************************************************************************)
(* Callers of close() and the abort listener.                              *)
(***************************************************************************)

(* An iterator at rest runs on within the call that made the request, or   *)
(* within the answer to the one before: no other code comes in between.    *)
Resuming == queue # <<>> /\ gen \in {"start", "yielded"}

Close(c) ==
    /\ caller[c] = "idle" /\ ~Resuming
    /\ Release("caller")
    /\ Unbind
    /\ caller' = [caller EXCEPT ![c] = "waiting"]
    /\ UNCHANGED <<iterator, heard, consumer, stream, asked>>

(* Every call returns the one promise, whoever it was that started it.     *)
CloseSettles(c) ==
    /\ caller[c] = "waiting"
    /\ closing \in Settled
    /\ caller' = [caller EXCEPT ![c] = IF closing = "failed" THEN "rejected" ELSE "resolved"]
    /\ UNCHANGED <<facade, iterator, heard, signal, consumer, stream, asked>>

Abort ==
    /\ signal = "armed" /\ ~Resuming
    /\ Release("abort")
    /\ signal' = "waiting"
    /\ UNCHANGED <<iterator, heard, caller, consumer, stream, asked>>

(* The listener has nobody to throw to: it reports.                        *)
AbortSettles ==
    /\ signal = "waiting"
    /\ closing \in Settled
    /\ signal' = "heard"
    /\ reports' = reports + (IF closing = "failed" THEN 1 ELSE 0)
    /\ UNCHANGED <<facade, iterator, attached, caller, consumer, stream, asked>>

(***************************************************************************)
(* The iterator.                                                           *)
(***************************************************************************)

(* Slip: the finally block forgets the flag, or that somebody closed.      *)
ReleaseQuietlyUnflagged ==
    /\ IF closing = "none"
          THEN closing' = "source" /\ starter' = "iterator" /\ releases' = releases + 1
          ELSE UNCHANGED <<closing, starter, releases>>
    /\ UNCHANGED <<closed, sourceFailed>>
    /\ Unbind
    /\ gen' = "finishing"

ReleaseQuietlyAgain ==
    /\ closed' = TRUE /\ closing' = "source"
    /\ releases' = releases + 1
    /\ UNCHANGED <<starter, sourceFailed>>
    /\ Unbind
    /\ gen' = "finishing"

(* The finally block after a clean end: whoever started the release, the   *)
(* generator waits for it.                                                 *)
ReleaseQuietly ==
    /\ Release("iterator")
    /\ Unbind
    /\ gen' = "finishing"

(* next() on an iterator at rest starts a pull, unless the stream was      *)
(* closed since the last one, which ends it.                               *)
ResumeNext ==
    /\ gen \in {"start", "yielded"} /\ ~closed
    /\ queue # <<>> /\ Head(queue) = "next"
    /\ gen' = "pulling"
    /\ UNCHANGED <<facade, pulled, queue, left, heard, caller, signal, consumer, stream, asked>>

ResumeClosed ==
    /\ gen \in {"start", "yielded"} /\ closed
    /\ queue # <<>> /\ Head(queue) = "next"
    /\ ReleaseQuietly
    /\ UNCHANGED <<pulled, queue, left, heard, caller, consumer, stream, asked>>

(* return() at a yield runs the finally block.                             *)
ResumeReturn ==
    /\ gen = "yielded"
    /\ queue # <<>> /\ Head(queue) = "return"
    /\ ReleaseQuietly
    /\ UNCHANGED <<pulled, queue, left, heard, caller, consumer, stream, asked>>

(* return() before the first next() completes a generator whose body never *)
(* ran, so no finally block runs either.                                   *)
ReturnUnstarted ==
    /\ gen = "start"
    /\ queue # <<>> /\ Head(queue) = "return"
    /\ gen' = "abandoned"
    /\ queue' = Tail(queue)
    /\ UNCHANGED <<facade, pulled, left, heard, caller, signal, consumer, stream, asked>>

(* A completed generator answers done to everything.                       *)
AnswerDone ==
    /\ gen \in {"abandoned", "done"}
    /\ queue # <<>>
    /\ queue' = Tail(queue)
    /\ UNCHANGED <<facade, gen, pulled, left, heard, caller, signal, consumer, stream, asked>>

(* The parser answers from an open source: an event, its end, or a failure *)
(* of the body, of a chunk or of a line over the cap.                      *)
PullSettles ==
    /\ gen = "pulling"
    /\ closing = "none"
    /\ gen' = "parsed"
    /\ \/ left > 0 /\ pulled' = "event" /\ left' = left - 1
       \/ stream = "ended" /\ pulled' = "end" /\ UNCHANGED left
       \/ pulled' = "failure" /\ UNCHANGED left
    /\ UNCHANGED <<facade, queue, heard, caller, signal, consumer, stream, asked>>

(* Slip: closing a live body does not cancel the read it is in.            *)
PullTornIfOver ==
    /\ gen = "pulling"
    /\ closing # "none" /\ stream # "live"
    /\ gen' = "parsed"
    /\ pulled' = "failure"
    /\ UNCHANGED <<facade, queue, left, heard, caller, signal, consumer, stream, asked>>

(* Cancelling the reader ends the read it is in, and the window, closed by *)
(* then, rejects.                                                          *)
PullTorn ==
    /\ gen = "pulling"
    /\ closing # "none"
    /\ gen' = "parsed"
    /\ pulled' = "failure"
    /\ UNCHANGED <<facade, queue, left, heard, caller, signal, consumer, stream, asked>>

Yield ==
    /\ gen = "parsed" /\ pulled = "event"
    /\ gen' = "yielded"
    /\ queue' = Tail(queue)
    /\ UNCHANGED <<facade, pulled, left, heard, caller, signal, consumer, stream, asked>>

EndOfStream ==
    /\ gen = "parsed" /\ pulled = "end"
    /\ ReleaseQuietly
    /\ UNCHANGED <<pulled, queue, left, heard, caller, consumer, stream, asked>>

PullFailed ==
    /\ gen = "parsed" /\ pulled = "failure"
    /\ Release("error")
    /\ Unbind
    /\ gen' = "catching"
    /\ UNCHANGED <<pulled, queue, left, heard, caller, consumer, stream, asked>>

(* Slip: the failure of the automatic release is dropped.                  *)
FinishQuietlySilent ==
    /\ gen = "finishing"
    /\ closing \in Settled
    /\ gen' = "done"
    /\ queue' = Tail(queue)
    /\ UNCHANGED <<facade, pulled, left, heard, caller, signal, consumer, stream, asked>>

(* The clean end waits for the release and reports its failure.            *)
FinishQuietly ==
    /\ gen = "finishing"
    /\ closing \in Settled
    /\ gen' = "done"
    /\ queue' = Tail(queue)
    /\ reports' = reports + (IF closing = "failed" THEN 1 ELSE 0)
    /\ UNCHANGED <<facade, pulled, left, attached, caller, signal, consumer, stream, asked>>

(* Slips: the error is thrown at once; the finally block runs after it too *)
(* and reports what the error carries.                                     *)
FinishWithErrorAtOnce ==
    /\ gen = "catching"
    /\ gen' = "done"
    /\ queue' = Tail(queue)
    /\ UNCHANGED <<facade, pulled, left, heard, caller, signal, consumer, stream, asked>>

FinishWithErrorTwice ==
    /\ gen = "catching"
    /\ closing \in Settled
    /\ gen' = "done"
    /\ queue' = Tail(queue)
    /\ attached' = attached \cup (IF closing = "failed" THEN {"pull"} ELSE {})
    /\ reports' = reports + (IF closing = "failed" THEN 1 ELSE 0)
    /\ UNCHANGED <<facade, pulled, left, caller, signal, consumer, stream, asked>>

(* The error waits for the release and carries its failure; the finally    *)
(* block is skipped.                                                       *)
FinishWithError ==
    /\ gen = "catching"
    /\ closing \in Settled
    /\ gen' = "done"
    /\ queue' = Tail(queue)
    /\ attached' = attached \cup (IF closing = "failed" THEN {"pull"} ELSE {})
    /\ UNCHANGED <<facade, pulled, left, reports, caller, signal, consumer, stream, asked>>

(***************************************************************************)
(* The consumers.                                                          *)
(***************************************************************************)

(* [Symbol.asyncIterator]() throws on a closed stream and the second time. *)
CanIterate == ~closed /\ gen = "none"

RawOpen ==
    /\ consumer = "raw"
    /\ CanIterate
    /\ gen' = "start"
    /\ UNCHANGED <<facade, pulled, queue, left, heard, caller, signal, consumer, stream, asked>>

(* A consumer of the raw iterator need not wait for an answer.             *)
RawAsk(request) ==
    /\ consumer = "raw"
    /\ gen # "none"
    /\ asked < MaxAsks
    /\ asked' = asked + 1
    /\ queue' = Append(queue, request)
    /\ UNCHANGED <<facade, gen, pulled, left, heard, caller, signal, consumer, stream>>

(* The adapter's for-await asks one thing at a time.                       *)
AdapterAsks(request, next) ==
    /\ consumer' = next
    /\ queue' = Append(queue, request)
    /\ UNCHANGED <<facade, pulled, left, heard, caller, signal, stream, asked>>

(* The consumer's first pull takes the facade's iterator, or fails.        *)
TypedFirst ==
    /\ consumer = "start" /\ CanIterate
    /\ gen' = "start"
    /\ AdapterAsks("next", "asking")

TypedRefused ==
    /\ consumer = "start" /\ ~CanIterate
    /\ consumer' = "refused"
    /\ UNCHANGED <<facade, iterator, heard, caller, signal, stream, asked>>

TypedNext ==
    /\ consumer = "value"
    /\ AdapterAsks("next", "asking")
    /\ UNCHANGED gen

(* The consumer breaks out of its loop.                                    *)
TypedBreak ==
    /\ consumer = "value"
    /\ AdapterAsks("return", "leaving")
    /\ UNCHANGED gen

(* The mapper runs on an event as it is delivered: it makes a value of it, *)
(* skips it, which pulls again, is done, or throws, which closes the       *)
(* stream first.                                                           *)
Mapping == consumer = "asking" /\ queue = <<>> /\ gen = "yielded"

TypedValue ==
    /\ Mapping
    /\ consumer' = "value"
    /\ UNCHANGED <<facade, iterator, heard, caller, signal, stream, asked>>

TypedSkip == Mapping /\ AdapterAsks("next", "asking") /\ UNCHANGED gen

TypedDone == Mapping /\ AdapterAsks("return", "leaving") /\ UNCHANGED gen

MapperThrows ==
    /\ Mapping
    /\ Release("mapper")
    /\ Unbind
    /\ consumer' = "throwing"
    /\ UNCHANGED <<iterator, heard, caller, stream, asked>>

(* The mapper's error carries the failure, and unwinds the loop through    *)
(* the iterator's return().                                                *)
TypedThrow ==
    /\ consumer = "throwing"
    /\ closing \in Settled
    /\ attached' = attached \cup (IF closing = "failed" THEN {"mapper"} ELSE {})
    /\ consumer' = "leaving"
    /\ queue' = Append(queue, "return")
    /\ UNCHANGED <<facade, gen, pulled, left, reports, caller, signal, stream, asked>>

(* The iterator ended or threw under the loop, or its return() answered.   *)
TypedEnds ==
    /\ consumer \in {"asking", "leaving"}
    /\ queue = <<>> /\ gen = "done"
    /\ consumer' = "done"
    /\ UNCHANGED <<facade, iterator, heard, caller, signal, stream, asked>>

(***************************************************************************)
(* The body ends or errors by itself while it is open.                     *)
(***************************************************************************)
SourceSettles ==
    /\ stream = "live" /\ closing = "none"
    /\ stream' \in {"ended", "errored"}
    /\ UNCHANGED <<facade, iterator, heard, caller, signal, consumer, asked>>

(* sseStreamFrom: the signal is absent, still to fire, or fired already,   *)
(* in which case the stream is closed before anyone has it.                *)
Init ==
    /\ signal \in {"none", "armed", "waiting"}
    /\ closed = (signal = "waiting")
    /\ closing = IF signal = "waiting" THEN "source" ELSE "none"
    /\ starter = IF signal = "waiting" THEN "abort" ELSE "nobody"
    /\ releases = IF signal = "waiting" THEN 1 ELSE 0
    /\ sourceFailed = FALSE
    /\ gen = "none" /\ pulled = "event" /\ queue = <<>>
    /\ caller = [c \in Closer |-> "idle"]
    /\ consumer \in {"raw", "start"}
    /\ stream \in {"live", "ended", "errored"}
    /\ left = MaxEvents /\ asked = 0
    /\ reports = 0 /\ attached = {}

Releasing == SourceReleased \/ ResponseReleased

Iterating ==
    \/ ResumeNext \/ ResumeClosed \/ ResumeReturn \/ ReturnUnstarted \/ AnswerDone
    \/ PullSettles \/ PullTorn \/ Yield \/ EndOfStream \/ PullFailed
    \/ FinishQuietly \/ FinishWithError

Consuming ==
    \/ RawOpen
    \/ \E request \in Request : RawAsk(request)
    \/ TypedFirst \/ TypedRefused \/ TypedNext \/ TypedBreak
    \/ TypedValue \/ TypedSkip \/ TypedDone \/ MapperThrows
    \/ TypedThrow \/ TypedEnds

Next ==
    \/ Releasing
    \/ Iterating
    \/ Consuming
    \/ \E c \in Closer : Close(c) \/ CloseSettles(c)
    \/ Abort \/ AbortSettles
    \/ SourceSettles

Spec == Init /\ [][Next]_vars

(* Continuations run, and a cancelled body settles its cancel.  Nobody has *)
(* to ask for anything, and an open source need never answer.              *)
Fairness ==
    /\ WF_vars(Releasing)
    /\ WF_vars(ResumeNext \/ ResumeClosed \/ ResumeReturn \/ ReturnUnstarted \/ AnswerDone)
    /\ WF_vars(PullTorn \/ Yield \/ EndOfStream \/ PullFailed)
    /\ WF_vars(FinishQuietly \/ FinishWithError)
    /\ WF_vars(TypedValue \/ TypedSkip \/ TypedDone \/ MapperThrows)
    /\ WF_vars(TypedThrow \/ TypedEnds)
    /\ WF_vars(AbortSettles)
    /\ \A c \in Closer : WF_vars(CloseSettles(c))

FairSpec == Spec /\ Fairness

(***************************************************************************)
(* Properties.                                                             *)
(***************************************************************************)

(* Every variable keeps its type, and the stream is closed exactly from    *)
(* the moment its resource is being released: no path sets one without the *)
(* other.                                                                  *)
TypeOK ==
    /\ closed \in BOOLEAN
    /\ closing \in {"none", "source", "response"} \cup Settled
    /\ closed <=> closing # "none"
    /\ sourceFailed \in BOOLEAN
    /\ gen \in {"none", "start", "yielded", "pulling", "parsed", "finishing",
                "catching", "abandoned", "done"}
    /\ pulled \in {"event", "end", "failure"}
    /\ queue \in Seq(Request)
    /\ caller \in [Closer -> {"idle", "waiting", "resolved", "rejected"}]
    /\ signal \in {"none", "armed", "waiting", "heard"}
    /\ consumer \in {"raw", "start", "asking", "value", "throwing", "leaving",
                     "done", "refused"}
    /\ stream \in {"live", "ended", "errored"}
    /\ left \in 0..MaxEvents /\ asked \in 0..MaxAsks
    /\ starter \in {"nobody", "caller", "abort", "iterator", "error", "mapper"}
    /\ releases \in Nat /\ reports \in Nat
    /\ attached \subseteq {"pull", "mapper"}

(* Whoever ends the stream, and however many do at once, the resource is   *)
(* released at most once, and it is once it is closed (stream.ts: "releases*)
(* it exactly once across every termination path").                        *)
ReleasedOnce == releases = IF closed THEN 1 ELSE 0

(* The consumer learns of the end or of an error only after the release    *)
(* has settled, whoever started it.                                        *)
ReleaseBeforeEnd == gen = "done" => closing \in Settled

(* A release that failed reaches somebody: once nobody is left waiting for *)
(* it a close() was rejected with it, an error carries it, or it was       *)
(* reported.                                                               *)
Waiting ==
    \/ gen \in {"finishing", "catching"}
    \/ consumer = "throwing"
    \/ signal = "waiting"
    \/ \E c \in Closer : caller[c] = "waiting"
FailureHeard ==
    closing = "failed" /\ ~Waiting
        => \/ reports > 0
           \/ attached # {}
           \/ \E c \in Closer : caller[c] = "rejected"

(* A failure that a pull's error already carries is not reported as well   *)
(* (only an abort, which has its own handler, reports it).                 *)
SuppressedNotReported ==
    "pull" \in attached => reports = IF signal = "heard" THEN 1 ELSE 0

(* The hook is for releases nobody asked for: one an explicit close()      *)
(* started, and rejects that call, is not reported as well.                *)
CallerFailureNotReported == starter = "caller" => reports = 0

(* No pull starts on a torn-down source: an iterator between pulls that    *)
(* finds the stream closed ends.                                           *)
NoReadAfterTeardown == [][gen' = "pulling" /\ gen # "pulling" => closing = "none"]_vars

(* A close gets everybody out: requests queued behind a blocked read are   *)
(* answered, the calls of close() return, and the adapter comes to rest.   *)
AtRest ==
    /\ queue = <<>>
    /\ ~Waiting
    /\ consumer \notin {"asking", "leaving"}
CloseUnblocks == closed ~> AtRest
=============================================================================
