----------------------------- MODULE ResponseBody -----------------------------
(***************************************************************************)
(* One Response and those who read it: bytes(), decodeResponse and its     *)
(* success-only variant, toHttpError, TypedResponse.value(), and a caller  *)
(* who hands the body to the codec himself with a signal.  close() may be  *)
(* called by anybody at any time.                                          *)
(*                                                                         *)
(* A body is a number of chunks.  An error is where it came from, and      *)
(* "also" is the failure suppressed under it.                              *)
(***************************************************************************)
EXTENDS Naturals, FiniteSets

CONSTANTS
  Consumers,       \* who may read the response
  ReadOperations,  \* what a consumer may call
  ErrorCap,        \* chunks toHttpError keeps of an error body
  MaxResponse      \* bound: chunks of a response body

NoConsumer == "nobody"

ASSUME ResponseAssumption ==
  /\ NoConsumer \notin Consumers
  /\ ReadOperations \subseteq {"bytes", "decode", "success", "httpError", "value", "stream"}
  /\ ErrorCap \in Nat /\ MaxResponse \in Nat

VARIABLES
  received,   \* [status, chunks]: its class, and the chunks still to come
  content,    \* "null", "open", "ended", "failed", "terminated" or "cancelled"
  reader,     \* who holds the body's lock
  closing,    \* the memoized release: "none", "pending", "closed" or "failed"
  memoized,   \* the consumer whose value() started the parse
  reads       \* per consumer: its call, where it is, what it kept, how it ended

responseVars == <<received, content, reader, closing, memoized, reads>>

Outcome(result, error, also) == [result |-> result, error |-> error, also |-> also]
Undecided == Outcome("none", "none", "none")
FailedWith(error) == Outcome("none", error, "none")

ResponseStarts(status, chunks, body) ==
  /\ received = [status |-> status, chunks |-> chunks]
  /\ content = body
  /\ reader = NoConsumer /\ closing = "none" /\ memoized = NoConsumer
  /\ reads = [c \in Consumers |->
       [op |-> "none", at |-> "idle", kept |-> 0, outcome |-> Undecided]]

ResponseInit ==
  \E status \in {"success", "error", "other"}, chunks \in 0 .. MaxResponse,
     body \in {"null", "open"} :
    /\ body = "null" => chunks = 0
    /\ ResponseStarts(status, chunks, body)

-----------------------------------------------------------------------------
(* Releasing                                                               *)

\* #release: a null body has nothing to release, a locked one rejects with the
\* TypeError that is swallowed, and so is a stored TypeError; an open body is
\* cancelled, which takes a turn.
ReleaseOf(lockedBy) ==
  IF content = "null" \/ lockedBy # NoConsumer THEN "closed"
  ELSE CASE content = "open" -> "pending"
         [] content = "failed" -> "failed"
         [] OTHER -> "closed"

\* close: the first call releases, every other one joins it.
CloseCall(lockedBy) ==
  IF closing # "none" THEN UNCHANGED <<closing, content>>
  ELSE /\ closing' = ReleaseOf(lockedBy)
       /\ content' = IF closing' = "pending" THEN "cancelled" ELSE content

CancelSettles ==
  /\ closing = "pending"
  /\ closing' \in {"closed", "failed"}
  /\ UNCHANGED <<received, content, reader, memoized, reads>>

\* Anybody: a page, a recovery step, the caller's own finally.
CloseResponse ==
  /\ closing = "none"
  /\ CloseCall(reader)
  /\ UNCHANGED <<received, reader, memoized, reads>>

-----------------------------------------------------------------------------
(* Reading                                                                 *)

Goes(c, op, at, outcome) ==
  reads' = [reads EXCEPT ![c].op = op, ![c].at = at, ![c].outcome = outcome]

\* What a call does with a body it cannot read.
Unreadable(op) ==
  IF content # "null" THEN FailedWith("type")
  ELSE IF op \in {"bytes", "httpError"} THEN Outcome("empty", "none", "none")
  ELSE FailedWith("decode")

\* bytes() and toHttpError close in the turn in which they are done with the
\* body; a decoder's promise settles first, and closingAfter closes then.
ClosesAtOnce(op) == op \in {"bytes", "httpError"}

Left(op) ==
  IF ClosesAtOnce(op) THEN "closing" ELSE IF op = "stream" THEN "over" ELSE "leaving"

\* The synchronous head of a call: the lock is taken, or there is none to take.
BeginRead(c, op) ==
  IF content = "null" \/ reader # NoConsumer
  THEN /\ Goes(c, op, Left(op), Unreadable(op))
       /\ IF ClosesAtOnce(op) THEN CloseCall(reader) ELSE UNCHANGED <<closing, content>>
       /\ UNCHANGED reader
  ELSE /\ Goes(c, op, "reading", Undecided)
       /\ reader' = c
       /\ UNCHANGED <<closing, content>>

Idle(c, op) == op \in ReadOperations /\ reads[c].at = "idle"

ReadBytes(c) ==
  /\ Idle(c, "bytes")
  /\ BeginRead(c, "bytes")
  /\ UNCHANGED <<received, memoized>>

DecodeResponse(c) ==
  /\ Idle(c, "decode")
  /\ BeginRead(c, "decode")
  /\ UNCHANGED <<received, memoized>>

\* toHttpError leaves a response that is no error alone.
ToHttpError(c) ==
  /\ Idle(c, "httpError")
  /\ IF received.status = "error" THEN BeginRead(c, "httpError")
     ELSE /\ Goes(c, "httpError", "over", Outcome("null", "none", "none"))
          /\ UNCHANGED <<reader, closing, content>>
  /\ UNCHANGED <<received, memoized>>

\* decodeSuccessResponse: the status decides whether there is anything to decode.
DecodeSuccess(c) ==
  /\ Idle(c, "success")
  /\ CASE received.status = "success" -> BeginRead(c, "decode")
       [] received.status = "error" -> BeginRead(c, "httpError")
       [] OTHER -> /\ Goes(c, "decode", "leaving", FailedWith("status"))
                   /\ UNCHANGED <<reader, closing, content>>
  /\ UNCHANGED <<received, memoized>>

\* value(): the first caller parses, the others await the same promise.
TypedValue(c) ==
  /\ Idle(c, "value")
  /\ IF memoized = NoConsumer
     THEN memoized' = c /\ BeginRead(c, "decode")
     ELSE /\ Goes(c, "value", "joined", Undecided)
          /\ UNCHANGED <<memoized, reader, closing, content>>
  /\ UNCHANGED received

ValueShared(c) ==
  /\ reads[c].at = "joined" /\ reads[memoized].at = "over"
  /\ reads' = [reads EXCEPT ![c] = [reads[memoized] EXCEPT !.op = "value"]]
  /\ UNCHANGED <<received, content, reader, closing, memoized>>

\* deserializeFrom over a body its caller owns: an aborted signal is looked at
\* before the lock is taken.
ReadStream(c) ==
  /\ Idle(c, "stream") /\ content # "null"
  /\ \/ BeginRead(c, "stream")
     \/ Goes(c, "stream", "over", FailedWith("abort")) /\ UNCHANGED <<reader, closing, content>>
  /\ UNCHANGED <<received, memoized>>

-----------------------------------------------------------------------------
(* The loop                                                                *)

Keeps(c) ==
  reads[c].op # "httpError" \/ reads[c].kept < ErrorCap

ReadChunk(c) ==
  /\ reads[c].at = "reading" /\ content = "open" /\ received.chunks > 0
  /\ received' = [received EXCEPT !.chunks = @ - 1]
  /\ reads' = [reads EXCEPT ![c].kept = IF Keeps(c) THEN @ + 1 ELSE @]
  /\ UNCHANGED <<content, reader, closing, memoized>>

\* What a call makes of a body it has read: JSON.parse refuses an empty text,
\* and the schema may refuse any.
Made(c) ==
  CASE reads[c].op = "bytes" -> {Outcome("bytes", "none", "none")}
    [] reads[c].op = "httpError" -> {Outcome("error", "none", "none")}
    [] OTHER -> {FailedWith("decode")} \cup
                {o \in {Outcome("value", "none", "none")} : reads[c].kept > 0}

\* The end of the body, or of one that was cancelled before the lock was taken.
\* The lock is released before anything else.
ReadToEnd(c) ==
  /\ reads[c].at = "reading"
  /\ content \in {"ended", "cancelled"} \/ (content = "open" /\ received.chunks = 0)
  /\ \E outcome \in Made(c) :
       Goes(c, reads[c].op, Left(reads[c].op), outcome)
  /\ reader' = NoConsumer
  /\ content' = IF content = "open" THEN "ended" ELSE content
  /\ closing' = IF ClosesAtOnce(reads[c].op) /\ closing = "none" THEN "closed" ELSE closing
  /\ UNCHANGED <<received, memoized>>

\* The connection breaks, or broke under an earlier reader.  close() rejects
\* with the stored error, unless it is a TypeError; decodeResponse wraps an
\* error that is not the SDK's.
ReadFails(c) ==
  /\ reads[c].at = "reading"
  /\ IF content = "open" THEN content' \in {"failed", "terminated"}
     ELSE content \in {"failed", "terminated"} /\ UNCHANGED content
  /\ \E error \in {"read"} \cup {e \in {"decode"} : reads[c].op = "decode"} :
       Goes(c, reads[c].op, Left(reads[c].op), FailedWith(error))
  /\ reader' = NoConsumer
  /\ closing' = IF ~ClosesAtOnce(reads[c].op) \/ closing # "none" THEN closing
                ELSE IF content' = "failed" THEN "failed" ELSE "closed"
  /\ UNCHANGED <<received, memoized>>

\* The signal fires while a read is raced against it: the lock is released, the
\* body is its caller's.
ReadAborted(c) ==
  /\ reads[c].at = "reading" /\ reads[c].op = "stream"
  /\ Goes(c, "stream", "over", FailedWith("abort"))
  /\ reader' = NoConsumer
  /\ UNCHANGED <<received, content, closing, memoized>>

\* closingAfter: close() on success and releaseQuietly on failure.
CloseAfter(c) ==
  /\ reads[c].at = "leaving"
  /\ Goes(c, "decode", "closing", reads[c].outcome)
  /\ CloseCall(reader)
  /\ UNCHANGED <<received, reader, memoized>>

\* A failed release: the error of a read that failed already is that error; it
\* is the cause of an HttpStatusError, it is suppressed under another error,
\* and it takes the place of a result.
WithRelease(op, outcome) ==
  IF closing = "closed" \/ (outcome.error = "read" /\ content = "failed") THEN outcome
  ELSE IF op = "httpError" \/ (outcome.error # "none" /\ op # "bytes")
  THEN [outcome EXCEPT !.also = "close"]
  ELSE FailedWith("close")

FinishOperation(c) ==
  /\ reads[c].at = "closing" /\ closing \in {"closed", "failed"}
  /\ Goes(c, reads[c].op, "over", WithRelease(reads[c].op, reads[c].outcome))
  /\ UNCHANGED <<received, content, reader, closing, memoized>>

ResponseNext ==
  \/ CancelSettles \/ CloseResponse
  \/ \E c \in Consumers :
       \/ ReadBytes(c) \/ DecodeResponse(c) \/ ToHttpError(c) \/ DecodeSuccess(c)
       \/ TypedValue(c) \/ ValueShared(c) \/ ReadStream(c)
       \/ ReadChunk(c) \/ ReadToEnd(c) \/ ReadFails(c) \/ ReadAborted(c)
       \/ CloseAfter(c) \/ FinishOperation(c)

ResponseSpec == ResponseInit /\ [][ResponseNext]_responseVars

-----------------------------------------------------------------------------
(* Properties                                                              *)

Over == {c \in Consumers : reads[c].at = "over"}

\* A reader that does not own the body may leave it half read, and unreleased.
GaveUp == \E c \in Over : reads[c].outcome.error = "abort"

\* What a read answers is the whole body, or of a body that somebody else
\* consumed or released first nothing of it; two readers never share one.
NoPartialRead ==
  ~GaveUp =>
    /\ \A c \in Over :
         /\ reads[c].outcome.result = "bytes" /\ reads[c].kept > 0 => content = "ended"
         /\ reads[c].outcome.result = "value" => reads[c].kept > 0 /\ content = "ended"
    /\ \A c, d \in {e \in Over : reads[e].op # "value" /\ reads[e].kept > 0} : c = d

\* A read that is over holds no lock, has its error if it has no result, and a
\* call that owns the response has released it: once a close() has settled and
\* nobody reads, the body is not open.  Except under a reader that gave up: the
\* close() called while it held the lock released nothing and is the one every
\* later close() joins.  A failing release is heard by who owned the response.
ReadersRelease ==
  LET owners == {c \in Over : reads[c].op \in {"bytes", "decode"}}
  IN  /\ reader # NoConsumer => reads[reader].at = "reading"
      /\ \A c \in Over : reads[c].outcome.result = "none" => reads[c].outcome.error # "none"
      /\ owners # {} => closing \in {"closed", "failed"}
      /\ (closing \in {"closed", "failed"} /\ reader = NoConsumer /\ ~GaveUp) => content # "open"
      /\ (closing = "failed" /\ content = "cancelled") => \A c \in owners :
           "close" \in {reads[c].outcome.error, reads[c].outcome.also}
=============================================================================
