----------------------------- MODULE LoggedBody -----------------------------
(***************************************************************************)
(* LoggedResponseBody: a response body captured up to a cap by a drain     *)
(* that starts on the first access, is shared by concurrent readers, and   *)
(* may be overtaken by a close.  A byte is its position; a chunk is its    *)
(* length.  The delegate is external: each of its reads answers with a     *)
(* chunk, an end, or an error.                                             *)
(***************************************************************************)
EXTENDS Naturals, FiniteSets

CONSTANTS
  BodyReaders,   \* concurrent callers of read()
  Cap,           \* the capture cap, in bytes
  MaxBody,       \* bound: bytes of the body
  MaxChunk       \* bound: bytes of one chunk

NoReader == "nobody"

ASSUME LoggedBodyAssumption ==
  /\ NoReader \notin BodyReaders
  /\ Cap \in Nat
  /\ MaxBody \in Nat
  /\ MaxChunk \in Nat \ {0}

VARIABLES
  delegate,   \* the wrapped stream: bytes it gave, how it ended, cancel count
  drain,      \* the once-only drain: "none", "reading", "done" or "failed"
  capture,    \* captured bytes, staged tail bytes, regime, cached failure
  closedBody, \* has closeDelegate run?
  tail,       \* the one tail stream: its owner, bytes served, how it ended
  reading     \* where each caller of read() is

bodyVars == <<delegate, drain, capture, closedBody, tail, reading>>

LoggedBodyInit ==
  /\ delegate = [given |-> 0, end |-> "open", cancels |-> 0]
  /\ drain = "none"
  /\ capture = [bytes |-> 0, staged |-> 0, regime |-> "undrained", failure |-> "none"]
  /\ closedBody = FALSE
  /\ tail = [owner |-> NoReader, served |-> 0, end |-> "open"]
  /\ reading = [r \in BodyReaders |-> "idle"]

-----------------------------------------------------------------------------

\* closeDelegate, the first time: the reader lock is released and the delegate
\* cancelled; a delegate that has ended is not cancelled any more.
DelegateClosed ==
  /\ closedBody' = TRUE
  /\ delegate' = [delegate EXCEPT !.cancels =
                    IF closedBody \/ @ > 0 \/ delegate.end # "open" THEN @ ELSE @ + 1]

\* startDrain: nothing starts after a close; later accesses share the drain.
DrainStarted == IF drain = "none" /\ ~closedBody THEN "reading" ELSE drain

StartRead(r) ==
  /\ reading[r] # "waiting"
  /\ reading[r] # "tail"
  /\ reading' = [reading EXCEPT ![r] = "waiting"]
  /\ drain' = DrainStarted
  /\ UNCHANGED <<delegate, capture, closedBody, tail>>

\* snapshot() starts the drain with nobody waiting for it.
Snapshot ==
  /\ drain' = DrainStarted
  /\ UNCHANGED <<delegate, capture, closedBody, tail, reading>>

\* Mutant: what a chunk has beyond the cap is dropped.
StagedNothing(size) == 0

\* The rest of the chunk that crosses the cap, which the tail begins with.
Staged(size) == size - (Cap - capture.bytes)

\* A read of the delegate under the drain delivers a chunk: captured whole, or
\* up to the cap with the rest staged, which ends the drain.
DrainChunk ==
  /\ drain = "reading" /\ ~closedBody /\ delegate.end = "open"
  /\ \E size \in 1 .. MaxChunk :
       /\ delegate.given + size <= MaxBody
       /\ delegate' = [delegate EXCEPT !.given = @ + size]
       /\ IF capture.bytes + size <= Cap
          THEN /\ capture' = [capture EXCEPT !.bytes = @ + size]
               /\ UNCHANGED drain
          ELSE /\ capture' = [capture EXCEPT !.bytes = Cap, !.regime = "exceeds",
                                !.staged = Staged(size)]
               /\ drain' = "done"
  /\ UNCHANGED <<closedBody, tail, reading>>

\* The delegate ends: everything is captured, and the drain closes it.
DrainEnd ==
  /\ drain = "reading" /\ ~closedBody /\ delegate.end = "open"
  /\ delegate' = [delegate EXCEPT !.end = "done"]
  /\ closedBody' = TRUE
  /\ capture' = [capture EXCEPT !.regime = "fits"]
  /\ drain' = "done"
  /\ UNCHANGED <<tail, reading>>

\* The drain fails: the delegate errors, or delivers an empty chunk.  The
\* delegate is not closed.
DrainFails ==
  /\ drain = "reading" /\ ~closedBody /\ delegate.end = "open"
  /\ \E failure \in {"upstream", "contract"} :
       /\ capture' = [capture EXCEPT !.failure = failure]
       /\ delegate' = [delegate EXCEPT !.end = IF failure = "upstream" THEN "errored" ELSE @]
  /\ drain' = "failed"
  /\ UNCHANGED <<closedBody, tail, reading>>

\* A close released the reader under a pending read: it rejects, and the drain
\* caches that rejection.
DrainReleased ==
  /\ drain = "reading" /\ closedBody
  /\ capture' = [capture EXCEPT !.failure = "released"]
  /\ drain' = "failed"
  /\ UNCHANGED <<delegate, closedBody, tail, reading>>

\* read() after startDrain settled: the cached failure, a fresh view, or the
\* one tail stream.
FinishRead(r) ==
  /\ reading[r] = "waiting"
  /\ drain # "reading"
  /\ LET outcome ==
       IF drain = "failed" THEN "failed"
       ELSE IF capture.regime = "fits" THEN "view"
       ELSE IF tail.owner # NoReader THEN "consumed"
       ELSE IF closedBody THEN "closed" ELSE "tail"
     IN /\ reading' = [reading EXCEPT ![r] = outcome]
        /\ tail' = IF outcome = "tail" THEN [tail EXCEPT !.owner = r] ELSE tail
  /\ UNCHANGED <<delegate, drain, capture, closedBody>>

\* tailStream's pull: the captured prefix, the staged rest of the chunk that
\* crossed the cap, then the delegate's own reads.
TailBuffered ==
  /\ tail.owner # NoReader /\ tail.end = "open"
  /\ tail.served < capture.bytes + capture.staged
  /\ tail' = [tail EXCEPT !.served =
                IF @ < capture.bytes THEN capture.bytes ELSE capture.bytes + capture.staged]
  /\ UNCHANGED <<delegate, drain, capture, closedBody, reading>>

TailReads ==
  /\ tail.owner # NoReader /\ tail.end = "open"
  /\ tail.served >= capture.bytes + capture.staged

TailChunk ==
  /\ TailReads /\ ~closedBody /\ delegate.end = "open"
  /\ \E size \in 1 .. MaxChunk :
       /\ delegate.given + size <= MaxBody
       /\ delegate' = [delegate EXCEPT !.given = @ + size]
       /\ tail' = [tail EXCEPT !.served = @ + size]
  /\ UNCHANGED <<drain, capture, closedBody, reading>>

TailEnd ==
  /\ TailReads /\ ~closedBody /\ delegate.end = "open"
  /\ delegate' = [delegate EXCEPT !.end = "done"]
  /\ closedBody' = TRUE
  /\ tail' = [tail EXCEPT !.end = "closed"]
  /\ UNCHANGED <<drain, capture, reading>>

\* The tail errors: the delegate failed, delivered an empty chunk (which is
\* cached as the wrapper's failure), or was closed under the read.
TailFails ==
  /\ TailReads
  /\ tail' = [tail EXCEPT !.end = "errored"]
  /\ \/ closedBody /\ UNCHANGED <<delegate, capture>>
     \/ /\ ~closedBody /\ delegate.end = "open"
        /\ delegate' = [delegate EXCEPT !.end = "errored"]
        /\ UNCHANGED capture
     \/ /\ ~closedBody /\ delegate.end = "open"
        /\ capture' = [capture EXCEPT !.failure = "contract"]
        /\ UNCHANGED delegate
  /\ UNCHANGED <<drain, closedBody, reading>>

\* The consumer cancels the tail, or someone closes the wrapper.
TailCancel ==
  /\ tail.owner # NoReader /\ tail.end = "open"
  /\ tail' = [tail EXCEPT !.end = "cancelled"]
  /\ DelegateClosed
  /\ UNCHANGED <<drain, capture, reading>>

CloseBody ==
  /\ DelegateClosed
  /\ UNCHANGED <<drain, capture, tail, reading>>

LoggedBodyNext ==
  \/ \E r \in BodyReaders : StartRead(r) \/ FinishRead(r)
  \/ Snapshot \/ DrainChunk \/ DrainEnd \/ DrainFails \/ DrainReleased
  \/ TailBuffered \/ TailChunk \/ TailEnd \/ TailFails \/ TailCancel \/ CloseBody

LoggedBodySpec == LoggedBodyInit /\ [][LoggedBodyNext]_bodyVars

-----------------------------------------------------------------------------
(* Properties                                                              *)

\* No reader is ever handed a silently truncated body: a captured view and a
\* tail that closed normally both hold every byte the delegate gave, the tail
\* is handed out once, no byte is lost between prefix, staged rest and
\* delegate, and the delegate is cancelled at most once, however a close
\* overtakes the drain (read(), drainOnce, tailStream, closeDelegate).
NoSilentTruncation ==
  /\ \A r \in BodyReaders : reading[r] = "view" =>
       delegate.end = "done" /\ capture.bytes = delegate.given
  /\ tail.end = "closed" => delegate.end = "done" /\ tail.served = delegate.given
  /\ tail.end = "open" /\ tail.served > capture.bytes => tail.served = delegate.given
  /\ Cardinality({r \in BodyReaders : reading[r] = "tail"}) <= 1
  /\ capture.regime = "exceeds" /\ tail.served <= capture.bytes =>
       capture.bytes + capture.staged = delegate.given
  /\ capture.failure = "none" /\ drain = "done" => capture.regime # "undrained"
  /\ delegate.cancels <= 1
=============================================================================
