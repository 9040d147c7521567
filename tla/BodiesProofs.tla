---------------------------- MODULE BodiesProofs ----------------------------
(***************************************************************************)
(* No body is taken for whole that is not: the captured body of a response *)
(* (LoggedBody), what a reader makes of a response (ResponseBody) and what *)
(* a sink is told is complete (BodyWrites), for any readers, cap, chunks,  *)
(* parts and writes.  And under them bytes stay in place (StreamsProofs).  *)
(***************************************************************************)
EXTENDS ComponentsProofs, StreamsProofs

-----------------------------------------------------------------------------
(* The captured body.  NoSilentTruncation speaks of the bytes a reader     *)
(* holds; the proof keeps an account of where every byte the delegate gave *)
(* is: captured, staged, or served by the tail (Account).                  *)

BodyTypes ==
  /\ delegate \in [given : Nat, end : {"open", "done", "errored"}, cancels : {0, 1}]
  /\ drain \in {"none", "reading", "done", "failed"}
  /\ capture \in [bytes : Nat, staged : Nat, regime : {"undrained", "fits", "exceeds"},
                  failure : {"none", "upstream", "contract", "released"}]
  /\ closedBody \in BOOLEAN
  /\ tail \in [owner : BodyReaders \cup {NoReader}, served : Nat,
               end : {"open", "closed", "errored", "cancelled"}]
  /\ reading \in [BodyReaders -> {"idle", "waiting", "failed", "view", "consumed", "closed", "tail"}]

\* Until the tail is read, all the delegate gave is captured or staged; after
\* that the tail has served all of it.
Account ==
  /\ drain \in {"none", "reading", "failed"} <=> capture.regime = "undrained"
  /\ drain \in {"none", "reading"} => delegate.end = "open"
  /\ capture.regime # "exceeds" =>
       capture.bytes = delegate.given /\ capture.staged = 0 /\ capture.bytes <= Cap
  /\ capture.regime = "fits" => delegate.end = "done"
  /\ capture.regime = "exceeds" =>
       /\ capture.staged > 0
       /\ tail.served <= capture.bytes => delegate.given = capture.bytes + capture.staged
       /\ tail.served > capture.bytes =>
            tail.served >= capture.bytes + capture.staged /\ delegate.given = tail.served

\* The one tail belongs to one reader, and only to a body above the cap.
TailHasOneOwner ==
  /\ tail.owner = NoReader => tail.served = 0 /\ tail.end = "open"
  /\ tail.owner # NoReader => capture.regime = "exceeds"
  /\ tail.end = "closed" => delegate.end = "done" /\ tail.served > capture.bytes
  /\ \A r \in BodyReaders : reading[r] = "tail" => tail.owner = r

ReadersAreAnswered ==
  \A r \in BodyReaders :
    /\ reading[r] = "waiting" /\ drain = "none" => closedBody
    /\ reading[r] = "view" => capture.regime = "fits"

CaptureInv == BodyTypes /\ Account /\ TailHasOneOwner /\ ReadersAreAnswered

LEMMA CaptureStarts == LoggedBodyInit => CaptureInv
<1> SUFFICES ASSUME LoggedBodyInit PROVE CaptureInv
  OBVIOUS
<1> USE LoggedBodyAssumption DEF LoggedBodyAssumption, LoggedBodyInit
<1>1. BodyTypes
  BY DEF BodyTypes
<1>2. Account
  BY DEF Account
<1>3. TailHasOneOwner /\ ReadersAreAnswered
  BY DEF TailHasOneOwner, ReadersAreAnswered
<1> QED BY <1>1, <1>2, <1>3 DEF CaptureInv

\* The drain starts, and its readers are answered.
LEMMA ReadersAnsweredKeep ==
  ASSUME CaptureInv, NEW r \in BodyReaders, StartRead(r) \/ FinishRead(r)
  PROVE  CaptureInv'
<1> USE LoggedBodyAssumption
    DEF LoggedBodyAssumption, CaptureInv, BodyTypes, Account, TailHasOneOwner, ReadersAreAnswered
<1>1. CASE StartRead(r)
  BY <1>1 DEF StartRead, DrainStarted
<1>2. CASE FinishRead(r)
  <2>1. PICK place \in {"failed", "view", "consumed", "closed", "tail"} :
          /\ reading' = [reading EXCEPT ![r] = place]
          /\ tail' = IF place = "tail" THEN [tail EXCEPT !.owner = r] ELSE tail
          /\ place = "view" => capture.regime = "fits"
          /\ place = "tail" => tail.owner = NoReader /\ capture.regime = "exceeds"
    BY <1>2 DEF FinishRead
  <2>2. UNCHANGED <<delegate, drain, capture, closedBody>>
    BY <1>2 DEF FinishRead
  <2>3. CASE place = "tail"
    <3>1. tail' = [tail EXCEPT !.owner = r]
      BY <2>1, <2>3
    <3>2. /\ tail'.owner = r /\ tail'.served = tail.served /\ tail'.end = tail.end
          /\ tail' \in [owner : BodyReaders \cup {NoReader}, served : Nat,
                        end : {"open", "closed", "errored", "cancelled"}]
      BY <3>1
    <3>3. BodyTypes'
      BY <2>1, <2>2, <3>2
    <3>4. Account'
      BY <2>2, <3>2
    <3>5. TailHasOneOwner'
      BY <2>1, <2>2, <2>3, <3>2
    <3>6. ReadersAreAnswered'
      BY <2>1, <2>2, <2>3
    <3> QED BY <3>3, <3>4, <3>5, <3>6
  <2>4. CASE place # "tail"
    <3>1. BodyTypes'
      BY <2>1, <2>2, <2>4
    <3>2. Account'
      BY <2>1, <2>2, <2>4
    <3>3. TailHasOneOwner'
      BY <2>1, <2>2, <2>4
    <3>4. ReadersAreAnswered'
      BY <2>1, <2>2
    <3> QED BY <3>1, <3>2, <3>3, <3>4
  <2> QED BY <2>3, <2>4
<1> QED BY <1>1, <1>2

\* The drain: chunks, its end, and its failures.
LEMMA DrainKeeps ==
  ASSUME CaptureInv, Snapshot \/ DrainChunk \/ DrainEnd \/ DrainFails \/ DrainReleased
  PROVE  CaptureInv'
<1> USE LoggedBodyAssumption
    DEF LoggedBodyAssumption, CaptureInv, BodyTypes, Account, TailHasOneOwner, ReadersAreAnswered
<1>1. CASE DrainChunk
  <2>1. PICK size \in 1 .. MaxChunk :
          /\ delegate' = [delegate EXCEPT !.given = @ + size]
          /\ IF capture.bytes + size <= Cap
             THEN capture' = [capture EXCEPT !.bytes = @ + size] /\ drain' = drain
             ELSE /\ capture' = [capture EXCEPT !.bytes = Cap, !.regime = "exceeds",
                                   !.staged = Staged(size)]
                  /\ drain' = "done"
    BY <1>1 DEF DrainChunk
  <2>0. /\ drain = "reading" /\ delegate.end = "open"
        /\ UNCHANGED <<closedBody, tail, reading>>
    BY <1>1 DEF DrainChunk
  <2>2. /\ drain = "reading" /\ delegate.end = "open" /\ size \in Nat /\ size > 0
        /\ capture.regime = "undrained" /\ capture.bytes = delegate.given /\ capture.bytes <= Cap
        /\ tail.owner = NoReader /\ tail.served = 0 /\ tail.end = "open" /\ capture.staged = 0
        /\ UNCHANGED <<closedBody, tail, reading>>
    BY <2>0
  <2>3. /\ delegate'.given = delegate.given + size /\ delegate'.end = delegate.end
        /\ delegate' \in [given : Nat, end : {"open", "done", "errored"}, cancels : {0, 1}]
    BY <2>1, <2>2
  <2>4. CASE capture.bytes + size <= Cap
    <3>1. /\ capture'.bytes = capture.bytes + size /\ capture'.staged = 0
          /\ capture'.regime = capture.regime /\ capture'.failure = capture.failure /\ drain' = drain
          /\ capture' \in [bytes : Nat, staged : Nat, regime : {"undrained", "fits", "exceeds"},
                           failure : {"none", "upstream", "contract", "released"}]
      BY <2>1, <2>2, <2>4
    <3>2. BodyTypes'
      BY <2>2, <2>3, <3>1
    <3>3. Account'
      BY <2>2, <2>3, <2>4, <3>1
    <3>4. TailHasOneOwner' /\ ReadersAreAnswered'
      BY <2>2, <2>3, <3>1
    <3> QED BY <3>2, <3>3, <3>4
  <2>5. CASE ~(capture.bytes + size <= Cap)
    <3>0. Staged(size) \in Nat /\ Staged(size) > 0 /\ Cap + Staged(size) = delegate.given + size
      BY <2>2, <2>5 DEF Staged
    <3>1. /\ capture'.bytes = Cap /\ capture'.staged = Staged(size)
          /\ capture'.regime = "exceeds" /\ capture'.failure = capture.failure /\ drain' = "done"
          /\ capture' \in [bytes : Nat, staged : Nat, regime : {"undrained", "fits", "exceeds"},
                           failure : {"none", "upstream", "contract", "released"}]
      BY <2>1, <2>5, <3>0
    <3>2. BodyTypes'
      BY <2>2, <2>3, <3>1
    <3>3. Account'
      BY <2>2, <2>3, <3>0, <3>1
    <3>4. TailHasOneOwner' /\ ReadersAreAnswered'
      BY <2>2, <2>3, <3>1
    <3> QED BY <3>2, <3>3, <3>4
  <2> QED BY <2>4, <2>5
<1>2. CASE DrainEnd
  BY <1>2 DEF DrainEnd
<1>3. CASE DrainFails
  BY <1>3 DEF DrainFails
<1>4. CASE DrainReleased
  BY <1>4 DEF DrainReleased
<1>5. CASE Snapshot
  BY <1>5 DEF Snapshot, DrainStarted
<1> QED BY <1>1, <1>2, <1>3, <1>4, <1>5

\* The tail serves the captured prefix, the staged rest and the delegate.
LEMMA TailKeepsAccount ==
  ASSUME CaptureInv, TailBuffered \/ TailChunk \/ TailEnd \/ TailFails
  PROVE  CaptureInv'
<1> USE LoggedBodyAssumption
    DEF LoggedBodyAssumption, CaptureInv, BodyTypes, Account, TailHasOneOwner, ReadersAreAnswered
<1>0. capture.regime = "exceeds" /\ tail.owner # NoReader /\ tail.end = "open" /\ drain = "done"
  BY DEF TailBuffered, TailChunk, TailEnd, TailFails, TailReads
<1>1. CASE TailBuffered
  <2>1. /\ tail'.owner = tail.owner /\ tail'.end = tail.end
        /\ tail'.served = IF tail.served < capture.bytes THEN capture.bytes
                          ELSE capture.bytes + capture.staged
        /\ tail' \in [owner : BodyReaders \cup {NoReader}, served : Nat,
                      end : {"open", "closed", "errored", "cancelled"}]
        /\ tail.served < capture.bytes + capture.staged
        /\ UNCHANGED <<delegate, drain, capture, closedBody, reading>>
    BY <1>1 DEF TailBuffered
  <2> QED BY <1>0, <2>1
<1>2. CASE TailChunk
  <2>1. PICK size \in 1 .. MaxChunk :
          /\ delegate' = [delegate EXCEPT !.given = @ + size]
          /\ tail' = [tail EXCEPT !.served = @ + size]
    BY <1>2 DEF TailChunk
  <2>2. /\ delegate.end = "open" /\ tail.served >= capture.bytes + capture.staged
        /\ UNCHANGED <<drain, capture, closedBody, reading>> /\ size \in Nat /\ size > 0
    BY <1>2 DEF TailChunk, TailReads
  <2>3. /\ delegate'.given = delegate.given + size /\ delegate'.end = delegate.end
        /\ delegate' \in [given : Nat, end : {"open", "done", "errored"}, cancels : {0, 1}]
        /\ tail'.owner = tail.owner /\ tail'.end = tail.end /\ tail'.served = tail.served + size
        /\ tail' \in [owner : BodyReaders \cup {NoReader}, served : Nat,
                      end : {"open", "closed", "errored", "cancelled"}]
    BY <2>1, <2>2
  <2> QED BY <1>0, <2>2, <2>3
<1>3. CASE TailEnd
  BY <1>0, <1>3 DEF TailEnd, TailReads
<1>4. CASE TailFails
  BY <1>0, <1>4 DEF TailFails, TailReads
<1> QED BY <1>1, <1>2, <1>3, <1>4

LEMMA CloseKeepsAccount ==
  ASSUME CaptureInv, TailCancel \/ CloseBody
  PROVE  CaptureInv'
<1> USE LoggedBodyAssumption
    DEF LoggedBodyAssumption, CaptureInv, BodyTypes, Account, TailHasOneOwner, ReadersAreAnswered
<1>1. /\ delegate'.given = delegate.given /\ delegate'.end = delegate.end
      /\ delegate' \in [given : Nat, end : {"open", "done", "errored"}, cancels : {0, 1}]
      /\ closedBody' = TRUE
  <2>1. delegate' = [delegate EXCEPT !.cancels =
                       IF closedBody \/ @ > 0 \/ delegate.end # "open" THEN @ ELSE @ + 1]
    BY DEF TailCancel, CloseBody, DelegateClosed
  <2>2. PICK n \in {0, 1} : delegate' = [delegate EXCEPT !.cancels = n]
    BY <2>1
  <2> QED BY <2>2 DEF TailCancel, CloseBody, DelegateClosed
<1>2. /\ UNCHANGED <<drain, capture, reading>>
      /\ tail' = tail \/ (tail.owner # NoReader /\ tail' = [tail EXCEPT !.end = "cancelled"])
  BY DEF TailCancel, CloseBody
<1>3. /\ tail'.owner = tail.owner /\ tail'.served = tail.served
      /\ tail'.end = tail.end \/ (tail'.end = "cancelled" /\ tail.owner # NoReader)
      /\ tail' \in [owner : BodyReaders \cup {NoReader}, served : Nat,
                    end : {"open", "closed", "errored", "cancelled"}]
  BY <1>2
<1> QED BY <1>1, <1>2, <1>3

LEMMA CaptureKeeps == CaptureInv /\ [LoggedBodyNext]_bodyVars => CaptureInv'
<1> SUFFICES ASSUME CaptureInv, [LoggedBodyNext]_bodyVars PROVE CaptureInv'
  OBVIOUS
<1>1. CASE UNCHANGED bodyVars
  BY <1>1 DEF bodyVars, CaptureInv, BodyTypes, Account, TailHasOneOwner, ReadersAreAnswered
<1>2. CASE LoggedBodyNext
  BY <1>2, ReadersAnsweredKeep, DrainKeeps, TailKeepsAccount, CloseKeepsAccount DEF LoggedBodyNext
<1> QED BY <1>1, <1>2

LEMMA CaptureImplies == CaptureInv => NoSilentTruncation
<1> SUFFICES ASSUME CaptureInv PROVE NoSilentTruncation
  OBVIOUS
<1> USE DEF CaptureInv, BodyTypes, Account, TailHasOneOwner, ReadersAreAnswered
<1>1. Cardinality({r \in BodyReaders : reading[r] = "tail"}) <= 1
  <2> DEFINE T == {r \in BodyReaders : reading[r] = "tail"}
  <2>1. T \subseteq {tail.owner}
    OBVIOUS
  <2>2. IsFiniteSet({tail.owner}) /\ Cardinality({tail.owner}) = 1
    BY FS_Singleton
  <2> HIDE DEF T
  <2>3. Cardinality(T) <= Cardinality({tail.owner})
    BY <2>1, <2>2, FS_Subset
  <2> QED BY <2>2, <2>3 DEF T
<1>2. \A r \in BodyReaders : reading[r] = "view" =>
        delegate.end = "done" /\ capture.bytes = delegate.given
  OBVIOUS
<1>3. /\ tail.end = "closed" => delegate.end = "done" /\ tail.served = delegate.given
      /\ tail.end = "open" /\ tail.served > capture.bytes => tail.served = delegate.given
      /\ capture.regime = "exceeds" /\ tail.served <= capture.bytes =>
           capture.bytes + capture.staged = delegate.given
  OBVIOUS
<1>4. capture.failure = "none" /\ drain = "done" => capture.regime # "undrained"
  OBVIOUS
<1>5. delegate.cancels <= 1
  OBVIOUS
<1> QED BY <1>1, <1>2, <1>3, <1>4, <1>5 DEF NoSilentTruncation

\* No reader is handed a truncated body for a whole one, for any readers, cap
\* and chunks, however a close overtakes the drain (LoggedResponseBody).
THEOREM CapturedIsWhole == LoggedBodySpec => []NoSilentTruncation
  BY CaptureStarts, CaptureKeeps, CaptureImplies, PTL DEF LoggedBodySpec
-----------------------------------------------------------------------------
(* The readers of a response, again: what they made of the body.  ReaderInv *)
(* says who holds the lock; NoPartialRead needs what has been read under    *)
(* it.  A reader that has begun to read finds the body open until it ends   *)
(* it (ReadingIsOpen), so what was read to the end was read whole           *)
(* (ReadWhole), and a second reader finds nothing to read (FedAlone).       *)

Untouched ==
  \A c \in Consumers :
    /\ reads[c].at \in {"idle", "joined"} => reads[c].kept = 0
    /\ reads[c].at \in {"idle", "joined", "reading"} => reads[c].outcome.result = "none"

ReadingIsOpen == \A c \in Consumers : reader = c /\ reads[c].kept > 0 => content = "open"

ReadWhole ==
  \A c \in Consumers :
    /\ reads[c].outcome.result = "bytes" /\ reads[c].kept > 0 => content = "ended"
    /\ reads[c].outcome.result = "value" => reads[c].kept > 0 /\ content = "ended"

Fed(c) == reads[c].op # "value" /\ reads[c].kept > 0
FedAlone ==
  ~GaveUp =>
    /\ \A c, d \in Consumers : Fed(c) /\ Fed(d) => c = d
    /\ \A c \in Consumers : Fed(c) /\ content = "open" => reader = c

WholeReadsInv == Untouched /\ ReadingIsOpen /\ ReadWhole /\ FedAlone

LEMMA WholeReadsStart == ResponseInit => WholeReadsInv
  BY ResponseAssumption
  DEF ResponseAssumption, ResponseInit, ResponseStarts, WholeReadsInv, Untouched, ReadingIsOpen,
      ReadWhole, FedAlone, Fed, Undecided, Outcome

\* What close() can do to a body: cancel it, when it is open and nobody reads.
LEMMA ClosingLeaves ==
  ASSUME CloseCall(reader)
  PROVE  /\ content' = content \/ (content = "open" /\ content' = "cancelled")
         /\ reader # NoConsumer => content' = content
  BY DEF CloseCall, ReleaseOf

\* A step of one call that reads no chunk.  What it makes of the body is the
\* whole body, and it leaves an open body it has begun only when it gives up.
LEMMA MovesReadWhole ==
  ASSUME ReaderInv, ReaderInv', WholeReadsInv, NEW c \in Consumers,
         NEW op \in Operations, NEW at \in Stops \ {"idle"}, NEW o \in Outcomes,
         Goes(c, op, at, o),
         reads[c].at \notin {"joined", "over"},
         at \in {"joined", "reading"} => reads[c].kept = 0 /\ o.result = "none",
         o.result = "bytes" /\ reads[c].kept > 0 => content' = "ended",
         o.result = "value" => reads[c].kept > 0 /\ content' = "ended",
         content = "ended" => content' = "ended",
         content' = "open" => content = "open",
         reader # NoConsumer /\ reader # c => content' = content,
         content' = "open" /\ reads[c].kept > 0 => at = "over" /\ o.error = "abort"
  PROVE  WholeReadsInv'
<1>1. ReaderTypes /\ LockIsTheReaders /\ LockIsTheReaders' /\ ReaderTypes'
  BY DEF ReaderInv
<1>2. /\ reads' \in [Consumers -> Records]
      /\ reads'[c].op = op /\ reads'[c].at = at /\ reads'[c].outcome = o
      /\ \A d \in Consumers : d # c => reads'[d] = reads[d]
  BY <1>1, CallMoves
<1>3. reads'[c].kept = reads[c].kept
  BY <1>1 DEF Goes, ReaderTypes, Records
<1>4. reads[c].op # "value"
  BY <1>1 DEF ReaderTypes, Stops, Records
<1>5. \A d \in Consumers : d # c => (reader' = d <=> reader = d)
  BY <1>1, <1>2 DEF LockIsTheReaders
<1>6. reader' = c <=> at = "reading"
  BY <1>1, <1>2 DEF LockIsTheReaders
<1>7. Untouched'
  BY <1>2, <1>3 DEF WholeReadsInv, Untouched, Stops
<1>8. ReadingIsOpen'
  BY <1>2, <1>3, <1>5, <1>6, ResponseAssumption
  DEF ResponseAssumption, WholeReadsInv, ReadingIsOpen
<1>9. ReadWhole'
  BY <1>2, <1>3 DEF WholeReadsInv, ReadWhole
<1>10. GaveUp => GaveUp'
  BY <1>2 DEF GaveUp, Over
<1>11. content' = "open" /\ reads[c].kept > 0 => GaveUp'
  BY <1>2 DEF GaveUp, Over
<1>12. \A d \in Consumers : Fed(d)' => Fed(d)
  BY <1>2, <1>3, <1>4 DEF Fed
<1>13. FedAlone'
  <2> SUFFICES ASSUME ~GaveUp' PROVE
        /\ \A d, e \in Consumers : Fed(d)' /\ Fed(e)' => d = e
        /\ \A d \in Consumers : Fed(d)' /\ content' = "open" => reader' = d
    BY DEF FedAlone
  <2>1. /\ \A d, e \in Consumers : Fed(d) /\ Fed(e) => d = e
        /\ \A d \in Consumers : Fed(d) /\ content = "open" => reader = d
    BY <1>10 DEF WholeReadsInv, FedAlone
  <2>2. ASSUME NEW d \in Consumers, Fed(d)', content' = "open" PROVE reader' = d
    <3>1. CASE d = c
      BY <1>11, <2>2, <3>1, <1>3 DEF Fed
    <3>2. CASE d # c
      BY <2>1, <2>2, <1>12, <1>5, <3>2
    <3> QED BY <3>1, <3>2
  <2> QED BY <1>12, <2>1, <2>2
<1> QED BY <1>7, <1>8, <1>9, <1>13 DEF WholeReadsInv

LEMMA BeginsReadWhole ==
  ASSUME ReaderInv, ReaderInv', WholeReadsInv, NEW c \in Consumers,
         NEW op \in {"bytes", "decode", "httpError", "stream"},
         reads[c].at = "idle", BeginRead(c, op)
  PROVE  WholeReadsInv'
<1>1. /\ op \in Operations /\ Left(op) \in {"closing", "over", "leaving"}
      /\ reads[c].kept = 0
  BY DEF Operations, Left, ClosesAtOnce, WholeReadsInv, Untouched
<1>2. CASE content = "null" \/ reader # NoConsumer
  <2> DEFINE o == Unreadable(op)
  <2>1. /\ Goes(c, op, Left(op), o)
        /\ CloseCall(reader) \/ UNCHANGED content
    BY <1>2 DEF BeginRead
  <2>2. o \in Outcomes /\ o.result \in {"none", "empty"}
    BY DEF Unreadable, Outcomes, Outcome, FailedWith, Results, Errors
  <2>3. /\ content = "ended" => content' = "ended"
        /\ content' = "open" => content = "open"
        /\ reader # NoConsumer => content' = content
    BY <2>1, ClosingLeaves
  <2> HIDE DEF o
  <2>4. Left(op) \in Stops \ {"idle"} /\ Left(op) \notin {"joined", "reading"}
    BY <1>1 DEF Stops
  <2> QED BY <1>1, <2>1, <2>2, <2>3, <2>4, MovesReadWhole
<1>3. CASE ~(content = "null" \/ reader # NoConsumer)
  <2>1. Goes(c, op, "reading", Undecided) /\ UNCHANGED content
    BY <1>3 DEF BeginRead
  <2>2. Undecided \in Outcomes /\ Undecided.result = "none" /\ "reading" \in Stops \ {"idle"}
    BY DEF Undecided, Outcome, Outcomes, Results, Errors, Stops
  <2> HIDE DEF Undecided
  <2> QED BY <1>1, <2>1, <2>2, MovesReadWhole
<1> QED BY <1>2, <1>3

LEMMA HeadsReadWhole ==
  ASSUME ReaderInv, ReaderInv', WholeReadsInv, NEW c \in Consumers,
         \/ ReadBytes(c) \/ DecodeResponse(c) \/ ToHttpError(c)
         \/ DecodeSuccess(c) \/ TypedValue(c) \/ ReadStream(c)
  PROVE  WholeReadsInv'
<1>1. reads[c].at = "idle" /\ reads[c].kept = 0
  BY DEF Idle, ReadBytes, DecodeResponse, ToHttpError, DecodeSuccess, TypedValue, ReadStream,
         WholeReadsInv, Untouched
<1>2. \/ \E op \in {"bytes", "decode", "httpError", "stream"} : BeginRead(c, op)
      \/ /\ UNCHANGED content
         /\ \/ Goes(c, "httpError", "over", Outcome("null", "none", "none"))
            \/ Goes(c, "decode", "leaving", FailedWith("status"))
            \/ Goes(c, "value", "joined", Undecided)
            \/ Goes(c, "stream", "over", FailedWith("abort"))
  BY DEF ReadBytes, DecodeResponse, ToHttpError, DecodeSuccess, TypedValue, ReadStream
<1>3. CASE \E op \in {"bytes", "decode", "httpError", "stream"} : BeginRead(c, op)
  BY <1>1, <1>3, BeginsReadWhole
<1>4. ASSUME NEW op \in Operations, NEW at \in {"over", "leaving", "joined"}, NEW o \in Outcomes,
             o.result \in {"none", "null"}, at = "joined" => o.result = "none",
             Goes(c, op, at, o), UNCHANGED content
      PROVE  WholeReadsInv'
  <2>1. at \in Stops \ {"idle"} BY DEF Stops
  <2> QED BY <1>1, <1>4, <2>1, MovesReadWhole
<1>5. /\ Outcome("null", "none", "none") \in Outcomes
      /\ Outcome("null", "none", "none").result = "null"
      /\ FailedWith("status") \in Outcomes /\ FailedWith("status").result = "none"
      /\ Undecided \in Outcomes /\ Undecided.result = "none"
      /\ FailedWith("abort") \in Outcomes /\ FailedWith("abort").result = "none"
      /\ {"httpError", "decode", "value", "stream"} \subseteq Operations
  BY DEF Outcome, FailedWith, Undecided, Outcomes, Results, Errors, Operations
<1> QED BY <1>2, <1>3, <1>4, <1>5

LEMMA LoopEndsReadWhole ==
  ASSUME ReaderInv, ReaderInv', WholeReadsInv, NEW c \in Consumers,
         ReadToEnd(c) \/ ReadFails(c) \/ ReadAborted(c)
  PROVE  WholeReadsInv'
<1>1. /\ reads[c].at = "reading" /\ reader = c
      /\ reads[c].op \in {"bytes", "decode", "httpError", "stream"} /\ reads[c].op \in Operations
      /\ Left(reads[c].op) \in Stops \ {"idle", "joined", "reading"}
      /\ reads[c].op = "stream" => Left(reads[c].op) = "over"
      /\ reads[c].kept > 0 => content = "open"
  BY DEF ReadToEnd, ReadFails, ReadAborted, ReaderInv, ReaderTypes, LockIsTheReaders, Operations,
         Left, ClosesAtOnce, Stops, WholeReadsInv, ReadingIsOpen
<1>2. CASE ReadToEnd(c)
  <2>1. PICK o \in Made(c) : Goes(c, reads[c].op, Left(reads[c].op), o)
    BY <1>2 DEF ReadToEnd
  <2>2. o \in Outcomes /\ (o.result = "value" => reads[c].kept > 0)
    <3>1. CASE reads[c].op = "bytes"
      BY <3>1 DEF Made, Outcome, Outcomes, Results, Errors
    <3>2. CASE reads[c].op = "httpError"
      BY <3>2 DEF Made, Outcome, Outcomes, Results, Errors
    <3>3. CASE reads[c].op \notin {"bytes", "httpError"}
      <4>1. \/ o = FailedWith("decode")
            \/ o = Outcome("value", "none", "none") /\ reads[c].kept > 0
        BY <3>3 DEF Made
      <4> QED BY <4>1 DEF FailedWith, Outcome, Outcomes, Results, Errors
    <3> QED BY <3>1, <3>2, <3>3
  <2>3. content' = IF content = "open" THEN "ended" ELSE content
    BY <1>2 DEF ReadToEnd
  <2> QED BY <1>1, <2>1, <2>2, <2>3, MovesReadWhole
<1>3. CASE ReadFails(c)
  <2>1. PICK error \in {"read", "decode"} :
          Goes(c, reads[c].op, Left(reads[c].op), FailedWith(error))
    BY <1>3 DEF ReadFails
  <2> DEFINE o == FailedWith(error)
  <2>2. o \in Outcomes /\ o.result = "none"
    BY DEF FailedWith, Outcome, Outcomes, Results, Errors
  <2>3. content # "ended" /\ content' \in {"failed", "terminated"}
    BY <1>3 DEF ReadFails
  <2> HIDE DEF o
  <2> QED BY <1>1, <2>1, <2>2, <2>3, MovesReadWhole DEF o
<1>4. CASE ReadAborted(c)
  <2> DEFINE o == FailedWith("abort")
  <2>1. o \in Outcomes /\ o.result = "none" /\ o.error = "abort"
    BY DEF FailedWith, Outcome, Outcomes, Results, Errors
  <2>2. Goes(c, reads[c].op, "over", o) /\ UNCHANGED content /\ "over" \in Stops \ {"idle"}
    BY <1>4 DEF ReadAborted, Stops
  <2> HIDE DEF o
  <2> QED BY <1>1, <2>1, <2>2, MovesReadWhole
<1> QED BY <1>2, <1>3, <1>4

LEMMA LeavesReadWhole ==
  ASSUME ReaderInv, ReaderInv', WholeReadsInv, NEW c \in Consumers,
         CloseAfter(c) \/ FinishOperation(c)
  PROVE  WholeReadsInv'
<1>1. /\ reads[c].at \in {"leaving", "closing"} /\ reader # c
      /\ reads[c].op \in {"bytes", "decode", "httpError"} /\ reads[c].op \in Operations
      /\ reads[c].outcome \in Outcomes /\ reads[c].kept \in Nat
      /\ UNCHANGED reader
  BY DEF CloseAfter, FinishOperation, ReaderInv, ReaderTypes, LockIsTheReaders, Operations,
         Records
<1>2. /\ reads[c].outcome.result = "bytes" /\ reads[c].kept > 0 => content = "ended"
      /\ reads[c].outcome.result = "value" => reads[c].kept > 0 /\ content = "ended"
  BY DEF WholeReadsInv, ReadWhole
<1>3. /\ content = "ended" => content' = "ended"
      /\ content' = "open" => content = "open"
      /\ reader # NoConsumer => content' = content
  BY ClosingLeaves DEF CloseAfter, FinishOperation
<1>4. \E at \in {"closing", "over"}, o \in Outcomes :
        Goes(c, reads[c].op, at, o) /\ o.result \in {"none", reads[c].outcome.result}
  <2>1. CASE CloseAfter(c)
    BY <1>1, <2>1 DEF CloseAfter, ReaderInv, ReaderTypes
  <2>2. CASE FinishOperation(c)
    <3> DEFINE o == WithRelease(reads[c].op, reads[c].outcome)
    <3>1. o \in Outcomes /\ o.result \in {"none", reads[c].outcome.result}
      BY <1>1 DEF WithRelease, FailedWith, Outcome, Outcomes, Results, Errors
    <3>2. Goes(c, reads[c].op, "over", o)
      BY <2>2 DEF FinishOperation
    <3> HIDE DEF o
    <3> QED BY <3>1, <3>2
  <2> QED BY <2>1, <2>2
<1>5. PICK at \in {"closing", "over"}, o \in Outcomes :
        Goes(c, reads[c].op, at, o) /\ o.result \in {"none", reads[c].outcome.result}
  BY <1>4
<1>6. at \in Stops \ {"idle"}
  BY DEF Stops
<1>7. content' = "open" /\ reads[c].kept > 0 => GaveUp
  BY <1>1, <1>3 DEF WholeReadsInv, FedAlone, Fed
<1>8. CASE content' = "open" /\ reads[c].kept > 0
  <2>1. /\ reads' \in [Consumers -> Records]
        /\ reads'[c].op = reads[c].op /\ reads'[c].at = at /\ reads'[c].outcome = o
        /\ \A d \in Consumers : d # c => reads'[d] = reads[d]
    BY <1>1, <1>5, <1>6, CallMoves DEF ReaderInv
  <2>2. reads'[c].kept = reads[c].kept
    BY <1>5 DEF Goes, ReaderInv, ReaderTypes, Records
  <2>3. GaveUp'
    BY <1>1, <1>7, <1>8, <2>1 DEF GaveUp, Over
  <2>4. content' = content
    BY <1>3, <1>8
  <2> QED BY <1>1, <1>2, <1>5, <2>1, <2>2, <2>3, <2>4
       DEF WholeReadsInv, Untouched, ReadingIsOpen, ReadWhole, FedAlone
<1>9. CASE ~(content' = "open" /\ reads[c].kept > 0)
  BY <1>1, <1>2, <1>3, <1>5, <1>6, <1>9, MovesReadWhole
<1> QED BY <1>8, <1>9

\* A chunk is read by who holds the lock, out of an open body: nobody else has
\* had any of it.  A joined value() is given what the first one made.
LEMMA RecordsReadWhole ==
  ASSUME ReaderInv, WholeReadsInv, NEW c \in Consumers, ReadChunk(c) \/ ValueShared(c)
  PROVE  WholeReadsInv'
<1>1. UNCHANGED <<content, reader>>
  BY DEF ReadChunk, ValueShared
<1>2. reads \in [Consumers -> Records]
  BY DEF ReaderInv, ReaderTypes
<1>3. CASE ReadChunk(c)
  <2>1. reads[c].at = "reading" /\ content = "open" /\ reader = c
    BY <1>3 DEF ReadChunk, ReaderInv, LockIsTheReaders
  <2>2. \A d \in Consumers :
          /\ reads'[d].op = reads[d].op /\ reads'[d].at = reads[d].at
          /\ reads'[d].outcome = reads[d].outcome
          /\ d # c => reads'[d].kept = reads[d].kept
    BY <1>2, <1>3 DEF ReadChunk, Records
  <2>3. GaveUp' = GaveUp
    BY <2>2 DEF GaveUp, Over
  <2>4. Untouched' /\ ReadingIsOpen' /\ ReadWhole'
    BY <1>1, <2>1, <2>2 DEF WholeReadsInv, Untouched, ReadingIsOpen, ReadWhole
  <2>5. FedAlone'
    <3>1. ~GaveUp => \A d \in Consumers : Fed(d)' => d = c
      BY <2>1, <2>2 DEF WholeReadsInv, FedAlone, Fed
    <3> QED BY <1>1, <2>1, <2>3, <3>1 DEF FedAlone
  <2> QED BY <2>4, <2>5 DEF WholeReadsInv
<1>4. CASE ValueShared(c)
  <2> DEFINE r == [reads[memoized] EXCEPT !.op = "value"]
  <2>1. /\ reads[c].at = "joined" /\ memoized \in Consumers
        /\ reads[memoized].at = "over" /\ reads' = [reads EXCEPT ![c] = r]
    BY <1>4 DEF ValueShared, ReaderInv, ReaderTypes
  <2>2. /\ r.op = "value" /\ r.at = "over" /\ r.kept = reads[memoized].kept
        /\ r.outcome = reads[memoized].outcome
    BY <1>2, <2>1 DEF Records
  <2> HIDE DEF r
  <2>3. reads'[c] = r /\ \A d \in Consumers : d # c => reads'[d] = reads[d]
    BY <1>2, <2>1
  <2>4. GaveUp => GaveUp'
    BY <2>1, <2>3 DEF GaveUp, Over
  <2>5. reader # c
    BY <2>1 DEF ReaderInv, LockIsTheReaders
  <2>6. Untouched' /\ ReadingIsOpen'
    BY <1>1, <2>2, <2>3, <2>5 DEF WholeReadsInv, Untouched, ReadingIsOpen
  <2>7. ReadWhole'
    BY <1>1, <2>1, <2>2, <2>3 DEF WholeReadsInv, ReadWhole
  <2>8. FedAlone'
    BY <1>1, <2>2, <2>3, <2>4 DEF WholeReadsInv, FedAlone, Fed
  <2> QED BY <2>6, <2>7, <2>8 DEF WholeReadsInv
<1> QED BY <1>3, <1>4

LEMMA ReleasesReadWhole ==
  ASSUME ReaderInv, WholeReadsInv, CancelSettles \/ CloseResponse
  PROVE  WholeReadsInv'
<1>1. UNCHANGED <<reads, reader>>
  BY DEF CancelSettles, CloseResponse
<1>2. /\ content' = content \/ (content = "open" /\ content' = "cancelled")
      /\ reader # NoConsumer => content' = content
  BY ClosingLeaves DEF CancelSettles, CloseResponse
<1>3. GaveUp' = GaveUp
  BY <1>1 DEF GaveUp, Over
<1> QED BY <1>1, <1>2, <1>3, ResponseAssumption
     DEF ResponseAssumption, WholeReadsInv, Untouched, ReadingIsOpen, ReadWhole, FedAlone, Fed

LEMMA ReadsKeepWhole ==
  ReaderInv /\ ReaderInv' /\ WholeReadsInv /\ [ResponseNext]_responseVars => WholeReadsInv'
<1> SUFFICES ASSUME ReaderInv, ReaderInv', WholeReadsInv, [ResponseNext]_responseVars
             PROVE  WholeReadsInv'
  OBVIOUS
<1>1. CASE UNCHANGED responseVars
  BY <1>1 DEF responseVars, WholeReadsInv, Untouched, ReadingIsOpen, ReadWhole, FedAlone, Fed,
              GaveUp, Over
<1>2. CASE ResponseNext
  BY <1>2, HeadsReadWhole, LoopEndsReadWhole, LeavesReadWhole, RecordsReadWhole,
     ReleasesReadWhole DEF ResponseNext
<1> QED BY <1>1, <1>2

LEMMA WholeReadsImply == WholeReadsInv => NoPartialRead
  BY DEF WholeReadsInv, ReadWhole, FedAlone, Fed, NoPartialRead, Over

\* What a read answers is the whole body, and two reads never share one,
\* whoever calls what and whenever the response is closed, unless a reader
\* that did not own the body gave it up (consumeBody, toHttpError, closingAfter).
THEOREM ReadsAreWhole == ResponseSpec => []NoPartialRead
  BY ReadersStart, ReadersKeep, WholeReadsStart, ReadsKeepWhole, WholeReadsImply, PTL
  DEF ResponseSpec
-----------------------------------------------------------------------------
(* The sum of a sequence of sizes: one more adds its size.               *)

\* The fold that Total is, over the sets of indices up to n.
Totals(iter, sizes, n) ==
  iter = [S \in SUBSET (1 .. n) |->
            IF S = {} THEN 0 ELSE iter[S \ {Max(S)}] + sizes[Max(S)]]

LEMMA TotalsAt ==
  ASSUME NEW iter, NEW sizes, NEW n \in Nat, Totals(iter, sizes, n), NEW k \in 1 .. n
  PROVE  iter[1 .. k] = iter[1 .. (k - 1)] + sizes[k] /\ iter[{}] = 0
<1> DEFINE h == [S \in SUBSET (1 .. n) |->
                   IF S = {} THEN 0 ELSE iter[S \ {Max(S)}] + sizes[Max(S)]]
<1>1. iter = h
  BY DEF Totals
<1>2. /\ 1 .. k \in SUBSET (1 .. n) /\ 1 .. k # {} /\ Max(1 .. k) = k
      /\ (1 .. k) \ {k} = 1 .. (k - 1)
  <2>1. k \in Nat /\ k # 0 /\ k \in 1 .. k OBVIOUS
  <2>2. Max(1 .. k) = k BY <2>1, MaxOfInterval
  <2>3. (1 .. k) \ {k} = 1 .. (k - 1) OBVIOUS
  <2> QED BY <2>1, <2>2, <2>3
<1>3. h[1 .. k] = iter[(1 .. k) \ {Max(1 .. k)}] + sizes[Max(1 .. k)]
  BY <1>2
<1>4. h[{}] = 0 OBVIOUS
<1> HIDE DEF h
<1> QED BY <1>1, <1>2, <1>3, <1>4

LEMMA TotalsExist ==
  ASSUME NEW sizes
  PROVE  \A n \in Nat : \E iter : Totals(iter, sizes, n)
<1> DEFINE N == {n \in Nat : \E iter : Totals(iter, sizes, n)}
<1>1. 0 \in N
  <2>1. \A S \in SUBSET (1 .. 0) : S = {} OBVIOUS
  <2>2. Totals([S \in SUBSET (1 .. 0) |-> 0], sizes, 0)
    BY <2>1 DEF Totals
  <2> QED BY <2>2
<1>2. ASSUME NEW n \in Nat, n \in N PROVE n + 1 \in N
  <2>1. PICK iter : Totals(iter, sizes, n) BY <1>2
  <2> DEFINE g == [S \in SUBSET (1 .. n + 1) |->
                     IF n + 1 \in S THEN iter[S \ {n + 1}] + sizes[n + 1] ELSE iter[S]]
             h == [S \in SUBSET (1 .. n + 1) |->
                     IF S = {} THEN 0 ELSE g[S \ {Max(S)}] + sizes[Max(S)]]
             i == [S \in SUBSET (1 .. n) |->
                     IF S = {} THEN 0 ELSE iter[S \ {Max(S)}] + sizes[Max(S)]]
  <2>2. iter = i BY <2>1 DEF Totals
  <2>3. ASSUME NEW S \in SUBSET (1 .. n + 1) PROVE g[S] = h[S]
    <3>1. CASE n + 1 \in S
      <4>1. Max(S) = n + 1
        <5> DEFINE m == n + 1
        <5>2. m \in Nat /\ S \in SUBSET (1 .. m) /\ S # {} /\ m \in S BY <3>1
        <5> HIDE DEF m
        <5>3. Max(S) \in S /\ m <= Max(S) BY <5>2, MaxOf
        <5>1. Max(S) \in 1 .. n + 1 /\ n + 1 <= Max(S) BY <5>2, <5>3 DEF m
        <5> QED BY <5>1
      <4>2. S \ {n + 1} \in SUBSET (1 .. n + 1) /\ n + 1 \notin S \ {n + 1} OBVIOUS
      <4>3. g[S \ {n + 1}] = iter[S \ {n + 1}] BY <4>2
      <4>4. g[S] = iter[S \ {n + 1}] + sizes[n + 1] BY <3>1
      <4>5. h[S] = g[S \ {n + 1}] + sizes[n + 1]
        <5> HIDE DEF g
        <5> QED BY <3>1, <4>1
      <4> QED BY <4>3, <4>4, <4>5
    <3>2. CASE n + 1 \notin S
      <4>1. S \in SUBSET (1 .. n)
        <5>1. \A x \in S : x \in 1 .. n + 1 /\ x # n + 1 BY <3>2
        <5>2. \A x \in S : x \in 1 .. n BY <5>1
        <5> QED BY <5>2
      <4>2. CASE S = {}
        <5>1. g[S] = iter[S] BY <3>2
        <5>2. i[S] = 0 BY <4>1, <4>2
        <5>3. h[S] = 0 BY <4>2
        <5> HIDE DEF g, h, i
        <5> QED BY <2>2, <5>1, <5>2, <5>3
      <4>3. CASE S # {}
        <5>1. g[S] = iter[S] BY <3>2
        <5>2. i[S] = iter[S \ {Max(S)}] + sizes[Max(S)] BY <4>1, <4>3
        <5>3. S \ {Max(S)} \in SUBSET (1 .. n + 1) /\ n + 1 \notin S \ {Max(S)} BY <3>2
        <5>4. g[S \ {Max(S)}] = iter[S \ {Max(S)}] BY <5>3
        <5>5. h[S] = g[S \ {Max(S)}] + sizes[Max(S)]
          <6> HIDE DEF g
          <6> QED BY <4>3
        <5> HIDE DEF g, h, i
        <5> QED BY <2>2, <5>1, <5>2, <5>4, <5>5
      <4> QED BY <4>2, <4>3
    <3> QED BY <3>1, <3>2
  <2>4. g = h
    <3>1. DOMAIN g = DOMAIN h /\ g = [S \in DOMAIN g |-> g[S]] /\ h = [S \in DOMAIN h |-> h[S]]
          /\ DOMAIN g = SUBSET (1 .. n + 1)
      OBVIOUS
    <3> HIDE DEF g, h
    <3> QED BY <2>3, <3>1
  <2>5. Totals(g, sizes, n + 1)
    <3> HIDE DEF g
    <3> QED BY <2>4 DEF Totals
  <2> QED BY <2>5
<1>3. Nat \subseteq N
  <2> HIDE DEF N
  <2> QED BY <1>1, <1>2, SetInduction
<1> QED BY <1>3

\* Folds of sequences that agree on their first elements agree there.
LEMMA TotalsAgree ==
  ASSUME NEW s, NEW t, NEW m \in Nat, NEW n \in Nat, m <= n, SameUpTo(s, t, m),
         NEW f, NEW g, Totals(f, s, m), Totals(g, t, n)
  PROVE  f[1 .. m] = g[1 .. m]
<1> DEFINE S == {k \in Nat : k <= m => f[1 .. k] = g[1 .. k]}
<1>1. 0 \in S
  <2>1. f[{}] = 0 /\ g[{}] = 0
    BY DEF Totals
  <2>2. 1 .. 0 = {} OBVIOUS
  <2> QED BY <2>1, <2>2
<1>2. ASSUME NEW k \in Nat, k \in S PROVE k + 1 \in S
  <2> SUFFICES ASSUME k + 1 <= m PROVE f[1 .. k + 1] = g[1 .. k + 1] OBVIOUS
  <2>1. f[1 .. k] = g[1 .. k] BY <1>2
  <2>2. k + 1 \in 1 .. m /\ k + 1 \in 1 .. n /\ k + 1 - 1 = k
    OBVIOUS
  <2>3. f[1 .. k + 1] = f[1 .. (k + 1 - 1)] + s[k + 1] BY <2>2, TotalsAt
  <2>4. g[1 .. k + 1] = g[1 .. (k + 1 - 1)] + t[k + 1] BY <2>2, TotalsAt
  <2>5. s[k + 1] = t[k + 1] BY <2>2 DEF SameUpTo
  <2> QED BY <2>1, <2>2, <2>3, <2>4, <2>5
<1>3. Nat \subseteq S
  <2> HIDE DEF S
  <2> QED BY <1>1, <1>2, SetInduction
<1> QED BY <1>3

LEMMA TotalUnrolls ==
  ASSUME NEW s, NEW n \in Nat, DOMAIN s = 1 .. n
  PROVE  \E iter : Totals(iter, s, n) /\ Total(s) = iter[1 .. n]
<1>1. \E iter : Totals(iter, s, n) BY TotalsExist
<1> QED BY <1>1 DEF Total, Totals, FoldLeft, MapThenFoldSet

LEMMA TotalEmpty ==
  ASSUME NEW s, DOMAIN s = {}
  PROVE  Total(s) = 0
<1>1. DOMAIN s = 1 .. 0 OBVIOUS
<1>2. PICK f : Totals(f, s, 0) /\ Total(s) = f[1 .. 0] BY <1>1, TotalUnrolls
<1>3. 1 .. 0 = {} OBVIOUS
<1>4. f[{}] = 0 BY <1>2 DEF Totals
<1> QED BY <1>2, <1>3, <1>4

\* One more at the end.
LEMMA TotalStep ==
  ASSUME NEW s, NEW t, NEW n \in Nat, DOMAIN s = 1 .. n, DOMAIN t = 1 .. n + 1,
         \A i \in 1 .. n : s[i] = t[i]
  PROVE  Total(t) = Total(s) + t[n + 1]
<1>1. PICK f : Totals(f, s, n) /\ Total(s) = f[1 .. n] BY TotalUnrolls
<1>2. n + 1 \in Nat /\ n <= n + 1 /\ n + 1 \in 1 .. n + 1 /\ n + 1 - 1 = n OBVIOUS
<1>3. PICK g : Totals(g, t, n + 1) /\ Total(t) = g[1 .. n + 1] BY <1>2, TotalUnrolls
<1>4. f[1 .. n] = g[1 .. n]
  <2> DEFINE k == n + 1
  <2>1. k \in Nat /\ n <= k /\ Totals(g, t, k) BY <1>3
  <2>2. SameUpTo(s, t, n) BY DEF SameUpTo
  <2> HIDE DEF k
  <2> QED BY ONLY n \in Nat, <1>1, <2>1, <2>2, TotalsAgree
<1>5. g[1 .. n + 1] = g[1 .. (n + 1 - 1)] + t[n + 1] BY <1>2, <1>3, TotalsAt
<1> QED BY <1>1, <1>2, <1>3, <1>4, <1>5

LEMMA TotalNat ==
  ASSUME NEW s, NEW n \in Nat, DOMAIN s = 1 .. n, \A i \in 1 .. n : s[i] \in Nat
  PROVE  Total(s) \in Nat
<1>1. PICK f : Totals(f, s, n) /\ Total(s) = f[1 .. n] BY TotalUnrolls
<1> DEFINE S == {k \in Nat : k <= n => f[1 .. k] \in Nat}
<1>2. 0 \in S
  <2>1. f[{}] = 0 BY <1>1 DEF Totals
  <2>2. 1 .. 0 = {} OBVIOUS
  <2> QED BY <2>1, <2>2
<1>3. ASSUME NEW k \in Nat, k \in S PROVE k + 1 \in S
  <2> SUFFICES ASSUME k + 1 <= n PROVE f[1 .. k + 1] \in Nat OBVIOUS
  <2>1. f[1 .. k] \in Nat BY <1>3
  <2>2. k + 1 \in 1 .. n /\ k + 1 - 1 = k OBVIOUS
  <2>3. f[1 .. k + 1] = f[1 .. (k + 1 - 1)] + s[k + 1]
    <3>1. Totals(f, s, n) BY <1>1
    <3> QED BY ONLY n \in Nat, <2>2, <3>1, TotalsAt
  <2> QED BY <2>1, <2>2, <2>3
<1>4. Nat \subseteq S
  <2> HIDE DEF S
  <2> QED BY <1>2, <1>3, SetInduction
<1> QED BY <1>1, <1>4

-----------------------------------------------------------------------------
(* A write in progress.  The model's operators speak of the message of the *)
(* moment; those below take the body as a parameter, so that a lemma about *)
(* them holds before and after a step (OfTheMessage).  SentSoFar says what *)
(* a write has sent at each place: the parts before its own, the frame     *)
(* that opens it, and the chunks copied (CopiedIn).                        *)

PiecesSent == [part : Nat, chunk : Nat, size : Nat]

Messages == {m \in [parts : Seq(SimpleParts), framed : BOOLEAN] :
             Len(m.parts) # 0 /\ (m.framed \/ Len(m.parts) = 1)}

FramingIn(m) == IF m.framed THEN <<Frame>> ELSE <<>>
PieceIn(m, i, k) == [part |-> i, chunk |-> k, size |-> m.parts[i].chunks[k]]
ChunksIn(m, i, n) == [k \in 1 .. n |-> PieceIn(m, i, k)]
AllChunksIn(m, i) == ChunksIn(m, i, Len(m.parts[i].chunks))
PartIn(m, i) == IF m.framed THEN <<Frame>> \o AllChunksIn(m, i) \o <<Frame>> ELSE AllChunksIn(m, i)
BeforeIn(m, n) == FlattenSeq([i \in 1 .. n |-> PartIn(m, i)])
CopiedIn(m, i, k) == (BeforeIn(m, i - 1) \o FramingIn(m)) \o ChunksIn(m, i, k)
WholeIn(m) == BeforeIn(m, Len(m.parts)) \o FramingIn(m)

LEMMA PartsAre ==
  ASSUME NEW m \in Messages, NEW i \in 1 .. Len(m.parts)
  PROVE  /\ m.parts[i] \in SimpleParts /\ m.parts[i].chunks \in Seq(Nat)
         /\ Len(m.parts[i].chunks) \in Nat /\ Len(m.parts) \in Nat
<1>1. m.parts \in Seq(SimpleParts) BY DEF Messages
<1>2. m.parts[i] \in SimpleParts /\ Len(m.parts) \in Nat BY <1>1, ElementOfSeq, LenProperties
<1>3. m.parts[i].chunks \in Seq(Nat) BY <1>2, BodyWritesAssumption
<1> QED BY <1>2, <1>3, LenProperties

LEMMA FrameIs == Frame \in PiecesSent /\ <<Frame>> \in Seq(PiecesSent)
<1>1. Frame \in PiecesSent BY DEF Frame, FrameSize, PiecesSent
<1> QED BY <1>1

LEMMA FramingIs ==
  ASSUME NEW m \in Messages
  PROVE  FramingIn(m) \in Seq(PiecesSent)
BY FrameIs, EmptySeq DEF FramingIn

LEMMA ChunksAre ==
  ASSUME NEW m \in Messages, NEW i \in 1 .. Len(m.parts), NEW n \in Nat, n <= Len(m.parts[i].chunks)
  PROVE  /\ ChunksIn(m, i, n) \in Seq(PiecesSent)
         /\ Len(ChunksIn(m, i, n)) = n
         /\ \A k \in 1 .. n : ChunksIn(m, i, n)[k] = PieceIn(m, i, k) /\ PieceIn(m, i, k) \in PiecesSent
<1> DEFINE sizes == m.parts[i].chunks
<1>1. sizes \in Seq(Nat) /\ Len(sizes) \in Nat /\ i \in Nat BY PartsAre
<1>2. ASSUME NEW k \in 1 .. n PROVE PieceIn(m, i, k) \in PiecesSent
  <2>1. k \in 1 .. Len(sizes) /\ k \in Nat BY <1>1
  <2>2. sizes[k] \in Nat BY <1>1, <2>1, ElementOfSeq
  <2> QED BY <1>1, <2>1, <2>2 DEF PieceIn, PiecesSent
<1>3. \A k \in 1 .. n : PieceIn(m, i, k) \in PiecesSent BY <1>2
<1> HIDE DEF sizes
<1>4. ChunksIn(m, i, n) \in Seq(PiecesSent) /\ Len(ChunksIn(m, i, n)) = n
  BY <1>3 DEF ChunksIn
<1>5. \A k \in 1 .. n : ChunksIn(m, i, n)[k] = PieceIn(m, i, k) BY DEF ChunksIn
<1> QED BY <1>3, <1>4, <1>5

LEMMA PartIs ==
  ASSUME NEW m \in Messages, NEW i \in 1 .. Len(m.parts)
  PROVE  PartIn(m, i) \in Seq(PiecesSent) /\ AllChunksIn(m, i) \in Seq(PiecesSent)
<1>1. AllChunksIn(m, i) \in Seq(PiecesSent)
  <2>1. Len(m.parts[i].chunks) \in Nat BY PartsAre
  <2>2. Len(m.parts[i].chunks) <= Len(m.parts[i].chunks) BY <2>1
  <2> QED BY <2>1, <2>2, ChunksAre DEF AllChunksIn
<1> HIDE DEF AllChunksIn
<1>2. <<Frame>> \o AllChunksIn(m, i) \o <<Frame>> \in Seq(PiecesSent)
  BY <1>1, FrameIs, ConcatProperties
<1> QED BY <1>1, <1>2 DEF PartIn

LEMMA BeforeIs ==
  ASSUME NEW m \in Messages, NEW n \in Nat, n <= Len(m.parts)
  PROVE  BeforeIn(m, n) \in Seq(PiecesSent)
<1>1. \A i \in 1 .. n : PartIn(m, i) \in Seq(PiecesSent)
  <2> TAKE i \in 1 .. n
  <2>1. Len(m.parts) \in Nat BY LenProperties DEF Messages
  <2>2. i \in 1 .. Len(m.parts) BY <2>1
  <2> QED BY <2>2, PartIs
<1>2. [i \in 1 .. n |-> PartIn(m, i)] \in Seq(Seq(PiecesSent)) BY <1>1
<1> QED BY <1>2, FlattenType DEF BeforeIn

LEMMA BeforeNone == ASSUME NEW m PROVE BeforeIn(m, 0) = <<>>
<1>1. [i \in 1 .. 0 |-> PartIn(m, i)] = <<>> OBVIOUS
<1> QED BY <1>1, FlattenEmpty DEF BeforeIn

LEMMA BeforeNext ==
  ASSUME NEW m \in Messages, NEW n \in Nat, n + 1 <= Len(m.parts)
  PROVE  BeforeIn(m, n + 1) = BeforeIn(m, n) \o PartIn(m, n + 1)
<1> DEFINE ss == [i \in 1 .. n |-> PartIn(m, i)]
           tt == [i \in 1 .. n + 1 |-> PartIn(m, i)]
<1>1. Len(ss) = n /\ Len(tt) = n + 1 /\ (\A i \in 1 .. n : ss[i] = tt[i]) /\ tt[n + 1] = PartIn(m, n + 1)
  OBVIOUS
<1>2. CASE n = 0
  <2>1. FlattenSeq(tt) = tt[1]
    <3>1. Len(tt) = 1 BY <1>1, <1>2
    <3> HIDE DEF tt
    <3> QED BY <3>1, FlattenSingle
  <2>2. Len(m.parts) \in Nat BY LenProperties DEF Messages
  <2>3. 1 \in 1 .. Len(m.parts) BY <1>2, <2>2
  <2>4. PartIn(m, 1) \in Seq(PiecesSent) BY <2>3, PartIs
  <2>5. <<>> \o PartIn(m, 1) = PartIn(m, 1) BY <2>4, ConcatEmptySeq
  <2>6. BeforeIn(m, n) = <<>> BY <1>2, BeforeNone
  <2>7. BeforeIn(m, n + 1) = FlattenSeq(tt) BY DEF BeforeIn
  <2>8. n + 1 = 1 /\ tt[1] = PartIn(m, 1) BY <1>2
  <2> HIDE DEF tt
  <2> QED BY <2>1, <2>5, <2>6, <2>7, <2>8
<1>3. CASE n # 0
  <2>1. BeforeIn(m, n) = FlattenSeq(ss) /\ BeforeIn(m, n + 1) = FlattenSeq(tt) BY DEF BeforeIn
  <2> HIDE DEF ss, tt
  <2> QED BY <1>1, <1>3, <2>1, FlattenStep
<1> QED BY <1>2, <1>3

LEMMA ChunksNext ==
  ASSUME NEW m \in Messages, NEW i \in 1 .. Len(m.parts), NEW k \in Nat, k + 1 <= Len(m.parts[i].chunks)
  PROVE  Append(ChunksIn(m, i, k), PieceIn(m, i, k + 1)) = ChunksIn(m, i, k + 1)
<1> DEFINE s == [j \in 1 .. k |-> PieceIn(m, i, j)]
           t == [j \in 1 .. k + 1 |-> PieceIn(m, i, j)]
<1>1. Append(s, PieceIn(m, i, k + 1)) = t OBVIOUS
<1> QED BY <1>1 DEF ChunksIn

\* One more chunk of a part.
LEMMA CopiedNext ==
  ASSUME NEW m \in Messages, NEW i \in 1 .. Len(m.parts), NEW k \in Nat, k + 1 <= Len(m.parts[i].chunks)
  PROVE  /\ Append(CopiedIn(m, i, k), PieceIn(m, i, k + 1)) = CopiedIn(m, i, k + 1)
         /\ PieceIn(m, i, k + 1) \in PiecesSent
         /\ CopiedIn(m, i, k) \in Seq(PiecesSent)
<1>1. Len(m.parts) \in Nat /\ Len(m.parts[i].chunks) \in Nat BY PartsAre
<1>2. BeforeIn(m, i - 1) \in Seq(PiecesSent) /\ FramingIn(m) \in Seq(PiecesSent)
  <2>1. i - 1 \in Nat /\ i - 1 <= Len(m.parts) BY <1>1
  <2> QED BY <2>1, BeforeIs, FramingIs
<1>3. BeforeIn(m, i - 1) \o FramingIn(m) \in Seq(PiecesSent) BY <1>2, ConcatProperties
<1>4. ChunksIn(m, i, k) \in Seq(PiecesSent)
  <2>1. k <= Len(m.parts[i].chunks) BY <1>1
  <2> QED BY <2>1, ChunksAre
<1>5. PieceIn(m, i, k + 1) \in PiecesSent
  <2> DEFINE n == k + 1
  <2>1. n \in Nat /\ n <= Len(m.parts[i].chunks) /\ n \in 1 .. n OBVIOUS
  <2> HIDE DEF n
  <2>2. PieceIn(m, i, n) \in PiecesSent BY <2>1, ChunksAre
  <2> QED BY <2>2 DEF n
<1>6. Append(ChunksIn(m, i, k), PieceIn(m, i, k + 1)) = ChunksIn(m, i, k + 1) BY ChunksNext
<1>7. Append(CopiedIn(m, i, k), PieceIn(m, i, k + 1)) =
        (BeforeIn(m, i - 1) \o FramingIn(m)) \o Append(ChunksIn(m, i, k), PieceIn(m, i, k + 1))
  <2> DEFINE b == BeforeIn(m, i - 1) \o FramingIn(m)
             c == ChunksIn(m, i, k)
             e == PieceIn(m, i, k + 1)
  <2>1. b \in Seq(PiecesSent) /\ c \in Seq(PiecesSent) /\ e \in PiecesSent BY <1>3, <1>4, <1>5
  <2>2. CopiedIn(m, i, k) = b \o c BY DEF CopiedIn
  <2> HIDE DEF b, c, e
  <2>3. Append(b \o c, e) = b \o Append(c, e)
    <3> DEFINE bc == b \o c
    <3>1. <<e>> \in Seq(PiecesSent) /\ bc \in Seq(PiecesSent) BY <2>1, ConcatProperties
    <3>2. (b \o c) \o <<e>> = b \o (c \o <<e>>) BY <2>1, <3>1, ConcatAssociative
    <3> HIDE DEF bc
    <3>3. Append(bc, e) = bc \o <<e>> BY <2>1, <3>1, AppendIsConcat
    <3>4. Append(c, e) = c \o <<e>> BY <2>1, AppendIsConcat
    <3> QED BY <3>2, <3>3, <3>4 DEF bc
  <2> QED BY <2>2, <2>3 DEF b, c, e
<1>8. CopiedIn(m, i, k) \in Seq(PiecesSent) BY <1>3, <1>4, ConcatProperties DEF CopiedIn
<1> QED BY <1>5, <1>6, <1>7, <1>8 DEF CopiedIn

LEMMA CopiedNone ==
  ASSUME NEW m \in Messages, NEW i \in 1 .. Len(m.parts)
  PROVE  CopiedIn(m, i, 0) = BeforeIn(m, i - 1) \o FramingIn(m) /\ CopiedIn(m, i, 0) \in Seq(PiecesSent)
<1>1. Len(m.parts) \in Nat BY PartsAre
<1>2. BeforeIn(m, i - 1) \in Seq(PiecesSent) /\ FramingIn(m) \in Seq(PiecesSent)
  <2>1. i - 1 \in Nat /\ i - 1 <= Len(m.parts) BY <1>1
  <2> QED BY <2>1, BeforeIs, FramingIs
<1>3. BeforeIn(m, i - 1) \o FramingIn(m) \in Seq(PiecesSent) BY <1>2, ConcatProperties
<1>4. ChunksIn(m, i, 0) = <<>> BY DEF ChunksIn
<1> QED BY <1>3, <1>4, ConcatEmptySeq DEF CopiedIn

LEMMA FourAssociate ==
  ASSUME NEW b \in Seq(PiecesSent), NEW c \in Seq(PiecesSent), NEW f \in Seq(PiecesSent)
  PROVE  ((b \o f) \o c) \o f = b \o ((f \o c) \o f)
<1>1. f \o c \in Seq(PiecesSent) BY ConcatProperties
<1>2. (b \o f) \o c = b \o (f \o c) BY ConcatAssociative
<1>3. (b \o (f \o c)) \o f = b \o ((f \o c) \o f) BY <1>1, ConcatAssociative
<1> QED BY <1>2, <1>3

\* All the chunks of a framed part and its closing frame: the part is done.
LEMMA PartDone ==
  ASSUME NEW m \in Messages, NEW i \in 1 .. Len(m.parts), m.framed,
         NEW k, k = Len(m.parts[i].chunks)
  PROVE  Append(CopiedIn(m, i, k), Frame) = BeforeIn(m, i)
<1>1. Len(m.parts) \in Nat /\ k \in Nat BY PartsAre
<1>2. BeforeIn(m, i - 1) \in Seq(PiecesSent)
  <2>1. i - 1 \in Nat /\ i - 1 <= Len(m.parts) BY <1>1
  <2> QED BY <2>1, BeforeIs
<1>3. AllChunksIn(m, i) \in Seq(PiecesSent) /\ ChunksIn(m, i, k) = AllChunksIn(m, i) BY PartIs DEF AllChunksIn
<1>4. BeforeIn(m, i) = BeforeIn(m, i - 1) \o PartIn(m, i)
  <2> DEFINE j == i - 1
  <2>1. j \in Nat /\ j + 1 <= Len(m.parts) /\ j + 1 = i BY <1>1
  <2> HIDE DEF j
  <2>2. BeforeIn(m, j + 1) = BeforeIn(m, j) \o PartIn(m, j + 1) BY <2>1, BeforeNext
  <2> QED BY <2>1, <2>2 DEF j
<1> DEFINE b == BeforeIn(m, i - 1)
           c == AllChunksIn(m, i)
           f == <<Frame>>
<1>5. PartIn(m, i) = (f \o c) \o f BY DEF PartIn
<1>6. FramingIn(m) = f BY DEF FramingIn
<1>7. b \in Seq(PiecesSent) /\ c \in Seq(PiecesSent) /\ f \in Seq(PiecesSent) BY <1>2, <1>3, FrameIs
<1>8. CopiedIn(m, i, k) = (b \o f) \o c BY <1>3, <1>6 DEF CopiedIn
<1>9. Append((b \o f) \o c, Frame) = ((b \o f) \o c) \o f
  <2>1. (b \o f) \o c \in Seq(PiecesSent)
    <3> HIDE DEF b, c, f
    <3> QED BY <1>7, ConcatProperties
  <2> DEFINE s == (b \o f) \o c
  <2> HIDE DEF s
  <2>2. s \in Seq(PiecesSent) BY <2>1 DEF s
  <2>3. Append(s, Frame) = s \o <<Frame>> BY <2>2, FrameIs, AppendIsConcat
  <2> QED BY <2>3 DEF s
<1>10. ((b \o f) \o c) \o f = b \o ((f \o c) \o f)
  <2> HIDE DEF b, c, f
  <2> QED BY <1>7, FourAssociate
<1> HIDE DEF f
<1> QED BY <1>4, <1>5, <1>8, <1>9, <1>10

\* A frame after the parts that are done: the next part's, or the trailer.
LEMMA NextOpened ==
  ASSUME NEW m \in Messages, NEW n \in Nat, n + 1 <= Len(m.parts), m.framed
  PROVE  Append(BeforeIn(m, n), Frame) = CopiedIn(m, n + 1, 0)
<1>1. Len(m.parts) \in Nat BY LenProperties DEF Messages
<1>2. n + 1 \in 1 .. Len(m.parts) /\ n + 1 - 1 = n /\ n <= Len(m.parts) BY <1>1
<1>3. CopiedIn(m, n + 1, 0) = BeforeIn(m, n + 1 - 1) \o FramingIn(m) BY <1>2, CopiedNone
<1>4. BeforeIn(m, n) \in Seq(PiecesSent) BY <1>2, BeforeIs
<1>5. Append(BeforeIn(m, n), Frame) = BeforeIn(m, n) \o <<Frame>> BY <1>4, FrameIs, AppendIsConcat
<1> QED BY <1>2, <1>3, <1>5 DEF FramingIn

LEMMA FirstOpened ==
  ASSUME NEW m \in Messages
  PROVE  CopiedIn(m, 1, 0) = FramingIn(m)
<1>1. Len(m.parts) \in Nat BY LenProperties DEF Messages
<1>2. 1 \in 1 .. Len(m.parts) BY <1>1 DEF Messages
<1>3. CopiedIn(m, 1, 0) = BeforeIn(m, 1 - 1) \o FramingIn(m) BY <1>2, CopiedNone
<1>4. BeforeIn(m, 1 - 1) = <<>> BY BeforeNone
<1>5. <<>> \o FramingIn(m) = FramingIn(m) BY FramingIs, ConcatEmptySeq
<1> QED BY <1>3, <1>4, <1>5

LEMMA TrailerDone ==
  ASSUME NEW m \in Messages, m.framed
  PROVE  Append(BeforeIn(m, Len(m.parts)), Frame) = WholeIn(m)
<1>1. Len(m.parts) \in Nat BY LenProperties DEF Messages
<1>2. BeforeIn(m, Len(m.parts)) \in Seq(PiecesSent) BY <1>1, BeforeIs
<1>3. Append(BeforeIn(m, Len(m.parts)), Frame) = BeforeIn(m, Len(m.parts)) \o <<Frame>>
  BY <1>2, FrameIs, AppendIsConcat
<1> QED BY <1>3 DEF FramingIn, WholeIn

\* A body that is not framed is its one part.
LEMMA UnframedWhole ==
  ASSUME NEW m \in Messages, ~ m.framed
  PROVE  /\ Len(m.parts) = 1
         /\ \A k : k = Len(m.parts[1].chunks) => CopiedIn(m, 1, k) = WholeIn(m)
         /\ \A k : CopiedIn(m, 1, k) = <<>> \o ChunksIn(m, 1, k)
         /\ \A k \in Nat : k <= Len(m.parts[1].chunks) => CopiedIn(m, 1, k) = ChunksIn(m, 1, k)
<1>1. Len(m.parts) = 1 BY DEF Messages
<1>2. \A k : CopiedIn(m, 1, k) = <<>> \o ChunksIn(m, 1, k)
  <2>1. CopiedIn(m, 1, 0) = <<>> BY FirstOpened DEF FramingIn
  <2>2. BeforeIn(m, 1 - 1) = <<>> BY BeforeNone
  <2>3. <<>> \o <<>> = <<>> OBVIOUS
  <2> QED BY <2>2, <2>3 DEF CopiedIn, FramingIn
<1>3. \A k \in Nat : k <= Len(m.parts[1].chunks) => CopiedIn(m, 1, k) = ChunksIn(m, 1, k)
  <2> TAKE k \in Nat
  <2> HAVE k <= Len(m.parts[1].chunks)
  <2>1. 1 \in 1 .. Len(m.parts) BY <1>1
  <2>2. ChunksIn(m, 1, k) \in Seq(PiecesSent) BY <2>1, ChunksAre
  <2> QED BY <1>2, <2>2, ConcatEmptySeq
<1>4. \A k : k = Len(m.parts[1].chunks) => CopiedIn(m, 1, k) = WholeIn(m)
  <2>1. 1 \in 1 .. Len(m.parts) BY <1>1
  <2>2. PartIn(m, 1) \in Seq(PiecesSent) /\ AllChunksIn(m, 1) = PartIn(m, 1) BY <2>1, PartIs DEF PartIn
  <2>3. BeforeIn(m, 1) = PartIn(m, 1)
    <3>1. BeforeIn(m, 0 + 1) = BeforeIn(m, 0) \o PartIn(m, 0 + 1)
      <4>1. 0 + 1 <= Len(m.parts) /\ 0 \in Nat BY <1>1
      <4> QED BY <4>1, BeforeNext
    <3>2. BeforeIn(m, 0) = <<>> BY BeforeNone
    <3>3. 0 + 1 = 1 OBVIOUS
    <3>4. <<>> \o PartIn(m, 1) = PartIn(m, 1) BY <2>2, ConcatEmptySeq
    <3> QED BY <3>1, <3>2, <3>3, <3>4
  <2>4. WholeIn(m) = PartIn(m, 1)
    <3>1. WholeIn(m) = BeforeIn(m, 1) \o <<>> BY <1>1 DEF WholeIn, FramingIn
    <3> QED BY <2>2, <2>3, <3>1, ConcatEmptySeq
  <2>5. <<>> \o AllChunksIn(m, 1) = AllChunksIn(m, 1) BY <2>2, ConcatEmptySeq
  <2> QED BY <1>2, <2>2, <2>4, <2>5 DEF AllChunksIn
<1> QED BY <1>1, <1>2, <1>3, <1>4

-----------------------------------------------------------------------------
LEMMA SizeEmpty == SizeOf(<<>>) = 0
<1> DEFINE s == [i \in DOMAIN <<>> |-> <<>>[i].size]
<1>1. DOMAIN s = {} OBVIOUS
<1> HIDE DEF s
<1>2. Total(s) = 0 BY <1>1, TotalEmpty
<1> QED BY <1>2 DEF s, SizeOf

LEMMA SizeNat ==
  ASSUME NEW s \in Seq(PiecesSent)
  PROVE  SizeOf(s) \in Nat
<1> DEFINE n == Len(s)
           z == [i \in DOMAIN s |-> s[i].size]
<1>1. n \in Nat /\ DOMAIN s = 1 .. n BY LenProperties
<1>2. DOMAIN z = 1 .. n BY <1>1
<1>3. \A i \in 1 .. n : z[i] \in Nat
  <2> TAKE i \in 1 .. n
  <2>1. s[i] \in PiecesSent BY ElementOfSeq
  <2>2. s[i].size \in Nat BY <2>1 DEF PiecesSent
  <2> QED BY <1>1, <2>2
<1> HIDE DEF n, z
<1>4. Total(z) \in Nat BY <1>1, <1>2, <1>3, TotalNat
<1> QED BY <1>4 DEF z, SizeOf

LEMMA SizeNext ==
  ASSUME NEW s \in Seq(PiecesSent), NEW p \in PiecesSent
  PROVE  SizeOf(Append(s, p)) = SizeOf(s) + p.size /\ Append(s, p) \in Seq(PiecesSent)
<1> DEFINE n == Len(s)
           u == Append(s, p)
           z == [i \in DOMAIN s |-> s[i].size]
           y == [i \in DOMAIN u |-> u[i].size]
<1>1. n \in Nat /\ DOMAIN s = 1 .. n BY LenProperties
<1>2. DOMAIN u = 1 .. n + 1 /\ (\A i \in 1 .. n : u[i] = s[i]) /\ u[n + 1] = p /\ u \in Seq(PiecesSent)
  BY AppendProperties, LenProperties
<1>3. n + 1 \in 1 .. n + 1 /\ (\A i \in 1 .. n : i \in 1 .. n + 1) BY <1>1
<1> HIDE DEF n, u
<1>4. DOMAIN z = 1 .. n /\ DOMAIN y = 1 .. n + 1 BY <1>1, <1>2
<1>5. \A i \in 1 .. n : z[i] = y[i] BY <1>1, <1>2, <1>3
<1>6. y[n + 1] = p.size BY <1>2, <1>3
<1> HIDE DEF z, y
<1>7. Total(y) = Total(z) + y[n + 1] BY <1>1, <1>4, <1>5, TotalStep
<1> QED BY <1>2, <1>6, <1>7 DEF SizeOf, z, y, u

\* Where every piece belongs to the part, what was sent of it is everything.
LEMMA OnlyPart ==
  ASSUME NEW s, NEW part, \A i \in DOMAIN s : s[i].part = part
  PROVE  Total([i \in DOMAIN s |-> IF s[i].part = part THEN s[i].size ELSE 0]) = SizeOf(s)
<1>1. [i \in DOMAIN s |-> IF s[i].part = part THEN s[i].size ELSE 0] = [i \in DOMAIN s |-> s[i].size]
  OBVIOUS
<1> QED BY <1>1 DEF SizeOf

\* computeContentLength, of any body.
LengthIn(m) ==
  IF \E i \in DOMAIN m.parts : m.parts[i].declared = Unknown THEN Unknown
  ELSE IF m.framed
    THEN Total([i \in DOMAIN m.parts |-> m.parts[i].declared]) + FrameSize * (2 * Len(m.parts) + 1)
  ELSE Total([i \in DOMAIN m.parts |-> m.parts[i].declared])

LEMMA Declared ==
  ASSUME NEW part \in SimpleParts
  PROVE  /\ part.declared \in Nat \cup {Unknown}
         /\ part.kind \in {"bytes", "stream", "file"}
         /\ part.chunks \in Seq(Nat) /\ Len(part.chunks) \in Nat
         /\ part.kind = "bytes" => Len(part.chunks) <= 1
         /\ part.kind = "bytes" /\ Len(part.chunks) = 1 => part.declared = part.chunks[1]
         /\ part.kind = "file" => part.declared # Unknown
<1>1. part.chunks \in Seq(Nat) /\ part.declared \in Nat \cup {Unknown}
      /\ part.kind \in {"bytes", "stream", "file"} /\ (part.kind = "file" => part.declared # Unknown)
  BY BodyWritesAssumption
<1>2. part.kind = "bytes" => Len(part.chunks) <= 1 BY BodyWritesAssumption
<1>3. part.kind = "bytes" => part.declared = IF part.chunks = <<>> THEN 0 ELSE part.chunks[1]
  BY BodyWritesAssumption
<1>4. Len(part.chunks) \in Nat BY <1>1, LenProperties
<1>5. Len(part.chunks) = 1 => part.chunks # <<>> BY EmptySeq
<1> QED BY <1>1, <1>2, <1>3, <1>4, <1>5

LEMMA LengthIs ==
  ASSUME NEW m \in Messages
  PROVE  /\ LengthIn(m) = Unknown \/ LengthIn(m) \in Nat
         /\ ~ m.framed => LengthIn(m) = m.parts[1].declared
         /\ 1 \in 1 .. Len(m.parts)
<1> DEFINE n == Len(m.parts)
           d == [i \in DOMAIN m.parts |-> m.parts[i].declared]
<1>1. n \in Nat /\ DOMAIN m.parts = 1 .. n /\ n # 0 BY LenProperties DEF Messages
<1>2. \A i \in 1 .. n : m.parts[i] \in SimpleParts BY PartsAre
<1>3. \A i \in 1 .. n : m.parts[i].declared \in Nat \cup {Unknown} BY <1>2, BodyWritesAssumption
<1>4. DOMAIN d = 1 .. n /\ \A i \in 1 .. n : d[i] = m.parts[i].declared BY <1>1
<1>5. ASSUME \A i \in DOMAIN m.parts : m.parts[i].declared # Unknown
      PROVE  Total(d) \in Nat
  <2>1. \A i \in 1 .. n : d[i] \in Nat BY <1>1, <1>3, <1>4, <1>5
  <2> HIDE DEF d, n
  <2> QED BY <1>1, <1>4, <2>1, TotalNat
<1>6. ASSUME n = 1, \A i \in DOMAIN m.parts : m.parts[i].declared # Unknown
      PROVE  Total(d) = m.parts[1].declared
  <2>0. 1 \in 1 .. n BY <1>1
  <2>1. m.parts[1].declared \in Nat BY <1>1, <1>3, <1>6, <2>0
  <2>2. DOMAIN <<>> = 1 .. 0 /\ DOMAIN <<>> = {} /\ DOMAIN d = 1 .. 0 + 1 /\ 0 \in Nat
    BY <1>4, <1>6
  <2>3. \A i \in 1 .. 0 : <<>>[i] = d[i] OBVIOUS
  <2>4. d[0 + 1] = m.parts[1].declared BY <1>4, <2>0
  <2> HIDE DEF d, n
  <2> DEFINE z == 0
             e == <<>>
  <2>5. DOMAIN e = 1 .. z /\ DOMAIN e = {} /\ DOMAIN d = 1 .. z + 1 /\ z \in Nat /\ \A i \in 1 .. z : e[i] = d[i]
    BY <2>2, <2>3
  <2> HIDE DEF z, e
  <2>6. Total(d) = Total(e) + d[z + 1] /\ Total(e) = 0 BY <2>5, TotalStep, TotalEmpty
  <2>7. Total(d) = 0 + d[0 + 1] BY <2>6 DEF z
  <2> QED BY <2>1, <2>4, <2>7
<1>7. LengthIn(m) = Unknown \/ LengthIn(m) \in Nat
  <2>1. CASE \E i \in DOMAIN m.parts : m.parts[i].declared = Unknown BY <2>1 DEF LengthIn
  <2>2. CASE \A i \in DOMAIN m.parts : m.parts[i].declared # Unknown
    <3>1. Total(d) \in Nat BY <1>5, <2>2
    <3>2. LengthIn(m) = IF m.framed THEN Total(d) + FrameSize * (2 * n + 1) ELSE Total(d)
      BY <2>2 DEF LengthIn
    <3> HIDE DEF d, n
    <3>3. FrameSize * (2 * n + 1) \in Nat BY <1>1 DEF FrameSize
    <3> QED BY <3>1, <3>2, <3>3
  <2> QED BY <2>1, <2>2
<1>8. ASSUME ~ m.framed PROVE LengthIn(m) = m.parts[1].declared
  <2>1. n = 1 BY <1>8 DEF Messages
  <2>2. CASE \E i \in DOMAIN m.parts : m.parts[i].declared = Unknown
    <3>1. \A i \in DOMAIN m.parts : i = 1 BY <1>1, <2>1
    <3> QED BY <2>2, <3>1 DEF LengthIn
  <2>3. CASE \A i \in DOMAIN m.parts : m.parts[i].declared # Unknown
    <3>1. LengthIn(m) = Total(d) BY <1>8, <2>3 DEF LengthIn
    <3> QED BY <1>6, <2>1, <2>3, <3>1
  <2> QED BY <2>2, <2>3
<1>9. 1 \in 1 .. n BY <1>1
<1> QED BY <1>7, <1>8, <1>9

\* What is defined of the message of the moment is what is said of any.
LEMMA OfTheMessage ==
  ASSUME message \in Messages
  PROVE  /\ ContentLength = LengthIn(message)
         /\ Whole = WholeIn(message)
         /\ \A i, k : Piece(i, k) = PieceIn(message, i, k)
<1>1. \A i, k : Piece(i, k) = PieceIn(message, i, k) BY DEF Piece, PieceIn
<1>2. ContentLength = LengthIn(message) BY DEF ContentLength, LengthIn, PartsLength
<1> DEFINE n == Len(message.parts)
           p == [i \in DOMAIN message.parts |->
                   IF message.framed THEN <<Frame>> \o ChunksOf(i) \o <<Frame>> ELSE ChunksOf(i)]
           q == [i \in 1 .. n |-> PartIn(message, i)]
<1>3. n \in Nat /\ DOMAIN message.parts = 1 .. n BY LenProperties DEF Messages
<1>4. ASSUME NEW i \in 1 .. n PROVE ChunksOf(i) = AllChunksIn(message, i)
  <2>1. message.parts[i].chunks \in Seq(Nat) BY <1>4, PartsAre
  <2>2. DOMAIN message.parts[i].chunks = 1 .. Len(message.parts[i].chunks) BY <2>1, LenProperties
  <2> QED BY <1>1, <2>2 DEF ChunksOf, AllChunksIn, ChunksIn
<1>5. p = q
  <2>1. \A i \in 1 .. n : p[i] = q[i] BY <1>3, <1>4 DEF PartIn
  <2>2. DOMAIN p = 1 .. n /\ DOMAIN q = 1 .. n /\ p = [i \in DOMAIN p |-> p[i]] /\ q = [i \in DOMAIN q |-> q[i]]
    BY <1>3
  <2> HIDE DEF p, q
  <2> QED BY <2>1, <2>2
<1>6. Whole = FlattenSeq(p) \o (IF message.framed THEN <<Frame>> ELSE <<>>) BY DEF Whole
<1>7. WholeIn(message) = FlattenSeq(q) \o (IF message.framed THEN <<Frame>> ELSE <<>>)
  BY DEF WholeIn, BeforeIn, FramingIn
<1> HIDE DEF p, q
<1> QED BY <1>1, <1>2, <1>5, <1>6, <1>7

-----------------------------------------------------------------------------
Failures == {"none", "overrun", "sink", "consumed", "empty chunk", "source", "short"}
Progress ==
  [at : {"idle", "opening", "copying", "between", "trailed", "closed", "left open", "aborted"},
   part : Nat, chunk : Nat, sent : Seq(PiecesSent), failure : Failures]

\* A write with nothing sent, and one that enters a part.
IdleWrite(n, s) == [at |-> "idle", part |-> n, chunk |-> n, sent |-> s, failure |-> "none"]
Entering(r, p, c) == [r EXCEPT !.at = "opening", !.part = p, !.chunk = c]

LEMMA IdleWriteIs ==
  ASSUME NEW n \in Nat, NEW s \in Seq(PiecesSent)
  PROVE  /\ IdleWrite(n, s) \in Progress
         /\ IdleWrite(n, s).at = "idle" /\ IdleWrite(n, s).part = n /\ IdleWrite(n, s).sent = s
BY DEF IdleWrite, Progress, Failures

LEMMA EnteringIs ==
  ASSUME NEW r \in Progress, NEW p \in Nat, NEW c \in Nat
  PROVE  /\ Entering(r, p, c) \in Progress
         /\ Entering(r, p, c).at = "opening" /\ Entering(r, p, c).part = p
         /\ Entering(r, p, c).chunk = c /\ Entering(r, p, c).sent = r.sent
BY DEF Entering, Progress

\* What a write has sent, by how far it is.
SentSoFar(m, r) ==
  /\ r.at \in {"opening", "copying", "between"} => r.part \in 1 .. Len(m.parts)
  /\ r.at \in {"trailed", "closed", "left open"} => r.part = Len(m.parts) /\ r.sent = WholeIn(m)
  /\ r.at = "idle" => r.sent = <<>> /\ r.part = 0
  /\ r.at = "opening" => r.chunk = 0
  /\ r.at \in {"opening", "copying"} => r.sent = CopiedIn(m, r.part, r.chunk)
  /\ r.at = "copying" => r.chunk <= Len(m.parts[r.part].chunks)
  /\ r.at = "between" => m.framed /\ r.sent = BeforeIn(m, r.part)
  /\ r.at = "trailed" => m.framed
  /\ r.at \in {"closed", "left open"} /\ LengthIn(m) # Unknown => SizeOf(r.sent) = LengthIn(m)

NoFiles(m) == \A i \in 1 .. Len(m.parts) : m.parts[i].kind # "file"
WithinLength(m, r) == NoFiles(m) /\ LengthIn(m) # Unknown => SizeOf(r.sent) <= LengthIn(m)

Fits(m, r) == r \in Progress /\ SentSoFar(m, r) /\ WithinLength(m, r)

\* The parts a write has begun, and not given up.
Begun(r) ==
  IF r.at \in {"idle", "aborted"} THEN {}
  ELSE IF r.at = "opening" THEN 1 .. (r.part - 1) ELSE 1 .. r.part

StreamsTaken ==
  /\ \A w \in Writes : \A i \in Begun(writeOf[w]) : message.parts[i].kind = "stream" => i \in consumed
  /\ \A v, w \in Writes : v # w =>
       \A i \in Begun(writeOf[v]) \cap Begun(writeOf[w]) : message.parts[i].kind # "stream"

WritesInv ==
  /\ message \in Messages
  /\ DOMAIN writeOf = Writes /\ writeOf = [w \in Writes |-> writeOf[w]]
  /\ \A w \in Writes : Fits(message, writeOf[w])
  /\ StreamsTaken

\* What a write may become, and the streams it may have taken on the way.
Becomes(w, r) ==
  /\ Fits(message, r)
  /\ writeOf' = [writeOf EXCEPT ![w] = r]
  /\ message' = message /\ consumed \subseteq consumed'
  /\ \A i \in Begun(r) : message.parts[i].kind = "stream" =>
       i \in consumed' /\ (i \in Begun(writeOf[w]) \/ i \notin consumed)

LEMMA OneWriteMoves ==
  ASSUME WritesInv, NEW w \in Writes, NEW r, Becomes(w, r)
  PROVE  WritesInv'
<1>1. /\ message' = message /\ writeOf'[w] = r /\ \A v \in Writes : v # w => writeOf'[v] = writeOf[v]
  BY DEF Becomes, WritesInv
<1>2. DOMAIN writeOf' = Writes /\ writeOf' = [v \in Writes |-> writeOf'[v]]
  BY DEF Becomes, WritesInv
<1>3. \A v \in Writes : Fits(message', writeOf'[v])
  BY <1>1 DEF Becomes, WritesInv
<1>4. StreamsTaken'
  <2> DEFINE streamed(i) == message.parts[i].kind = "stream"
             begun(v) == Begun(writeOf[v])
             begun1(v) == Begun(writeOf'[v])
  <2>1. /\ \A v \in Writes : \A i \in begun(v) : streamed(i) => i \in consumed
        /\ \A u, v \in Writes : u # v => \A i \in begun(u) \cap begun(v) : ~ streamed(i)
    BY DEF WritesInv, StreamsTaken
  <2>2. \A v \in Writes : v # w => begun1(v) = begun(v) BY <1>1
  <2>3. \A i \in begun1(w) : streamed(i) => i \in consumed' /\ (i \in begun(w) \/ i \notin consumed)
    BY <1>1 DEF Becomes
  <2>4. consumed \subseteq consumed' BY DEF Becomes
  <2>5. StreamsTaken' <=>
          /\ \A v \in Writes : \A i \in begun1(v) : streamed(i) => i \in consumed'
          /\ \A u, v \in Writes : u # v => \A i \in begun1(u) \cap begun1(v) : ~ streamed(i)
    BY <1>1 DEF StreamsTaken
  <2> HIDE DEF streamed, begun, begun1
  <2>6. \A v \in Writes : \A i \in begun1(v) : streamed(i) => i \in consumed'
    BY <2>1, <2>2, <2>3, <2>4
  <2>7. \A u, v \in Writes : u # v => \A i \in begun1(u) \cap begun1(v) : ~ streamed(i)
    <3> SUFFICES ASSUME NEW u \in Writes, NEW v \in Writes, u # v, NEW i \in begun1(u) \cap begun1(v), streamed(i)
                 PROVE  FALSE
      OBVIOUS
    <3>1. CASE u # w /\ v # w BY <2>1, <2>2, <3>1
    <3>2. CASE u = w
      <4>1. i \in begun(v) /\ i \in consumed BY <2>1, <2>2, <3>2
      <4>2. i \in begun(w) BY <2>3, <3>2, <4>1
      <4> QED BY <2>1, <3>2, <4>1, <4>2
    <3>3. CASE v = w
      <4>1. i \in begun(u) /\ i \in consumed BY <2>1, <2>2, <3>3
      <4>2. i \in begun(w) BY <2>3, <3>3, <4>1
      <4> QED BY <2>1, <3>3, <4>1, <4>2
    <3> QED BY <3>1, <3>2, <3>3
  <2> QED BY <2>5, <2>6, <2>7
<1> QED BY <1>1, <1>2, <1>3, <1>4 DEF WritesInv, Becomes

GivesUp(w) == \E why \in Failures : AbandonWrite(w, why)

LEMMA WhyGivenUp ==
  ASSUME NEW w,
         \/ AbandonWrite(w, "overrun") \/ AbandonWrite(w, "sink") \/ AbandonWrite(w, "consumed")
         \/ AbandonWrite(w, "empty chunk") \/ AbandonWrite(w, "source") \/ AbandonWrite(w, "short")
  PROVE  GivesUp(w)
BY DEF GivesUp, AbandonWrite, Failures

\* Giving up keeps everything.
LEMMA GivingUpKeeps ==
  ASSUME WritesInv, NEW w \in Writes, GivesUp(w),
         message' = message, consumed' = consumed
  PROVE  WritesInv'
<1>0. PICK why \in Failures : AbandonWrite(w, why) BY DEF GivesUp
<1> DEFINE r == [writeOf[w] EXCEPT !.at = "aborted", !.failure = why]
<1>1. writeOf[w] \in Progress /\ WithinLength(message, writeOf[w]) BY DEF WritesInv, Fits
<1>2. r \in Progress /\ r.at = "aborted" /\ r.sent = writeOf[w].sent BY <1>1 DEF Progress
<1>3. writeOf' = [writeOf EXCEPT ![w] = r] BY <1>0 DEF AbandonWrite
<1> HIDE DEF r
<1>4. Fits(message, r) BY <1>1, <1>2 DEF Fits, SentSoFar, WithinLength
<1>5. Begun(r) = {} BY <1>2 DEF Begun
<1>6. Becomes(w, r) BY <1>3, <1>4, <1>5 DEF Becomes
<1> QED BY <1>6, OneWriteMoves

\* A write into the sink: given up, or the piece is appended within the length.
LEMMA PieceEmitted ==
  ASSUME WritesInv, NEW w \in Writes, NEW piece \in PiecesSent, NEW next \in Progress,
         Emit(w, piece, next), message' = message, consumed' = consumed,
         next.sent = writeOf[w].sent,
         \A r \in Progress :
            /\ r = [next EXCEPT !.sent = Append(@, piece)]
            /\ message.framed /\ LengthIn(message) # Unknown => SizeOf(r.sent) <= LengthIn(message)
            => /\ SentSoFar(message, r) /\ WithinLength(message, r)
               /\ \A i \in Begun(r) : message.parts[i].kind = "stream" => i \in Begun(writeOf[w])
  PROVE  WritesInv'
<1>1. CASE AbandonWrite(w, "overrun") \/ AbandonWrite(w, "sink")
  <2>1. GivesUp(w) BY <1>1, WhyGivenUp
  <2> QED BY <2>1, GivingUpKeeps
<1>2. CASE /\ ~ Overruns(w, piece.size)
           /\ writeOf' = [writeOf EXCEPT ![w] = [next EXCEPT !.sent = Append(@, piece)]]
  <2> DEFINE r == [next EXCEPT !.sent = Append(@, piece)]
  <2>0. message \in Messages BY DEF WritesInv
  <2>1. next.sent \in Seq(PiecesSent) BY DEF Progress
  <2>2. SizeOf(Append(next.sent, piece)) = SizeOf(next.sent) + piece.size
        /\ Append(next.sent, piece) \in Seq(PiecesSent)
    BY <2>1, SizeNext
  <2>3. r \in Progress /\ r.sent = Append(next.sent, piece) BY <2>2 DEF Progress
  <2>4. SizeOf(next.sent) \in Nat /\ piece.size \in Nat BY <2>1, SizeNat DEF PiecesSent
  <2>5. ContentLength = LengthIn(message) /\ (LengthIn(message) = Unknown \/ LengthIn(message) \in Nat)
    BY <2>0, OfTheMessage, LengthIs
  <2>6. ASSUME message.framed, LengthIn(message) # Unknown PROVE SizeOf(r.sent) <= LengthIn(message)
    <3>1. ~ (SizeOf(next.sent) + piece.size > LengthIn(message)) BY <1>2, <2>5, <2>6 DEF Overruns
    <3>2. LengthIn(message) \in Nat BY <2>5, <2>6
    <3> HIDE DEF r
    <3> QED BY <2>2, <2>3, <2>4, <3>1, <3>2
  <2>7. /\ SentSoFar(message, r) /\ WithinLength(message, r)
        /\ \A i \in Begun(r) : message.parts[i].kind = "stream" => i \in Begun(writeOf[w])
    BY <2>3, <2>6
  <2>8. writeOf' = [writeOf EXCEPT ![w] = r] BY <1>2
  <2> HIDE DEF r
  <2>9. \A i \in Begun(writeOf[w]) : message.parts[i].kind = "stream" => i \in consumed'
    BY DEF WritesInv, StreamsTaken
  <2>10. Becomes(w, r) BY <2>3, <2>7, <2>8, <2>9 DEF Becomes, Fits
  <2> QED BY <2>10, OneWriteMoves
<1> QED BY <1>1, <1>2 DEF Emit

LEMMA WritesStartWhole == WritesInit => WritesInv
<1> SUFFICES ASSUME NEW parts \in SeqOf(SimpleParts, MaxParts) \ {<<>>}, NEW framed \in BOOLEAN,
                    framed \/ Len(parts) = 1, WritesStart(parts, framed)
             PROVE  WritesInv
  BY DEF WritesInit
<1>1. parts \in Seq(SimpleParts)
  BY DEF SeqOf
<1>2. Len(parts) # 0 BY <1>1, EmptySeq
<1>3. message \in Messages BY <1>1, <1>2 DEF Messages, WritesStart
<1>4. \A w \in Writes : writeOf[w] = NotBegun BY DEF WritesStart
<1>5. NotBegun \in Progress /\ NotBegun.at = "idle" /\ NotBegun.sent = <<>> /\ NotBegun.part = 0
  <2> DEFINE z == 0
             e == <<>>
  <2>1. NotBegun = IdleWrite(z, e)
    BY DEF NotBegun, IdleWrite
  <2>2. z \in Nat /\ e \in Seq(PiecesSent) BY EmptySeq
  <2> HIDE DEF z, e
  <2>3. /\ NotBegun \in Progress /\ NotBegun.at = "idle" /\ NotBegun.part = z /\ NotBegun.sent = e
    BY <2>1, <2>2, IdleWriteIs
  <2> QED BY <2>3 DEF z, e
<1>6. Fits(message, NotBegun)
  <2>1. SentSoFar(message, NotBegun) BY <1>5 DEF SentSoFar
  <2>2. WithinLength(message, NotBegun) BY <1>3, <1>5, SizeEmpty, LengthIs DEF WithinLength
  <2> QED BY <1>5, <2>1, <2>2 DEF Fits
<1>7. Begun(NotBegun) = {} BY <1>5 DEF Begun
<1>8. StreamsTaken BY <1>4, <1>7 DEF StreamsTaken
<1>9. DOMAIN writeOf = Writes /\ writeOf = [w \in Writes |-> writeOf[w]] BY DEF WritesStart
<1> QED BY <1>3, <1>4, <1>6, <1>8, <1>9 DEF WritesInv

\* The part a write is to enter next, after the frame if there is one.
LEMMA EnteredPart ==
  ASSUME WritesInv, NEW w \in Writes, writeOf[w].at \in {"idle", "between"},
         writeOf[w].part + 1 <= Len(message.parts)
  PROVE  /\ EnterPart(w) \in Progress
         /\ EnterPart(w).at = "opening" /\ EnterPart(w).part = writeOf[w].part + 1
         /\ EnterPart(w).chunk = 0 /\ EnterPart(w).sent = writeOf[w].sent
         /\ Begun(EnterPart(w)) = Begun(writeOf[w])
         /\ writeOf[w].part + 1 \in 1 .. Len(message.parts) /\ writeOf[w].part \in Nat
<1>1. writeOf[w] \in Progress /\ SentSoFar(message, writeOf[w]) BY DEF WritesInv, Fits
<1>2. writeOf[w].part \in Nat BY <1>1 DEF Progress
<1>3. /\ EnterPart(w) \in Progress
      /\ EnterPart(w).at = "opening" /\ EnterPart(w).part = writeOf[w].part + 1
      /\ EnterPart(w).chunk = 0 /\ EnterPart(w).sent = writeOf[w].sent
  <2> DEFINE p == writeOf[w].part + 1
             z == 0
             q == writeOf[w]
  <2>1. EnterPart(w) = Entering(q, p, z) BY DEF EnterPart, Entering
  <2>2. p \in Nat /\ z \in Nat /\ q \in Progress BY <1>1, <1>2
  <2> HIDE DEF z, p, q
  <2>3. /\ EnterPart(w) \in Progress
        /\ EnterPart(w).at = "opening" /\ EnterPart(w).part = p
        /\ EnterPart(w).chunk = z /\ EnterPart(w).sent = q.sent
    <3>1. /\ Entering(q, p, z) \in Progress
          /\ Entering(q, p, z).at = "opening" /\ Entering(q, p, z).part = p
          /\ Entering(q, p, z).chunk = z /\ Entering(q, p, z).sent = q.sent
      BY <2>2, EnteringIs
    <3> QED BY <2>1, <3>1
  <2> QED BY <2>3 DEF p, z, q
<1>4. Len(message.parts) \in Nat BY LenProperties DEF WritesInv, Messages
<1>5. writeOf[w].at = "idle" => writeOf[w].part = 0 BY <1>1 DEF SentSoFar
<1>6. EnterPart(w).part - 1 = writeOf[w].part BY <1>2, <1>3
<1>7. Begun(EnterPart(w)) = 1 .. writeOf[w].part BY <1>3, <1>6 DEF Begun
<1>8. Begun(writeOf[w]) = 1 .. writeOf[w].part
  <2>1. CASE writeOf[w].at = "idle" BY <1>5, <2>1 DEF Begun
  <2>2. CASE writeOf[w].at = "between" BY <2>2 DEF Begun
  <2> QED BY <2>1, <2>2
<1> QED BY <1>2, <1>3, <1>4, <1>7, <1>8

LEMMA EnteredWithFrame ==
  ASSUME WritesInv, NEW w \in Writes, writeOf[w].at \in {"idle", "between"},
         writeOf[w].part + 1 <= Len(message.parts), message.framed,
         Emit(w, Frame, EnterPart(w)), message' = message, consumed' = consumed
  PROVE  WritesInv'
<1> DEFINE next == EnterPart(w)
           n == writeOf[w].part
<1>1. /\ next \in Progress /\ next.at = "opening" /\ next.part = n + 1
      /\ next.chunk = 0 /\ next.sent = writeOf[w].sent
      /\ Begun(next) = Begun(writeOf[w])
      /\ n + 1 \in 1 .. Len(message.parts) /\ n \in Nat
  BY EnteredPart
<1>2. message \in Messages /\ SentSoFar(message, writeOf[w]) BY DEF WritesInv, Fits
<1>3. writeOf[w].sent = BeforeIn(message, n)
  <2>1. CASE writeOf[w].at = "idle"
    <3>1. writeOf[w].sent = <<>> /\ n = 0 BY <1>2, <2>1 DEF SentSoFar
    <3> QED BY <3>1, BeforeNone
  <2>2. CASE writeOf[w].at = "between" BY <1>2, <2>2 DEF SentSoFar
  <2> QED BY <2>1, <2>2
<1> HIDE DEF next, n
<1>4. Append(BeforeIn(message, n), Frame) = CopiedIn(message, n + 1, 0) BY <1>1, <1>2, NextOpened
<1>5. ASSUME NEW r \in Progress, r = [next EXCEPT !.sent = Append(@, Frame)],
             message.framed /\ LengthIn(message) # Unknown => SizeOf(r.sent) <= LengthIn(message)
      PROVE  /\ SentSoFar(message, r) /\ WithinLength(message, r)
             /\ \A i \in Begun(r) : message.parts[i].kind = "stream" => i \in Begun(writeOf[w])
  <2>1. r.at = "opening" /\ r.part = n + 1 /\ r.chunk = 0 /\ r.sent = Append(next.sent, Frame)
    BY <1>1, <1>5 DEF Progress
  <2>2. r.sent = CopiedIn(message, r.part, r.chunk) BY <1>1, <1>3, <1>4, <2>1
  <2>3. SentSoFar(message, r) BY <1>1, <2>1, <2>2 DEF SentSoFar
  <2>4. WithinLength(message, r) BY <1>5 DEF WithinLength
  <2>5. Begun(r) = Begun(next) BY <1>1, <2>1 DEF Begun
  <2> QED BY <1>1, <2>3, <2>4, <2>5
<1>6. Emit(w, Frame, next) BY DEF next
<1> QED BY <1>1, <1>5, <1>6, FrameIs, PieceEmitted

LEMMA BeginKeeps ==
  ASSUME WritesInv, NEW w \in Writes, Begin(w)
  PROVE  WritesInv'
<1>1. /\ writeOf[w].at = "idle" /\ message' = message /\ consumed' = consumed
      /\ message \in Messages /\ Fits(message, writeOf[w])
  BY DEF Begin, WritesInv
<1>2. writeOf[w].part = 0 /\ writeOf[w].sent = <<>> BY <1>1 DEF Fits, SentSoFar
<1>3. 1 \in 1 .. Len(message.parts) /\ Len(message.parts) \in Nat BY <1>1, LengthIs, LenProperties DEF Messages
<1>4. writeOf[w].part + 1 <= Len(message.parts) BY <1>2, <1>3
<1>5. CASE message.framed
  <2>1. Emit(w, Frame, EnterPart(w)) BY <1>5 DEF Begin
  <2> QED BY <1>1, <1>4, <1>5, <2>1, EnteredWithFrame
<1>6. CASE ~ message.framed
  <2> DEFINE r == EnterPart(w)
  <2>1. /\ r \in Progress /\ r.at = "opening" /\ r.part = 1
        /\ r.chunk = 0 /\ r.sent = <<>> /\ Begun(r) = Begun(writeOf[w])
    BY <1>1, <1>2, <1>4, EnteredPart
  <2>2. writeOf' = [writeOf EXCEPT ![w] = r] BY <1>6 DEF Begin
  <2> HIDE DEF r
  <2>3. CopiedIn(message, 1, 0) = <<>> BY <1>1, <1>6, FirstOpened DEF FramingIn
  <2>4. SentSoFar(message, r) BY <1>3, <2>1, <2>3 DEF SentSoFar
  <2>5. WithinLength(message, r) BY <1>1, <1>2, <2>1 DEF WithinLength, Fits
  <2>6. \A i \in Begun(writeOf[w]) : message.parts[i].kind = "stream" => i \in consumed'
    BY <1>1 DEF WritesInv, StreamsTaken
  <2>7. Becomes(w, r) BY <1>1, <2>1, <2>2, <2>4, <2>5, <2>6 DEF Becomes, Fits
  <2> QED BY <2>7, OneWriteMoves
<1> QED BY <1>5, <1>6

\* Only where a write is changes: what it sent stays.
LEMMA PlaceMoves ==
  ASSUME WritesInv, NEW w \in Writes, NEW r \in Progress, r.sent = writeOf[w].sent,
         SentSoFar(message, r), writeOf' = [writeOf EXCEPT ![w] = r],
         message' = message, consumed \subseteq consumed',
         \A i \in Begun(r) : message.parts[i].kind = "stream" =>
            i \in consumed' /\ (i \in Begun(writeOf[w]) \/ i \notin consumed)
  PROVE  WritesInv'
<1>1. WithinLength(message, r) BY DEF WritesInv, Fits, WithinLength
<1>2. Becomes(w, r) BY <1>1 DEF Becomes, Fits
<1> QED BY <1>2, OneWriteMoves

LEMMA OpenPartKeeps ==
  ASSUME WritesInv, NEW w \in Writes, OpenPart(w)
  PROVE  WritesInv'
<1> DEFINE q == writeOf[w]
           r == [q EXCEPT !.at = "copying"]
           kind == message.parts[q.part].kind
<1>1. /\ q.at = "opening" /\ message' = message /\ message \in Messages
      /\ q \in Progress /\ SentSoFar(message, q)
  BY DEF OpenPart, WritesInv, Fits
<1>2. CASE AbandonWrite(w, "consumed") /\ UNCHANGED consumed
  <2>1. GivesUp(w) BY <1>2, WhyGivenUp
  <2> QED BY <1>1, <1>2, <2>1, GivingUpKeeps
<1>3. CASE /\ writeOf' = [writeOf EXCEPT ![w] = r] /\ consumed \subseteq consumed'
           /\ kind = "stream" => q.part \in consumed' /\ q.part \notin consumed
  <2>1. /\ r \in Progress /\ r.at = "copying" /\ r.part = q.part /\ r.chunk = q.chunk
        /\ r.sent = q.sent
    BY <1>1 DEF Progress
  <2>2. /\ q.part \in 1 .. Len(message.parts) /\ q.chunk = 0
        /\ q.sent = CopiedIn(message, q.part, q.chunk)
    BY <1>1 DEF SentSoFar
  <2>3. Len(message.parts[q.part].chunks) \in Nat /\ Len(message.parts) \in Nat BY <1>1, <2>2, PartsAre
  <2>4. Begun(r) = 1 .. q.part /\ Begun(q) = 1 .. (q.part - 1) BY <1>1, <2>1 DEF Begun
  <2>5. \A i \in 1 .. q.part : i \in 1 .. (q.part - 1) \/ i = q.part BY <2>2, <2>3
  <2>6. \A i \in Begun(q) : message.parts[i].kind = "stream" => i \in consumed
    BY DEF WritesInv, StreamsTaken
  <2>7. writeOf' = [writeOf EXCEPT ![w] = r] BY <1>3
  <2>8. kind = message.parts[q.part].kind OBVIOUS
  <2> HIDE DEF r, kind
  <2>9. SentSoFar(message, r)
    <3>1. r.chunk <= Len(message.parts[r.part].chunks)
      <4> DEFINE l == Len(message.parts[q.part].chunks)
      <4>1. l \in Nat /\ r.chunk = 0 BY <2>1, <2>2, <2>3
      <4> HIDE DEF l
      <4>2. r.chunk <= l BY <4>1
      <4> QED BY <2>1, <4>2 DEF l
    <3>2. r.sent = CopiedIn(message, r.part, r.chunk) BY <2>1, <2>2
    <3> QED BY <2>1, <2>2, <3>1, <3>2 DEF SentSoFar
  <2>10. \A i \in Begun(r) : message.parts[i].kind = "stream" =>
            i \in consumed' /\ (i \in Begun(q) \/ i \notin consumed)
    <3> TAKE i \in Begun(r)
    <3> HAVE message.parts[i].kind = "stream"
    <3>1. CASE i \in Begun(q) BY <1>3, <2>6, <3>1
    <3>2. CASE i = q.part BY <1>3, <2>8, <3>2
    <3> QED BY <2>4, <2>5, <3>1, <3>2
  <2>11. consumed \subseteq consumed' BY <1>3
  <2> QED BY <1>1, <2>1, <2>7, <2>9, <2>10, <2>11, PlaceMoves
<1>4. \/ AbandonWrite(w, "consumed") /\ UNCHANGED consumed
      \/ /\ writeOf' = [writeOf EXCEPT ![w] = r] /\ consumed \subseteq consumed'
         /\ kind = "stream" => q.part \in consumed' /\ q.part \notin consumed
  <2>1. CASE PartOf(w).kind # "stream" BY <2>1 DEF OpenPart, PartOf
  <2>2. CASE PartOf(w).kind = "stream" /\ q.part \in consumed BY <2>2 DEF OpenPart
  <2>3. CASE PartOf(w).kind = "stream" /\ q.part \notin consumed BY <2>3 DEF OpenPart
  <2> QED BY <2>1, <2>2, <2>3
<1> QED BY <1>2, <1>3, <1>4

\* A body that is not framed: everything sent is of its one part.
LEMMA SentIsOfPart ==
  ASSUME WritesInv, NEW w \in Writes, writeOf[w].at = "copying", ~ message.framed
  PROVE  /\ writeOf[w].part = 1 /\ SentOfPart(w) = SizeOf(writeOf[w].sent)
         /\ LengthIn(message) = message.parts[1].declared
         /\ SizeOf(writeOf[w].sent) \in Nat
         /\ writeOf[w].chunk = 0 => SizeOf(writeOf[w].sent) = 0
<1> DEFINE q == writeOf[w]
<1>1. message \in Messages /\ SentSoFar(message, q) /\ q \in Progress BY DEF WritesInv, Fits
<1>2. Len(message.parts) = 1 /\ LengthIn(message) = message.parts[1].declared /\ 1 \in 1 .. Len(message.parts)
  BY <1>1, UnframedWhole, LengthIs
<1>3. q.part = 1 /\ q.sent = CopiedIn(message, q.part, q.chunk) /\ q.chunk <= Len(message.parts[q.part].chunks)
  BY <1>1, <1>2 DEF SentSoFar
<1>4. q.chunk \in Nat /\ q.sent \in Seq(PiecesSent) BY <1>1 DEF Progress
<1>5. q.sent = ChunksIn(message, 1, q.chunk) BY <1>1, <1>3, <1>4, UnframedWhole
<1>6. \A i \in DOMAIN q.sent : q.sent[i].part = 1
  <2> DEFINE n == q.chunk
  <2>1. DOMAIN q.sent = 1 .. n /\ q.sent = ChunksIn(message, 1, n) BY <1>5 DEF ChunksIn
  <2>2. n \in Nat /\ n <= Len(message.parts[1].chunks) BY <1>3, <1>4
  <2> HIDE DEF n
  <2>3. \A i \in 1 .. n : ChunksIn(message, 1, n)[i] = PieceIn(message, 1, i)
    BY <1>1, <1>2, <2>2, ChunksAre
  <2>4. \A i : PieceIn(message, 1, i).part = 1 BY DEF PieceIn
  <2> QED BY <2>1, <2>3, <2>4
<1>7. SentOfPart(w) = Total([i \in DOMAIN q.sent |-> IF q.sent[i].part = q.part THEN q.sent[i].size ELSE 0])
  BY DEF SentOfPart
<1>8. SizeOf(q.sent) \in Nat BY <1>4, SizeNat
<1>9. q.chunk = 0 => SizeOf(q.sent) = 0
  <2> HAVE q.chunk = 0
  <2>1. q.sent = <<>>
    <3>1. CopiedIn(message, 1, 0) = <<>> BY <1>1, FirstOpened DEF FramingIn
    <3> QED BY <1>3, <3>1
  <2> QED BY <2>1, SizeEmpty
<1> HIDE DEF q
<1>10. SentOfPart(w) = SizeOf(q.sent)
  <2> DEFINE s == q.sent
             p == q.part
  <2>1. \A i \in DOMAIN s : s[i].part = p BY <1>3, <1>6
  <2>2. SentOfPart(w) = Total([i \in DOMAIN s |-> IF s[i].part = p THEN s[i].size ELSE 0]) BY <1>7
  <2> HIDE DEF s, p
  <2>3. Total([i \in DOMAIN s |-> IF s[i].part = p THEN s[i].size ELSE 0]) = SizeOf(s) BY <2>1, OnlyPart
  <2> QED BY <2>2, <2>3 DEF s
<1> QED BY <1>2, <1>3, <1>8, <1>9, <1>10 DEF q

LEMMA CopyChunkKeeps ==
  ASSUME WritesInv, NEW w \in Writes, CopyChunk(w)
  PROVE  WritesInv'
<1> DEFINE q == writeOf[w]
           k == q.chunk + 1
           size == PartOf(w).chunks[k]
           next == [q EXCEPT !.chunk = k]
           part == message.parts[q.part]
<1>1. /\ q.at = "copying" /\ k \in DOMAIN part.chunks /\ message' = message /\ consumed' = consumed
      /\ message \in Messages /\ q \in Progress /\ SentSoFar(message, q)
  BY DEF CopyChunk, WritesInv, Fits, PartOf
<1>2. /\ q.part \in 1 .. Len(message.parts) /\ q.sent = CopiedIn(message, q.part, q.chunk)
      /\ q.chunk \in Nat /\ k \in Nat
  <2>1. q.chunk \in Nat BY <1>1 DEF Progress
  <2>2. k \in Nat BY <2>1
  <2> QED BY <1>1, <2>1, <2>2 DEF SentSoFar
<1>3. part \in SimpleParts /\ part.chunks \in Seq(Nat) /\ Len(part.chunks) \in Nat BY <1>1, <1>2, PartsAre
<1>4. k <= Len(part.chunks) BY <1>1, <1>2, <1>3, LenProperties
<1>5. CASE \/ AbandonWrite(w, "empty chunk") \/ AbandonWrite(w, "overrun")
  <2>1. GivesUp(w) BY <1>5, WhyGivenUp
  <2> QED BY <1>1, <2>1, GivingUpKeeps
<1>6. CASE /\ ~ (Exact(w) /\ SentOfPart(w) + size > part.declared)
           /\ Emit(w, Piece(q.part, k), next)
  <2> DEFINE piece == PieceIn(message, q.part, k)
  <2>1. Piece(q.part, k) = piece BY <1>1, OfTheMessage
  <2>2. /\ Append(q.sent, piece) = CopiedIn(message, q.part, k) /\ piece \in PiecesSent
    BY <1>1, <1>2, <1>4, CopiedNext
  <2>3. piece.size = size BY DEF PieceIn, PartOf
  <2>4. next \in Progress /\ next.at = "copying" /\ next.part = q.part /\ next.chunk = k /\ next.sent = q.sent
    BY <1>1, <1>2 DEF Progress
  <2>5. Emit(w, piece, next) BY <1>6, <2>1
  <2>6. size = part.chunks[k] BY DEF PartOf
  <2>7. part = message.parts[q.part] OBVIOUS
  <2> HIDE DEF next, piece, size, part
  <2>8. ASSUME NEW r \in Progress, r = [next EXCEPT !.sent = Append(@, piece)],
               message.framed /\ LengthIn(message) # Unknown => SizeOf(r.sent) <= LengthIn(message)
        PROVE  /\ SentSoFar(message, r) /\ WithinLength(message, r)
               /\ \A i \in Begun(r) : message.parts[i].kind = "stream" => i \in Begun(q)
    <3>1. r.at = "copying" /\ r.part = q.part /\ r.chunk = k /\ r.sent = Append(q.sent, piece)
      BY <2>4, <2>8 DEF Progress
    <3>2. r.sent = CopiedIn(message, r.part, r.chunk) BY <2>2, <3>1
    <3>3. r.chunk <= Len(message.parts[r.part].chunks) BY <1>4, <2>7, <3>1
    <3>4. SentSoFar(message, r)
      <4> HIDE DEF k, q
      <4> QED BY <1>2, <3>1, <3>2, <3>3 DEF SentSoFar
    <3>5. Begun(r) = Begun(q) BY <1>1, <3>1 DEF Begun
    <3>6. WithinLength(message, r)
      <4>1. CASE message.framed BY <2>8, <4>1 DEF WithinLength
      <4>2. CASE ~ message.framed
        <5> SUFFICES ASSUME NoFiles(message), LengthIn(message) # Unknown
                     PROVE  SizeOf(r.sent) <= LengthIn(message)
          BY DEF WithinLength
        <5>1. /\ q.part = 1 /\ SentOfPart(w) = SizeOf(q.sent)
              /\ LengthIn(message) = message.parts[1].declared
              /\ SizeOf(q.sent) \in Nat
              /\ q.chunk = 0 => SizeOf(q.sent) = 0
          BY <1>1, <4>2, SentIsOfPart
        <5>2. SizeOf(r.sent) = SizeOf(q.sent) + size
          <6>1. q.sent \in Seq(PiecesSent) BY <1>1 DEF Progress
          <6>2. SizeOf(Append(q.sent, piece)) = SizeOf(q.sent) + piece.size BY <2>2, <6>1, SizeNext
          <6> QED BY <2>3, <3>1, <6>2
        <5>3. part.kind # "file" BY <1>2, <2>7 DEF NoFiles
        <5>4. part.declared \in Nat /\ LengthIn(message) = part.declared
          BY <1>3, <2>7, <5>1, Declared
        <5>5. size \in Nat BY <1>1, <1>3, <2>6, ElementOfSeq, LenProperties
        <5>6. CASE part.kind = "stream"
          <6>1. Exact(w) BY <2>7, <5>4, <5>6 DEF Exact, PartOf, Unknown
          <6>2. ~ (SizeOf(q.sent) + size > part.declared) BY <1>6, <5>1, <6>1 DEF part, size
          <6> QED BY <5>1, <5>2, <5>4, <5>5, <6>2
        <5>7. CASE part.kind = "bytes"
          <6>1. Len(part.chunks) <= 1 BY <1>3, <5>7, Declared
          <6>2. k = 1 /\ q.chunk = 0 /\ Len(part.chunks) = 1
            <7> DEFINE n == q.chunk
                       l == Len(part.chunks)
            <7>1. n \in Nat /\ l \in Nat /\ n + 1 <= l /\ l <= 1 BY <1>2, <1>3, <1>4, <6>1
            <7> HIDE DEF n, l
            <7>2. n = 0 /\ l = 1 BY <7>1
            <7> QED BY <7>2 DEF n, l
          <6>3. part.declared = part.chunks[1] BY <1>3, <5>7, <6>2, Declared
          <6>4. SizeOf(q.sent) = 0 /\ size = part.declared BY <2>6, <5>1, <6>2, <6>3
          <6> QED BY <5>2, <5>4, <5>5, <6>4
        <5>8. part.kind \in {"bytes", "stream", "file"} BY <1>3, Declared
        <5> QED BY <5>3, <5>6, <5>7, <5>8
      <4> QED BY <4>1, <4>2
    <3> QED BY <3>4, <3>5, <3>6
  <2> HIDE DEF k
  <2> QED BY <1>1, <2>2, <2>4, <2>5, <2>8, PieceEmitted
<1>7. \/ AbandonWrite(w, "empty chunk") \/ AbandonWrite(w, "overrun")
      \/ /\ ~ (Exact(w) /\ SentOfPart(w) + size > part.declared)
         /\ Emit(w, Piece(q.part, k), next)
  <2>1. CASE Exact(w) /\ size = 0 BY <2>1 DEF CopyChunk
  <2>2. CASE ~ (Exact(w) /\ size = 0) /\ Exact(w) /\ SentOfPart(w) + size > PartOf(w).declared
    BY <2>2 DEF CopyChunk
  <2>3. CASE ~ (Exact(w) /\ size = 0) /\ ~ (Exact(w) /\ SentOfPart(w) + size > PartOf(w).declared)
    <3>1. Emit(w, Piece(q.part, k), next) BY <2>3 DEF CopyChunk
    <3>2. PartOf(w) = part BY DEF PartOf
    <3> QED BY <2>3, <3>1, <3>2
  <2> QED BY <2>1, <2>2, <2>3
<1> QED BY <1>5, <1>6, <1>7

LEMMA SourceFailsKeeps ==
  ASSUME WritesInv, NEW w \in Writes, SourceFails(w)
  PROVE  WritesInv'
<1>1. GivesUp(w) BY WhyGivenUp DEF SourceFails
<1>2. message' = message /\ consumed' = consumed BY DEF SourceFails
<1> QED BY <1>1, <1>2, GivingUpKeeps

LEMMA EndPartKeeps ==
  ASSUME WritesInv, NEW w \in Writes, EndPart(w)
  PROVE  WritesInv'
<1> DEFINE q == writeOf[w]
           part == message.parts[q.part]
           next == [q EXCEPT !.at = "between"]
           over == IF PartOf(w).kind = "file" THEN "left open" ELSE "closed"
           done == [q EXCEPT !.at = over]
<1>1. /\ q.at = "copying" /\ q.chunk = Len(part.chunks) /\ message' = message /\ consumed' = consumed
      /\ message \in Messages /\ q \in Progress /\ SentSoFar(message, q)
  BY DEF EndPart, WritesInv, Fits, PartOf
<1>2. q.part \in 1 .. Len(message.parts) /\ q.sent = CopiedIn(message, q.part, q.chunk)
  BY <1>1 DEF SentSoFar
<1>3. PartOf(w) = part BY DEF PartOf
<1>4. CASE AbandonWrite(w, "short")
  <2>1. GivesUp(w) BY <1>4, WhyGivenUp
  <2> QED BY <1>1, <2>1, GivingUpKeeps
<1>5. CASE message.framed /\ Emit(w, Frame, next)
  <2>1. next \in Progress /\ next.at = "between" /\ next.part = q.part /\ next.sent = q.sent
    BY <1>1 DEF Progress
  <2>2. Append(q.sent, Frame) = BeforeIn(message, q.part) BY <1>1, <1>2, <1>5, PartDone
  <2> HIDE DEF next
  <2>3. ASSUME NEW r \in Progress, r = [next EXCEPT !.sent = Append(@, Frame)],
               message.framed /\ LengthIn(message) # Unknown => SizeOf(r.sent) <= LengthIn(message)
        PROVE  /\ SentSoFar(message, r) /\ WithinLength(message, r)
               /\ \A i \in Begun(r) : message.parts[i].kind = "stream" => i \in Begun(q)
    <3>1. r.at = "between" /\ r.part = q.part /\ r.sent = Append(q.sent, Frame)
      BY <2>1, <2>3 DEF Progress
    <3>2. SentSoFar(message, r)
      <4> HIDE DEF q
      <4> QED BY <1>2, <1>5, <2>2, <3>1 DEF SentSoFar
    <3>3. WithinLength(message, r) BY <1>5, <2>3 DEF WithinLength
    <3>4. Begun(r) = Begun(q) BY <1>1, <3>1 DEF Begun
    <3> QED BY <3>2, <3>3, <3>4
  <2> QED BY <1>1, <1>5, <2>1, <2>3, FrameIs, PieceEmitted
<1>6. CASE /\ ~ message.framed /\ writeOf' = [writeOf EXCEPT ![w] = done]
           /\ ~ (part.declared # Unknown /\ SentOfPart(w) # part.declared)
  <2>1. over \in {"left open", "closed"} OBVIOUS
  <2>2. done \in Progress /\ done.at = over /\ done.part = q.part /\ done.sent = q.sent
    <3> HIDE DEF over, q
    <3> QED BY <1>1, <2>1 DEF Progress
  <2>3. /\ q.part = 1 /\ SentOfPart(w) = SizeOf(q.sent) /\ LengthIn(message) = message.parts[1].declared
    BY <1>1, <1>6, SentIsOfPart
  <2>4. q.sent = WholeIn(message) /\ q.part = Len(message.parts)
    BY <1>1, <1>2, <1>6, <2>3, UnframedWhole
  <2>5. LengthIn(message) # Unknown => SizeOf(q.sent) = LengthIn(message)
    BY <1>6, <2>3
  <2>6. writeOf' = [writeOf EXCEPT ![w] = done] BY <1>6
  <2>7. Begun(q) = 1 .. q.part BY <1>1 DEF Begun
  <2>8. \A i \in Begun(q) : message.parts[i].kind = "stream" => i \in consumed
    BY DEF WritesInv, StreamsTaken
  <2> HIDE DEF done, over, part
  <2>9. SentSoFar(message, done)
    <3> HIDE DEF q
    <3> QED BY <2>1, <2>2, <2>4, <2>5 DEF SentSoFar
  <2>10. Begun(done) = Begun(q)
    <3>1. Begun(done) = 1 .. done.part BY <2>1, <2>2 DEF Begun
    <3> QED BY <2>2, <2>7, <3>1
  <2> QED BY <1>1, <2>2, <2>6, <2>8, <2>9, <2>10, PlaceMoves
<1>7. \/ AbandonWrite(w, "short")
      \/ message.framed /\ Emit(w, Frame, next)
      \/ /\ ~ message.framed /\ writeOf' = [writeOf EXCEPT ![w] = done]
         /\ ~ (part.declared # Unknown /\ SentOfPart(w) # part.declared)
  <2>1. CASE part.declared # Unknown /\ SentOfPart(w) # part.declared BY <1>3, <2>1 DEF EndPart
  <2>2. CASE ~ (part.declared # Unknown /\ SentOfPart(w) # part.declared) /\ message.framed
    BY <1>3, <2>2 DEF EndPart
  <2>3. CASE ~ (part.declared # Unknown /\ SentOfPart(w) # part.declared) /\ ~ message.framed
    <3>1. writeOf' = [writeOf EXCEPT ![w] = done] BY <1>3, <2>3 DEF EndPart
    <3> QED BY <2>3, <3>1
  <2> QED BY <2>1, <2>2, <2>3
<1> QED BY <1>4, <1>5, <1>6, <1>7

LEMMA NextPartKeeps ==
  ASSUME WritesInv, NEW w \in Writes, NextPart(w)
  PROVE  WritesInv'
<1> DEFINE q == writeOf[w]
           next == [q EXCEPT !.at = "trailed"]
<1>1. /\ q.at = "between" /\ message' = message /\ consumed' = consumed
      /\ message \in Messages /\ q \in Progress /\ SentSoFar(message, q)
  BY DEF NextPart, WritesInv, Fits
<1>2. message.framed /\ q.sent = BeforeIn(message, q.part) /\ q.part \in 1 .. Len(message.parts)
      /\ Len(message.parts) \in Nat /\ q.part \in Nat
  BY <1>1, LenProperties DEF SentSoFar, Messages, Progress
<1>3. CASE q.part < Len(message.parts)
  <2>1. q.part + 1 <= Len(message.parts)
    <3> HIDE DEF q
    <3> QED BY <1>2, <1>3
  <2>2. Emit(w, Frame, EnterPart(w)) BY <1>3 DEF NextPart
  <2> QED BY <1>1, <1>2, <2>1, <2>2, EnteredWithFrame
<1>4. CASE ~ (q.part < Len(message.parts))
  <2>1. q.part = Len(message.parts)
    <3> HIDE DEF q
    <3> QED BY <1>2, <1>4
  <2>2. Emit(w, Frame, next) BY <1>4 DEF NextPart
  <2>3. next \in Progress /\ next.at = "trailed" /\ next.part = q.part /\ next.sent = q.sent
    BY <1>1 DEF Progress
  <2>4. Append(q.sent, Frame) = WholeIn(message) BY <1>1, <1>2, <2>1, TrailerDone
  <2> HIDE DEF next
  <2>5. ASSUME NEW r \in Progress, r = [next EXCEPT !.sent = Append(@, Frame)],
               message.framed /\ LengthIn(message) # Unknown => SizeOf(r.sent) <= LengthIn(message)
        PROVE  /\ SentSoFar(message, r) /\ WithinLength(message, r)
               /\ \A i \in Begun(r) : message.parts[i].kind = "stream" => i \in Begun(q)
    <3>1. r.at = "trailed" /\ r.part = q.part /\ r.sent = Append(q.sent, Frame)
      BY <2>3, <2>5 DEF Progress
    <3>2. SentSoFar(message, r)
      <4> HIDE DEF q
      <4> QED BY <1>2, <2>1, <2>4, <3>1 DEF SentSoFar
    <3>3. WithinLength(message, r) BY <1>2, <2>5 DEF WithinLength
    <3>4. Begun(r) = Begun(q) BY <1>1, <3>1 DEF Begun
    <3> QED BY <3>2, <3>3, <3>4
  <2> QED BY <1>1, <1>2, <2>2, <2>3, <2>5, FrameIs, PieceEmitted
<1> QED BY <1>3, <1>4

LEMMA CloseMultipartKeeps ==
  ASSUME WritesInv, NEW w \in Writes, CloseMultipart(w)
  PROVE  WritesInv'
<1> DEFINE q == writeOf[w]
           done == [q EXCEPT !.at = "closed"]
<1>1. /\ q.at = "trailed" /\ message' = message /\ consumed' = consumed
      /\ message \in Messages /\ q \in Progress /\ SentSoFar(message, q)
  BY DEF CloseMultipart, WritesInv, Fits
<1>2. q.part = Len(message.parts) /\ q.sent = WholeIn(message) BY <1>1 DEF SentSoFar
<1>3. ContentLength = LengthIn(message) BY <1>1, OfTheMessage
<1>4. CASE AbandonWrite(w, "short")
  <2>1. GivesUp(w) BY <1>4, WhyGivenUp
  <2> QED BY <1>1, <2>1, GivingUpKeeps
<1>5. CASE /\ LengthIn(message) # Unknown => SizeOf(q.sent) = LengthIn(message)
           /\ writeOf' = [writeOf EXCEPT ![w] = done]
  <2>1. done \in Progress /\ done.at = "closed" /\ done.part = q.part /\ done.sent = q.sent
    BY <1>1 DEF Progress
  <2>2. writeOf' = [writeOf EXCEPT ![w] = done] BY <1>5
  <2> HIDE DEF done
  <2>3. SentSoFar(message, done)
    <3> HIDE DEF q
    <3> QED BY <1>2, <1>5, <2>1 DEF SentSoFar
  <2>4. Begun(done) = Begun(q) BY <1>1, <2>1 DEF Begun
  <2>5. \A i \in Begun(q) : message.parts[i].kind = "stream" => i \in consumed
    BY DEF WritesInv, StreamsTaken
  <2> QED BY <1>1, <2>1, <2>2, <2>3, <2>4, <2>5, PlaceMoves
<1>6. CASE ContentLength # Unknown /\ SizeOf(q.sent) # ContentLength
  BY <1>4, <1>6 DEF CloseMultipart
<1>7. CASE ~ (ContentLength # Unknown /\ SizeOf(q.sent) # ContentLength)
  <2>1. writeOf' = [writeOf EXCEPT ![w] = done] BY <1>7 DEF CloseMultipart
  <2> QED BY <1>3, <1>5, <1>7, <2>1
<1> QED BY <1>6, <1>7

LEMMA WritesStutter ==
  ASSUME WritesInv, UNCHANGED writesVars
  PROVE  WritesInv'
BY DEF WritesInv, writesVars, StreamsTaken

LEMMA WritesStepKeeps == WritesInv /\ [WritesNext]_writesVars => WritesInv'
<1> SUFFICES ASSUME WritesInv, [WritesNext]_writesVars PROVE WritesInv' OBVIOUS
<1>1. CASE WritesNext
  <2> PICK w \in Writes : \/ Begin(w) \/ OpenPart(w) \/ CopyChunk(w) \/ SourceFails(w)
                          \/ EndPart(w) \/ NextPart(w) \/ CloseMultipart(w)
    BY <1>1 DEF WritesNext
  <2> QED BY BeginKeeps, OpenPartKeeps, CopyChunkKeeps, SourceFailsKeeps, EndPartKeeps,
             NextPartKeeps, CloseMultipartKeeps
<1>2. CASE UNCHANGED writesVars BY <1>2, WritesStutter
<1> QED BY <1>1, <1>2

LEMMA WholeWhenCommitted == WritesInv => CommittedIsWhole
<1> SUFFICES ASSUME WritesInv PROVE CommittedIsWhole OBVIOUS
<1>1. message \in Messages /\ DOMAIN message.parts = 1 .. Len(message.parts)
  BY LenProperties DEF WritesInv, Messages
<1>2. ContentLength = LengthIn(message) /\ Whole = WholeIn(message) BY <1>1, OfTheMessage
<1>3. \A w \in Writes : SentSoFar(message, writeOf[w]) /\ WithinLength(message, writeOf[w])
  BY DEF WritesInv, Fits
<1>4. \A w \in Writes : Finished(w) =>
        /\ writeOf[w].sent = Whole
        /\ ContentLength # Unknown => SizeOf(writeOf[w].sent) = ContentLength
  BY <1>2, <1>3 DEF Finished, SentSoFar
<1>5. \A w \in Writes : (\A i \in DOMAIN message.parts : message.parts[i].kind # "file")
                        /\ ContentLength # Unknown => SizeOf(writeOf[w].sent) <= ContentLength
  BY <1>1, <1>2, <1>3 DEF WithinLength, NoFiles
<1>6. ASSUME NEW v \in Writes, NEW w \in Writes, v # w, Finished(v), Finished(w) PROVE Replayable
  <2>1. /\ Begun(writeOf[v]) = 1 .. Len(message.parts)
        /\ Begun(writeOf[w]) = 1 .. Len(message.parts)
    BY <1>3, <1>6 DEF Finished, SentSoFar, Begun
  <2>2. \A i \in 1 .. Len(message.parts) : message.parts[i].kind # "stream"
    BY <1>6, <2>1 DEF WritesInv, StreamsTaken
  <2> QED BY <1>1, <2>2 DEF Replayable
<1> QED BY <1>4, <1>5, <1>6 DEF CommittedIsWhole

\* A sink is told that the message is complete only when every piece of it was
\* written, in order and to the announced byte; nothing goes past the announced
\* length and a stream is written once, for any parts, chunks and writes.
THEOREM WritesAreWhole == WritesSpec => []CommittedIsWhole
<1>1. WritesInit => WritesInv BY WritesStartWhole
<1>2. WritesInv /\ [WritesNext]_writesVars => WritesInv' BY WritesStepKeeps
<1>3. WritesInv => CommittedIsWhole BY WholeWhenCommitted
<1> QED BY <1>1, <1>2, <1>3, PTL DEF WritesSpec

\* None of the three is ever taken for whole when it is not.
THEOREM WholeBodies == WritesSpec /\ LoggedBodySpec /\ ResponseSpec => []BodiesAreWhole
  BY CapturedIsWhole, WritesAreWhole, ReadsAreWhole, PTL DEF BodiesAreWhole

\* Bytes are read where they are and written in the order of the writes: by any
\* cursor of a shared window, from the queue under it whatever its memo, and by
\* any writers of a sink.
THEOREM BytesStayInPlace == WindowSpec /\ ByteQueueSpec /\ SinkSpec => []BytesInPlace
  BY WindowReadsInPlace, QueueStaysFlat, SinkKeepsOrder, PTL DEF BytesInPlace
=============================================================================
