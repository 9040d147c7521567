------------------------------ MODULE BodyWrites -------------------------------
(***************************************************************************)
(* Request bodies on their way into a sink: byte-array, stream and file    *)
(* bodies, alone or as the parts of a multipart body, written more than    *)
(* once and at the same time (a retry, a redirect, two callers).           *)
(*                                                                         *)
(* A write is a sequence of pieces; a piece names the part and the chunk   *)
(* it carries and has a size.  Part 0 is the framing of a multipart body.  *)
(***************************************************************************)
EXTENDS Integers, Sequences, SequencesExt

CONSTANTS
  Writes,       \* the calls of writeTo(), in any order and overlap
  SimpleParts,  \* bodies: kind, declared length, sizes of what their source yields
  MaxParts      \* bound: parts of a multipart body

Unknown == -1

\* A byte-array body declares the one chunk it has, if any; a stream's length
\* may be unknown; a file's is what it was when the body was made.
ASSUME BodyWritesAssumption ==
  /\ MaxParts \in Nat \ {0}
  /\ \A part \in SimpleParts :
       /\ part.kind \in {"bytes", "stream", "file"}
       /\ part.declared \in Nat \cup {Unknown}
       /\ part.chunks \in Seq(Nat)
       /\ part.kind = "bytes" =>
            part.declared = IF part.chunks = <<>> THEN 0 ELSE part.chunks[1]
       /\ part.kind = "bytes" => Len(part.chunks) <= 1
       /\ part.kind = "file" => part.declared # Unknown

VARIABLES
  message,      \* the body: its parts, and whether they are framed
  consumed,     \* the stream parts some write has begun
  writeOf       \* per write: progress, pieces sent, state of the sink

writesVars == <<message, consumed, writeOf>>

FrameSize == 1
Total(sizes) == FoldLeft(LAMBDA total, size : total + size, 0, sizes)
SizeOf(pieces) == Total([i \in DOMAIN pieces |-> pieces[i].size])

\* A byte-array body writes its bytes as one chunk, or none when empty; the
\* file it names may have changed since it was declared.
Piece(part, chunk) == [part |-> part, chunk |-> chunk, size |-> message.parts[part].chunks[chunk]]
Frame == [part |-> 0, chunk |-> 0, size |-> FrameSize]

PartsLength == Total([i \in DOMAIN message.parts |-> message.parts[i].declared])

\* computeContentLength.
ContentLength ==
  IF \E i \in DOMAIN message.parts : message.parts[i].declared = Unknown THEN Unknown
  ELSE IF message.framed THEN PartsLength + FrameSize * (2 * Len(message.parts) + 1)
  ELSE PartsLength

Replayable == \A i \in DOMAIN message.parts : message.parts[i].kind # "stream"

NotBegun == [at |-> "idle", part |-> 0, chunk |-> 0, sent |-> <<>>, failure |-> "none"]

WritesStart(parts, framed) ==
  /\ message = [parts |-> parts, framed |-> framed]
  /\ consumed = {}
  /\ writeOf = [w \in Writes |-> NotBegun]

WritesInit ==
  \E parts \in SeqOf(SimpleParts, MaxParts) \ {<<>>}, framed \in BOOLEAN :
    /\ framed \/ Len(parts) = 1
    /\ WritesStart(parts, framed)

-----------------------------------------------------------------------------

PartOf(w) == message.parts[writeOf[w].part]
SentOfPart(w) ==
  LET sent == writeOf[w].sent
  IN  Total([i \in DOMAIN sent |-> IF sent[i].part = writeOf[w].part THEN sent[i].size ELSE 0])

\* withBodyWriter and the file body's catch: whatever fails, the sink is
\* aborted, never closed, and the failure propagates.
AbandonWrite(w, why) == writeOf' = [writeOf EXCEPT ![w].at = "aborted", ![w].failure = why]

\* boundedWriter: a multipart body refuses the piece that would overrun.
Overruns(w, size) ==
  /\ message.framed /\ ContentLength # Unknown
  /\ SizeOf(writeOf[w].sent) + size > ContentLength

\* One write into the sink.  The destination may refuse it.
Emit(w, piece, next) ==
  IF Overruns(w, piece.size) THEN AbandonWrite(w, "overrun")
  ELSE \/ writeOf' = [writeOf EXCEPT ![w] = [next EXCEPT !.sent = Append(@, piece)]]
       \/ AbandonWrite(w, "sink")

EnterPart(w) == [writeOf[w] EXCEPT !.at = "opening", !.part = @ + 1, !.chunk = 0]

Begin(w) ==
  /\ writeOf[w].at = "idle"
  /\ IF message.framed THEN Emit(w, Frame, EnterPart(w))
     ELSE writeOf' = [writeOf EXCEPT ![w] = EnterPart(w)]
  /\ UNCHANGED <<message, consumed>>

\* A stream is consumed before anything is awaited; a second write is refused.
OpenPart(w) ==
  /\ writeOf[w].at = "opening"
  /\ IF PartOf(w).kind # "stream"
       THEN /\ writeOf' = [writeOf EXCEPT ![w].at = "copying"]
            /\ UNCHANGED consumed
     ELSE IF writeOf[w].part \in consumed
       THEN AbandonWrite(w, "consumed") /\ UNCHANGED consumed
     ELSE /\ consumed' = consumed \union {writeOf[w].part}
          /\ writeOf' = [writeOf EXCEPT ![w].at = "copying"]
  /\ UNCHANGED message

\* #writeExactly checks before it writes; a source without declared length is
\* piped as it comes, and a file counts only afterwards.
Exact(w) == PartOf(w).kind = "stream" /\ PartOf(w).declared # Unknown

CopyChunk(w) ==
  LET k == writeOf[w].chunk + 1
      size == PartOf(w).chunks[k]
  IN /\ writeOf[w].at = "copying" /\ k \in DOMAIN PartOf(w).chunks
     /\ IF Exact(w) /\ size = 0 THEN AbandonWrite(w, "empty chunk")
        ELSE IF Exact(w) /\ SentOfPart(w) + size > PartOf(w).declared THEN AbandonWrite(w, "overrun")
        ELSE Emit(w, Piece(writeOf[w].part, k), [writeOf[w] EXCEPT !.chunk = k])
     /\ UNCHANGED <<message, consumed>>

SourceFails(w) ==
  /\ writeOf[w].at = "copying" /\ PartOf(w).kind # "bytes"
  /\ AbandonWrite(w, "source")
  /\ UNCHANGED <<message, consumed>>

\* The source ended.  In a multipart body the sink of a part is its own: a
\* part's close does not reach the destination.
EndPart(w) ==
  /\ writeOf[w].at = "copying" /\ writeOf[w].chunk = Len(PartOf(w).chunks)
  /\ IF PartOf(w).declared # Unknown /\ SentOfPart(w) # PartOf(w).declared
       THEN AbandonWrite(w, "short")
     ELSE IF message.framed THEN Emit(w, Frame, [writeOf[w] EXCEPT !.at = "between"])
     ELSE writeOf' = [writeOf EXCEPT ![w].at = IF PartOf(w).kind = "file" THEN "left open" ELSE "closed"]
  /\ UNCHANGED <<message, consumed>>

NextPart(w) ==
  /\ writeOf[w].at = "between"
  /\ IF writeOf[w].part < Len(message.parts) THEN Emit(w, Frame, EnterPart(w))
     ELSE Emit(w, Frame, [writeOf[w] EXCEPT !.at = "trailed"])
  /\ UNCHANGED <<message, consumed>>

CloseMultipart(w) ==
  /\ writeOf[w].at = "trailed"
  /\ IF ContentLength # Unknown /\ SizeOf(writeOf[w].sent) # ContentLength
       THEN AbandonWrite(w, "short")
     ELSE writeOf' = [writeOf EXCEPT ![w].at = "closed"]
  /\ UNCHANGED <<message, consumed>>

WritesNext ==
  \E w \in Writes :
    \/ Begin(w) \/ OpenPart(w) \/ CopyChunk(w) \/ SourceFails(w)
    \/ EndPart(w) \/ NextPart(w) \/ CloseMultipart(w)

WritesSpec == WritesInit /\ [][WritesNext]_writesVars

-----------------------------------------------------------------------------

Finished(w) == writeOf[w].at \in {"closed", "left open"}

\* What a complete message looks like, whoever writes it.
ChunksOf(part) == [k \in DOMAIN message.parts[part].chunks |-> Piece(part, k)]
Whole ==
  LET parts == [i \in DOMAIN message.parts |->
                  IF message.framed THEN <<Frame>> \o ChunksOf(i) \o <<Frame>> ELSE ChunksOf(i)]
  IN FlattenSeq(parts) \o (IF message.framed THEN <<Frame>> ELSE <<>>)

\* A sink is told that the message is complete only when all of it was
\* written, to the byte the Content-Length announced; no write goes past what
\* was announced, a stream is read for one write only, and two writes of a
\* replayable body that finish are the same.
CommittedIsWhole ==
  /\ \A w \in Writes : Finished(w) =>
       /\ writeOf[w].sent = Whole
       /\ ContentLength # Unknown => SizeOf(writeOf[w].sent) = ContentLength
  /\ \A w \in Writes : (\A i \in DOMAIN message.parts : message.parts[i].kind # "file")
                       /\ ContentLength # Unknown => SizeOf(writeOf[w].sent) <= ContentLength
  /\ \A v, w \in Writes : v # w /\ Finished(v) /\ Finished(w) => Replayable

================================================================================
