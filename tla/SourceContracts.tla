--------------------------- MODULE SourceContracts ----------------------------
(***************************************************************************)
(* Sources and sinks somebody else wrote, behind the buffered ones.  A     *)
(* read of a foreign source reports a number of bytes and appends some to  *)
(* the queue it is given; only when the two agree is the stream it feeds   *)
(* given anything.  Also what the text codec can write and read.           *)
(* A text is a sequence of its character codes, none above the first plane.*)
(***************************************************************************)
EXTENDS Integers, Sequences, SequencesExt, FiniteSets, Folds

EndOfStream == -1

\* The pull of bufferedSourceOverPrimitive: what becomes of one foreign read.
ForeignRead(reported, appended) ==
  IF reported = EndOfStream /\ appended = 0 THEN "closed"
  ELSE IF reported \in {EndOfStream, 0} \/ appended # reported THEN "violation" ELSE "chunk"

\* The stream over a source: read until it ends or breaks its contract.
OverPrimitive(reads) ==
  FoldLeft(LAMBDA stream, read :
             IF stream.state # "open" THEN stream
             ELSE CASE ForeignRead(read.reported, read.appended) = "chunk" ->
                         [stream EXCEPT !.bytes = Append(@, read.reported)]
                    [] ForeignRead(read.reported, read.appended) = "closed" ->
                         [stream EXCEPT !.state = "closed"]
                    [] OTHER -> [stream EXCEPT !.state = "errored"],
           [state |-> "open", bytes |-> <<>>], reads)

\* The write of bufferedSinkOverPrimitive: each chunk in a queue of its own.
SinkOverPrimitive(chunks) == [i \in DOMAIN chunks |-> [queue |-> chunks[i], count |-> chunks[i]]]

\* writeAll: what every read stages, the sink is given at once.
WriteAll(stream) ==
  FoldLeft(LAMBDA pump, size : [written |-> Append(pump.written, size), total |-> pump.total + size],
           [written |-> <<>>, total |-> 0], stream.bytes)

Latin1Labels == {"iso-8859-1", "latin1", "iso8859-1", "iso_8859-1"}
Utf8Labels == {"utf-8", "utf8", "unicode-1-1-utf-8"}

\* TextEncoder and TextDecoder of UTF-8, on whole characters.
Utf8Bytes(code) ==
  CASE code < 128 -> <<code>>
    [] code \in 128 .. 2047 -> <<192 + code \div 64, 128 + (code % 64)>>
    [] OTHER -> <<224 + code \div 4096, 128 + ((code \div 64) % 64), 128 + (code % 64)>>
Utf8Text(bytes) ==
  FoldLeft(LAMBDA text, byte :
             CASE byte < 128 -> Append(text, byte)
               [] byte >= 224 -> Append(text, byte - 224)
               [] byte \in 192 .. 223 -> Append(text, byte - 192)
               [] OTHER -> [text EXCEPT ![Len(text)] = @ * 64 + byte - 128],
           <<>>, bytes)

\* encodeText; {} throws.
EncodeText(codes, charset) ==
  CASE charset \in Utf8Labels -> {FlattenSeq([i \in DOMAIN codes |-> Utf8Bytes(codes[i])])}
    [] charset \in Latin1Labels -> {c \in {codes} : \A i \in DOMAIN c : c[i] <= 255}
    [] OTHER -> {}

\* decodeText: every byte of Latin-1 is a code, another label is the decoder's.
DecodeText(bytes, charset) ==
  CASE charset \in Latin1Labels -> {bytes}
    [] charset \in Utf8Labels -> {Utf8Text(bytes)}
    [] OTHER -> {}
AssertDecodable(charset) == charset \in Latin1Labels \cup Utf8Labels

-----------------------------------------------------------------------------

\* A reader is given all a foreign source appended, in order, until the source
\* breaks its contract; then it is told, and never sees a byte too many.
ForeignReadsHold(reads) ==
  LET stream == OverPrimitive(reads)
      kept == {n \in 0 .. Len(reads) :
                 \A i \in 1 .. n : reads[i].reported = reads[i].appended /\ reads[i].appended > 0}
      honest == CHOOSE n \in kept : \A m \in kept : m <= n
  IN  /\ stream.bytes = [i \in 1 .. honest |-> reads[i].appended]
      /\ stream.state = "errored" <=>
           honest < Len(reads) /\ reads[honest + 1] # [reported |-> EndOfStream, appended |-> 0]
      /\ WriteAll(stream).total = FoldLeft(LAMBDA sum, n : sum + n, 0, stream.bytes)
      /\ \A i \in DOMAIN stream.bytes : SinkOverPrimitive(stream.bytes)[i].queue = WriteAll(stream).written[i]

\* What is written in a charset reads back as it was, and what cannot be
\* written in it is refused instead of being replaced.
CodecHolds(codes, charset) ==
  \A bytes \in EncodeText(codes, charset) :
    /\ DecodeText(bytes, charset) = {codes}
    /\ AssertDecodable(charset)
    /\ charset \in Latin1Labels => \A i \in DOMAIN bytes : bytes[i] < 256

ForeignReads == {[reported |-> r, appended |-> a] : r \in -1 .. 2, a \in 0 .. 2}
=============================================================================
