------------------------------- MODULE SseParser -------------------------------
(***************************************************************************)
(* The line reader and the parser of server-sent events: bytes are framed  *)
(* into lines (LF, CR and CRLF all end one), lines are folded into a       *)
(* block, and an empty line, or the end of the stream, dispatches it.      *)
(*                                                                         *)
(* A byte is a symbol.  The words the parser knows ("data", "id", ...) are *)
(* one symbol each, so that a field is a handful of symbols long.          *)
(***************************************************************************)
EXTENDS Naturals, Sequences, FiniteSetsExt, SequencesExt

CONSTANTS
  Pieces,        \* fragments of a stream, each a sequence of symbols
  MaxPieces,     \* bound: fragments of one stream
  MaxLineBytes,  \* the parser's option
  SafeDigits     \* a number of more digits is no safe integer

Symbols == UNION {ToSet(piece) : piece \in Pieces}

ASSUME SseParserAssumption ==
  /\ Pieces \subseteq Seq(Symbols)
  /\ {MaxPieces, MaxLineBytes, SafeDigits} \subseteq Nat \ {0}

VARIABLES
  stream,      \* the bytes the source will deliver
  readAt,      \* how many of them were read
  bomChecked, pendingCr, lineBytes,
  block,       \* the fields gathered since the last dispatch
  dispatched,  \* the events answered so far
  parser       \* "open", "failed" by an overlong line, "ended"

sseVars == <<stream, readAt, bomChecked, pendingCr, lineBytes, block, dispatched, parser>>

None == "absent"
Bom == <<"EF", "BB", "BF">>
EmptyBlock == [id |-> None, event |-> None, data |-> <<>>, comment |-> None,
               retry |-> None, sawAnyField |-> FALSE]

ParserStarts(bytes) ==
  /\ stream = bytes
  /\ readAt = 0 /\ bomChecked = FALSE /\ pendingCr = FALSE /\ lineBytes = <<>>
  /\ block = EmptyBlock /\ dispatched = <<>> /\ parser = "open"

ParserInit == \E parts \in SeqOf(Pieces, MaxPieces) : ParserStarts(FlattenSeq(parts))

-----------------------------------------------------------------------------

StripOneLeadingSpace(value) == IF value # <<>> /\ Head(value) = " " THEN Tail(value) ELSE value

Colons(line) == {i \in DOMAIN line : line[i] = ":"}
NameOf(line) == IF Colons(line) = {} THEN line ELSE SubSeq(line, 1, Min(Colons(line)) - 1)
ValueOf(line) ==
  IF Colons(line) = {} THEN <<>>
  ELSE StripOneLeadingSpace(SubSeq(line, Min(Colons(line)) + 1, Len(line)))

IsRetry(value) == Len(value) \in 1 .. SafeDigits /\ ToSet(value) = {"7"}

\* #consumeLine.  A comment is the one line whose name is empty.
ConsumeLine(b, line) ==
  LET value == ValueOf(line)
      seen == [b EXCEPT !.sawAnyField = TRUE]
  IN CASE Head(line) = ":" -> [seen EXCEPT !.comment = StripOneLeadingSpace(Tail(line))]
       [] NameOf(line) = <<"data">> -> [seen EXCEPT !.data = Append(b.data, value)]
       [] NameOf(line) = <<"event">> -> [seen EXCEPT !.event = value]
       [] NameOf(line) = <<"id">> /\ "NUL" \notin ToSet(value) -> [seen EXCEPT !.id = value]
       [] NameOf(line) = <<"retry">> /\ IsRetry(value) -> [seen EXCEPT !.retry = value]
       [] OTHER -> b

\* next(), on a line and at the end.
DispatchBlock ==
  /\ dispatched' = IF block.sawAnyField THEN Append(dispatched, block) ELSE dispatched
  /\ block' = EmptyBlock

TakeLine(line) ==
  IF line = <<>> THEN DispatchBlock
  ELSE block' = ConsumeLine(block, line) /\ UNCHANGED dispatched

-----------------------------------------------------------------------------

\* #consumeLeadingBom, through a view that leaves the source where it is.
ConsumeLeadingBom ==
  /\ ~bomChecked /\ parser = "open"
  /\ bomChecked' = TRUE
  /\ readAt' = IF IsPrefix(Bom, stream) THEN Len(Bom) ELSE 0
  /\ UNCHANGED <<stream, pendingCr, lineBytes, block, dispatched, parser>>

\* Mutant: the LF of a CRLF ends a line of its own.
ReadByteCrLf ==
  LET byte == stream[readAt + 1]
      line == Append(lineBytes, byte)
  IN /\ bomChecked /\ parser = "open" /\ readAt < Len(stream)
     /\ readAt' = readAt + 1
     /\ pendingCr' = (byte = "CR")
     /\ IF byte \in {"LF", "CR"}
          THEN TakeLine(lineBytes) /\ lineBytes' = <<>> /\ UNCHANGED parser
        ELSE /\ lineBytes' = line
             /\ parser' = IF Len(line) > MaxLineBytes THEN "failed" ELSE "open"
             /\ UNCHANGED <<block, dispatched>>
     /\ UNCHANGED <<stream, bomChecked>>

\* nextLine(), one byte at a time.
ReadByte ==
  LET byte == stream[readAt + 1]
      swallowed == pendingCr /\ byte = "LF"
      line == Append(lineBytes, byte)
  IN /\ bomChecked /\ parser = "open" /\ readAt < Len(stream)
     /\ readAt' = readAt + 1
     /\ pendingCr' = (byte = "CR")
     /\ IF swallowed
          THEN UNCHANGED <<lineBytes, block, dispatched, parser>>
        ELSE IF byte \in {"LF", "CR"}
          THEN /\ TakeLine(lineBytes)
               /\ lineBytes' = <<>> /\ UNCHANGED parser
        ELSE /\ lineBytes' = line
             /\ parser' = IF Len(line) > MaxLineBytes THEN "failed" ELSE "open"
             /\ UNCHANGED <<block, dispatched>>
     /\ UNCHANGED <<stream, bomChecked>>

\* The source is exhausted: a line without terminator is still a line, and the
\* call after it finds the end.
LastLine ==
  /\ bomChecked /\ parser = "open" /\ readAt = Len(stream) /\ lineBytes # <<>>
  /\ TakeLine(lineBytes)
  /\ lineBytes' = <<>> /\ pendingCr' = FALSE
  /\ UNCHANGED <<stream, readAt, bomChecked, parser>>

\* The end: the pending block is dispatched without its empty line.  A caller
\* that asks again after an overlong line comes here too.
EndOfLines ==
  /\ \/ parser = "open" /\ bomChecked /\ readAt = Len(stream) /\ lineBytes = <<>>
     \/ parser = "failed"
  /\ DispatchBlock
  /\ parser' = "ended" /\ lineBytes' = <<>> /\ pendingCr' = FALSE
  /\ UNCHANGED <<stream, readAt, bomChecked>>

ParserNext == ConsumeLeadingBom \/ ReadByte \/ LastLine \/ EndOfLines
ParserSpec == ParserInit /\ [][ParserNext]_sseVars

-----------------------------------------------------------------------------
(* The reference: the lines and events of a whole text, each where it ends.*)

\* What follows the last mark among the first n positions of s.
RunStart(marks, n) == Min({p \in 1 .. n + 1 : (p .. n) \intersect marks = {}})
RunUpTo(s, marks, n) == SubSeq(s, RunStart(marks, n), n)

Skipped == IF IsPrefix(Bom, stream) THEN Len(Bom) ELSE 0
Text == SubSeq(stream, Skipped + 1, Len(stream))

Terminators(text) == {i \in DOMAIN text : text[i] \in {"LF", "CR"}}
LineUpTo(text, n) == RunUpTo(text, Terminators(text), n)

\* An LF after a CR ends no line of its own.
LineEndsAt(text, i) ==
  i \in Terminators(text) /\ ~(text[i] = "LF" /\ i > 1 /\ text[i - 1] = "CR")
LinesUpTo(text, n) ==
  FlattenSeq([i \in 1 .. n |-> IF LineEndsAt(text, i) THEN <<LineUpTo(text, i - 1)>> ELSE <<>>])

\* From the first place where a line runs past the limit, nothing is a line.
Overlong(text) == {n \in DOMAIN text : Len(LineUpTo(text, n)) > MaxLineBytes}
LinesOf(text) ==
  LET last == LineUpTo(text, Len(text)) IN
    IF Overlong(text) # {} THEN LinesUpTo(text, Min(Overlong(text)) - 1)
    ELSE LinesUpTo(text, Len(text)) \o (IF last = <<>> THEN <<>> ELSE <<last>>)

\* The field a line sets.
FieldOf(line) ==
  CASE NameOf(line) = <<>> -> "comment"
    [] NameOf(line) = <<"data">> -> "data"
    [] NameOf(line) = <<"event">> -> "event"
    [] NameOf(line) = <<"id">> /\ "NUL" \notin ToSet(ValueOf(line)) -> "id"
    [] NameOf(line) = <<"retry">> /\ IsRetry(ValueOf(line)) -> "retry"
    [] OTHER -> "none"

\* A group: the lines between two empty ones.  Of each field the last line
\* counts, of data all of them do.
LatestOf(group, field) ==
  LET at == {i \in DOMAIN group : FieldOf(group[i]) = field}
  IN  IF at = {} THEN None ELSE ValueOf(group[Max(at)])
DataOf(group) ==
  FlattenSeq([i \in 1 .. Len(group) |->
                IF FieldOf(group[i]) = "data" THEN <<ValueOf(group[i])>> ELSE <<>>])
EventOf(group) ==
  [id |-> LatestOf(group, "id"), event |-> LatestOf(group, "event"), data |-> DataOf(group),
   comment |-> LatestOf(group, "comment"), retry |-> LatestOf(group, "retry"),
   sawAnyField |-> \E i \in DOMAIN group : FieldOf(group[i]) # "none"]

EmptyLines(lines) == {i \in DOMAIN lines : lines[i] = <<>>}
GroupUpTo(lines, n) == RunUpTo(lines, EmptyLines(lines), n)
EventIn(group) == IF EventOf(group).sawAnyField THEN <<EventOf(group)>> ELSE <<>>
EventsUpTo(lines, n) ==
  FlattenSeq([i \in 1 .. n |->
                IF lines[i] = <<>> THEN EventIn(GroupUpTo(lines, i - 1)) ELSE <<>>])
EventsOf(lines) == EventsUpTo(lines, Len(lines)) \o EventIn(GroupUpTo(lines, Len(lines)))

Events == EventsOf(LinesOf(Text))

\* However the bytes end their lines, whatever a CR is followed by and whether
\* the last line is terminated or cut by the limit: the events answered are
\* those of the lines, in order, each once.
EventsAreTheStreams ==
  /\ parser = "ended" => dispatched = Events
  /\ parser # "ended" => IsPrefix(dispatched, Events)

===============================================================================
