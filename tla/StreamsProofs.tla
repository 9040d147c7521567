---------------------------- MODULE StreamsProofs ----------------------------
(***************************************************************************)
(* Bytes are read where they are and written in the order of the writes:   *)
(* by the cursors of a shared window (RetentionWindow), from the queue of  *)
(* chunks (ByteQueue) and by the writers of a sink (SinkChain), for any    *)
(* streams, reads, pieces, writers, tap and number of writes; the events   *)
(* the parser answers are those of its stream's lines (SseParser); and     *)
(* what comes of foreign reads and of texts in bytes (SourceContracts).    *)
(***************************************************************************)
EXTENDS RetentionWindow, ByteQueue, SinkChain, SseParser, SourceContracts, SequenceFacts

-----------------------------------------------------------------------------
(* The retention window.  Its queue is the run of bytes from the first one  *)
(* kept on; no cursor it still minds lies before them; and a source that is *)
(* not among them any more was closed, or the window was.                   *)

WindowState ==
  [queue : Seq(Nat), from : Nat, pulled : Nat, exhausted : BOOLEAN, closed : BOOLEAN,
   ended : BOOLEAN, errored : BOOLEAN]

SourceState ==
  [state : {"open", "unborn", "closed"}, at : Nat, started : Nat, limit : Nat]

WindowTypes ==
  /\ window \in WindowState /\ sources \in [BufferedSources -> SourceState]
  /\ cursors \subseteq BufferedSources
  /\ wants \in [BufferedSources -> Nat] /\ got \in [BufferedSources -> Seq(Nat)]
  /\ readEnd \in [BufferedSources -> {"none", "eos", "failed", "closed", "internal", "bytes"}]

\* The window: what it keeps, for whom, and how it ends.
QueueHolds ==
  /\ window.from <= window.pulled /\ window.pulled <= MaxStream
  /\ ~ window.closed => window.queue = Run(window.from, window.pulled - window.from)
  /\ ~ window.closed /\ window.exhausted => window.ended
  /\ \A s \in cursors : window.from <= sources[s].at

\* One source: what it delivered, what it may still want, and how it ends.
SourceOK(s) ==
  /\ sources[s].started <= sources[s].at
  /\ sources[s].at - sources[s].started <= sources[s].limit
  /\ sources[s].at = sources[s].started \/ sources[s].at <= MaxStream
  /\ sources[s].limit # Infinite =>
       wants[s] + (sources[s].at - sources[s].started) <= sources[s].limit
  /\ got[s] = Run(sources[s].started, sources[s].at - sources[s].started)
  /\ sources[s].state = "unborn" =>
       /\ wants[s] = 0 /\ readEnd[s] \notin {"eos", "internal"}
       /\ sources[s].at = sources[s].started
  /\ sources[s].state = "open" => readEnd[s] # "internal"
  /\ sources[s].state = "open" /\ ~ window.closed => s \in cursors
  /\ readEnd[s] = "eos" => RemainingBudget(s) = 0 \/ window.ended

WindowInv == WindowTypes /\ QueueHolds /\ \A s \in BufferedSources : SourceOK(s)

\* What is left of a budget, in the states the invariant allows.
LEMMA BudgetIs ==
  ASSUME WindowTypes, NEW s \in BufferedSources, SourceOK(s)
  PROVE  RemainingBudget(s) =
           IF sources[s].limit = Infinite THEN Infinite
           ELSE sources[s].limit - (sources[s].at - sources[s].started)
<1>1. sources[s] \in SourceState BY DEF WindowTypes
<1> DEFINE a == sources[s].limit - (sources[s].at - sources[s].started)
<1>2. a \in Nat BY <1>1 DEF SourceState, SourceOK
<1>3. Max({0, a}) = a
  <2> HIDE DEF a
  <2>1. Max({0, a}) = IF 0 >= a THEN 0 ELSE a BY <1>2, GreaterIs
  <2> QED BY <1>2, <2>1
<1> QED BY <1>3 DEF RemainingBudget

\* The constants.
LEMMA WindowConstants ==
  /\ MaxStream \in Nat /\ MaxRead \in Nat /\ Infinite \in Nat /\ Infinite > MaxStream
  /\ Root \in BufferedSources /\ PeekViews \subseteq BufferedSources /\ Root \notin PeekViews
BY WindowAssumption DEF Infinite, BufferedSources

\* It holds when the window is opened.
LEMMA WindowStarts == WindowInit => WindowInv
<1> SUFFICES ASSUME WindowInit PROVE WindowInv OBVIOUS
<1> DEFINE w == [queue |-> <<>>, from |-> 0, pulled |-> 0, exhausted |-> FALSE, closed |-> FALSE,
                 ended |-> FALSE, errored |-> FALSE]
           born(s) == [state |-> IF s = Root THEN "open" ELSE "unborn",
                       at |-> 0, started |-> 0, limit |-> IF s = Root THEN Infinite ELSE 0]
<1>1. /\ window = w /\ cursors = {Root} /\ sources = [s \in BufferedSources |-> born(s)]
      /\ wants = [s \in BufferedSources |-> 0] /\ got = [s \in BufferedSources |-> <<>>]
      /\ readEnd = [s \in BufferedSources |-> "none"]
  BY DEF WindowInit
<1>2. <<>> \in Seq(Nat) /\ Run(0, 0) = <<>> BY EmptySeq DEF Run
<1>3. WindowTypes
  <2>1. w \in WindowState BY <1>2 DEF WindowState
  <2>2. \A s \in BufferedSources : born(s) \in SourceState BY WindowConstants DEF SourceState
  <2> HIDE DEF w, born
  <2>3. sources \in [BufferedSources -> SourceState] BY <1>1, <2>2
  <2>4. readEnd \in [BufferedSources -> {"none", "eos", "failed", "closed", "internal", "bytes"}]
    BY <1>1
  <2>5. wants \in [BufferedSources -> Nat] /\ got \in [BufferedSources -> Seq(Nat)] BY <1>1, <1>2
  <2> QED BY <1>1, <2>1, <2>3, <2>4, <2>5, WindowConstants DEF WindowTypes
<1>4. QueueHolds
  <2>1. w.from = 0 /\ w.pulled = 0 /\ w.queue = <<>> /\ ~ w.exhausted OBVIOUS
  <2>2. sources[Root].at = 0 BY <1>1, WindowConstants
  <2> HIDE DEF w
  <2> QED BY <1>1, <1>2, <2>1, <2>2, WindowConstants DEF QueueHolds
<1>5. ASSUME NEW s \in BufferedSources PROVE SourceOK(s)
  <2>1. /\ sources[s].at = 0 /\ sources[s].started = 0
        /\ s # Root => sources[s].state = "unborn" /\ sources[s].limit = 0
        /\ s = Root => sources[s].state = "open" /\ sources[s].limit = Infinite
        /\ wants[s] = 0 /\ got[s] = <<>> /\ readEnd[s] = "none"
    BY <1>1
  <2>2. s = Root => s \in cursors BY <1>1
  <2> QED BY <1>2, <2>1, <2>2, WindowConstants DEF SourceOK
<1> QED BY <1>3, <1>4, <1>5 DEF WindowInv

\* A source no step touched is as it was, whatever became of the window.
LEMMA UntouchedKeeps ==
  ASSUME NEW s \in BufferedSources, SourceOK(s),
         sources'[s] = sources[s], wants'[s] = wants[s], got'[s] = got[s],
         readEnd'[s] = readEnd[s], window.closed => window'.closed,
         window.ended => window'.ended, s \in cursors => s \in cursors' \/ window'.closed
  PROVE  SourceOK(s)'
BY DEF SourceOK, RemainingBudget

\* read(): what it asks for is within the budget, and it reports the end at
\* once only when nothing is left of that.
LEMMA StartReadKeeps ==
  ASSUME WindowInv, NEW s \in BufferedSources, StartSourceRead(s)
  PROVE  WindowInv'
<1> DEFINE left == RemainingBudget(s)
<1>0. WindowTypes /\ QueueHolds /\ \A x \in BufferedSources : SourceOK(x) BY DEF WindowInv
<1>1. PICK count \in 1 .. MaxRead :
        LET want == Min({count, left})
        IN IF want = 0
           THEN readEnd' = [readEnd EXCEPT ![s] = "eos"] /\ UNCHANGED <<wants, pulls>>
           ELSE /\ wants' = [wants EXCEPT ![s] = want]
                /\ pulls' = IF PullMore(s) THEN Append(pulls, s) ELSE pulls
                /\ UNCHANGED readEnd
  BY DEF StartSourceRead
<1>2. UNCHANGED <<window, cursors, sources, got>> /\ sources[s].state = "open"
  BY DEF StartSourceRead, Usable
<1>3. sources[s] \in SourceState BY <1>0 DEF WindowTypes
<1>4. left = IF sources[s].limit = Infinite THEN Infinite
             ELSE sources[s].limit - (sources[s].at - sources[s].started)
  BY <1>0, BudgetIs
<1>5. left \in Nat BY <1>0, <1>3, <1>4, WindowConstants DEF SourceState, SourceOK
<1> DEFINE want == Min({count, left})
<1>6. want = IF count <= left THEN count ELSE left
  <2> HIDE DEF left
  <2> QED BY <1>5, LesserIs, WindowConstants
<1>7. want \in Nat /\ want <= left /\ (want = 0 => left = 0)
  <2> HIDE DEF left
  <2> QED BY <1>5, <1>6, WindowConstants
<1>8. QueueHolds' BY <1>0, <1>2 DEF QueueHolds
<1>9. CASE want = 0
  <2>1. readEnd' = [readEnd EXCEPT ![s] = "eos"] /\ UNCHANGED wants BY <1>1, <1>9
  <2>2. WindowTypes' BY <1>0, <1>2, <2>1 DEF WindowTypes
  <2>3. ASSUME NEW x \in BufferedSources, x # s PROVE SourceOK(x)'
    <3>1. readEnd'[x] = readEnd[x] BY <1>0, <2>1, <2>3 DEF WindowTypes
    <3> QED BY <1>0, <1>2, <2>1, <3>1, UntouchedKeeps
  <2>4. SourceOK(s)'
    <3>1. readEnd'[s] = "eos" BY <1>0, <2>1 DEF WindowTypes
    <3>2. RemainingBudget(s)' = 0 BY <1>2, <1>7, <1>9 DEF RemainingBudget
    <3> QED BY <1>0, <1>2, <2>1, <3>1, <3>2 DEF SourceOK
  <2> QED BY <1>8, <2>2, <2>3, <2>4 DEF WindowInv
<1>10. CASE want # 0
  <2>1. wants' = [wants EXCEPT ![s] = want] /\ UNCHANGED readEnd BY <1>1, <1>10
  <2>2. WindowTypes'
    <3> HIDE DEF want
    <3> QED BY <1>0, <1>2, <1>7, <2>1 DEF WindowTypes
  <2>3. ASSUME NEW x \in BufferedSources, x # s PROVE SourceOK(x)'
    <3>1. wants'[x] = wants[x] BY <1>0, <2>1, <2>3 DEF WindowTypes
    <3> QED BY <1>0, <1>2, <2>1, <3>1, UntouchedKeeps
  <2>4. SourceOK(s)'
    <3>1. wants'[s] = want BY <1>0, <2>1 DEF WindowTypes
    <3>2. sources[s].limit # Infinite =>
            want + (sources[s].at - sources[s].started) <= sources[s].limit
      <4> HIDE DEF left, want
      <4> QED BY <1>0, <1>3, <1>4, <1>5, <1>7 DEF SourceState, SourceOK
    <3> HIDE DEF left, want
    <3>3. RemainingBudget(s)' = RemainingBudget(s) BY <1>2 DEF RemainingBudget
    <3> QED BY <1>0, <1>2, <2>1, <3>1, <3>2, <3>3 DEF SourceOK
  <2> QED BY <1>8, <2>2, <2>3, <2>4 DEF WindowInv
<1> QED BY <1>9, <1>10

\* What only ends a read of a source that has one, with an error or because
\* the window was closed, keeps it.
LEMMA EndReadKeeps ==
  ASSUME WindowInv, NEW s \in BufferedSources,
         NEW how \in {"eos", "failed", "closed", "internal"}, EndRead(s, how),
         how = "eos" => window.ended',
         sources[s].state = "unborn" => how \notin {"eos", "internal"},
         how = "internal" => sources[s].state # "open",
         window'.closed = window.closed, window'.ended = window.ended,
         WindowTypes', QueueHolds', UNCHANGED <<cursors, sources, got>>
  PROVE  WindowInv'
<1>0. WindowTypes /\ QueueHolds /\ \A x \in BufferedSources : SourceOK(x) BY DEF WindowInv
<1>1. ASSUME NEW x \in BufferedSources, x # s PROVE SourceOK(x)'
  <2>1. wants'[x] = wants[x] /\ readEnd'[x] = readEnd[x]
    BY <1>0, <1>1 DEF WindowTypes, EndRead
  <2> QED BY <1>0, <2>1, UntouchedKeeps
<1>2. SourceOK(s)'
  <2>1. wants'[s] = 0 /\ readEnd'[s] = how BY <1>0 DEF WindowTypes, EndRead
  <2>2. sources[s] \in SourceState BY <1>0 DEF WindowTypes
  <2>3. sources[s].limit # Infinite =>
          0 + (sources[s].at - sources[s].started) <= sources[s].limit
    BY <1>0, <2>2 DEF SourceState, SourceOK
  <2>4. how = "eos" => window'.ended OBVIOUS
  <2> QED BY <1>0, <2>1, <2>3, <2>4 DEF SourceOK
<1> QED BY <1>1, <1>2 DEF WindowInv

\* The oldest pull is answered, with a chunk for everyone or with the end.
LEMMA PullKeeps ==
  ASSUME WindowInv, NEW s \in BufferedSources, PullAnswered(s)
  PROVE  WindowInv'
<1>0. WindowTypes /\ QueueHolds /\ \A x \in BufferedSources : SourceOK(x) BY DEF WindowInv
<1>1. UNCHANGED <<cursors, sources, wants, got, readEnd>> BY DEF PullAnswered
<1>2. /\ WindowTypes' /\ QueueHolds'
      /\ window'.closed = window.closed /\ (window.ended => window'.ended)
  <2>1. CASE ChunkArrives(s)
    <3>1. PICK size \in 1 .. MaxRead :
            /\ window.pulled + size <= MaxStream /\ ~ window.exhausted
            /\ window' = [window EXCEPT !.pulled = @ + size,
                 !.queue = @ \o [i \in 1 .. size |-> window.pulled + i - 1]]
      BY <2>1 DEF ChunkArrives
    <3>2. window \in WindowState /\ window.pulled \in Nat /\ window.from \in Nat
          /\ window.queue \in Seq(Nat)
      BY <1>0 DEF WindowTypes, WindowState
    <3>3. size \in Nat /\ window.pulled + size \in Nat BY <3>2, WindowConstants
    <3>4. window' = [window EXCEPT !.pulled = @ + size, !.queue = @ \o Run(window.pulled, size)]
      BY <3>1 DEF Run
    <3>5. window.queue \o Run(window.pulled, size) \in Seq(Nat)
      BY <3>2, <3>3, RunIs, ConcatProperties
    <3>6. window' \in WindowState BY <3>2, <3>3, <3>4, <3>5 DEF WindowState
    <3>7. /\ window'.pulled = window.pulled + size /\ window'.from = window.from
          /\ window'.queue = window.queue \o Run(window.pulled, size)
          /\ window'.closed = window.closed /\ window'.ended = window.ended
          /\ window'.exhausted = window.exhausted
      BY <3>2, <3>4 DEF WindowState
    <3>8. ~ window'.closed =>
            window'.queue = Run(window'.from, window'.pulled - window'.from)
      <4> SUFFICES ASSUME ~ window'.closed
                   PROVE  window'.queue = Run(window'.from, window'.pulled - window'.from)
        OBVIOUS
      <4> DEFINE f == window.from
                 m == window.pulled - window.from
      <4>1. f \in Nat /\ m \in Nat /\ f + m = window.pulled /\ m + size = window'.pulled - f
        BY <1>0, <3>2, <3>3, <3>7 DEF QueueHolds
      <4>2. window.queue = Run(f, m) BY <1>0, <3>7 DEF QueueHolds
      <4> HIDE DEF f, m
      <4>3. window'.queue = Run(f, m) \o Run(f + m, size) BY <3>7, <4>1, <4>2
      <4>4. window'.queue = Run(f, m + size) BY <3>3, <4>1, <4>3, RunGoesOn
      <4> QED BY <3>7, <4>1, <4>4 DEF f
    <3>9. QueueHolds' BY <1>0, <1>1, <3>1, <3>2, <3>3, <3>7, <3>8 DEF QueueHolds
    <3> QED BY <1>0, <1>1, <3>6, <3>7, <3>9, SMTT(20) DEF WindowTypes
  <2>2. CASE StreamEnds(s)
    <3>1. window' = [window EXCEPT !.exhausted = TRUE, !.ended = @ \/ ~ window.closed]
      BY <2>2 DEF StreamEnds
    <3>2. window \in WindowState BY <1>0 DEF WindowTypes
    <3>3. window' \in WindowState BY <3>1, <3>2 DEF WindowState
    <3>4. /\ window'.pulled = window.pulled /\ window'.from = window.from
          /\ window'.queue = window.queue /\ window'.closed = window.closed
      BY <3>1, <3>2 DEF WindowState
    <3>5. ~ window'.closed => window'.ended
      BY <3>1, <3>2 DEF WindowState
    <3>6. window.ended => window'.ended BY <3>1, <3>2 DEF WindowState
    <3>7. QueueHolds' BY <1>0, <1>1, <3>4, <3>5 DEF QueueHolds
    <3> QED BY <1>0, <1>1, <3>3, <3>4, <3>6, <3>7 DEF WindowTypes
  <2> QED BY <2>1, <2>2 DEF PullAnswered
<1>3. ASSUME NEW x \in BufferedSources PROVE SourceOK(x)'
  BY <1>0, <1>1, <1>2, UntouchedKeeps
<1> QED BY <1>2, <1>3 DEF WindowInv

\* It fails, or the read it served is refused, is answered with the end.
LEMMA PullFailsKeeps ==
  ASSUME WindowInv, NEW s \in BufferedSources, PullFails(s)
  PROVE  WindowInv'
<1>0. WindowTypes /\ QueueHolds BY DEF WindowInv
<1>1. window' = [window EXCEPT !.errored = TRUE] /\ EndRead(s, "failed")
      /\ UNCHANGED <<cursors, sources, got>>
  BY DEF PullFails
<1>2. window \in WindowState BY <1>0 DEF WindowTypes
<1>3. window' \in WindowState BY <1>1, <1>2 DEF WindowState
<1>4. /\ window'.pulled = window.pulled /\ window'.from = window.from
      /\ window'.queue = window.queue /\ window'.closed = window.closed
      /\ window'.ended = window.ended /\ window'.exhausted = window.exhausted
  BY <1>1, <1>2 DEF WindowState
<1>5. WindowTypes'
  <2>1. wants' \in [BufferedSources -> Nat] BY <1>0, <1>1 DEF EndRead, WindowTypes
  <2>2. readEnd' \in [BufferedSources -> {"none", "eos", "failed", "closed", "internal", "bytes"}]
    BY <1>0, <1>1 DEF EndRead, WindowTypes
  <2> QED BY <1>0, <1>1, <1>3, <2>1, <2>2 DEF WindowTypes
<1>6. QueueHolds' BY <1>0, <1>1, <1>4 DEF QueueHolds
<1> QED BY <1>1, <1>4, <1>5, <1>6, EndReadKeeps

\* A source without a cursor in an open window was never opened, or closed.
LEMMA EndsKeep ==
  ASSUME WindowInv, NEW s \in BufferedSources, ReadRefused(s) \/ ReadEnds(s) \/ PullAgain(s)
  PROVE  WindowInv'
<1>0. WindowTypes /\ QueueHolds /\ \A x \in BufferedSources : SourceOK(x) BY DEF WindowInv
<1>1. ASSUME NEW how \in {"eos", "closed"}, EndRead(s, how)
      PROVE  /\ wants' \in [BufferedSources -> Nat]
             /\ readEnd' \in [BufferedSources -> {"none", "eos", "failed", "closed", "internal", "bytes"}]
  BY <1>0, <1>1 DEF EndRead, WindowTypes
<1>2. wants[s] > 0 => sources[s].state # "unborn" BY <1>0 DEF SourceOK
<1>3. CASE ReadRefused(s)
  <2>1. EndRead(s, "closed") /\ UNCHANGED <<window, cursors, sources, got>>
        /\ sources[s].state # "unborn"
    BY <1>2, <1>3 DEF ReadRefused, Reasserted, Resumable
  <2>2. WindowTypes' /\ QueueHolds' BY <1>0, <1>1, <2>1 DEF WindowTypes, QueueHolds
  <2> QED BY <2>1, <2>2, EndReadKeeps
<1>4. CASE ReadEnds(s)
  <2>1. EndRead(s, "eos") /\ UNCHANGED <<window, cursors, sources, got>>
        /\ sources[s].state # "unborn" /\ ~ window.closed
    BY <1>2, <1>4 DEF ReadEnds, Reasserted, Resumable
  <2>2. window.ended
    <3>1. ~ (window.pulled < sources[s].at + 1 /\ ~ window.exhausted)
          /\ window.pulled <= sources[s].at
      BY <1>4 DEF ReadEnds, PullMore
    <3>2. window.pulled \in Nat /\ sources[s].at \in Nat
      BY <1>0 DEF WindowTypes, WindowState, SourceState
    <3>3. window.exhausted BY <3>1, <3>2
    <3> QED BY <1>0, <2>1, <3>3 DEF QueueHolds
  <2>3. WindowTypes' /\ QueueHolds' BY <1>0, <1>1, <2>1 DEF WindowTypes, QueueHolds
  <2> QED BY <2>1, <2>2, <2>3, EndReadKeeps
<1>5. CASE PullAgain(s)
  <2>1. UNCHANGED <<window, cursors, sources, wants, got, readEnd>> BY <1>5 DEF PullAgain
  <2>2. WindowTypes' /\ QueueHolds' BY <1>0, <2>1 DEF WindowTypes, QueueHolds
  <2>3. ASSUME NEW x \in BufferedSources PROVE SourceOK(x)' BY <1>0, <2>1, UntouchedKeeps
  <2> QED BY <2>2, <2>3 DEF WindowInv
<1> QED BY <1>3, <1>4, <1>5

\* Forgetting what every cursor has passed leaves the run from the least of
\* them on, and what was pulled as it was.
LEMMA TrimmedIs ==
  ASSUME window \in WindowState, window.from <= window.pulled, ~ window.closed,
         window.queue = Run(window.from, window.pulled - window.from),
         NEW live \in SUBSET BufferedSources, NEW src \in [BufferedSources -> SourceState],
         \A x \in live : window.from <= src[x].at
  PROVE  LET t == Trimmed(live, src) IN
           /\ t \in WindowState /\ t.from <= t.pulled /\ t.pulled = window.pulled
           /\ t.queue = Run(t.from, t.pulled - t.from)
           /\ t.closed = window.closed /\ t.ended = window.ended
           /\ t.exhausted = window.exhausted
           /\ \A x \in live : t.from <= src[x].at
<1> DEFINE low == LowestCursor(live, src)
           S == {window.pulled} \cup {src[x].at : x \in live}
           t == Trimmed(live, src)
<1>1. /\ window.pulled \in Nat /\ window.from \in Nat
      /\ \A x \in live : src[x].at \in Nat
  BY DEF WindowState, SourceState
<1>2. S \in SUBSET Nat /\ S # {} BY <1>1
<1>3. low \in S /\ \A y \in S : low <= y
  <2>1. low = Min(S) BY DEF LowestCursor
  <2> HIDE DEF S, low
  <2> QED BY <1>2, <2>1, LeastOfNaturals
<1>4. /\ low \in Nat /\ low <= window.pulled /\ window.from <= low
      /\ \A x \in live : low <= src[x].at
  <2> HIDE DEF low
  <2> QED BY <1>1, <1>2, <1>3
<1> HIDE DEF S
<1>5. CASE low <= window.from
  <2>1. t = window BY <1>5 DEF Trimmed
  <2>2. t \in WindowState BY <2>1
  <2> HIDE DEF t, low
  <2> QED BY <2>1, <2>2 DEF t
<1>6. CASE ~ low <= window.from
  <2> DEFINE q == window.queue
             gone == low - window.from
             held == window.pulled - window.from
             kept == window.pulled - low
  <2>0. t = [window EXCEPT !.from = low, !.queue = SubSeq(q, gone + 1, Len(q))]
    BY <1>6 DEF Trimmed
  <2> HIDE DEF t, low
  <2>1. gone \in Nat /\ held \in Nat /\ kept \in Nat /\ gone + kept = held /\ window.from + gone = low
    BY <1>1, <1>4
  <2>2. q = Run(window.from, held) /\ Len(q) = held
    <3>1. q = Run(window.from, held) OBVIOUS
    <3> HIDE DEF q, gone, held, kept
    <3> QED BY <1>1, <2>1, <3>1, RunIs
  <2> HIDE DEF q, gone, held, kept
  <2>3. SubSeq(q, gone + 1, Len(q)) = Run(low, kept)
    <3>1. SubSeq(q, gone + 1, Len(q)) = SubSeq(Run(window.from, held), gone + 1, gone + kept) BY <2>1, <2>2
    <3>2. gone + kept <= held BY <2>1
    <3>3. SubSeq(Run(window.from, held), gone + 1, gone + kept) = Run(window.from + gone, kept)
      <4> DEFINE start == window.from
      <4>1. start \in Nat BY <1>1
      <4> HIDE DEF start
      <4>2. gone \in Nat /\ held \in Nat /\ kept \in Nat BY <2>1
      <4>3. SubSeq(Run(start, held), gone + 1, gone + kept) = Run(start + gone, kept) 
        <5>1. InRun(start, held, gone, kept) BY <3>2, <4>1, <4>2 DEF InRun
        <5> QED BY <5>1, RunWindow
      <4> QED BY <4>3 DEF start
    <3> QED BY <2>1, <3>1, <3>3
  <2>4. t = [window EXCEPT !.from = low, !.queue = Run(low, kept)] BY <2>0, <2>3
  <2>5. Run(low, kept) \in Seq(Nat) BY <1>4, <2>1, RunIs
  <2>6. t \in WindowState BY <1>4, <2>4, <2>5 DEF WindowState
  <2>7. /\ t.from = low /\ t.queue = Run(low, kept) /\ t.pulled = window.pulled
        /\ t.closed = window.closed /\ t.ended = window.ended
        /\ t.exhausted = window.exhausted
    BY <2>4 DEF WindowState
  <2>8. kept = t.pulled - t.from BY <2>7 DEF kept
  <2> QED BY <1>4, <2>6, <2>7, <2>8 DEF t
<1> QED BY <1>5, <1>6

\* readInto(): the bytes copied are the ones the cursor is at, or the source
\* had been closed under its read.
LEMMA ReadIntoKeeps ==
  ASSUME WindowInv, NEW s \in BufferedSources, ReadInto(s)
  PROVE  WindowInv'
<1> DEFINE at == sources[s].at
           began == sources[s].started
           ahead == window.pulled - at
           take == Min({wants[s], ahead})
           skip == at - window.from
           moved == [sources EXCEPT ![s].at = @ + take]
           copied == SubSeq(window.queue, skip + 1, skip + take)
<1>0. WindowTypes /\ QueueHolds /\ \A x \in BufferedSources : SourceOK(x) BY DEF WindowInv
<1>1. /\ window \in WindowState /\ sources[s] \in SourceState
      /\ window.pulled \in Nat /\ window.from \in Nat /\ window.from <= window.pulled
      /\ window.pulled <= MaxStream
      /\ at \in Nat /\ began \in Nat /\ sources[s].limit \in Nat /\ began <= at
      /\ wants[s] \in Nat
  BY <1>0 DEF WindowTypes, QueueHolds, WindowState, SourceState, SourceOK
<1>2. /\ wants[s] > 0 /\ ~ window.closed /\ window.pulled > at
      /\ UNCHANGED <<cursors, pulls>> /\ sources[s].state # "unborn"
  BY <1>0 DEF ReadInto, Resumable, Reasserted, SourceOK
<1>3. CASE at < window.from
  <2>1. EndRead(s, "internal") /\ UNCHANGED <<window, cursors, sources, got>>
    BY <1>2, <1>3 DEF ReadInto
  <2>2. sources[s].state # "open"
    <3> SUFFICES ASSUME sources[s].state = "open" PROVE FALSE OBVIOUS
    <3>1. s \in cursors BY <1>0, <1>2 DEF SourceOK
    <3>2. window.from <= at BY <1>0, <3>1 DEF QueueHolds
    <3> QED BY <1>1, <1>3, <3>2
  <2>3. WindowTypes'
    <3>1. wants' \in [BufferedSources -> Nat] BY <1>0, <2>1 DEF EndRead, WindowTypes
    <3>2. readEnd' \in [BufferedSources -> {"none", "eos", "failed", "closed", "internal", "bytes"}]
      BY <1>0, <2>1 DEF EndRead, WindowTypes
    <3> QED BY <1>0, <2>1, <3>1, <3>2 DEF WindowTypes
  <2>4. QueueHolds' BY <1>0, <2>1 DEF QueueHolds
  <2> QED BY <1>2, <2>1, <2>2, <2>3, <2>4, EndReadKeeps
<1>4. CASE ~ at < window.from
  <2>1. /\ got' = [got EXCEPT ![s] = @ \o copied] /\ sources' = moved
        /\ window' = Trimmed(cursors, moved) /\ EndRead(s, "bytes")
    BY <1>4 DEF ReadInto
  <2>2. /\ ahead \in Nat /\ take \in Nat /\ skip \in Nat /\ take <= ahead /\ take <= wants[s]
    <3>1. ahead \in Nat /\ skip \in Nat BY <1>1, <1>2, <1>4
    <3> HIDE DEF ahead
    <3>2. take = IF wants[s] <= ahead THEN wants[s] ELSE ahead BY <1>1, <3>1, LesserIs
    <3> QED BY <1>1, <3>1, <3>2
  <2>3. copied = Run(at, take)
    <3> DEFINE start == window.from
               held == window.pulled - window.from
    <3>1. start \in Nat /\ held \in Nat /\ skip + take <= held /\ start + skip = at
      <4> HIDE DEF take
      <4> QED BY <1>1, <1>4, <2>2
    <3>2. window.queue = Run(start, held) BY <1>0, <1>2 DEF QueueHolds
    <3>3. start \in Nat /\ held \in Nat /\ skip \in Nat /\ take \in Nat /\ skip + take <= held
      BY <2>2, <3>1
    <3> HIDE DEF start, held, skip, take
    <3>4. SubSeq(Run(start, held), skip + 1, skip + take) = Run(start + skip, take)
      <4>1. InRun(start, held, skip, take) BY <3>3 DEF InRun
      <4> QED BY <4>1, RunWindow
    <3> HIDE DEF at
    <3> QED BY <3>1, <3>2, <3>4
  <2>4. moved \in [BufferedSources -> SourceState]
    <3>1. at + take \in Nat BY <1>1, <2>2
    <3> HIDE DEF take
    <3> QED BY <1>0, <1>1, <3>1 DEF WindowTypes, SourceState
  <2>5. /\ moved[s].at = at + take /\ moved[s].started = began
        /\ moved[s].limit = sources[s].limit /\ moved[s].state = sources[s].state
        /\ \A x \in BufferedSources : x # s => moved[x] = sources[x]
    <3> HIDE DEF take
    <3> QED BY <1>0, <1>1 DEF WindowTypes, SourceState
  <2> HIDE DEF copied, moved, ahead, skip
  <2>6. \A x \in cursors : window.from <= moved[x].at
    <3> SUFFICES ASSUME NEW x \in cursors PROVE window.from <= moved[x].at OBVIOUS
    <3>1. x \in BufferedSources /\ window.from <= sources[x].at
      BY <1>0 DEF WindowTypes, QueueHolds
    <3>2. CASE x = s
      <4> HIDE DEF take
      <4> QED BY <1>1, <2>2, <2>5, <3>1, <3>2
    <3>3. CASE x # s BY <2>5, <3>1, <3>3
    <3> QED BY <3>2, <3>3
  <2>7. /\ window' \in WindowState /\ window'.from <= window'.pulled
        /\ window'.pulled = window.pulled
        /\ window'.queue = Run(window'.from, window'.pulled - window'.from)
        /\ window'.closed = window.closed /\ window'.ended = window.ended
        /\ window'.exhausted = window.exhausted
        /\ \A x \in cursors : window'.from <= moved[x].at
    <3>1. window.queue = Run(window.from, window.pulled - window.from) /\ cursors \in SUBSET BufferedSources
      BY <1>0, <1>2 DEF QueueHolds, WindowTypes
    <3> QED BY <1>1, <1>2, <2>1, <2>4, <2>6, <3>1, TrimmedIs
  <2>8. QueueHolds' BY <1>0, <1>1, <1>2, <2>1, <2>7 DEF QueueHolds
  <2>9. WindowTypes'
    <3>1. wants' \in [BufferedSources -> Nat] BY <1>0, <2>1 DEF EndRead, WindowTypes
    <3>2. readEnd' \in [BufferedSources -> {"none", "eos", "failed", "closed", "internal", "bytes"}]
      BY <1>0, <2>1 DEF EndRead, WindowTypes
    <3>3. got' \in [BufferedSources -> Seq(Nat)]
      <4>1. got[s] \o Run(at, take) \in Seq(Nat)
        <5>1. at \in Nat /\ take \in Nat /\ got[s] \in Seq(Nat) BY <1>0, <1>1, <2>2 DEF WindowTypes
        <5> HIDE DEF at, take
        <5> QED BY <5>1, RunIs, ConcatProperties
      <4> HIDE DEF at, take
      <4>2. got' = [got EXCEPT ![s] = got[s] \o Run(at, take)] BY <2>1, <2>3
      <4> QED BY <1>0, <4>1, <4>2 DEF WindowTypes
    <3> QED BY <1>0, <1>2, <2>1, <2>4, <2>7, <3>1, <3>2, <3>3 DEF WindowTypes
  <2>10. ASSUME NEW x \in BufferedSources, x # s PROVE SourceOK(x)'
    <3>1. wants'[x] = wants[x] /\ readEnd'[x] = readEnd[x] /\ got'[x] = got[x]
      BY <1>0, <2>1, <2>10 DEF WindowTypes, EndRead
    <3>2. sources'[x] = sources[x] BY <2>1, <2>5, <2>10
    <3> QED BY <1>0, <1>2, <2>7, <3>1, <3>2, UntouchedKeeps
  <2>11. SourceOK(s)'
    <3>1. wants'[s] = 0 /\ readEnd'[s] = "bytes" BY <1>0, <2>1 DEF WindowTypes, EndRead
    <3>2. /\ sources'[s].at = at + take /\ sources'[s].started = began
          /\ sources'[s].limit = sources[s].limit /\ sources'[s].state = sources[s].state
      BY <2>1, <2>5
    <3>3. got'[s] = Run(began, (at + take) - began)
      <4> DEFINE before == at - began
      <4>1. before \in Nat /\ began + before = at /\ before + take = (at + take) - began
        <5> HIDE DEF take
        <5> QED BY <1>1, <2>2
      <4>2. got[s] = Run(began, before) BY <1>0 DEF SourceOK
      <4>3. take \in Nat /\ began \in Nat BY <1>1, <2>2
      <4> HIDE DEF before, take, at, began
      <4>4. got'[s] = got[s] \o copied BY <1>0, <2>1 DEF WindowTypes
      <4>5. got'[s] = Run(began, before) \o Run(began + before, take) BY <2>3, <4>1, <4>2, <4>4
      <4>6. before \in Nat BY <4>1
      <4>7. Run(began, before) \o Run(began + before, take) = Run(began, before + take)
        BY <4>3, <4>6, RunGoesOn
      <4> QED BY <4>1, <4>5, <4>7
    <3>4. /\ began <= at + take /\ at + take <= window.pulled /\ at + take <= MaxStream
      <4>1. take <= window.pulled - at /\ take \in Nat BY <2>2 DEF ahead
      <4> HIDE DEF take
      <4> QED BY <1>1, <4>1, WindowConstants
    <3>5. (at + take) - began <= sources[s].limit
          /\ (sources[s].limit # Infinite => 0 + ((at + take) - began) <= sources[s].limit)
      <4> DEFINE limit == sources[s].limit
      <4>1. limit # Infinite => wants[s] + (at - began) <= limit BY <1>0 DEF SourceOK
      <4>2. take <= wants[s] /\ take \in Nat BY <2>2
      <4>3. limit \in Nat BY <1>1
      <4>4. /\ at \in Nat /\ began \in Nat /\ began <= at /\ wants[s] \in Nat
            /\ at + take <= MaxStream
        BY <1>1, <3>4
      <4> HIDE DEF take, at, began
      <4>5. CASE limit = Infinite
        BY <4>2, <4>4, <4>5, WindowConstants
      <4>6. CASE limit # Infinite
        <5>1. wants[s] + (at - began) <= limit BY <4>1, <4>6
        <5> QED BY <4>2, <4>3, <4>4, <5>1
      <4> QED BY <4>5, <4>6 DEF limit
    <3>6. sources'[s].state = "open" /\ ~ window'.closed => s \in cursors'
      BY <1>0, <1>2, <3>2, <2>7 DEF SourceOK
    <3> HIDE DEF take, at, began
    <3> QED BY <1>2, <3>1, <3>2, <3>3, <3>4, <3>5, <3>6 DEF SourceOK
  <2> QED BY <2>8, <2>9, <2>10, <2>11 DEF WindowInv
<1> QED BY <1>3, <1>4

\* A view opens where a cursor stands or ahead of it, with nothing delivered.
LEMMA OpenViewKeeps ==
  ASSUME WindowInv, NEW s \in BufferedSources, Usable(s),
         NEW offset \in Nat, NEW budget \in Nat, OpenView(s, offset, budget)
  PROVE  WindowInv'
<1>0. WindowTypes /\ QueueHolds /\ \A x \in BufferedSources : SourceOK(x) BY DEF WindowInv
<1> DEFINE here == sources[s].at + offset
           view == [state |-> "open", at |-> here, started |-> here, limit |-> budget]
<1>1. PICK v \in PeekViews :
        /\ sources[v].state = "unborn" /\ sources' = [sources EXCEPT ![v] = view]
        /\ cursors' = cursors \cup {v}
        /\ UNCHANGED <<window, pulls, wants, got, readEnd>>
  BY DEF OpenView
<1>2. v \in BufferedSources /\ sources[s] \in SourceState /\ here \in Nat
  BY <1>0, WindowConstants, SMTT(20) DEF WindowTypes, SourceState
<1>3. view \in SourceState /\ view.at = here /\ view.started = here /\ view.limit = budget
      /\ view.state = "open"
  <2> HIDE DEF here
  <2> QED BY <1>2 DEF SourceState
<1> HIDE DEF view
<1>4. sources'[v] = view /\ \A x \in BufferedSources : x # v => sources'[x] = sources[x]
  BY <1>0, <1>1, <1>2 DEF WindowTypes
<1>5. WindowTypes' BY <1>0, <1>1, <1>2, <1>3 DEF WindowTypes
<1>6. QueueHolds'
  <2>1. window.from <= here
    <3>1. s \in cursors BY <1>0 DEF Usable, SourceOK
    <3>2. window.from <= sources[s].at /\ window.from \in Nat /\ sources[s].at \in Nat
      BY <1>0, <1>2, <3>1 DEF QueueHolds, WindowTypes, WindowState, SourceState
    <3> QED BY <3>2
  <2>2. \A x \in cursors' : window.from <= sources'[x].at
    <3> SUFFICES ASSUME NEW x \in cursors' PROVE window.from <= sources'[x].at OBVIOUS
    <3>1. CASE x = v BY <1>3, <1>4, <2>1, <3>1
    <3>2. CASE x # v BY <1>0, <1>1, <1>4, <3>2 DEF QueueHolds, WindowTypes
    <3> QED BY <3>1, <3>2
  <2> QED BY <1>0, <1>1, <2>2 DEF QueueHolds
<1>7. ASSUME NEW x \in BufferedSources, x # v PROVE SourceOK(x)'
  BY <1>0, <1>1, <1>4, <1>7, UntouchedKeeps
<1>8. SourceOK(v)'
  <2>1. wants[v] = 0 /\ got[v] = Run(sources[v].started, sources[v].at - sources[v].started)
        /\ readEnd[v] \notin {"eos", "internal"} /\ sources[v].at = sources[v].started /\ sources[v] \in SourceState
    BY <1>0, <1>1, <1>2 DEF SourceOK, WindowTypes
  <2>2. here - here = 0 /\ sources[v].at - sources[v].started = 0
    BY <1>2, <2>1 DEF SourceState
  <2>3. got[v] = Run(here, here - here) BY <2>1, <2>2 DEF Run
  <2>4. here <= here /\ here - here <= budget /\ wants[v] + (here - here) <= budget
    BY <1>2, <2>1, <2>2
  <2>5. v \in cursors' BY <1>1
  <2>6. readEnd[v] # "internal" /\ readEnd[v] # "eos" BY <2>1
  <2> HIDE DEF here
  <2> QED BY <1>1, <1>3, <1>4, <2>3, <2>4, <2>5, <2>6 DEF SourceOK
<1> QED BY <1>5, <1>6, <1>7, <1>8 DEF WindowInv

\* peek() and slice() are such views.
LEMMA ViewsKeep ==
  ASSUME WindowInv, NEW s \in BufferedSources, Peek(s) \/ Slice(s)
  PROVE  WindowInv'
<1>0. WindowTypes /\ SourceOK(s) /\ sources[s] \in SourceState BY DEF WindowInv, WindowTypes
<1> DEFINE left == RemainingBudget(s)
<1>1. left \in Nat
  <2>1. left = IF sources[s].limit = Infinite THEN Infinite
               ELSE sources[s].limit - (sources[s].at - sources[s].started)
    BY <1>0, BudgetIs
  <2> QED BY <1>0, <2>1, WindowConstants DEF SourceState, SourceOK
<1>2. CASE Peek(s)
  <2>1. Usable(s) /\ OpenView(s, 0, left) BY <1>2 DEF Peek
  <2> HIDE DEF left
  <2> QED BY <1>1, <2>1, OpenViewKeeps
<1>3. CASE Slice(s)
  <2>1. PICK offset \in 0 .. MaxRead, count \in 0 .. MaxRead :
          OpenView(s, offset, IF left <= offset THEN 0 ELSE Min({count, left - offset}))
    BY <1>3 DEF Slice
  <2>2. Usable(s) BY <1>3 DEF Slice
  <2> DEFINE budget == IF left <= offset THEN 0 ELSE Min({count, left - offset})
  <2>3. offset \in Nat /\ count \in Nat BY WindowConstants
  <2> HIDE DEF left
  <2>4. budget \in Nat
    <3>1. CASE left <= offset BY <3>1
    <3>2. CASE ~ left <= offset
      <4> DEFINE rest == left - offset
      <4>1. rest \in Nat BY <1>1, <2>3, <3>2
      <4> HIDE DEF rest
      <4>2. Min({count, rest}) = IF count <= rest THEN count ELSE rest BY <2>3, <4>1, LesserIs
      <4>3. Min({count, rest}) \in Nat BY <2>3, <4>1, <4>2
      <4> QED BY <3>2, <4>3 DEF rest
    <3> QED BY <3>1, <3>2
  <2>5. OpenView(s, offset, budget) BY <2>1
  <2> HIDE DEF budget
  <2> QED BY <2>2, <2>3, <2>4, <2>5, OpenViewKeeps
<1> QED BY <1>2, <1>3

\* close(): a view's cursor goes, and with the root everything that was kept.
LEMMA CloseSourceKeeps ==
  ASSUME WindowInv, NEW s \in BufferedSources, CloseSource(s)
  PROVE  WindowInv'
<1>0. WindowTypes /\ QueueHolds /\ \A x \in BufferedSources : SourceOK(x) BY DEF WindowInv
<1>1. /\ sources[s].state = "open" /\ sources' = [sources EXCEPT ![s].state = "closed"]
      /\ UNCHANGED <<pulls, wants, got, readEnd>>
  BY DEF CloseSource
<1>2. /\ window \in WindowState /\ sources \in [BufferedSources -> SourceState]
      /\ cursors \in SUBSET BufferedSources /\ sources[s] \in SourceState
  BY <1>0 DEF WindowTypes
<1>3. /\ sources'[s].at = sources[s].at /\ sources'[s].started = sources[s].started
      /\ sources'[s].limit = sources[s].limit /\ sources'[s].state = "closed"
      /\ sources' \in [BufferedSources -> SourceState]
      /\ \A x \in BufferedSources : x # s => sources'[x] = sources[x]
      /\ \A x \in BufferedSources : sources'[x].at = sources[x].at
  BY <1>1, <1>2 DEF SourceState
<1>4. /\ window' \in WindowState /\ cursors' \subseteq cursors
      /\ window.closed => window'.closed
      /\ window'.ended = window.ended
      /\ \A x \in cursors : x # s => x \in cursors' \/ window'.closed
      /\ QueueHolds'
  <2>1. CASE s # Root /\ window.closed
    <3>1. window' = window /\ cursors' = cursors \ {s} BY <2>1 DEF CloseSource
    <3>2. QueueHolds' BY <1>0, <1>2, <1>3, <2>1, <3>1 DEF QueueHolds
    <3> QED BY <1>2, <2>1, <3>1, <3>2
  <2>2. CASE s # Root /\ ~ window.closed
    <3> DEFINE others == cursors \ {s}
    <3>1. window' = Trimmed(others, sources) /\ cursors' = others BY <2>2 DEF CloseSource
    <3>2. /\ others \in SUBSET BufferedSources /\ \A x \in others : window.from <= sources[x].at
          /\ window.from <= window.pulled
          /\ window.queue = Run(window.from, window.pulled - window.from)
      BY <1>0, <1>2, <2>2 DEF QueueHolds
    <3> HIDE DEF others
    <3>3. /\ window' \in WindowState /\ window'.from <= window'.pulled
          /\ window'.pulled = window.pulled
          /\ window'.queue = Run(window'.from, window'.pulled - window'.from)
          /\ window'.closed = window.closed /\ window'.ended = window.ended
          /\ window'.exhausted = window.exhausted
          /\ \A x \in others : window'.from <= sources[x].at
      BY <1>2, <2>2, <3>1, <3>2, TrimmedIs
    <3>4. QueueHolds' BY <1>0, <1>2, <1>3, <2>2, <3>1, <3>2, <3>3 DEF QueueHolds
    <3> QED BY <2>2, <3>1, <3>3, <3>4 DEF others
  <2>3. CASE s = Root
    <3>1. window' = [window EXCEPT !.closed = TRUE, !.queue = <<>>] /\ cursors' = {}
      BY <2>3 DEF CloseSource, TornDown
    <3>2. window' \in WindowState /\ window'.closed /\ window'.ended = window.ended
          /\ window'.from = window.from /\ window'.pulled = window.pulled
      BY <1>2, <3>1, EmptySeq DEF WindowState
    <3>3. QueueHolds' BY <1>0, <3>1, <3>2 DEF QueueHolds
    <3> QED BY <3>1, <3>2, <3>3
  <2> QED BY <2>1, <2>2, <2>3
<1>5. WindowTypes' BY <1>0, <1>1, <1>2, <1>3, <1>4 DEF WindowTypes
<1>6. ASSUME NEW x \in BufferedSources, x # s PROVE SourceOK(x)'
  <2>1. x \in cursors => x \in cursors' \/ window'.closed BY <1>4, <1>6
  <2> QED BY <1>0, <1>1, <1>3, <1>4, <1>6, <2>1, UntouchedKeeps
<1>7. SourceOK(s)'
  <2>1. RemainingBudget(s)' = RemainingBudget(s) BY <1>3 DEF RemainingBudget
  <2> QED BY <1>0, <1>1, <1>3, <1>4, <2>1 DEF SourceOK
<1> QED BY <1>4, <1>5, <1>6, <1>7 DEF WindowInv


\* Every step keeps it.
LEMMA WindowStepKeeps == WindowInv /\ [WindowNext]_windowVars => WindowInv'
<1> SUFFICES ASSUME WindowInv, [WindowNext]_windowVars PROVE WindowInv'
  OBVIOUS
<1>1. CASE UNCHANGED windowVars
  BY <1>1 DEF windowVars, WindowInv, WindowTypes, QueueHolds, SourceOK, RemainingBudget
<1>2. CASE WindowNext
  BY <1>2, StartReadKeeps, PullKeeps, PullFailsKeeps, EndsKeep, ReadIntoKeeps, ViewsKeep,
     CloseSourceKeeps DEF WindowNext
<1> QED BY <1>1, <1>2

\* It is what the property asks, and more.
LEMMA WindowImplies == WindowInv => ReadsInPlace
<1> SUFFICES ASSUME WindowInv, NEW s \in BufferedSources
             PROVE  /\ got[s] = [i \in 1 .. (sources[s].at - sources[s].started) |->
                                   sources[s].started + i - 1]
                    /\ Len(got[s]) <= sources[s].limit
                    /\ sources[s].state = "open" => readEnd[s] # "internal"
                    /\ readEnd[s] = "eos" => RemainingBudget(s) = 0 \/ window.ended
  BY DEF ReadsInPlace
<1> DEFINE began == sources[s].started
           done == sources[s].at - sources[s].started
<1>1. SourceOK(s) /\ sources[s] \in SourceState BY DEF WindowInv, WindowTypes
<1>2. done \in Nat /\ began \in Nat /\ done <= sources[s].limit
  BY <1>1 DEF SourceOK, SourceState
<1>3. got[s] = Run(began, done) BY <1>1 DEF SourceOK
<1>4. Len(got[s]) = done
  <2> HIDE DEF began, done
  <2> QED BY <1>2, <1>3, RunIs
<1>5. got[s] = [i \in 1 .. done |-> began + i - 1] BY <1>3 DEF Run
<1> QED BY <1>1, <1>2, <1>4, <1>5 DEF SourceOK

\* Whatever the other sources of a window do meanwhile, a source delivers the
\* bytes from its own start on, within its budget, and no read of an open source
\* finds its bytes trimmed away: for any stream, any views and any reads (IO-19,
\* IO-20, IO-23, IO-24).
THEOREM WindowReadsInPlace == WindowSpec => []ReadsInPlace
  BY WindowStarts, WindowStepKeeps, WindowImplies, PTL DEF WindowSpec

-----------------------------------------------------------------------------
(* The byte queue.  The place of a chunk is the number of the first byte it *)
(* still holds; the place past the last chunk is that of the next byte to   *)
(* be written.  Each chunk ends at the place of the one behind it.          *)

Chunk == [first : Nat, length : Nat, start : Nat]

PlaceOf(c) ==
  IF c \in DOMAIN chunks THEN chunks[c].first + chunks[c].start ELSE written

QueueTypes ==
  /\ chunks \in Seq(Chunk) /\ headChunk \in 1 .. Len(chunks) + 1
  /\ written \in Nat /\ queued \in Nat /\ generation \in Nat
  /\ seekMemo \in [chunk : Nat, start : Nat, generation : Int]

ChunksAdjoin ==
  /\ \A c \in headChunk .. Len(chunks) :
       /\ chunks[c].start <= chunks[c].length
       /\ chunks[c].first + chunks[c].length = PlaceOf(c + 1)
  /\ \A c, d \in headChunk .. Len(chunks) + 1 : c <= d => PlaceOf(c) <= PlaceOf(d)
  /\ PlaceOf(headChunk) + queued = written

\* A memo of this generation names a chunk of the list and where it starts.
MemoOK ==
  /\ seekMemo.generation <= generation
  /\ seekMemo.generation = generation /\ seekMemo.chunk # NoChunk =>
       /\ seekMemo.chunk \in headChunk .. Len(chunks)
       /\ PlaceOf(headChunk) + seekMemo.start = PlaceOf(seekMemo.chunk)

QueueInv == QueueTypes /\ ChunksAdjoin /\ MemoOK

\* The live bytes of a chunk, and of all from it on, by their places.
LEMMA PlacesAre ==
  ASSUME QueueInv
  PROVE  /\ Len(chunks) \in Nat /\ DOMAIN chunks = 1 .. Len(chunks)
         /\ \A c \in 1 .. Len(chunks) : chunks[c] \in Chunk
         /\ \A c \in Nat : PlaceOf(c) \in Nat
         /\ \A c \in headChunk .. Len(chunks) + 1 :
              PlaceOf(headChunk) <= PlaceOf(c) /\ PlaceOf(c) <= written
         /\ \A c \in headChunk .. Len(chunks) :
              /\ Available(c) \in Nat /\ PlaceOf(c) + Available(c) = PlaceOf(c + 1)
              /\ PlaceOf(c) = chunks[c].first + chunks[c].start
         /\ PlaceOf(Len(chunks) + 1) = written
<1>0. QueueTypes /\ ChunksAdjoin BY DEF QueueInv
<1>1. Len(chunks) \in Nat /\ DOMAIN chunks = 1 .. Len(chunks)
      /\ (\A c \in 1 .. Len(chunks) : chunks[c] \in Chunk)
  BY <1>0, LenProperties, ElementOfSeq DEF QueueTypes
<1>2. \A c \in Nat : PlaceOf(c) \in Nat
  <2> SUFFICES ASSUME NEW c \in Nat PROVE PlaceOf(c) \in Nat OBVIOUS
  <2>1. CASE c \in DOMAIN chunks
    <3>1. chunks[c].first \in Nat /\ chunks[c].start \in Nat BY <1>1, <2>1 DEF Chunk
    <3> QED BY <2>1, <3>1 DEF PlaceOf
  <2>2. CASE c \notin DOMAIN chunks BY <1>0, <2>2 DEF PlaceOf, QueueTypes
  <2> QED BY <2>1, <2>2
<1>3. PlaceOf(Len(chunks) + 1) = written
  <2>1. Len(chunks) + 1 \notin DOMAIN chunks BY <1>1
  <2> QED BY <2>1 DEF PlaceOf
<1>4. headChunk \in 1 .. Len(chunks) + 1 BY <1>0 DEF QueueTypes
<1>5. \A c \in headChunk .. Len(chunks) + 1 :
        PlaceOf(headChunk) <= PlaceOf(c) /\ PlaceOf(c) <= written
  <2> SUFFICES ASSUME NEW c \in headChunk .. Len(chunks) + 1
               PROVE  PlaceOf(headChunk) <= PlaceOf(c) /\ PlaceOf(c) <= written
    OBVIOUS
  <2>1. /\ headChunk \in headChunk .. Len(chunks) + 1
        /\ Len(chunks) + 1 \in headChunk .. Len(chunks) + 1
        /\ headChunk <= c /\ c <= Len(chunks) + 1
    BY <1>1, <1>4
  <2>2. PlaceOf(headChunk) <= PlaceOf(c) /\ PlaceOf(c) <= PlaceOf(Len(chunks) + 1)
    BY <1>0, <2>1 DEF ChunksAdjoin
  <2> QED BY <1>3, <2>2
<1>6. ASSUME NEW c \in headChunk .. Len(chunks)
      PROVE  /\ Available(c) \in Nat /\ PlaceOf(c) + Available(c) = PlaceOf(c + 1)
             /\ PlaceOf(c) = chunks[c].first + chunks[c].start
  <2>1. c \in 1 .. Len(chunks) BY <1>1, <1>4
  <2>2. /\ chunks[c].first \in Nat /\ chunks[c].start \in Nat /\ chunks[c].length \in Nat
    BY <1>1, <2>1 DEF Chunk
  <2>3. PlaceOf(c) = chunks[c].first + chunks[c].start BY <1>1, <2>1 DEF PlaceOf
  <2>4. chunks[c].start <= chunks[c].length /\ chunks[c].first + chunks[c].length = PlaceOf(c + 1)
    BY <1>0 DEF ChunksAdjoin
  <2> QED BY <2>2, <2>3, <2>4 DEF Available
<1> QED BY <1>1, <1>2, <1>3, <1>5, <1>6

\* What is left from a chunk on is the run of bytes from its place to the next
\* one to be written.
LEMMA BytesFromIs ==
  ASSUME QueueInv, NEW c \in headChunk .. Len(chunks) + 1
  PROVE  BytesFrom(c) = Run(PlaceOf(c), written - PlaceOf(c))
<1>0. QueueTypes BY DEF QueueInv
<1>1. /\ Len(chunks) \in Nat /\ headChunk \in 1 .. Len(chunks) + 1 /\ c \in Nat
      /\ written \in Nat /\ PlaceOf(Len(chunks) + 1) = written
      /\ \A d \in Nat : PlaceOf(d) \in Nat
  <2>1. /\ Len(chunks) \in Nat /\ PlaceOf(Len(chunks) + 1) = written
        /\ \A d \in Nat : PlaceOf(d) \in Nat
    BY PlacesAre
  <2>2. headChunk \in 1 .. Len(chunks) + 1 /\ written \in Nat BY <1>0 DEF QueueTypes
  <2>3. c \in Nat BY <2>1, <2>2
  <2> QED BY <2>1, <2>2, <2>3
<1> DEFINE len == Len(chunks) - c + 1
           live == [i \in 1 .. len |-> LiveBytes(c + i - 1)]
           places == [i \in 1 .. len + 1 |-> PlaceOf(c + i - 1)]
<1>2. len \in Nat BY <1>1
<1>3. CASE len = 0
  <2>1. c = Len(chunks) + 1 BY <1>1, <1>3
  <2>2. live = <<>> BY <1>3
  <2>3. BytesFrom(c) = <<>> BY <2>2, FlattenEmpty DEF BytesFrom
  <2>4. written - PlaceOf(c) = 0 BY <1>1, <2>1
  <2>5. Run(PlaceOf(c), 0) = <<>> BY DEF Run
  <2> QED BY <2>3, <2>4, <2>5
<1>4. CASE len # 0
  <2>1. ASSUME NEW i \in 1 .. len
        PROVE  /\ LiveBytes(c + i - 1) \in Seq(Nat)
               /\ PlaceOf(c + i - 1) <= PlaceOf(c + (i + 1) - 1)
               /\ LiveBytes(c + i - 1) =
                    Run(PlaceOf(c + i - 1), PlaceOf(c + (i + 1) - 1) - PlaceOf(c + i - 1))
    <3> DEFINE d == c + i - 1
               place == PlaceOf(d)
               many == Available(d)
    <3>1. d \in headChunk .. Len(chunks) /\ d \in Nat /\ d + 1 = c + (i + 1) - 1 BY <1>1, <1>2
    <3>2. /\ many \in Nat /\ place + many = PlaceOf(d + 1) /\ place \in Nat
          /\ place = chunks[d].first + chunks[d].start
      <4> HIDE DEF d
      <4> QED BY <1>1, <3>1, PlacesAre
    <3>3. LiveBytes(d) = [j \in 1 .. many |-> place + j - 1]
      <4> HIDE DEF d
      <4> QED BY <3>2 DEF LiveBytes
    <3>4. LiveBytes(d) = Run(place, many) BY <3>3 DEF Run
    <3> HIDE DEF place, many, d
    <3>5. LiveBytes(d) \in Seq(Nat)
      <4>1. place \in Nat /\ many \in Nat BY <3>2
      <4> QED BY <3>4, <4>1, RunIs
    <3>6. PlaceOf(d + 1) - place = many /\ place <= PlaceOf(d + 1) BY <3>2
    <3>7. LiveBytes(d) = Run(place, PlaceOf(d + 1) - place) BY <3>4, <3>6
    <3>8. PlaceOf(d + 1) = PlaceOf(c + (i + 1) - 1) BY <3>1
    <3> QED BY <3>5, <3>6, <3>7, <3>8 DEF place, d
  <2> HIDE DEF len
  <2>2. live \in Seq(Seq(Nat)) /\ Len(live) = len
    <3>1. \A i \in 1 .. len : LiveBytes(c + i - 1) \in Seq(Nat) BY <2>1
    <3> QED BY <1>2, <3>1
  <2>3. places \in [1 .. len + 1 -> Nat]
    <3>1. \A i \in 1 .. len + 1 : PlaceOf(c + i - 1) \in Nat
      <4> SUFFICES ASSUME NEW i \in 1 .. len + 1 PROVE PlaceOf(c + i - 1) \in Nat OBVIOUS
      <4>1. c + i - 1 \in Nat BY <1>1, <1>2
      <4> QED BY <1>1, <4>1
    <3> QED BY <3>1
  <2>4. Adjoining(live, places, len)
    <3> SUFFICES ASSUME NEW i \in 1 .. len
                 PROVE  /\ places[i] <= places[i + 1]
                        /\ live[i] = Run(places[i], places[i + 1] - places[i])
      BY <2>2 DEF Adjoining
    <3>1. i \in 1 .. len + 1 /\ i + 1 \in 1 .. len + 1 BY <1>2
    <3>2. places[i] = PlaceOf(c + i - 1) /\ places[i + 1] = PlaceOf(c + (i + 1) - 1) BY <3>1
    <3>3. live[i] = LiveBytes(c + i - 1) OBVIOUS
    <3> HIDE DEF live, places
    <3> QED BY <2>1, <3>2, <3>3
  <2>5. places[1] = PlaceOf(c) /\ places[len + 1] = written
    <3>1. 1 \in 1 .. len + 1 /\ len + 1 \in 1 .. len + 1 BY <1>2
    <3>2. c + 1 - 1 = c /\ c + (len + 1) - 1 = Len(chunks) + 1 BY <1>1 DEF len
    <3>3. places[1] = PlaceOf(c + 1 - 1) /\ places[len + 1] = PlaceOf(c + (len + 1) - 1) BY <3>1
    <3> QED BY <1>1, <3>2, <3>3
  <2>6. BytesFrom(c) = FlattenSeq(live) BY DEF BytesFrom, len
  <2> HIDE DEF live, places
  <2>7. FlattenSeq(live) = Run(places[1], places[len + 1] - places[1])
    BY <1>2, <1>4, <2>2, <2>3, <2>4, AdjoiningFlatten
  <2> QED BY <2>5, <2>6, <2>7
<1> QED BY <1>3, <1>4

\* So there are as many of them as places.
LEMMA BytesLeft ==
  ASSUME QueueInv, NEW c \in headChunk .. Len(chunks) + 1
  PROVE  Len(BytesFrom(c)) = written - PlaceOf(c) /\ written - PlaceOf(c) \in Nat
<1>1. PlaceOf(c) \in Nat /\ PlaceOf(c) <= written /\ written \in Nat
  <2>1. c \in Nat /\ written \in Nat BY DEF QueueInv, QueueTypes
  <2> QED BY <2>1, PlacesAre
<1> DEFINE many == written - PlaceOf(c)
           place == PlaceOf(c)
<1>2. many \in Nat /\ place \in Nat BY <1>1
<1>3. BytesFrom(c) = Run(place, many) BY BytesFromIs
<1> HIDE DEF many, place
<1>4. Len(BytesFrom(c)) = many BY <1>2, <1>3, RunIs
<1> QED BY <1>2, <1>4 DEF many

-----------------------------------------------------------------------------
(* Random access.                                                          *)

\* Where a scan begins.
LEMMA SeekStartIs ==
  ASSUME QueueInv, NEW offset \in 0 .. queued
  PROVE  /\ SeekStart(offset).chunk \in headChunk .. Len(chunks) + 1
         /\ SeekStart(offset).start \in Nat /\ SeekStart(offset).start <= offset
         /\ PlaceOf(headChunk) + SeekStart(offset).start = PlaceOf(SeekStart(offset).chunk)
<1>0. /\ Len(chunks) \in Nat /\ headChunk \in 1 .. Len(chunks) + 1 /\ queued \in Nat
      /\ seekMemo.start \in Nat /\ PlaceOf(headChunk) \in Nat
  <2>1. /\ headChunk \in 1 .. Len(chunks) + 1 /\ queued \in Nat /\ seekMemo.start \in Nat
    BY DEF QueueInv, QueueTypes
  <2>2. Len(chunks) \in Nat /\ \A c \in Nat : PlaceOf(c) \in Nat BY PlacesAre
  <2>3. headChunk \in Nat BY <2>1, <2>2
  <2> QED BY <2>1, <2>2, <2>3
<1>1. CASE MemoUsable(offset)
  <2>1. /\ SeekStart(offset).chunk = seekMemo.chunk /\ SeekStart(offset).start = seekMemo.start
    BY <1>1 DEF SeekStart
  <2>2. /\ seekMemo.chunk \in headChunk .. Len(chunks)
        /\ PlaceOf(headChunk) + seekMemo.start = PlaceOf(seekMemo.chunk)
        /\ seekMemo.start <= offset
    BY <1>1 DEF MemoUsable, QueueInv, MemoOK
  <2>3. seekMemo.chunk \in headChunk .. Len(chunks) + 1 BY <1>0, <2>2
  <2> QED BY <1>0, <2>1, <2>2, <2>3
<1>2. CASE ~ MemoUsable(offset)
  <2>1. SeekStart(offset).chunk = headChunk /\ SeekStart(offset).start = 0
    BY <1>2 DEF SeekStart
  <2>2. headChunk \in headChunk .. Len(chunks) + 1 /\ 0 <= offset BY <1>0
  <2>3. PlaceOf(headChunk) + 0 = PlaceOf(headChunk) BY <1>0
  <2> QED BY <2>1, <2>2, <2>3
<1> QED BY <1>1, <1>2

\* The chunk a byte lies in, and where it starts.
SeekFinds(seek, offset) ==
  /\ seek.generation = generation /\ seek.start \in Nat /\ seek.chunk \in Nat
  /\ seek.chunk = NoChunk => offset = queued
  /\ seek.chunk # NoChunk =>
       /\ seek.chunk \in headChunk .. Len(chunks)
       /\ PlaceOf(headChunk) + seek.start = PlaceOf(seek.chunk)
       /\ seek.start <= offset

\* A scan, from the memo or from the head, finds it.
LEMMA SeekIs ==
  ASSUME QueueInv, NEW offset \in 0 .. queued
  PROVE  SeekFinds(Seek(offset), offset) /\ Seek(offset) \in [chunk : Nat, start : Nat, generation : Int]
<1> DEFINE from == SeekStart(offset).chunk
           base == SeekStart(offset).start
           startOf(c) == base + Len(BytesFrom(from)) - Len(BytesFrom(c))
           reached == {c \in from .. Len(chunks) : offset < startOf(c) + Available(c)}
           P == PlaceOf(headChunk)
           last == Len(chunks)
<1>0. /\ last \in Nat /\ headChunk \in 1 .. last + 1 /\ queued \in Nat /\ written \in Nat
      /\ P \in Nat /\ P + queued = written /\ offset \in Nat /\ offset <= queued
      /\ generation \in Nat
  <2>1. /\ headChunk \in 1 .. Len(chunks) + 1 /\ queued \in Nat /\ written \in Nat
        /\ PlaceOf(headChunk) + queued = written /\ generation \in Nat
    BY DEF QueueInv, QueueTypes, ChunksAdjoin
  <2>2. Len(chunks) \in Nat /\ \A c \in Nat : PlaceOf(c) \in Nat BY PlacesAre
  <2>3. headChunk \in Nat BY <2>1, <2>2
  <2>4. offset \in Nat /\ offset <= queued BY <2>1
  <2> QED BY <2>1, <2>2, <2>3, <2>4
<1>1. /\ from \in headChunk .. last + 1 /\ base \in Nat /\ base <= offset
      /\ P + base = PlaceOf(from)
  BY SeekStartIs
<1>2. \A c \in Nat : PlaceOf(c) \in Nat BY PlacesAre
<1>3. \A c \in headChunk .. last + 1 :
        Len(BytesFrom(c)) = written - PlaceOf(c) /\ written - PlaceOf(c) \in Nat
  BY BytesLeft
<1>4. \A c \in headChunk .. last :
        Available(c) \in Nat /\ PlaceOf(c) + Available(c) = PlaceOf(c + 1)
  BY PlacesAre
<1>5. PlaceOf(last + 1) = written BY PlacesAre
<1>6. Seek(offset) =
        [chunk |-> IF reached = {} THEN NoChunk ELSE Min(reached),
         start |-> IF reached = {} THEN startOf(last + 1) ELSE startOf(Min(reached)),
         generation |-> generation]
  BY DEF Seek
<1> HIDE DEF from, base, P, last
<1>7. \A c \in headChunk .. last + 1 : startOf(c) = PlaceOf(c) - P
  <2> SUFFICES ASSUME NEW c \in headChunk .. last + 1 PROVE startOf(c) = PlaceOf(c) - P OBVIOUS
  <2>1. c \in Nat /\ from \in Nat BY <1>0, <1>1
  <2>2. PlaceOf(c) \in Nat /\ PlaceOf(from) \in Nat BY <1>2, <2>1
  <2>3. Len(BytesFrom(c)) = written - PlaceOf(c) /\ Len(BytesFrom(from)) = written - PlaceOf(from)
    BY <1>1, <1>3
  <2> QED BY <1>0, <1>1, <2>2, <2>3, SMTT(20)
<1> HIDE DEF startOf
<1>8. CASE reached = {}
  <2>1. Seek(offset) = [chunk |-> 0, start |-> startOf(last + 1), generation |-> generation]
    BY <1>6, <1>8 DEF NoChunk
  <2>2. last + 1 \in headChunk .. last + 1 BY <1>0
  <2>3. startOf(last + 1) = queued BY <1>0, <1>5, <1>7, <2>2
  <2>4. offset = queued
    <3>1. CASE from = last + 1 BY <1>0, <1>1, <1>5, <3>1
    <3>2. CASE from # last + 1
      <4>1. last \in from .. last /\ last \in headChunk .. last /\ last \in headChunk .. last + 1
            /\ last \in Nat
        BY <1>0, <1>1, <3>2
      <4>2. ~ offset < startOf(last) + Available(last) BY <1>8, <4>1 DEF last
      <4>3. startOf(last) = PlaceOf(last) - P /\ PlaceOf(last) \in Nat
            /\ Available(last) \in Nat /\ PlaceOf(last) + Available(last) = written
        BY <1>2, <1>4, <1>5, <1>7, <4>1
      <4>4. ~ offset < (PlaceOf(last) - P) + Available(last) BY <4>2, <4>3
      <4> QED BY <1>0, <4>3, <4>4
    <3> QED BY <3>1, <3>2
  <2>5. Seek(offset).chunk = NoChunk /\ Seek(offset).start = queued
        /\ Seek(offset).generation = generation /\ NoChunk = 0
        /\ Seek(offset) \in [chunk : Nat, start : Nat, generation : Int]
    BY <1>0, <2>1, <2>3 DEF NoChunk
  <2> QED BY <1>0, <2>4, <2>5 DEF SeekFinds
<1>9. CASE reached # {}
  <2> DEFINE m == Min(reached)
  <2>1. reached \in SUBSET Nat
    <3>1. \A c \in from .. last : c \in Nat BY <1>0, <1>1
    <3> QED BY <3>1 DEF last
  <2>2. m \in reached /\ \A c \in reached : m <= c
    <3> HIDE DEF reached
    <3> QED BY <1>9, <2>1, LeastOfNaturals
  <2> HIDE DEF m
  <2>3. m \in from .. last /\ offset < startOf(m) + Available(m) BY <2>2 DEF last
  <2>4. m \in headChunk .. last /\ m \in headChunk .. last + 1 /\ m \in Nat /\ m >= from
        /\ from \in Nat
    BY <1>0, <1>1, <2>3
  <2>5. startOf(m) = PlaceOf(m) - P /\ PlaceOf(m) \in Nat BY <1>2, <1>7, <2>4
  <2>6. startOf(m) <= offset /\ startOf(m) \in Nat
    <3>1. CASE m = from BY <1>0, <1>1, <2>5, <3>1
    <3>2. CASE m # from
      <4> DEFINE b == m - 1
      <4>1. b \in from .. last /\ b \in headChunk .. last /\ b \in headChunk .. last + 1
            /\ b \in Nat /\ b + 1 = m /\ ~ m <= b
        BY <1>0, <1>1, <2>3, <2>4, <3>2
      <4> HIDE DEF b
      <4>2. ~ offset < startOf(b) + Available(b) BY <2>2, <4>1 DEF last
      <4>3. startOf(b) = PlaceOf(b) - P /\ PlaceOf(b) \in Nat
            /\ Available(b) \in Nat /\ PlaceOf(b) + Available(b) = PlaceOf(m)
        BY <1>2, <1>4, <1>7, <4>1
      <4>4. ~ offset < PlaceOf(m) - P BY <1>0, <4>2, <4>3
      <4>5. P <= PlaceOf(m)
        <5>1. P <= PlaceOf(m) BY <2>4, PlacesAre DEF P, last
        <5> QED BY <5>1
      <4> QED BY <1>0, <2>5, <4>4, <4>5
    <3> QED BY <3>1, <3>2
  <2>7. Seek(offset) = [chunk |-> m, start |-> startOf(m), generation |-> generation]
    BY <1>6, <1>9 DEF m
  <2>8. Seek(offset).chunk = m /\ Seek(offset).start = startOf(m)
        /\ Seek(offset).generation = generation
        /\ Seek(offset) \in [chunk : Nat, start : Nat, generation : Int]
    BY <1>0, <2>4, <2>6, <2>7
  <2>9. m # NoChunk BY <1>0, <2>4 DEF NoChunk
  <2>10. P + startOf(m) = PlaceOf(m) BY <1>0, <2>5
  <2> HIDE DEF reached
  <2> QED BY <2>4, <2>6, <2>8, <2>9, <2>10 DEF SeekFinds, P, last
<1> QED BY <1>8, <1>9

\* What a random access copies is a window of the run.
LEMMA MaterializeIs ==
  ASSUME QueueInv, NEW offset \in 0 .. queued, NEW count \in 0 .. queued - offset
  PROVE  Materialize(offset, count) = Run((written - queued) + offset, count)
<1> DEFINE at == Seek(offset).chunk
           begins == Seek(offset).start
           P == PlaceOf(headChunk)
<1>0. /\ P \in Nat /\ P + queued = written /\ queued \in Nat /\ written \in Nat
      /\ offset \in Nat /\ count \in Nat /\ offset + count <= queued
      /\ Len(chunks) \in Nat /\ headChunk \in 1 .. Len(chunks) + 1
  <2>1. /\ headChunk \in 1 .. Len(chunks) + 1 /\ queued \in Nat /\ written \in Nat
        /\ PlaceOf(headChunk) + queued = written
    BY DEF QueueInv, QueueTypes, ChunksAdjoin
  <2>2. Len(chunks) \in Nat /\ \A c \in Nat : PlaceOf(c) \in Nat BY PlacesAre
  <2>3. headChunk \in Nat BY <2>1, <2>2
  <2>4. offset \in Nat /\ count \in Nat /\ offset + count <= queued BY <2>1
  <2> QED BY <2>1, <2>2, <2>3, <2>4
<1>1. SeekFinds(Seek(offset), offset) BY SeekIs
<1> DEFINE skip == offset - begins
<1>2. Materialize(offset, count) =
        IF at = NoChunk THEN <<>> ELSE SubSeq(BytesFrom(at), skip + 1, skip + count)
  BY DEF Materialize
<1>3. CASE at = NoChunk
  <2>1. offset = queued BY <1>1, <1>3 DEF SeekFinds
  <2>2. count = 0 BY <1>0, <2>1
  <2>3. Run((written - queued) + offset, 0) = <<>> BY DEF Run
  <2> QED BY <1>2, <1>3, <2>2, <2>3
<1>4. CASE at # NoChunk
  <2>1. /\ at \in headChunk .. Len(chunks) /\ P + begins = PlaceOf(at)
        /\ begins <= offset /\ begins \in Nat
    BY <1>1, <1>4 DEF SeekFinds
  <2> DEFINE place == PlaceOf(at)
             held == written - place
  <2> HIDE DEF at, begins, P
  <2>2. at \in headChunk .. Len(chunks) + 1 /\ at \in Nat BY <1>0, <2>1
  <2>3. place \in Nat /\ held \in Nat BY <2>2, PlacesAre, BytesLeft
  <2>4. BytesFrom(at) = Run(place, held) BY <2>2, BytesFromIs
  <2>5. skip \in Nat /\ skip + count <= held BY <1>0, <2>1, <2>3
  <2>6. place + skip = (written - queued) + offset BY <1>0, <2>1, <2>3
  <2> HIDE DEF skip, place, held
  <2>7. count \in Nat BY <1>0
  <2>8. SubSeq(Run(place, held), skip + 1, skip + count) = Run(place + skip, count)
    <3>1. InRun(place, held, skip, count) BY <2>3, <2>5, <2>7 DEF InRun
    <3> QED BY <3>1, RunWindow
  <2>9. Materialize(offset, count) = SubSeq(BytesFrom(at), skip + 1, skip + count)
    BY <1>2, <1>4
  <2> QED BY <2>4, <2>6, <2>8, <2>9
<1> QED BY <1>3, <1>4

\* It is what the property asks.
LEMMA QueueImplies == QueueInv => QueueIsFlat
<1> SUFFICES ASSUME QueueInv PROVE QueueIsFlat OBVIOUS
<1>1. Len(BytesFrom(headChunk)) = queued
  <2>1. /\ headChunk \in 1 .. Len(chunks) + 1 /\ queued \in Nat /\ written \in Nat
        /\ PlaceOf(headChunk) + queued = written
    BY DEF QueueInv, QueueTypes, ChunksAdjoin
  <2>2. Len(chunks) \in Nat /\ \A c \in Nat : PlaceOf(c) \in Nat BY PlacesAre
  <2>3. headChunk \in headChunk .. Len(chunks) + 1 /\ headChunk \in Nat BY <2>1, <2>2
  <2>4. Len(BytesFrom(headChunk)) = written - PlaceOf(headChunk) BY <2>3, BytesLeft
  <2> QED BY <2>1, <2>2, <2>3, <2>4
<1>2. ASSUME NEW offset \in 0 .. queued, NEW count \in 0 .. (queued - offset)
      PROVE  Materialize(offset, count) =
               [i \in 1 .. count |-> written - queued + offset + i - 1]
  BY MaterializeIs DEF Run
<1> QED BY <1>1, <1>2 DEF QueueIsFlat

-----------------------------------------------------------------------------
(* The steps.                                                              *)

\* It holds of an empty queue.
LEMMA QueueStarts == ByteQueueInit => QueueInv
<1> SUFFICES ASSUME ByteQueueInit PROVE QueueInv OBVIOUS
<1>1. /\ chunks = <<>> /\ headChunk = 1 /\ written = 0 /\ queued = 0 /\ generation = 0
      /\ seekMemo = [chunk |-> 0, start |-> 0, generation |-> -1]
  BY DEF ByteQueueInit, NoChunk
<1>2. <<>> \in Seq(Chunk) /\ Len(<<>>) = 0 /\ DOMAIN <<>> = {} BY EmptySeq
<1>3. QueueTypes
  <2>1. seekMemo \in [chunk : Nat, start : Nat, generation : Int] BY <1>1
  <2>2. headChunk \in 1 .. Len(chunks) + 1 BY <1>1, <1>2
  <2> QED BY <1>1, <1>2, <2>1, <2>2 DEF QueueTypes
<1>4. \A c : PlaceOf(c) = 0 BY <1>1, <1>2 DEF PlaceOf
<1>5. ChunksAdjoin
  <2>1. headChunk .. Len(chunks) = {} BY <1>1, <1>2
  <2> QED BY <1>1, <1>4, <2>1 DEF ChunksAdjoin
<1>6. MemoOK BY <1>1 DEF MemoOK
<1> QED BY <1>3, <1>5, <1>6 DEF QueueInv

\* A write puts a chunk behind the last; the memo stays good.
LEMMA WritePieceKeeps == ASSUME QueueInv, WritePiece PROVE QueueInv'
<1>0. PICK last : last = Len(chunks) OBVIOUS
<1>1. PICK n \in 1 .. MaxPiece :
        /\ chunks' = AppendChunk(n) /\ written' = written + n /\ queued' = queued + n
  BY DEF WritePiece
<1>2. UNCHANGED <<headChunk, generation, seekMemo>> BY DEF WritePiece
<1>3. /\ last \in Nat /\ DOMAIN chunks = 1 .. last /\ headChunk \in 1 .. last + 1
      /\ written \in Nat /\ queued \in Nat /\ n \in Nat /\ chunks \in Seq(Chunk)
      /\ \A c \in Nat : PlaceOf(c) \in Nat
      /\ PlaceOf(last + 1) = written
  <2>1. /\ headChunk \in 1 .. Len(chunks) + 1 /\ written \in Nat /\ queued \in Nat
        /\ chunks \in Seq(Chunk)
    BY DEF QueueInv, QueueTypes
  <2>2. n \in Nat BY ByteQueueAssumption
  <2>3. /\ last \in Nat /\ DOMAIN chunks = 1 .. last /\ PlaceOf(last + 1) = written
        /\ \A c \in Nat : PlaceOf(c) \in Nat
    BY <1>0, PlacesAre
  <2> QED BY <1>0, <2>1, <2>2, <2>3
<1> DEFINE new == [first |-> written, length |-> n, start |-> 0]
<1>4. new \in Chunk /\ new.first = written /\ new.length = n /\ new.start = 0 BY <1>3 DEF Chunk
<1>5. chunks' = Append(chunks, new) BY <1>1 DEF AppendChunk
<1> HIDE DEF new
<1>6. /\ chunks' \in Seq(Chunk) /\ Len(chunks') = last + 1
      /\ \A c \in 1 .. last : chunks'[c] = chunks[c]
      /\ chunks'[last + 1] = new
  BY <1>0, <1>3, <1>4, <1>5, AppendProperties
<1>7. DOMAIN chunks' = 1 .. last + 1 BY <1>6, LenProperties
<1>8. /\ \A c \in 1 .. last : PlaceOf(c)' = PlaceOf(c)
      /\ PlaceOf(last + 1)' = written /\ PlaceOf(last + 2)' = written + n
  <2>1. ASSUME NEW c \in 1 .. last PROVE PlaceOf(c)' = PlaceOf(c)
    <3>1. c \in 1 .. last + 1 BY <1>3
    <3> QED BY <1>3, <1>6, <1>7, <3>1 DEF PlaceOf
  <2>2. PlaceOf(last + 1)' = written
    <3>1. last + 1 \in DOMAIN chunks' BY <1>3, <1>7
    <3> QED BY <1>3, <1>4, <1>6, <3>1 DEF PlaceOf
  <2>3. PlaceOf(last + 2)' = written + n
    <3>1. last + 2 \notin DOMAIN chunks' BY <1>3, <1>7
    <3> QED BY <1>1, <3>1 DEF PlaceOf
  <2> QED BY <2>1, <2>2, <2>3
<1>9. QueueTypes'
  <2>1. headChunk' \in 1 .. Len(chunks') + 1 BY <1>2, <1>3, <1>6
  <2>2. written' \in Nat /\ queued' \in Nat BY <1>1, <1>3
  <2>3. generation \in Nat /\ seekMemo \in [chunk : Nat, start : Nat, generation : Int]
    BY DEF QueueInv, QueueTypes
  <2> QED BY <1>2, <1>6, <2>1, <2>2, <2>3 DEF QueueTypes
<1>10. \A c \in headChunk .. last + 1 : PlaceOf(c)' = PlaceOf(c)
  <2> SUFFICES ASSUME NEW c \in headChunk .. last + 1 PROVE PlaceOf(c)' = PlaceOf(c) OBVIOUS
  <2>1. c \in 1 .. last \/ c = last + 1 BY <1>3
  <2> QED BY <1>3, <1>8, <2>1
<1>11. ChunksAdjoin'
  <2>0. /\ \A c \in headChunk .. last :
             /\ chunks[c].start <= chunks[c].length
             /\ chunks[c].first + chunks[c].length = PlaceOf(c + 1)
        /\ \A c, d \in headChunk .. last + 1 : c <= d => PlaceOf(c) <= PlaceOf(d)
        /\ PlaceOf(headChunk) + queued = written
    BY <1>0 DEF QueueInv, ChunksAdjoin
  <2>1. ASSUME NEW c \in headChunk .. last + 1
        PROVE  /\ chunks'[c].start <= chunks'[c].length
               /\ chunks'[c].first + chunks'[c].length = PlaceOf(c + 1)'
    <3>1. CASE c = last + 1
      <4>1. last + 1 + 1 = last + 2 BY <1>3
      <4>2. PICK d : d = c + 1 OBVIOUS
      <4>3. d = last + 2 BY <3>1, <4>1, <4>2
      <4>4. PlaceOf(d)' = written + n BY <1>8, <4>3
      <4>5. PlaceOf(c + 1)' = written + n BY <4>2, <4>4
      <4>6. chunks'[c] = new BY <1>6, <3>1
      <4>7. 0 <= n BY <1>3
      <4> QED BY <1>4, <4>5, <4>6, <4>7
    <3>2. CASE c # last + 1
      <4>1. c \in headChunk .. last /\ c \in 1 .. last /\ c + 1 \in headChunk .. last + 1
        BY <1>3, <3>2
      <4>2. PlaceOf(c + 1)' = PlaceOf(c + 1)
        <5> DEFINE d == c + 1
        <5>1. d \in headChunk .. last + 1 BY <4>1
        <5> HIDE DEF d
        <5>2. PlaceOf(d)' = PlaceOf(d) BY <1>10, <5>1
        <5> QED BY <5>2 DEF d
      <4> QED BY <1>6, <2>0, <4>1, <4>2
    <3> QED BY <3>1, <3>2
  <2>2. ASSUME NEW c \in headChunk .. last + 2, NEW d \in headChunk .. last + 2, c <= d
        PROVE  PlaceOf(c)' <= PlaceOf(d)'
    <3>1. CASE d # last + 2
      <4>1. c \in headChunk .. last + 1 /\ d \in headChunk .. last + 1 BY <1>3, <2>2, <3>1
      <4>2. PlaceOf(c)' = PlaceOf(c) /\ PlaceOf(d)' = PlaceOf(d) BY <1>10, <4>1
      <4> QED BY <2>0, <2>2, <4>1, <4>2
    <3>2. CASE d = last + 2 /\ c # last + 2
      <4>1. c \in headChunk .. last + 1 /\ last + 1 \in headChunk .. last + 1 /\ c <= last + 1
            /\ c \in Nat
        BY <1>3, <3>2
      <4>2. PlaceOf(c)' = PlaceOf(c) /\ PlaceOf(d)' = written + n BY <1>8, <1>10, <3>2, <4>1
      <4>3. PlaceOf(c) <= written /\ PlaceOf(c) \in Nat BY <1>3, <2>0, <4>1
      <4> QED BY <1>3, <4>2, <4>3
    <3>3. CASE d = last + 2 /\ c = last + 2 BY <1>3, <1>8, <3>3
    <3> QED BY <3>1, <3>2, <3>3
  <2>3. PlaceOf(headChunk)' + queued' = written'
    <3>1. headChunk \in headChunk .. last + 1 /\ headChunk \in Nat BY <1>3
    <3>2. PICK h : h = headChunk OBVIOUS
    <3>3. PlaceOf(h)' = PlaceOf(h) BY <1>10, <3>1, <3>2
    <3>4. PlaceOf(h)' + queued' = written'
      <4> DEFINE place == PlaceOf(h)
      <4>1. place \in Nat /\ place + queued = written BY <1>3, <2>0, <3>1, <3>2
      <4>2. queued \in Nat /\ n \in Nat BY <1>3
      <4> HIDE DEF place
      <4>3. place + (queued + n) = written + n BY <4>1, <4>2
      <4> QED BY <1>1, <3>3, <4>3 DEF place
    <3>5. PlaceOf(headChunk)' = PlaceOf(h)' BY <1>2, <3>2 DEF PlaceOf
    <3> QED BY <3>4, <3>5
  <2>4. headChunk' = headChunk /\ Len(chunks') = last + 1 /\ last + 1 + 1 = last + 2
    BY <1>2, <1>3, <1>6
  <2> QED BY <2>1, <2>2, <2>3, <2>4 DEF ChunksAdjoin
<1>12. MemoOK'
  <2>1. CASE seekMemo.generation = generation /\ seekMemo.chunk # NoChunk
    <3>1. /\ seekMemo.chunk \in headChunk .. last
          /\ PlaceOf(headChunk) + seekMemo.start = PlaceOf(seekMemo.chunk)
      BY <1>0, <2>1 DEF QueueInv, MemoOK
    <3>2. PICK h, m : h = headChunk /\ m = seekMemo.chunk OBVIOUS
    <3>0. last \in Nat /\ headChunk \in 1 .. last + 1 BY <1>3
    <3>3. h \in headChunk .. last + 1 /\ m \in headChunk .. last + 1
      <4>1. headChunk \in headChunk .. last + 1 /\ seekMemo.chunk \in headChunk .. last + 1
        BY <3>0, <3>1
      <4> QED BY <3>2, <4>1
    <3>4. PlaceOf(h)' = PlaceOf(h) /\ PlaceOf(m)' = PlaceOf(m) BY <1>10, <3>3
    <3>5. PlaceOf(headChunk)' = PlaceOf(h)' /\ PlaceOf(seekMemo.chunk)' = PlaceOf(m)'
      BY <1>2, <3>2 DEF PlaceOf
    <3>6. seekMemo.chunk \in headChunk .. Len(chunks')
      <4>1. Len(chunks') = last + 1 BY <1>6
      <4> QED BY <3>0, <3>1, <4>1
    <3> QED BY <1>2, <2>1, <3>1, <3>2, <3>4, <3>5, <3>6 DEF MemoOK, QueueInv
  <2>2. CASE ~ (seekMemo.generation = generation /\ seekMemo.chunk # NoChunk)
    BY <1>2, <2>2 DEF MemoOK, QueueInv
  <2> QED BY <2>1, <2>2
<1> QED BY <1>9, <1>11, <1>12 DEF QueueInv

\* What consuming leaves of a chunk: nothing of those before the byte that is
\* first now, all of those after it.
LEMMA ConsumedIs ==
  ASSUME QueueInv, NEW count \in 1 .. queued, NEW c \in headChunk .. Len(chunks)
  PROVE  LET first == PlaceOf(headChunk) + count
             k == Consumed(count)[c] IN
         /\ k \in Chunk /\ k.first = chunks[c].first /\ k.length = chunks[c].length
         /\ k.start <= k.length
         /\ first <= PlaceOf(c) => k = chunks[c]
         /\ PlaceOf(c) <= first /\ first <= PlaceOf(c + 1) => k.first + k.start = first
<1> DEFINE P == PlaceOf(headChunk)
           first == P + count
           place == PlaceOf(c)
           many == Available(c)
           k == Consumed(count)[c]
           gone == count - (place - P)
           used == Min({many, Max({0, gone})})
<1>1. /\ headChunk \in 1 .. Len(chunks) + 1 /\ written \in Nat /\ queued \in Nat
  BY DEF QueueInv, QueueTypes
<1>2. /\ Len(chunks) \in Nat /\ DOMAIN chunks = 1 .. Len(chunks)
      /\ (\A d \in 1 .. Len(chunks) : chunks[d] \in Chunk)
      /\ (\A d \in Nat : PlaceOf(d) \in Nat)
  BY PlacesAre
<1>3. /\ c \in 1 .. Len(chunks) /\ c \in Nat /\ headChunk \in Nat /\ ~ c < headChunk
      /\ c \in headChunk .. Len(chunks) + 1 /\ headChunk \in headChunk .. Len(chunks) + 1
  BY <1>1, <1>2
<1>4. /\ many \in Nat /\ place + many = PlaceOf(c + 1) /\ place = chunks[c].first + chunks[c].start
      /\ P <= place
  BY <1>3, PlacesAre
<1>5. P \in Nat /\ place \in Nat /\ count \in Nat BY <1>1, <1>2, <1>3
<1>6. BytesBefore(c) = place - P
  <2>1. /\ Len(BytesFrom(headChunk)) = written - P /\ Len(BytesFrom(c)) = written - place
    BY <1>3, BytesLeft
  <2> QED BY <1>1, <1>5, <2>1 DEF BytesBefore
<1>7. chunks[c] \in Chunk BY <1>2, <1>3
<1>8. k = [chunks[c] EXCEPT !.start = @ + used]
  <2>1. Consumed(count)[c] =
          [chunks[c] EXCEPT !.start = @ + Min({Available(c), Max({0, count - BytesBefore(c)})})]
    BY <1>2, <1>3 DEF Consumed
  <2> QED BY <1>6, <2>1
<1>9. gone \in Int BY <1>5
<1>10. used = IF gone <= 0 THEN 0 ELSE IF many <= gone THEN many ELSE gone
  <2> HIDE DEF gone, many
  <2>1. Max({0, gone}) = IF 0 >= gone THEN 0 ELSE gone BY <1>9, GreaterIs
  <2> DEFINE most == Max({0, gone})
  <2>2. most \in Int BY <1>9, <2>1
  <2> HIDE DEF most
  <2>3. Min({many, most}) = IF many <= most THEN many ELSE most BY <1>4, <2>2, LesserIs
  <2>4. CASE gone <= 0
    <3>1. most = 0 BY <1>9, <2>1, <2>4 DEF most
    <3> QED BY <1>4, <2>3, <2>4, <3>1 DEF most
  <2>5. CASE ~ gone <= 0
    <3>1. most = gone BY <1>9, <2>1, <2>5 DEF most
    <3> QED BY <2>3, <2>5, <3>1 DEF most
  <2> QED BY <2>4, <2>5
<1>11. used \in Nat /\ used <= many
  <2> HIDE DEF used, many, gone
  <2> QED BY <1>4, <1>9, <1>10
<1>12. /\ chunks[c].first \in Nat /\ chunks[c].start \in Nat /\ chunks[c].length \in Nat
       /\ chunks[c].start + many = chunks[c].length
  BY <1>7 DEF Chunk, Available
<1> HIDE DEF used
<1>13. /\ k \in Chunk /\ k.first = chunks[c].first /\ k.length = chunks[c].length
       /\ k.start = chunks[c].start + used
  <2>1. chunks[c].start + used \in Nat BY <1>11, <1>12
  <2> QED BY <1>7, <1>8, <2>1 DEF Chunk
<1> HIDE DEF k, many
<1>14. k.start <= k.length BY <1>11, <1>12, <1>13, <1>4
<1>15. ASSUME first <= place PROVE k = chunks[c]
  <2>1. gone <= 0 BY <1>5, <1>15
  <2>2. used = 0 BY <1>10, <2>1
  <2>3. k.start = chunks[c].start BY <1>12, <1>13, <2>2
  <2> QED BY <1>7, <1>13, <2>3 DEF Chunk
<1>16. ASSUME place <= first, first <= place + many PROVE k.first + k.start = first
  <2>1. gone >= 0 /\ gone <= many BY <1>4, <1>5, <1>16
  <2>2. used = gone
    <3>1. many \in Int BY <1>4
    <3> HIDE DEF gone
    <3>2. gone = 0 \/ gone > 0 BY <1>9, <2>1
    <3>3. many <= gone => many = gone BY <1>9, <2>1, <3>1
    <3>4. CASE gone = 0
      <4>1. gone <= 0 BY <3>4
      <4> QED BY <1>10, <3>4, <4>1
    <3>5. CASE gone > 0
      <4>1. ~ gone <= 0 BY <1>9, <3>5
      <4> QED BY <1>10, <3>3, <4>1
    <3> QED BY <3>2, <3>4, <3>5
  <2>3. chunks[c].first + (chunks[c].start + gone) = first
    <3>1. PICK a \in Nat, b \in Nat, p \in Nat, q \in Nat :
            a = chunks[c].first /\ b = chunks[c].start /\ p = place /\ q = P
      BY <1>5, <1>12
    <3>2. p = a + b /\ gone = count - (p - q) /\ first = q + count BY <1>4, <3>1
    <3>3. a + (b + (count - (p - q))) = q + count
      <4>1. count \in Nat BY <1>5
      <4>2. p = a + b BY <3>2
      <4> QED BY <4>1, <4>2
    <3> QED BY <3>1, <3>2, <3>3
  <2> QED BY <1>13, <2>2, <2>3
<1> QED BY <1>4, <1>13, <1>14, <1>15, <1>16 DEF k

\* A number above the first of a range has one before it.
LEMMA OneBefore ==
  ASSUME NEW a \in Nat, NEW z \in Nat, NEW h \in Nat, a <= h, h <= z + 1, h # a
  PROVE  \E b \in a .. z : b + 1 = h /\ ~ h <= b
<1>1. h - 1 \in a .. z /\ (h - 1) + 1 = h /\ ~ h <= h - 1 OBVIOUS
<1> QED BY <1>1

\* The chunk that is the head now.
LEMMA NewHeadIs ==
  ASSUME QueueInv, NEW count \in 1 .. queued, DropBytes(count), NEW h, h = headChunk'
  PROVE  /\ h \in headChunk .. Len(chunks) + 1
         /\ PlaceOf(h) <= PlaceOf(headChunk) + count
         /\ h # Len(chunks) + 1 => PlaceOf(headChunk) + count < PlaceOf(h + 1)
         /\ h = Len(chunks) + 1 => PlaceOf(headChunk) + count = written
<1>0. PICK head, last, P : head = headChunk /\ last = Len(chunks) /\ P = PlaceOf(head)
  OBVIOUS
<1> DEFINE heads == {c \in head .. last : BytesBefore(c) + Available(c) > count} \cup {last + 1}
<1>1. /\ head \in 1 .. last + 1 /\ written \in Nat /\ queued \in Nat
      /\ P + queued = written
  BY <1>0 DEF QueueInv, QueueTypes, ChunksAdjoin
<1>2. /\ last \in Nat /\ (\A d \in Nat : PlaceOf(d) \in Nat)
      /\ PlaceOf(last + 1) = written
  BY <1>0, PlacesAre
<1>3. head \in Nat /\ head \in head .. last + 1
      /\ count \in Nat /\ count <= queued
  BY <1>1, <1>2
<1>4. P \in Nat BY <1>0, <1>2, <1>3
<1>5. ASSUME NEW c \in head .. last
      PROVE  BytesBefore(c) + Available(c) = PlaceOf(c + 1) - P /\ PlaceOf(c + 1) \in Nat
  <2>1. c \in head .. last + 1 /\ c \in Nat /\ c + 1 \in Nat BY <1>2, <1>3
  <2>2. /\ Len(BytesFrom(head)) = written - P /\ Len(BytesFrom(c)) = written - PlaceOf(c)
    BY <1>0, <1>3, <2>1, BytesLeft
  <2>3. Available(c) \in Nat /\ PlaceOf(c) + Available(c) = PlaceOf(c + 1) BY <1>0, PlacesAre
  <2>4. PlaceOf(c) \in Nat /\ PlaceOf(c + 1) \in Nat BY <1>2, <2>1
  <2>5. BytesBefore(c) = (written - P) - (written - PlaceOf(c)) BY <1>0, <2>2 DEF BytesBefore
  <2> QED BY <1>1, <1>4, <2>3, <2>4, <2>5
<1>6. heads \in SUBSET Nat /\ heads # {}
  <2>1. \A c \in head .. last : c \in Nat BY <1>2, <1>3
  <2> QED BY <1>2, <2>1
<1>7. h = Min(heads) BY <1>0 DEF DropBytes
<1>8. h \in heads /\ \A c \in heads : h <= c
  <2> HIDE DEF heads
  <2> QED BY <1>6, <1>7, LeastOfNaturals
<1>9. h \in head .. last + 1 /\ h \in Nat
  <2>1. h \in head .. last \/ h = last + 1 BY <1>8
  <2> QED BY <1>2, <1>3, <1>1, <2>1
<1>10. PlaceOf(h) <= P + count
  <2>1. CASE h = head
    <3>1. PlaceOf(h) = P BY <1>0, <2>1
    <3> QED BY <1>3, <1>4, <3>1
  <2>2. CASE h # head
    <3>0. head \in Nat /\ last \in Nat /\ h \in Nat /\ head <= h /\ h <= last + 1
      BY <1>2, <1>3, <1>9
    <3>1. PICK b \in head .. last : b + 1 = h /\ ~ h <= b BY <2>2, <3>0, OneBefore
    <3>2. ~ BytesBefore(b) + Available(b) > count
      <4>1. b \notin heads BY <1>8, <3>1
      <4> QED BY <4>1
    <3>3. BytesBefore(b) + Available(b) = PlaceOf(h) - P /\ PlaceOf(h) \in Nat BY <1>5, <3>1
    <3> QED BY <1>3, <1>4, <3>2, <3>3
  <2> QED BY <2>1, <2>2
<1>11. ASSUME h # last + 1 PROVE P + count < PlaceOf(h + 1)
  <2>1. h \in head .. last /\ BytesBefore(h) + Available(h) > count BY <1>8, <1>11
  <2>2. BytesBefore(h) + Available(h) = PlaceOf(h + 1) - P /\ PlaceOf(h + 1) \in Nat BY <1>5, <2>1
  <2> QED BY <1>3, <1>4, <2>1, <2>2
<1>12. ASSUME h = last + 1 PROVE P + count = written
  <2>1. written <= P + count BY <1>2, <1>10, <1>12
  <2> QED BY <1>1, <1>3, <1>4, <2>1
<1> QED BY <1>0, <1>9, <1>10, <1>11, <1>12

\* Bytes leave from the front; a memo taken before is of an older generation.
LEMMA DropKeeps ==
  ASSUME QueueInv, NEW count \in 1 .. queued, DropBytes(count), written' = written,
         seekMemo' \in [chunk : Nat, start : Nat, generation : Int],
         seekMemo'.generation <= generation
  PROVE  QueueInv'
<1>0. PICK h, last, first, head :
        h = headChunk' /\ last = Len(chunks) /\ head = headChunk /\ first = PlaceOf(head) + count
  OBVIOUS
<1>1. /\ chunks' = Consumed(count) /\ queued' = queued - count /\ generation' = generation + 1
  BY DEF DropBytes
<1>2. /\ h \in head .. last + 1 /\ PlaceOf(h) <= first
      /\ h # last + 1 => first < PlaceOf(h + 1)
      /\ h = last + 1 => first = written
  BY <1>0, NewHeadIs
<1>3. /\ head \in 1 .. last + 1 /\ written \in Nat /\ queued \in Nat /\ generation \in Nat
      /\ PlaceOf(head) + queued = written
      /\ \A c, d \in head .. last + 1 : c <= d => PlaceOf(c) <= PlaceOf(d)
      /\ \A c \in head .. last : chunks[c].first + chunks[c].length = PlaceOf(c + 1)
  BY <1>0 DEF QueueInv, QueueTypes, ChunksAdjoin
<1>4. /\ last \in Nat /\ DOMAIN chunks = 1 .. last
      /\ (\A c \in 1 .. last : chunks[c] \in Chunk)
      /\ (\A c \in Nat : PlaceOf(c) \in Nat)
      /\ PlaceOf(last + 1) = written
  BY <1>0, PlacesAre
<1>5. head \in Nat /\ h \in Nat /\ count \in Nat /\ count <= queued /\ first \in Nat
      /\ h \in 1 .. last + 1 /\ head <= h
  <2>1. head \in Nat /\ h \in Nat /\ count \in Nat /\ count <= queued
        /\ h \in 1 .. last + 1 /\ head <= h
    BY <1>2, <1>3, <1>4
  <2>2. PlaceOf(head) \in Nat BY <1>4, <2>1
  <2> QED BY <1>0, <2>1, <2>2
<1>6. \A c \in head .. last :
        /\ chunks'[c] \in Chunk /\ chunks'[c].first = chunks[c].first
        /\ chunks'[c].length = chunks[c].length /\ chunks'[c].start <= chunks'[c].length
        /\ first <= PlaceOf(c) => chunks'[c] = chunks[c]
        /\ PlaceOf(c) <= first /\ first <= PlaceOf(c + 1) =>
             chunks'[c].first + chunks'[c].start = first
  BY <1>0, <1>1, ConsumedIs
<1>7. DOMAIN chunks' = 1 .. last /\ chunks' \in Seq(Chunk) /\ Len(chunks') = last
  <2>1. DOMAIN chunks' = 1 .. last /\ chunks' = [c \in 1 .. last |-> chunks'[c]]
    BY <1>1, <1>4 DEF Consumed
  <2>2. ASSUME NEW c \in 1 .. last PROVE chunks'[c] \in Chunk
    <3>1. CASE c < head
      <4>1. c \in DOMAIN chunks /\ c < headChunk BY <1>0, <1>4, <3>1
      <4>2. chunks'[c] = chunks[c] BY <1>1, <4>1 DEF Consumed
      <4> QED BY <1>4, <4>2
    <3>2. CASE ~ c < head
      <4>1. c \in head .. last BY <1>4, <1>5, <3>2
      <4> QED BY <1>6, <4>1
    <3> QED BY <3>1, <3>2
  <2> QED BY <1>4, <2>1, <2>2
<1>8. PlaceOf(h)' = first
  <2>1. CASE h = last + 1
    <3>1. h \notin DOMAIN chunks' BY <1>4, <1>7, <2>1
    <3> QED BY <1>2, <2>1, <3>1 DEF PlaceOf
  <2>2. CASE h # last + 1
    <3>1. h \in head .. last /\ h \in DOMAIN chunks' /\ h + 1 \in Nat BY <1>2, <1>4, <1>5, <1>7, <2>2
    <3>2. first <= PlaceOf(h + 1) /\ PlaceOf(h) <= first
      <4>1. PlaceOf(h + 1) \in Nat /\ first < PlaceOf(h + 1) BY <1>2, <1>4, <2>2, <3>1
      <4> QED BY <1>2, <1>5, <4>1
    <3>3. chunks'[h].first + chunks'[h].start = first BY <1>6, <3>1, <3>2
    <3> QED BY <3>1, <3>3 DEF PlaceOf
  <2> QED BY <2>1, <2>2
<1>9. ASSUME NEW c \in h .. last + 1, c # h
      PROVE  PlaceOf(c)' = PlaceOf(c) /\ first <= PlaceOf(c) /\ PlaceOf(c) \in Nat
  <2>1. /\ c \in head .. last + 1 /\ h + 1 \in head .. last + 1 /\ h + 1 <= c /\ c \in Nat
        /\ h + 1 \in Nat /\ h # last + 1
    BY <1>2, <1>4, <1>5, <1>9
  <2>2. PlaceOf(h + 1) <= PlaceOf(c) /\ first < PlaceOf(h + 1) BY <1>2, <1>3, <2>1
  <2>3. PlaceOf(h + 1) \in Nat /\ PlaceOf(c) \in Nat BY <1>4, <2>1
  <2>4. first <= PlaceOf(c) BY <1>5, <2>2, <2>3
  <2>5. CASE c = last + 1
    <3>1. c \notin DOMAIN chunks' BY <1>4, <1>7, <2>5
    <3>2. PlaceOf(c) = written BY <1>4, <2>5
    <3> QED BY <2>3, <2>4, <3>1, <3>2 DEF PlaceOf
  <2>6. CASE c # last + 1
    <3>1. c \in head .. last /\ c \in DOMAIN chunks' /\ c \in DOMAIN chunks
      BY <1>3, <1>4, <1>7, <2>1, <2>6
    <3>2. chunks'[c] = chunks[c] BY <1>6, <2>4, <3>1
    <3> QED BY <2>3, <2>4, <3>1, <3>2 DEF PlaceOf
  <2> QED BY <2>5, <2>6
<1>10. QueueTypes'
  <2>1. queued' \in Nat /\ generation' \in Nat BY <1>1, <1>3, <1>5
  <2>2. headChunk' \in 1 .. Len(chunks') + 1 BY <1>0, <1>5, <1>7
  <2> QED BY <1>3, <1>7, <2>1, <2>2 DEF QueueTypes
<1>11. ChunksAdjoin'
  <2>1. ASSUME NEW c \in h .. last
        PROVE  /\ chunks'[c].start <= chunks'[c].length
               /\ chunks'[c].first + chunks'[c].length = PlaceOf(c + 1)'
    <3>1. c \in head .. last /\ c + 1 \in h .. last + 1 /\ c + 1 # h BY <1>4, <1>5
    <3>2. PICK d : d = c + 1 OBVIOUS
    <3>3. PlaceOf(d)' = PlaceOf(d) BY <1>9, <3>1, <3>2
    <3>4. chunks[c].first + chunks[c].length = PlaceOf(d) BY <1>3, <3>1, <3>2
    <3>5. PlaceOf(c + 1)' = PlaceOf(d)' BY <3>2
    <3> QED BY <1>6, <3>1, <3>3, <3>4, <3>5
  <2>2. ASSUME NEW c \in h .. last + 1, NEW d \in h .. last + 1, c <= d
        PROVE  PlaceOf(c)' <= PlaceOf(d)'
    <3>1. CASE c = h /\ d = h
      <4>1. PlaceOf(c)' = first /\ PlaceOf(d)' = first BY <1>8, <3>1
      <4> QED BY <1>5, <4>1
    <3>2. CASE c = h /\ d # h
      <4>1. PlaceOf(c)' = first BY <1>8, <3>2
      <4> QED BY <1>9, <3>2, <4>1
    <3>3. CASE c # h
      <4>1. d # h /\ c \in head .. last + 1 /\ d \in head .. last + 1
        <5>1. head \in Nat /\ last \in Nat /\ h \in Nat /\ head <= h BY <1>4, <1>5
        <5>2. c \in Int /\ d \in Int /\ h <= c /\ h <= d /\ c <= last + 1 /\ d <= last + 1
          BY <5>1
        <5> QED BY <2>2, <3>3, <5>1, <5>2
      <4>2. PlaceOf(c)' = PlaceOf(c) /\ PlaceOf(d)' = PlaceOf(d) BY <1>9, <3>3, <4>1
      <4> QED BY <1>3, <2>2, <4>1, <4>2
    <3> QED BY <3>1, <3>2, <3>3
  <2>3. PlaceOf(headChunk)' + queued' = written'
    <3>1. PlaceOf(headChunk)' = PlaceOf(h)' BY <1>0 DEF PlaceOf
    <3> DEFINE place == PlaceOf(head)
    <3>2. place \in Nat /\ first = place + count /\ place + queued = written BY <1>0, <1>3, <1>4, <1>5
    <3> HIDE DEF place
    <3>3. first + (queued - count) = written BY <1>3, <1>5, <3>2
    <3> QED BY <1>1, <1>8, <3>1, <3>3
  <2>4. headChunk' = h /\ Len(chunks') = last BY <1>0, <1>7
  <2> QED BY <2>1, <2>2, <2>3, <2>4 DEF ChunksAdjoin
<1>12. MemoOK'
  <2>1. seekMemo'.generation \in Int OBVIOUS
  <2>2. seekMemo'.generation < generation' /\ seekMemo'.generation # generation'
        /\ seekMemo'.generation <= generation'
    BY <1>1, <1>3, <2>1
  <2> QED BY <2>2 DEF MemoOK
<1> QED BY <1>10, <1>11, <1>12 DEF QueueInv

\* A random access moves the memo alone.
LEMMA CopyPieceKeeps == ASSUME QueueInv, CopyPiece PROVE QueueInv'
<1>1. PICK offset \in 0 .. queued : seekMemo' = Seek(offset) BY DEF CopyPiece
<1>2. UNCHANGED <<chunks, headChunk, written, queued, generation>> BY DEF CopyPiece
<1>3. /\ SeekFinds(seekMemo', offset)
      /\ seekMemo' \in [chunk : Nat, start : Nat, generation : Int]
  BY <1>1, SeekIs
<1>4. \A c : PlaceOf(c)' = PlaceOf(c) BY <1>2 DEF PlaceOf
<1>5. QueueTypes' BY <1>2, <1>3 DEF QueueInv, QueueTypes
<1>6. ChunksAdjoin'
  <2>1. ChunksAdjoin BY DEF QueueInv
  <2> QED BY <1>2, <1>4, <2>1 DEF ChunksAdjoin
<1>7. MemoOK'
  <2>1. seekMemo'.generation <= generation'
    <3>1. generation \in Nat BY DEF QueueInv, QueueTypes
    <3> QED BY <1>2, <1>3, <3>1 DEF SeekFinds
  <2>2. ASSUME seekMemo'.chunk # NoChunk
        PROVE  /\ seekMemo'.chunk \in headChunk' .. Len(chunks')
               /\ PlaceOf(headChunk)' + seekMemo'.start = PlaceOf(seekMemo.chunk)'
    <3>1. PICK h, m : h = headChunk /\ m = seekMemo'.chunk OBVIOUS
    <3>2. PlaceOf(h) + seekMemo'.start = PlaceOf(m) BY <1>3, <2>2, <3>1 DEF SeekFinds
    <3>3. PlaceOf(headChunk)' = PlaceOf(h)' /\ PlaceOf(seekMemo.chunk)' = PlaceOf(m)'
      BY <1>2, <3>1 DEF PlaceOf
    <3>4. PlaceOf(h)' = PlaceOf(h) /\ PlaceOf(m)' = PlaceOf(m) BY <1>4
    <3> QED BY <1>2, <1>3, <2>2, <3>2, <3>3, <3>4 DEF SeekFinds
  <2> QED BY <2>1, <2>2 DEF MemoOK, NoChunk
<1> QED BY <1>5, <1>6, <1>7 DEF QueueInv

\* Clearing leaves the place past the last chunk.
LEMMA ClearQueueKeeps == ASSUME QueueInv, ClearQueue PROVE QueueInv'
<1>0. PICK last : last = Len(chunks) OBVIOUS
<1>1. /\ headChunk' = last + 1 /\ queued' = 0 /\ generation' = generation + 1
      /\ UNCHANGED <<chunks, written, seekMemo>>
  BY <1>0 DEF ClearQueue
<1>2. /\ last \in Nat /\ DOMAIN chunks = 1 .. last /\ PlaceOf(last + 1) = written
  BY <1>0, PlacesAre
<1>3. QueueTypes BY DEF QueueInv
<1>4. QueueTypes'
  <2>1. headChunk' \in 1 .. Len(chunks') + 1 BY <1>0, <1>1, <1>2
  <2>2. generation' \in Nat /\ queued' \in Nat BY <1>1, <1>3 DEF QueueTypes
  <2> QED BY <1>1, <1>3, <2>1, <2>2 DEF QueueTypes
<1>5. PICK h : h = last + 1 OBVIOUS
<1>6. PlaceOf(h)' = written /\ written \in Nat
  <2>1. h \notin DOMAIN chunks' BY <1>1, <1>2, <1>5
  <2> QED BY <1>1, <1>3, <2>1 DEF PlaceOf, QueueTypes
<1>7. ChunksAdjoin'
  <2>1. PlaceOf(headChunk)' = PlaceOf(h)' BY <1>1, <1>5 DEF PlaceOf
  <2>2. headChunk' .. Len(chunks') = {} /\ headChunk' .. Len(chunks') + 1 = {h}
    BY <1>0, <1>1, <1>2, <1>5
  <2>3. \A c, d \in {h} : c <= d => PlaceOf(c)' <= PlaceOf(d)'
    BY <1>6
  <2>4. PlaceOf(headChunk)' + queued' = written' BY <1>1, <1>6, <2>1
  <2> QED BY <2>2, <2>3, <2>4 DEF ChunksAdjoin
<1>8. MemoOK'
  <2>1. seekMemo.generation <= generation /\ seekMemo.generation \in Int /\ generation \in Nat
    BY <1>3 DEF QueueInv, MemoOK, QueueTypes
  <2>2. seekMemo'.generation <= generation' /\ seekMemo'.generation # generation'
    BY <1>1, <2>1
  <2> QED BY <2>2 DEF MemoOK
<1> QED BY <1>4, <1>7, <1>8 DEF QueueInv

\* Every step keeps it.
LEMMA QueueSteps == ASSUME QueueInv, [ByteQueueNext]_queueVars PROVE QueueInv'
<1>1. CASE WritePiece BY <1>1, WritePieceKeeps
<1>2. CASE CopyPiece BY <1>2, CopyPieceKeeps
<1>3. CASE DiscardPiece
  <2>1. PICK count \in 1 .. queued : DropBytes(count) BY <1>3 DEF DiscardPiece
  <2>2. written' = written /\ seekMemo' = seekMemo BY <1>3 DEF DiscardPiece
  <2>3. /\ seekMemo \in [chunk : Nat, start : Nat, generation : Int]
        /\ seekMemo.generation <= generation
    BY DEF QueueInv, QueueTypes, MemoOK
  <2> QED BY <2>1, <2>2, <2>3, DropKeeps
<1>4. CASE TakePiece
  <2>1. PICK count \in 1 .. queued : DropBytes(count) /\ seekMemo' = Seek(0)
    BY <1>4 DEF TakePiece
  <2>2. written' = written BY <1>4 DEF TakePiece
  <2>3. generation \in Nat /\ 0 \in 0 .. queued BY DEF QueueInv, QueueTypes
  <2>4. /\ SeekFinds(Seek(0), 0) /\ Seek(0) \in [chunk : Nat, start : Nat, generation : Int]
    BY <2>3, SeekIs
  <2>5. /\ seekMemo' \in [chunk : Nat, start : Nat, generation : Int]
        /\ seekMemo'.generation <= generation
    BY <2>1, <2>3, <2>4 DEF SeekFinds
  <2> QED BY <2>1, <2>2, <2>5, DropKeeps
<1>5. CASE ClearQueue BY <1>5, ClearQueueKeeps
<1>6. CASE UNCHANGED queueVars
  <2>1. UNCHANGED <<chunks, headChunk, written, queued, generation, seekMemo>>
    BY <1>6 DEF queueVars
  <2> QED BY <2>1 DEF QueueInv, QueueTypes, ChunksAdjoin, MemoOK, PlaceOf
<1> QED BY <1>1, <1>2, <1>3, <1>4, <1>5, <1>6 DEF ByteQueueNext

\* The queue reads flat: after any mix of writes, copies, takes and clears, a
\* window of it holds the bytes of that place, whatever the memo of the last
\* access says.
THEOREM QueueStaysFlat == ByteQueueSpec => []QueueIsFlat
<1>1. QueueInv /\ [ByteQueueNext]_queueVars => QueueInv' BY QueueSteps
<1> QED BY <1>1, QueueStarts, QueueImplies, PTL DEF ByteQueueSpec

-----------------------------------------------------------------------------
(* The sink.  The writes that resolved come first, then those that wait,   *)
(* then those that failed; a write that waits is the one its writer waits  *)
(* for, and holds the first bytes of its queue; and nothing has failed yet *)
(* of a sink that closes or was closed.                                    *)

SinkByte == Writers \X Nat

PushState ==
  [by : Writers, bytes : Seq(SinkByte), state : {"pending", "ok", "failed"}]

WriterState ==
  [queue : Seq(SinkByte), at : {"idle", "writing", "emitting", "flushing"}, for : Nat,
   ended : {"ok", "closed", "short", "failed", "flushed"}]

SinkTypes ==
  /\ teed \in BOOLEAN /\ tap \in Seq(SinkByte) /\ wire \in Seq(SinkByte)
  /\ pushes \in Seq(PushState)
  /\ sinkState \in {"writable", "closing", "closed", "erroring", "errored"}
  /\ release \in {"none", "close", "abort", "done", "failed"}
  /\ writers \in [Writers -> WriterState]

\* How the writes ended, in the order they were made.
InOrder ==
  /\ \A m, n \in DOMAIN pushes : m < n /\ pushes[n].state = "ok" => pushes[m].state = "ok"
  /\ \A m, n \in DOMAIN pushes : m < n /\ pushes[m].state = "failed" => pushes[n].state = "failed"

\* The sink and its teardown.
SinkPhase ==
  /\ sinkState \in {"writable", "closing", "closed"} =>
       \A n \in DOMAIN pushes : pushes[n].state # "failed"
  /\ sinkState = "closed" => \A n \in DOMAIN pushes : pushes[n].state # "pending"
  /\ sinkState \in {"closing", "closed"} => release # "none"
  /\ release = "close" => sinkState = "closing"

\* What a writer waits for, and what it was told.
WriterOK(w) ==
  /\ writers[w].for <= Len(pushes)
  /\ writers[w].at = "writing" =>
       /\ writers[w].for \in DOMAIN pushes
       /\ pushes[writers[w].for].by = w /\ pushes[writers[w].for].state = "pending"
       /\ \E rest \in Seq(SinkByte) :
            writers[w].queue = pushes[writers[w].for].bytes \o rest
  /\ writers[w].ended = "flushed" =>
       \A n \in 1 .. writers[w].for : pushes[n].state = "ok"

WritesWaited ==
  \A n \in DOMAIN pushes : pushes[n].state = "pending" =>
    writers[pushes[n].by].at = "writing" /\ writers[pushes[n].by].for = n

\* Where the bytes are.
Delivered ==
  /\ wire = Resolved(Writers)
  /\ \A w \in Writers :
       Resolved({w}) \o writers[w].queue = [i \in 1 .. QueueBytes |-> <<w, i>>]
  /\ teed => tap = UpTo(Flat(pushes), TapLimit)

SinkInv ==
  /\ SinkTypes /\ InOrder /\ SinkPhase /\ WritesWaited /\ Delivered
  /\ \A w \in Writers : WriterOK(w)

\* A sequence cut in two is the two parts.
LEMMA CutInTwo ==
  ASSUME NEW E, NEW s \in Seq(E), NEW n \in Nat, n <= Len(s)
  PROVE  /\ UpTo(s, n) \in Seq(E) /\ Len(UpTo(s, n)) = n
         /\ SubSeq(s, n + 1, Len(s)) \in Seq(E)
         /\ s = UpTo(s, n) \o SubSeq(s, n + 1, Len(s))
<1>1. Len(s) \in Nat /\ \A i \in 1 .. Len(s) : s[i] \in E BY LenProperties, ElementOfSeq
<1>2. UpTo(s, n) = SubSeq(s, 1, n)
  <2>1. (IF n < Len(s) THEN n ELSE Len(s)) = n BY <1>1
  <2> QED BY <2>1 DEF UpTo
<1>3. SubSeq(s, 1, n) \in Seq(E) /\ Len(SubSeq(s, 1, n)) = n
  <2>1. \A i \in 1 .. n : s[i] \in E BY <1>1
  <2> QED BY <2>1, SubSeqProperties
<1>4. SubSeq(s, n + 1, Len(s)) \in Seq(E)
  <2>1. \A i \in n + 1 .. Len(s) : s[i] \in E BY <1>1
  <2>2. n + 1 \in Int /\ Len(s) \in Int BY <1>1
  <2> QED BY <2>1, <2>2, SubSeqProperties
<1>5. SubSeq(s, 1, n) \o SubSeq(s, n + 1, Len(s)) = SubSeq(s, 1, Len(s))
  <2>1. 1 \in 1 .. Len(s) + 1 /\ n \in 1 - 1 .. Len(s) /\ Len(s) \in n .. Len(s) BY <1>1
  <2> QED BY <2>1, ConcatAdjacentSubSeq
<1>6. SubSeq(s, 1, Len(s)) = s BY SubSeqFull
<1> QED BY <1>2, <1>3, <1>4, <1>5, <1>6

\* Filling a bounded copy piece by piece keeps the first bytes of it all.
LEMMA UpToGoesOn ==
  ASSUME NEW E, NEW s \in Seq(E), NEW t \in Seq(E), NEW n \in Nat
  PROVE  UpTo(s, n) \o UpTo(t, n - Len(UpTo(s, n))) = UpTo(s \o t, n)
<1>1. /\ Len(s) \in Nat /\ Len(t) \in Nat /\ s \o t \in Seq(E)
      /\ Len(s \o t) = Len(s) + Len(t)
      /\ \A i \in 1 .. Len(s) + Len(t) :
           (s \o t)[i] = IF i <= Len(s) THEN s[i] ELSE t[i - Len(s)]
  BY LenProperties, ConcatProperties
<1>2. ASSUME NEW u \in Seq(E), NEW m \in Nat
      PROVE  /\ UpTo(u, m) \in Seq(E)
             /\ Len(UpTo(u, m)) = IF m < Len(u) THEN m ELSE Len(u)
             /\ \A i \in 1 .. Len(UpTo(u, m)) : UpTo(u, m)[i] = u[i]
  <2> DEFINE k == IF m < Len(u) THEN m ELSE Len(u)
  <2>1. Len(u) \in Nat /\ \A i \in 1 .. Len(u) : u[i] \in E BY LenProperties, ElementOfSeq
  <2>2. k \in Nat /\ k <= Len(u) BY <2>1
  <2>3. UpTo(u, m) = SubSeq(u, 1, k) BY DEF UpTo
  <2> HIDE DEF k
  <2>4. \A i \in 1 .. k : u[i] \in E BY <2>1, <2>2
  <2>5. /\ SubSeq(u, 1, k) \in Seq(E)
        /\ Len(SubSeq(u, 1, k)) = IF 1 <= k THEN k - 1 + 1 ELSE 0
        /\ \A i \in 1 .. k - 1 + 1 : SubSeq(u, 1, k)[i] = u[1 + i - 1]
    BY <2>2, <2>4, SubSeqProperties
  <2>6. Len(SubSeq(u, 1, k)) = k BY <2>2, <2>5
  <2>7. \A i \in 1 .. k : SubSeq(u, 1, k)[i] = u[i] BY <2>2, <2>5
  <2> QED BY <2>3, <2>5, <2>6, <2>7 DEF k
<1>3. CASE n < Len(s)
  <2>1. /\ UpTo(s, n) \in Seq(E) /\ Len(UpTo(s, n)) = n
        /\ \A i \in 1 .. n : UpTo(s, n)[i] = s[i]
    BY <1>2, <1>3
  <2>2. n < Len(s \o t) BY <1>1, <1>3
  <2>3. /\ UpTo(s \o t, n) \in Seq(E) /\ Len(UpTo(s \o t, n)) = n
        /\ \A i \in 1 .. n : UpTo(s \o t, n)[i] = (s \o t)[i]
    BY <1>1, <1>2, <2>2
  <2>4. \A i \in 1 .. n : i \in 1 .. Len(s) + Len(t) /\ i <= Len(s) BY <1>1, <1>3
  <2>5. UpTo(s, n) = UpTo(s \o t, n)
    <3>1. \A i \in 1 .. n : UpTo(s, n)[i] = UpTo(s \o t, n)[i] BY <1>1, <2>1, <2>3, <2>4
    <3> QED BY <2>1, <2>3, <3>1, SeqEqual
  <2>6. n - Len(UpTo(s, n)) = 0 BY <2>1
  <2>7. UpTo(t, 0) = <<>>
    <3>1. UpTo(t, 0) \in Seq(E) /\ Len(UpTo(t, 0)) = 0 BY <1>1, <1>2
    <3> QED BY <3>1, EmptySeq
  <2> QED BY <2>1, <2>5, <2>6, <2>7, ConcatEmptySeq
<1>4. CASE ~ n < Len(s)
  <2>1. UpTo(s, n) = s
    <3>1. /\ UpTo(s, n) \in Seq(E) /\ Len(UpTo(s, n)) = Len(s)
          /\ \A i \in 1 .. Len(s) : UpTo(s, n)[i] = s[i]
      BY <1>2, <1>4
    <3> QED BY <3>1, SeqEqual
  <2>2. PICK m \in Nat : m = n - Len(s) BY <1>1, <1>4
  <2>3. /\ UpTo(t, m) \in Seq(E) /\ Len(UpTo(t, m)) = IF m < Len(t) THEN m ELSE Len(t)
        /\ \A i \in 1 .. Len(UpTo(t, m)) : UpTo(t, m)[i] = t[i]
    BY <1>2
  <2>4. /\ UpTo(s \o t, n) \in Seq(E)
        /\ Len(UpTo(s \o t, n)) = IF n < Len(s) + Len(t) THEN n ELSE Len(s) + Len(t)
        /\ \A i \in 1 .. Len(UpTo(s \o t, n)) : UpTo(s \o t, n)[i] = (s \o t)[i]
    BY <1>1, <1>2
  <2> DEFINE v == UpTo(t, m)
             r == UpTo(s \o t, n)
  <2>5. PICK l \in Nat : l = Len(v) BY <2>3, LenProperties
  <2>6. Len(r) = Len(s) + l /\ l <= Len(t) BY <1>1, <1>4, <2>2, <2>3, <2>4, <2>5
  <2>7. v \in Seq(E) /\ r \in Seq(E) BY <2>3, <2>4
  <2>8. /\ \A i \in 1 .. l : v[i] = t[i]
        /\ \A i \in 1 .. Len(s) + l : r[i] = (s \o t)[i]
    BY <2>3, <2>4, <2>5, <2>6
  <2> HIDE DEF v, r
  <2>9. /\ s \o v \in Seq(E) /\ Len(s \o v) = Len(s) + l
        /\ \A i \in 1 .. Len(s) + l : (s \o v)[i] = IF i <= Len(s) THEN s[i] ELSE v[i - Len(s)]
    BY <2>5, <2>7, ConcatProperties
  <2>10. ASSUME NEW i \in 1 .. Len(s) + l PROVE (s \o v)[i] = r[i]
    <3>1. i \in 1 .. Len(s) + Len(t) BY <1>1, <2>6
    <3>2. CASE i <= Len(s) BY <1>1, <2>8, <2>9, <3>1, <3>2
    <3>3. CASE ~ i <= Len(s)
      <4>1. PICK j \in 1 .. l : j = i - Len(s) BY <1>1, <3>3
      <4> QED BY <1>1, <2>8, <2>9, <3>1, <3>3, <4>1
    <3> QED BY <3>2, <3>3
  <2>11. s \o v = r BY <2>6, <2>7, <2>9, <2>10, SeqEqual
  <2> QED BY <2>1, <2>2, <2>11 DEF v, r
<1> QED BY <1>3, <1>4

\* The first bytes of a sequence are a sequence.
LEMMA UpToTyped ==
  ASSUME NEW E, NEW s \in Seq(E), NEW n \in Nat
  PROVE  UpTo(s, n) \in Seq(E)
<1>1. PICK k : k = IF n < Len(s) THEN n ELSE Len(s) OBVIOUS
<1>2. Len(s) \in Nat /\ \A i \in 1 .. Len(s) : s[i] \in E BY LenProperties, ElementOfSeq
<1>3. k \in Nat /\ \A i \in 1 .. k : s[i] \in E BY <1>1, <1>2
<1>4. SubSeq(s, 1, k) \in Seq(E) BY <1>3, SubSeqProperties
<1> QED BY <1>1, <1>4 DEF UpTo

-----------------------------------------------------------------------------
(* What the writes hold, and what settling some of them changes.           *)

BytesOf(ps) == [n \in DOMAIN ps |-> ps[n].bytes]

ResolvedPiece(p, ws) == IF p.by \in ws /\ p.state = "ok" THEN p.bytes ELSE <<>>

ResolvedOf(ps, ws) == [n \in DOMAIN ps |-> ResolvedPiece(ps[n], ws)]

\* Both are sequences of pieces, one for each write.
LEMMA PiecesAre ==
  ASSUME NEW ps \in Seq(PushState), NEW ws, NEW l, Len(ps) = l
  PROVE  /\ l \in Nat /\ DOMAIN ps = 1 .. l
         /\ \A n \in 1 .. l : ps[n] \in PushState
         /\ BytesOf(ps) \in Seq(Seq(SinkByte)) /\ Len(BytesOf(ps)) = l
         /\ ResolvedOf(ps, ws) \in Seq(Seq(SinkByte)) /\ Len(ResolvedOf(ps, ws)) = l
         /\ \A n \in 1 .. l : BytesOf(ps)[n] = ps[n].bytes
         /\ \A n \in 1 .. l : ResolvedOf(ps, ws)[n] = ResolvedPiece(ps[n], ws)
<1>1. /\ Len(ps) \in Nat /\ DOMAIN ps = 1 .. Len(ps)
      /\ \A n \in 1 .. Len(ps) : ps[n] \in PushState
  BY LenProperties, ElementOfSeq
<1>2. l \in Nat /\ l = Len(ps) BY <1>1
<1>3. \A n \in 1 .. l : ps[n].bytes \in Seq(SinkByte) BY <1>1, <1>2 DEF PushState
<1>4. <<>> \in Seq(SinkByte) BY EmptySeq
<1>5. BytesOf(ps) = [n \in 1 .. l |-> ps[n].bytes] BY <1>1, <1>2 DEF BytesOf
<1>6. ResolvedOf(ps, ws) =
        [n \in 1 .. l |-> ResolvedPiece(ps[n], ws)]
  BY <1>1, <1>2 DEF ResolvedOf
<1>7. /\ BytesOf(ps) \in Seq(Seq(SinkByte)) /\ Len(BytesOf(ps)) = l
      /\ \A n \in 1 .. l : BytesOf(ps)[n] = ps[n].bytes
  <2> DEFINE E == Seq(SinkByte)
  <2>1. \A n \in 1 .. l : ps[n].bytes \in E BY <1>3
  <2> HIDE DEF E
  <2>2. [n \in 1 .. l |-> ps[n].bytes] \in Seq(E) BY <2>1, IsASeq
  <2> QED BY <1>5, <2>2 DEF E
<1>8. /\ ResolvedOf(ps, ws) \in Seq(Seq(SinkByte)) /\ Len(ResolvedOf(ps, ws)) = l
      /\ \A n \in 1 .. l : ResolvedOf(ps, ws)[n] = ResolvedPiece(ps[n], ws)
  <2> DEFINE E == Seq(SinkByte)
  <2>1. \A n \in 1 .. l : ResolvedPiece(ps[n], ws) \in E BY <1>3, <1>4 DEF ResolvedPiece
  <2> HIDE DEF E
  <2>2. [n \in 1 .. l |-> ResolvedPiece(ps[n], ws)] \in Seq(E) BY <2>1, IsASeq
  <2>3. Len([n \in 1 .. l |-> ResolvedPiece(ps[n], ws)]) = l BY <1>2
  <2> QED BY <1>6, <2>2, <2>3 DEF E
<1> QED BY <1>1, <1>2, <1>7, <1>8

\* What was attempted, and what resolved, are sequences of bytes.
LEMMA FlatIs ==
  ASSUME NEW ps \in Seq(PushState), NEW ws
  PROVE  /\ Flat(ps) = FlattenSeq(BytesOf(ps)) /\ Flat(ps) \in Seq(SinkByte)
         /\ FlattenSeq(ResolvedOf(ps, ws)) \in Seq(SinkByte)
<1>1. Flat(ps) = FlattenSeq(BytesOf(ps)) BY DEF Flat, BytesOf
<1>2. BytesOf(ps) \in Seq(Seq(SinkByte)) /\ ResolvedOf(ps, ws) \in Seq(Seq(SinkByte))
  BY PiecesAre
<1> QED BY <1>1, <1>2, FlattenType

\* A write handed on adds its bytes to what was attempted; until it has
\* resolved it adds none to what resolved.
LEMMA PushAdds ==
  ASSUME NEW ps \in Seq(PushState), NEW p \in PushState, NEW ws, p.state # "ok"
  PROVE  /\ Flat(Append(ps, p)) = Flat(ps) \o p.bytes
         /\ FlattenSeq(ResolvedOf(Append(ps, p), ws)) = FlattenSeq(ResolvedOf(ps, ws))
<1>1. /\ Append(ps, p) \in Seq(PushState) /\ Len(Append(ps, p)) = Len(ps) + 1
      /\ \A n \in 1 .. Len(ps) : Append(ps, p)[n] = ps[n]
      /\ Append(ps, p)[Len(ps) + 1] = p
  BY AppendProperties
<1>2. PICK qs, l, m : qs = Append(ps, p) /\ l = Len(ps) /\ m = Len(qs) OBVIOUS
<1>3. /\ l \in Nat /\ m \in Nat /\ m = l + 1 /\ qs \in Seq(PushState)
      /\ \A n \in 1 .. l : qs[n] = ps[n]
      /\ qs[m] = p
  BY <1>1, <1>2, LenProperties
<1>4. (\A n \in 1 .. l : n \in 1 .. m) /\ m \in 1 .. m BY <1>3
<1>6. p.bytes \in Seq(SinkByte) BY DEF PushState
<1>9. qs \in Seq(PushState) /\ Len(qs) = m BY <1>2, <1>3
<1>7. Flat(qs) = Flat(ps) \o p.bytes
  <2>0. PICK bs, cs : bs = BytesOf(ps) /\ cs = BytesOf(qs) OBVIOUS
  <2>1. /\ bs \in Seq(Seq(SinkByte)) /\ Len(bs) = l /\ \A n \in 1 .. l : bs[n] = ps[n].bytes
    BY <1>2, <2>0, PiecesAre
  <2>2. /\ cs \in Seq(Seq(SinkByte)) /\ Len(cs) = m
        /\ \A n \in 1 .. m : cs[n] = qs[n].bytes
    BY <1>2, <1>3, <2>0, PiecesAre
  <2>3. \A n \in 1 .. l : bs[n] = cs[n] BY <1>3, <1>4, <2>1, <2>2
  <2>4. cs[m] = p.bytes BY <1>3, <1>4, <2>2
  <2>9. OneMore(bs, cs, l, m) BY <1>3, <2>1, <2>2, <2>3 DEF OneMore
  <2>10. bs \in Seq(Seq(SinkByte)) /\ cs \in Seq(Seq(SinkByte)) /\ cs[m] \in Seq(SinkByte)
    BY <1>6, <2>1, <2>2, <2>4
  <2>5. FlattenSeq(cs) = FlattenSeq(bs) \o cs[m]
    BY <2>9, <2>10, FlattenOneMore
  <2> QED BY <1>3, <2>0, <2>4, <2>5, FlatIs
<1>8. FlattenSeq(ResolvedOf(qs, ws)) = FlattenSeq(ResolvedOf(ps, ws))
  <2>0. PICK bs, cs : bs = ResolvedOf(ps, ws) /\ cs = ResolvedOf(qs, ws) OBVIOUS
  <2>1. /\ bs \in Seq(Seq(SinkByte)) /\ Len(bs) = l
        /\ \A n \in 1 .. l : bs[n] = ResolvedPiece(ps[n], ws)
    BY <1>2, <2>0, PiecesAre
  <2>2. /\ cs \in Seq(Seq(SinkByte)) /\ Len(cs) = m
        /\ \A n \in 1 .. m : cs[n] = ResolvedPiece(qs[n], ws)
    BY <1>9, <2>0, PiecesAre
  <2>3. \A n \in 1 .. l : bs[n] = cs[n] BY <1>3, <1>4, <2>1, <2>2
  <2>4. cs[m] = <<>> BY <1>3, <1>4, <2>2 DEF ResolvedPiece
  <2>5. cs[m] \in Seq(SinkByte) BY <2>4, EmptySeq
  <2>9. OneMore(bs, cs, l, m) BY <1>3, <2>1, <2>2, <2>3 DEF OneMore
  <2>10. bs \in Seq(Seq(SinkByte)) /\ cs \in Seq(Seq(SinkByte)) /\ cs[m] \in Seq(SinkByte)
    BY <2>1, <2>2, <2>5
  <2>6. FlattenSeq(cs) = FlattenSeq(bs) \o cs[m]
    BY <2>9, <2>10, FlattenOneMore
  <2>7. FlattenSeq(bs) \in Seq(SinkByte) BY <2>1, FlattenType
  <2>8. FlattenSeq(bs) \o <<>> = FlattenSeq(bs) BY <2>7, ConcatEmptySeq
  <2> QED BY <2>0, <2>4, <2>6, <2>8
<1> QED BY <1>2, <1>7, <1>8

\* Writes that fail change neither.
LEMMA FailureMoves ==
  ASSUME NEW ps \in Seq(PushState), NEW qs \in Seq(PushState), NEW ws, Len(qs) = Len(ps),
         \A n \in 1 .. Len(ps) :
           /\ qs[n].by = ps[n].by /\ qs[n].bytes = ps[n].bytes
           /\ qs[n].state = "ok" <=> ps[n].state = "ok"
  PROVE  Flat(qs) = Flat(ps) /\ FlattenSeq(ResolvedOf(qs, ws)) = FlattenSeq(ResolvedOf(ps, ws))
<1>1. PICK l \in Nat : Len(ps) = l /\ Len(qs) = l BY LenProperties
<1>2. BytesOf(qs) = BytesOf(ps)
  <2>1. \A n \in 1 .. l : BytesOf(qs)[n] = BytesOf(ps)[n]
    <3>1. \A n \in 1 .. l : BytesOf(qs)[n] = qs[n].bytes BY <1>1, PiecesAre
    <3>2. \A n \in 1 .. l : BytesOf(ps)[n] = ps[n].bytes BY <1>1, PiecesAre
    <3> QED BY <1>1, <3>1, <3>2
  <2>2. /\ BytesOf(qs) \in Seq(Seq(SinkByte)) /\ BytesOf(ps) \in Seq(Seq(SinkByte))
        /\ Len(BytesOf(qs)) = l /\ Len(BytesOf(ps)) = l
    BY <1>1, PiecesAre
  <2> QED BY <2>1, <2>2, SeqEqual
<1>3. ResolvedOf(qs, ws) = ResolvedOf(ps, ws)
  <2>1. \A n \in 1 .. l : ResolvedOf(qs, ws)[n] = ResolvedOf(ps, ws)[n]
    <3>1. \A n \in 1 .. l : ResolvedOf(qs, ws)[n] = ResolvedPiece(qs[n], ws)
      BY <1>1, PiecesAre
    <3>2. \A n \in 1 .. l : ResolvedOf(ps, ws)[n] = ResolvedPiece(ps[n], ws)
      BY <1>1, PiecesAre
    <3> QED BY <1>1, <3>1, <3>2 DEF ResolvedPiece
  <2>2. /\ ResolvedOf(qs, ws) \in Seq(Seq(SinkByte)) /\ ResolvedOf(ps, ws) \in Seq(Seq(SinkByte))
        /\ Len(ResolvedOf(qs, ws)) = l /\ Len(ResolvedOf(ps, ws)) = l
    BY <1>1, PiecesAre
  <2> QED BY <2>1, <2>2, SeqEqual
<1> QED BY <1>2, <1>3, FlatIs

\* The first write that waits resolves: its bytes come behind the others.
ResolvesAt(ps, qs, k) ==
  /\ Len(qs) = Len(ps) /\ k \in 1 .. Len(ps)
  /\ ps[k].state # "ok" /\ qs[k].state = "ok"
  /\ qs[k].by = ps[k].by /\ qs[k].bytes = ps[k].bytes
  /\ \A n \in 1 .. Len(ps) : n # k => qs[n] = ps[n]
  /\ \A n \in 1 .. Len(ps) : k < n => ps[n].state # "ok"

LEMMA ResolvingMoves ==
  ASSUME NEW ps \in Seq(PushState), NEW qs \in Seq(PushState), NEW ws, NEW k,
         ResolvesAt(ps, qs, k)
  PROVE  /\ Flat(qs) = Flat(ps)
         /\ FlattenSeq(ResolvedOf(qs, ws)) =
              FlattenSeq(ResolvedOf(ps, ws)) \o (IF ps[k].by \in ws THEN ps[k].bytes ELSE <<>>)
<1>0. PICK l \in Nat : Len(ps) = l /\ Len(qs) = l BY LenProperties DEF ResolvesAt
<1>1. /\ Len(ps) = l /\ Len(qs) = l /\ k \in 1 .. l /\ l \in Nat
      /\ ps[k].state # "ok" /\ qs[k].state = "ok"
      /\ qs[k].by = ps[k].by /\ qs[k].bytes = ps[k].bytes
      /\ \A n \in 1 .. l : n # k => qs[n] = ps[n]
      /\ \A n \in 1 .. l : k < n => ps[n].state # "ok"
  BY <1>0 DEF ResolvesAt
<1>2. BytesOf(qs) = BytesOf(ps)
  <2>1. \A n \in 1 .. l : BytesOf(qs)[n] = BytesOf(ps)[n]
    <3>1. \A n \in 1 .. l : BytesOf(qs)[n] = qs[n].bytes BY <1>0, PiecesAre
    <3>2. \A n \in 1 .. l : BytesOf(ps)[n] = ps[n].bytes BY <1>0, PiecesAre
    <3> QED BY <1>1, <3>1, <3>2
  <2>2. /\ BytesOf(qs) \in Seq(Seq(SinkByte)) /\ BytesOf(ps) \in Seq(Seq(SinkByte))
        /\ Len(BytesOf(qs)) = l /\ Len(BytesOf(ps)) = l
    BY <1>0, PiecesAre
  <2> QED BY <2>1, <2>2, SeqEqual
<1>3. PICK bs, cs : bs = ResolvedOf(ps, ws) /\ cs = ResolvedOf(qs, ws) OBVIOUS
<1>9. Len(ps) = l BY <1>1
<1>10. Len(qs) = l BY <1>1
<1>4. /\ bs \in Seq(Seq(SinkByte)) /\ Len(bs) = l
      /\ \A n \in 1 .. l : bs[n] = ResolvedPiece(ps[n], ws)
  <2>1. /\ ResolvedOf(ps, ws) \in Seq(Seq(SinkByte)) /\ Len(ResolvedOf(ps, ws)) = l
        /\ \A n \in 1 .. l : ResolvedOf(ps, ws)[n] = ResolvedPiece(ps[n], ws)
    BY <1>9, PiecesAre
  <2> QED BY <1>3, <2>1
<1>5. /\ cs \in Seq(Seq(SinkByte)) /\ Len(cs) = l
      /\ \A n \in 1 .. l : cs[n] = ResolvedPiece(qs[n], ws)
  <2>1. /\ ResolvedOf(qs, ws) \in Seq(Seq(SinkByte)) /\ Len(ResolvedOf(qs, ws)) = l
        /\ \A n \in 1 .. l : ResolvedOf(qs, ws)[n] = ResolvedPiece(qs[n], ws)
    BY <1>10, PiecesAre
  <2> QED BY <1>3, <2>1
<1>6. FilledIn(bs, cs, k, l)
  <2>0. k \in 1 .. l BY <1>1
  <2>1. bs[k] = <<>>
    <3>1. bs[k] = ResolvedPiece(ps[k], ws) BY <1>4, <2>0
    <3> QED BY <1>1, <3>1 DEF ResolvedPiece
  <2>2. ASSUME NEW n \in 1 .. l PROVE (n # k => bs[n] = cs[n]) /\ (k < n => bs[n] = <<>>)
    <3>1. n # k => qs[n] = ps[n] BY <1>1
    <3>2. k < n => ps[n].state # "ok" BY <1>1
    <3> QED BY <1>4, <1>5, <3>1, <3>2 DEF ResolvedPiece
  <2> QED BY <1>4, <1>5, <2>1, <2>2 DEF FilledIn
<1>7. FlattenSeq(cs) = FlattenSeq(bs) \o cs[k]
  <2>1. l \in Nat /\ k \in 1 .. l BY <1>1
  <2> QED BY <1>4, <1>5, <1>6, <2>1, FlattenFilled, Zenon
<1>8. cs[k] = IF ps[k].by \in ws THEN ps[k].bytes ELSE <<>> BY <1>1, <1>5 DEF ResolvedPiece
<1> QED BY <1>2, <1>3, <1>7, <1>8, FlatIs

\* The write in flight is the first that waits.
LEMMA InFlightIs ==
  ASSUME Pending # {}, pushes \in Seq(PushState)
  PROVE  InFlight \in Pending /\ \A m \in Pending : InFlight <= m
<1>1. Pending \in SUBSET Nat
  <2>1. DOMAIN pushes = 1 .. Len(pushes) /\ Len(pushes) \in Nat BY LenProperties
  <2> QED BY <2>1 DEF Pending
<1>2. \E n \in Pending : \A m \in Pending : n <= m BY <1>1, LeastNatural
<1> QED BY <1>2 DEF InFlight

\* Settling writes changes how they ended and nothing else.
LEMMA SettledAre ==
  ASSUME pushes \in Seq(PushState), NEW set, NEW state \in {"ok", "failed"}
  PROVE  LET qs == PushSettled(set, state) IN
         /\ qs \in Seq(PushState) /\ Len(qs) = Len(pushes) /\ DOMAIN qs = DOMAIN pushes
         /\ \A n \in DOMAIN pushes :
              /\ qs[n].by = pushes[n].by /\ qs[n].bytes = pushes[n].bytes
              /\ qs[n].state = IF n \in set THEN state ELSE pushes[n].state
              /\ n \notin set => qs[n] = pushes[n]
<1> DEFINE qs == PushSettled(set, state)
<1>1. /\ Len(pushes) \in Nat /\ DOMAIN pushes = 1 .. Len(pushes)
      /\ \A n \in 1 .. Len(pushes) : pushes[n] \in PushState
  BY LenProperties, ElementOfSeq
<1>2. PICK l \in Nat : l = Len(pushes) BY <1>1
<1> DEFINE e(n) == IF n \in set THEN [pushes[n] EXCEPT !.state = state] ELSE pushes[n]
<1>3. qs = [n \in 1 .. l |-> e(n)] BY <1>1, <1>2 DEF PushSettled
<1>4. ASSUME NEW n \in 1 .. l
      PROVE  /\ e(n) \in PushState /\ e(n).by = pushes[n].by /\ e(n).bytes = pushes[n].bytes
             /\ e(n).state = IF n \in set THEN state ELSE pushes[n].state
             /\ n \notin set => e(n) = pushes[n]
  <2>1. pushes[n] \in PushState BY <1>1, <1>2
  <2> QED BY <2>1 DEF PushState
<1> HIDE DEF e
<1>5. [n \in 1 .. l |-> e(n)] \in Seq(PushState) BY <1>4, IsASeq
<1>6. \A n \in 1 .. l : qs[n] = e(n) BY <1>3
<1>7. DOMAIN qs = 1 .. l BY <1>3
<1>8. Len(qs) = l BY <1>3, <1>5, <1>7, LenProperties
<1> QED BY <1>1, <1>2, <1>3, <1>4, <1>5, <1>6, <1>7, <1>8

-----------------------------------------------------------------------------
(* The invariant of the sink: what it says, how it starts, and each step.  *)

\* What resolved, before a step and after it.
LEMMA ResolvedIs ==
  ASSUME NEW CONSTANT ws
  PROVE  /\ Resolved(ws) = FlattenSeq(ResolvedOf(pushes, ws))
         /\ Resolved(ws)' = FlattenSeq(ResolvedOf(pushes', ws))
BY DEF Resolved, ResolvedOf, ResolvedPiece

\* The invariant is what the property asks, and more.
LEMMA SinkImplies == SinkInv => WritesArriveInOrder
<1> SUFFICES ASSUME SinkInv PROVE WritesArriveInOrder OBVIOUS
<1>1. \A n \in DOMAIN pushes : pushes[n].state \in {"pending", "ok", "failed"}
  <2>1. pushes \in Seq(PushState) BY DEF SinkInv, SinkTypes
  <2>2. \A n \in DOMAIN pushes : pushes[n] \in PushState BY <2>1, PiecesAre
  <2> QED BY <2>2 DEF PushState
<1>2. sinkState = "closed" => \A n \in DOMAIN pushes : pushes[n].state = "ok"
  BY <1>1 DEF SinkInv, SinkPhase
<1>3. \A w \in Writers : writers[w].ended = "flushed" =>
        \A n \in 1 .. writers[w].for : pushes[n].state = "ok"
  BY DEF SinkInv, WriterOK
<1>4. \A m, n \in DOMAIN pushes : m < n /\ pushes[n].state = "ok" => pushes[m].state = "ok"
  BY DEF SinkInv, InOrder
<1>5. Delivered BY DEF SinkInv
<1> QED BY <1>2, <1>3, <1>4, <1>5 DEF WritesArriveInOrder, Delivered

\* It holds of a sink nobody has written to.
LEMMA SinkBegins == SinkInit => SinkInv
<1> SUFFICES ASSUME SinkInit PROVE SinkInv OBVIOUS
<1>1. PICK tee \in BOOLEAN : SinkStarts(tee) BY DEF SinkInit
<1>2. /\ teed \in BOOLEAN /\ tap = <<>> /\ pushes = <<>> /\ wire = <<>>
      /\ sinkState = "writable" /\ release = "none"
  BY <1>1 DEF SinkStarts
<1> DEFINE full(w) == [i \in 1 .. QueueBytes |-> <<w, i>>]
<1>3. writers = [w \in Writers |-> [queue |-> full(w), at |-> "idle", for |-> 0, ended |-> "ok"]]
  BY <1>1 DEF SinkStarts
<1>4. ASSUME NEW w \in Writers PROVE full(w) \in Seq(SinkByte)
  <2>1. QueueBytes \in Nat BY SinkAssumption
  <2>2. \A i \in 1 .. QueueBytes : <<w, i>> \in SinkByte BY <2>1 DEF SinkByte
  <2> DEFINE E == SinkByte
             e(i) == <<w, i>>
  <2>3. \A i \in 1 .. QueueBytes : e(i) \in E BY <2>2
  <2>4. full(w) = [i \in 1 .. QueueBytes |-> e(i)] OBVIOUS
  <2> HIDE DEF E, e, full
  <2>5. [i \in 1 .. QueueBytes |-> e(i)] \in Seq(E) BY <2>1, <2>3, IsASeq
  <2> QED BY <2>4, <2>5 DEF E
<1> HIDE DEF full
<1>5. \A w \in Writers :
        /\ writers[w] \in WriterState /\ writers[w].queue = full(w)
        /\ writers[w].at = "idle" /\ writers[w].for = 0 /\ writers[w].ended = "ok"
  BY <1>3, <1>4 DEF WriterState
<1>6. writers \in [Writers -> WriterState] BY <1>3, <1>5
<1>7. <<>> \in Seq(SinkByte) /\ <<>> \in Seq(PushState) /\ Len(<<>>) = 0 /\ DOMAIN <<>> = {}
  BY EmptySeq
<1>8. SinkTypes BY <1>2, <1>6, <1>7 DEF SinkTypes
<1>9. \A w \in Writers : WriterOK(w) BY <1>2, <1>5, <1>7 DEF WriterOK
<1>10. InOrder /\ SinkPhase /\ WritesWaited BY <1>2, <1>7 DEF InOrder, SinkPhase, WritesWaited
<1>11. Delivered
  <2>1. \A ws : Resolved(ws) = <<>>
    <3>1. \A ws : ResolvedOf(<<>>, ws) = <<>>
      <4>1. \A ws : ResolvedOf(<<>>, ws) \in Seq(Seq(SinkByte)) /\ Len(ResolvedOf(<<>>, ws)) = 0
        BY <1>7, PiecesAre
      <4> QED BY <4>1, EmptySeq
    <3> QED BY <1>2, <3>1, FlattenEmpty DEF Resolved, ResolvedOf, ResolvedPiece
  <2>2. Flat(pushes) = <<>>
    <3>1. BytesOf(<<>>) \in Seq(Seq(SinkByte)) /\ Len(BytesOf(<<>>)) = 0 BY <1>7, PiecesAre
    <3>2. BytesOf(<<>>) = <<>> BY <3>1, EmptySeq
    <3> QED BY <1>2, <1>7, <3>2, FlattenEmpty, FlatIs
  <2>3. UpTo(<<>>, TapLimit) = <<>>
    <3>1. TapLimit \in Nat BY SinkAssumption
    <3>2. (IF TapLimit < Len(<<>>) THEN TapLimit ELSE Len(<<>>)) = 0 BY <1>7, <3>1
    <3>3. SubSeq(<<>>, 1, 0) = <<>> BY SubSeqEmpty
    <3> QED BY <3>2, <3>3 DEF UpTo
  <2>4. ASSUME NEW w \in Writers
        PROVE  Resolved({w}) \o writers[w].queue = [i \in 1 .. QueueBytes |-> <<w, i>>]
    BY <1>4, <1>5, <2>1, ConcatEmptySeq DEF full
  <2> QED BY <1>2, <2>1, <2>2, <2>3, <2>4 DEF Delivered
<1> QED BY <1>8, <1>9, <1>10, <1>11 DEF SinkInv

\* The bytes stay where they are while none resolves and no queue changes.
LEMMA DeliveredStays ==
  ASSUME Delivered, wire' = wire, teed' = teed,
         \A w \in Writers : writers'[w].queue = writers[w].queue,
         \A ws : FlattenSeq(ResolvedOf(pushes', ws)) = FlattenSeq(ResolvedOf(pushes, ws)),
         teed => tap' = UpTo(Flat(pushes'), TapLimit)
  PROVE  Delivered'
<1>1. wire' = Resolved(Writers)' BY ResolvedIs DEF Delivered
<1>2. ASSUME NEW w \in Writers
      PROVE  Resolved({w})' \o writers'[w].queue = [i \in 1 .. QueueBytes |-> <<w, i>>]
  <2>1. Resolved({w})' = Resolved({w}) BY ResolvedIs
  <2> QED BY <2>1 DEF Delivered
<1>3. teed' => tap' = UpTo(Flat(pushes)', TapLimit) BY DEF Flat
<1> QED BY <1>1, <1>2, <1>3 DEF Delivered

\* A change of phase alone.
LEMMA PhaseMoves ==
  ASSUME SinkInv, UNCHANGED <<teed, tap, pushes, wire, writers>>, SinkPhase',
         sinkState' \in {"writable", "closing", "closed", "erroring", "errored"},
         release' \in {"none", "close", "abort", "done", "failed"}
  PROVE  SinkInv'
<1>1. SinkTypes' BY DEF SinkInv, SinkTypes
<1>2. InOrder' /\ WritesWaited' BY DEF SinkInv, InOrder, WritesWaited
<1>3. \A w \in Writers : WriterOK(w)' BY DEF SinkInv, WriterOK
<1>4. Delivered' BY DEF SinkInv, Delivered, Resolved, Flat
<1> QED BY <1>1, <1>2, <1>3, <1>4 DEF SinkInv

\* A call of a writer that hands no write on.
LEMMA WriterMoves ==
  ASSUME SinkInv, NEW w \in Writers, NEW r \in WriterState, writers[w].at # "writing",
         UNCHANGED <<teed, tap, pushes, sinkState, release, wire>>,
         writers' = [writers EXCEPT ![w] = r],
         r.queue = writers[w].queue, r.at # "writing", r.for <= Len(pushes),
         r.ended = "flushed" => \A n \in 1 .. r.for : pushes[n].state = "ok"
  PROVE  SinkInv'
<1>0. writers \in [Writers -> WriterState] BY DEF SinkInv, SinkTypes
<1>1. /\ writers' \in [Writers -> WriterState] /\ writers'[w] = r
      /\ \A v \in Writers : v # w => writers'[v] = writers[v]
  BY <1>0
<1>2. SinkTypes' BY <1>1 DEF SinkInv, SinkTypes
<1>3. InOrder' /\ SinkPhase' BY DEF SinkInv, InOrder, SinkPhase
<1>4. WritesWaited'
  <2> SUFFICES ASSUME NEW n \in DOMAIN pushes, pushes[n].state = "pending"
               PROVE  /\ writers'[pushes[n].by].at = "writing"
                      /\ writers'[pushes[n].by].for = n
    BY DEF WritesWaited
  <2>1. writers[pushes[n].by].at = "writing" /\ writers[pushes[n].by].for = n
    BY DEF SinkInv, WritesWaited
  <2>2. pushes[n].by \in Writers
    <3>1. pushes \in Seq(PushState) BY DEF SinkInv, SinkTypes
    <3>2. pushes[n] \in PushState BY <3>1, PiecesAre
    <3> QED BY <3>2 DEF PushState
  <2> QED BY <1>1, <2>1, <2>2
<1>5. ASSUME NEW v \in Writers PROVE WriterOK(v)'
  <2>1. CASE v = w BY <1>1, <2>1 DEF WriterOK
  <2>2. CASE v # w
    <3>1. WriterOK(v) /\ writers'[v] = writers[v] /\ pushes' = pushes BY <1>1, <2>2 DEF SinkInv
    <3> QED BY <3>1 DEF WriterOK
  <2> QED BY <2>1, <2>2
<1>6. Delivered'
  <2>1. \A v \in Writers : writers'[v].queue = writers[v].queue BY <1>1
  <2>2. Delivered BY DEF SinkInv
  <2>3. teed => tap' = UpTo(Flat(pushes'), TapLimit) BY <2>2 DEF Delivered
  <2> QED BY <2>1, <2>2, <2>3, DeliveredStays
<1> QED BY <1>2, <1>3, <1>4, <1>5, <1>6 DEF SinkInv

\* A write handed on, to wait for the destination or, of an errored sink, to
\* fail at once.
LEMMA PushKeeps ==
  ASSUME SinkInv, NEW w \in Writers, NEW p \in PushState, NEW r \in WriterState,
         p.by = w, pushes' = Append(pushes, p), tap' = Mirrored(p.bytes),
         writers' = [writers EXCEPT ![w] = r],
         UNCHANGED <<teed, sinkState, release, wire>>,
         writers[w].at # "writing", r.queue = writers[w].queue, r.ended # "flushed",
         \/ /\ p.state = "pending" /\ sinkState = "writable"
            /\ r.at = "writing" /\ r.for = Len(pushes) + 1
            /\ \E rest \in Seq(SinkByte) : r.queue = p.bytes \o rest
         \/ /\ p.state = "failed" /\ sinkState \notin {"writable", "closing", "closed"}
            /\ r.at = "idle" /\ r.for <= Len(pushes)
  PROVE  SinkInv'
<1>0. /\ writers \in [Writers -> WriterState] /\ pushes \in Seq(PushState)
      /\ tap \in Seq(SinkByte) /\ teed \in BOOLEAN
  BY DEF SinkInv, SinkTypes
<1>1. /\ writers' \in [Writers -> WriterState] /\ writers'[w] = r
      /\ \A v \in Writers : v # w => writers'[v] = writers[v]
  BY <1>0
<1>2. PICK l, m : l = Len(pushes) /\ m = l + 1 OBVIOUS
<1>3. /\ l \in Nat /\ m \in Nat /\ l < m
      /\ pushes' \in Seq(PushState) /\ Len(pushes') = m
      /\ DOMAIN pushes = 1 .. l /\ DOMAIN pushes' = 1 .. m
      /\ \A n \in 1 .. l : pushes'[n] = pushes[n]
      /\ pushes'[m] = p
  BY <1>0, <1>2, AppendProperties, LenProperties
<1>4. \A n \in 1 .. m : n \in 1 .. l \/ n = m BY <1>3
<1>5. /\ \A n \in 1 .. l : n \in 1 .. m /\ n < m
      /\ m \in 1 .. m /\ m \notin 1 .. l
  BY <1>3
<1>6. p.state \in {"pending", "failed"} /\ p.bytes \in Seq(SinkByte) BY DEF PushState
<1>7. teed => tap' = UpTo(Flat(pushes'), TapLimit)
  <2> SUFFICES ASSUME teed PROVE tap' = UpTo(Flat(pushes'), TapLimit) OBVIOUS
  <2>1. tap = UpTo(Flat(pushes), TapLimit) BY DEF SinkInv, Delivered
  <2>2. tap' = tap \o UpTo(p.bytes, TapLimit - Len(tap)) BY DEF Mirrored
  <2>3. Flat(pushes') = Flat(pushes) \o p.bytes BY <1>0, <1>6, PushAdds
  <2>4. Flat(pushes) \in Seq(SinkByte) /\ TapLimit \in Nat BY <1>0, FlatIs, SinkAssumption
  <2>5. PICK s : s = Flat(pushes) OBVIOUS
  <2>6. UpTo(s, TapLimit) \o UpTo(p.bytes, TapLimit - Len(UpTo(s, TapLimit)))
          = UpTo(s \o p.bytes, TapLimit)
    BY <1>6, <2>4, <2>5, UpToGoesOn
  <2> QED BY <2>1, <2>2, <2>3, <2>5, <2>6
<1>8. SinkTypes'
  <2>1. tap' \in Seq(SinkByte)
    <3>1. CASE teed
      <4>1. Flat(pushes') \in Seq(SinkByte) /\ TapLimit \in Nat BY <1>3, FlatIs, SinkAssumption
      <4>2. UpTo(Flat(pushes'), TapLimit) \in Seq(SinkByte) BY <4>1, UpToTyped
      <4> QED BY <1>7, <3>1, <4>2
    <3>2. CASE ~ teed BY <1>0, <3>2 DEF Mirrored
    <3> QED BY <3>1, <3>2
  <2> QED BY <1>1, <1>3, <2>1 DEF SinkInv, SinkTypes
<1>9. SinkPhase'
  <2>1. SinkPhase BY DEF SinkInv
  <2>2. sinkState' = sinkState /\ release' = release OBVIOUS
  <2>3. ASSUME sinkState \in {"writable", "closing", "closed"}, NEW n \in 1 .. m
        PROVE  pushes'[n].state # "failed"
    <3>1. p.state # "failed" BY <2>3
    <3> QED BY <1>3, <1>4, <2>1, <2>3, <3>1 DEF SinkPhase
  <2>4. ASSUME sinkState = "closed", NEW n \in 1 .. m PROVE pushes'[n].state # "pending"
    <3>1. p.state # "pending" BY <2>4
    <3> QED BY <1>3, <1>4, <2>1, <2>4, <3>1 DEF SinkPhase
  <2> QED BY <1>3, <2>1, <2>2, <2>3, <2>4 DEF SinkPhase
<1>10. InOrder'
  <2>1. InOrder BY DEF SinkInv
  <2>2. ASSUME NEW i \in 1 .. m, NEW n \in 1 .. m, i < n
        PROVE  /\ pushes'[n].state = "ok" => pushes'[i].state = "ok"
               /\ pushes'[i].state = "failed" => pushes'[n].state = "failed"
    <3>1. i \in 1 .. l BY <1>3, <2>2
    <3>2. CASE n \in 1 .. l BY <1>3, <2>1, <2>2, <3>1, <3>2 DEF InOrder
    <3>3. CASE n = m
      <4>1. pushes'[n] = p BY <1>3, <3>3
      <4>2. pushes'[i] = pushes[i] BY <1>3, <3>1
      <4>3. p.state = "pending" => pushes[i].state # "failed"
        <5>1. p.state = "pending" => sinkState = "writable" OBVIOUS
        <5> QED BY <1>3, <3>1, <5>1 DEF SinkInv, SinkPhase
      <4> QED BY <1>6, <4>1, <4>2, <4>3
    <3> QED BY <1>4, <3>2, <3>3
  <2> QED BY <1>3, <2>2 DEF InOrder
<1>11. WritesWaited'
  <2>1. WritesWaited BY DEF SinkInv
  <2>2. ASSUME NEW n \in 1 .. m, pushes'[n].state = "pending"
        PROVE  writers'[pushes'[n].by].at = "writing" /\ writers'[pushes'[n].by].for = n
    <3>1. CASE n = m
      <4>1. pushes'[n] = p BY <1>3, <3>1
      <4>2. r.at = "writing" /\ r.for = m BY <1>2, <2>2, <4>1
      <4> QED BY <1>1, <3>1, <4>1, <4>2
    <3>2. CASE n \in 1 .. l
      <4>1. pushes'[n] = pushes[n] BY <1>3, <3>2
      <4>2. writers[pushes[n].by].at = "writing" /\ writers[pushes[n].by].for = n
        BY <1>3, <2>1, <2>2, <3>2, <4>1 DEF WritesWaited
      <4>3. pushes[n].by \in Writers
        <5>1. pushes[n] \in PushState BY <1>0, <1>2, <3>2, PiecesAre
        <5> QED BY <5>1 DEF PushState
      <4>4. pushes[n].by # w BY <4>2
      <4> QED BY <1>1, <4>1, <4>2, <4>3, <4>4
    <3> QED BY <1>4, <3>1, <3>2
  <2> QED BY <1>3, <2>2 DEF WritesWaited
<1>12. ASSUME NEW v \in Writers PROVE WriterOK(v)'
  <2>1. CASE v = w
    <3>1. writers'[v] = r BY <1>1, <2>1
    <3>2. r.for <= m
      <4>1. r.for \in Nat BY DEF WriterState
      <4> QED BY <1>2, <1>3, <4>1
    <3>3. r.at = "writing" =>
            /\ r.for = m /\ p.state = "pending"
            /\ \E rest \in Seq(SinkByte) : r.queue = p.bytes \o rest
      BY <1>2
    <3>4. writers'[v].for <= Len(pushes') BY <1>3, <3>1, <3>2
    <3>5. ASSUME writers'[v].at = "writing"
          PROVE  /\ writers'[v].for \in DOMAIN pushes'
                 /\ pushes'[writers'[v].for].by = v /\ pushes'[writers'[v].for].state = "pending"
                 /\ \E rest \in Seq(SinkByte) :
                      writers'[v].queue = pushes'[writers'[v].for].bytes \o rest
      <4>1. writers'[v].for = m /\ pushes'[m] = p BY <1>3, <3>1, <3>3, <3>5
      <4>2. m \in DOMAIN pushes' BY <1>3, <1>5
      <4>3. p.state = "pending" /\ \E rest \in Seq(SinkByte) : r.queue = p.bytes \o rest
        BY <3>1, <3>3, <3>5
      <4> QED BY <2>1, <3>1, <4>1, <4>2, <4>3
    <3> QED BY <3>1, <3>4, <3>5 DEF WriterOK
  <2>2. CASE v # w
    <3>1. writers'[v] = writers[v] BY <1>1, <2>2
    <3>2. WriterOK(v) BY DEF SinkInv
    <3>3. writers[v].for \in Nat BY <1>0 DEF WriterState
    <3>4. writers[v].for <= l /\ writers[v].for <= m BY <1>2, <1>3, <3>2, <3>3 DEF WriterOK
    <3>5. ASSUME writers[v].at = "writing"
          PROVE  /\ writers[v].for \in 1 .. l
                 /\ pushes[writers[v].for].by = v /\ pushes[writers[v].for].state = "pending"
                 /\ \E rest \in Seq(SinkByte) :
                      writers[v].queue = pushes[writers[v].for].bytes \o rest
      BY <1>3, <3>2, <3>5 DEF WriterOK
    <3>6. ASSUME writers[v].ended = "flushed", NEW n \in 1 .. writers[v].for
          PROVE  pushes'[n].state = "ok"
      <4>1. n \in 1 .. l BY <1>3, <3>3, <3>4
      <4> QED BY <1>3, <3>2, <3>6, <4>1 DEF WriterOK
    <3>7. PICK k : k = writers[v].for OBVIOUS
    <3>8. k \in 1 .. l => pushes'[k] = pushes[k] /\ k \in 1 .. m BY <1>3, <1>5
    <3>9. writers'[v].for <= Len(pushes') BY <1>3, <3>1, <3>4
    <3>10. ASSUME writers'[v].at = "writing"
           PROVE  /\ writers'[v].for \in DOMAIN pushes'
                  /\ pushes'[writers'[v].for].by = v /\ pushes'[writers'[v].for].state = "pending"
                  /\ \E rest \in Seq(SinkByte) :
                       writers'[v].queue = pushes'[writers'[v].for].bytes \o rest
      <4>1. /\ k \in 1 .. l /\ pushes[k].by = v /\ pushes[k].state = "pending"
            /\ \E rest \in Seq(SinkByte) : writers[v].queue = pushes[k].bytes \o rest
        BY <3>1, <3>5, <3>7, <3>10
      <4>2. pushes'[k] = pushes[k] /\ k \in DOMAIN pushes' BY <1>3, <3>8, <4>1
      <4> QED BY <3>1, <3>7, <4>1, <4>2
    <3>11. writers'[v].ended = "flushed" =>
             \A n \in 1 .. writers'[v].for : pushes'[n].state = "ok"
      BY <3>1, <3>6
    <3> QED BY <3>9, <3>10, <3>11 DEF WriterOK
  <2> QED BY <2>1, <2>2
<1>13. Delivered'
  <2>1. \A v \in Writers : writers'[v].queue = writers[v].queue BY <1>1
  <2>2. \A ws : FlattenSeq(ResolvedOf(pushes', ws)) = FlattenSeq(ResolvedOf(pushes, ws))
    BY <1>0, <1>6, PushAdds
  <2>3. Delivered BY DEF SinkInv
  <2> QED BY <1>7, <2>1, <2>2, <2>3, DeliveredStays
<1> QED BY <1>8, <1>9, <1>10, <1>11, <1>12, <1>13 DEF SinkInv

\* Writes that wait fail, each with the writer that waits for it: those from
\* one on, or all but the one in flight.
LEMMA FailKeeps ==
  ASSUME SinkInv, NEW set, set \subseteq Pending,
         \A n \in Pending : n \notin set => \A m \in set : ~ m < n,
         pushes' = PushSettled(set, "failed"), writers' = Rejected(set),
         UNCHANGED <<teed, tap, wire>>, sinkState' \in {"erroring", "errored"},
         release' \in {"none", "abort", "done", "failed"}
  PROVE  SinkInv'
<1>0. /\ writers \in [Writers -> WriterState] /\ pushes \in Seq(PushState)
      /\ InOrder /\ WritesWaited /\ Delivered
  BY DEF SinkInv, SinkTypes
<1>1. PICK l : l = Len(pushes) OBVIOUS
<1>2. /\ l \in Nat /\ DOMAIN pushes = 1 .. l
      /\ \A n \in 1 .. l : pushes[n] \in PushState
  BY <1>0, <1>1, PiecesAre
<1>3. /\ pushes' \in Seq(PushState) /\ Len(pushes') = l /\ DOMAIN pushes' = 1 .. l
      /\ \A n \in 1 .. l :
           /\ pushes'[n].by = pushes[n].by /\ pushes'[n].bytes = pushes[n].bytes
           /\ pushes'[n].state = IF n \in set THEN "failed" ELSE pushes[n].state
  BY <1>0, <1>1, <1>2, SettledAre
<1>4. /\ \A n \in set : n \in 1 .. l /\ pushes[n].state = "pending"
      /\ \A n \in 1 .. l : pushes[n].state = "pending" => n \in Pending
  BY <1>2 DEF Pending
<1>5. \A n \in 1 .. l :
        /\ pushes'[n].state = "ok" <=> pushes[n].state = "ok"
        /\ pushes'[n].state = "pending" <=> pushes[n].state = "pending" /\ n \notin set
        /\ pushes'[n].state = "failed" <=> pushes[n].state = "failed" \/ n \in set
  BY <1>3, <1>4
<1>6. ASSUME NEW w \in Writers
      PROVE  /\ writers'[w] \in WriterState /\ writers'[w].queue = writers[w].queue
             /\ writers'[w].for = writers[w].for
             /\ writers[w].at = "writing" /\ writers[w].for \in set =>
                  writers'[w].at = "idle" /\ writers'[w].ended = "failed"
             /\ ~ (writers[w].at = "writing" /\ writers[w].for \in set) =>
                  writers'[w] = writers[w]
  <2>1. writers[w] \in WriterState BY <1>0
  <2>2. writers'[w] = IF writers[w].at = "writing" /\ writers[w].for \in set
                      THEN [writers[w] EXCEPT !.at = "idle", !.ended = "failed"] ELSE writers[w]
    BY DEF Rejected
  <2> QED BY <2>1, <2>2 DEF WriterState
<1>7. writers' \in [Writers -> WriterState]
  <2>1. writers' = [w \in Writers |-> writers'[w]] BY DEF Rejected
  <2> QED BY <1>6, <2>1
<1>8. SinkTypes' BY <1>3, <1>7 DEF SinkInv, SinkTypes
<1>9. SinkPhase' BY DEF SinkPhase
<1>10. InOrder'
  <2>1. ASSUME NEW m \in 1 .. l, NEW n \in 1 .. l, m < n
        PROVE  /\ pushes'[n].state = "ok" => pushes'[m].state = "ok"
               /\ pushes'[m].state = "failed" => pushes'[n].state = "failed"
    <3>1. /\ pushes[n].state = "ok" => pushes[m].state = "ok"
          /\ pushes[m].state = "failed" => pushes[n].state = "failed"
      BY <1>0, <1>2, <2>1 DEF InOrder
    <3>2. ASSUME m \in set PROVE pushes'[n].state = "failed"
      <4>1. pushes[m].state = "pending" BY <1>4, <3>2
      <4>2. pushes[n].state # "ok" BY <3>1, <4>1
      <4>3. pushes[n].state \in {"pending", "ok", "failed"} BY <1>2 DEF PushState
      <4>4. pushes[n].state = "pending" => n \in set BY <1>4, <2>1, <3>2
      <4> QED BY <1>5, <4>2, <4>3, <4>4
    <3> QED BY <1>5, <3>1, <3>2
  <2> QED BY <1>3, <2>1 DEF InOrder
<1>11. WritesWaited'
  <2>1. ASSUME NEW n \in 1 .. l, pushes'[n].state = "pending"
        PROVE  writers'[pushes'[n].by].at = "writing" /\ writers'[pushes'[n].by].for = n
    <3>1. pushes[n].state = "pending" /\ n \notin set BY <1>5, <2>1
    <3>2. writers[pushes[n].by].at = "writing" /\ writers[pushes[n].by].for = n
      BY <1>0, <1>2, <3>1 DEF WritesWaited
    <3>3. pushes[n].by \in Writers /\ pushes'[n].by = pushes[n].by BY <1>2, <1>3 DEF PushState
    <3> QED BY <1>6, <3>1, <3>2, <3>3
  <2> QED BY <1>3, <2>1 DEF WritesWaited
<1>12. ASSUME NEW w \in Writers PROVE WriterOK(w)'
  <2>0. WriterOK(w) BY DEF SinkInv
  <2>1. PICK k : k = writers[w].for OBVIOUS
  <2>2. k <= l /\ writers'[w].for = k BY <1>1, <1>6, <2>0, <2>1 DEF WriterOK
  <2>3. ASSUME writers'[w].at = "writing"
        PROVE  /\ k \in 1 .. l
               /\ pushes'[k].by = w /\ pushes'[k].state = "pending"
               /\ \E rest \in Seq(SinkByte) : writers'[w].queue = pushes'[k].bytes \o rest
    <3>1. writers[w].at = "writing" /\ k \notin set BY <1>6, <2>1, <2>3
    <3>2. /\ k \in 1 .. l /\ pushes[k].by = w /\ pushes[k].state = "pending"
          /\ \E rest \in Seq(SinkByte) : writers[w].queue = pushes[k].bytes \o rest
      BY <1>2, <2>0, <2>1, <3>1 DEF WriterOK
    <3>3. writers'[w].queue = writers[w].queue BY <1>6
    <3>4. pushes'[k].by = w /\ pushes'[k].state = "pending" /\ pushes'[k].bytes = pushes[k].bytes
      BY <1>3, <3>1, <3>2
    <3> QED BY <3>2, <3>3, <3>4
  <2>4. ASSUME writers'[w].ended = "flushed", NEW n \in 1 .. k PROVE pushes'[n].state = "ok"
    <3>1. writers[w].ended = "flushed" BY <1>6, <2>4
    <3>2. pushes[n].state = "ok" BY <2>0, <2>1, <3>1 DEF WriterOK
    <3>3. k \in Nat
      <4>1. writers[w] \in WriterState BY <1>0
      <4> QED BY <2>1, <4>1 DEF WriterState
    <3>4. n \in 1 .. l BY <1>2, <2>2, <3>3
    <3> QED BY <1>5, <3>2, <3>4
  <2> QED BY <1>3, <2>2, <2>3, <2>4 DEF WriterOK
<1>13. Delivered'
  <2>1. \A ws : /\ Flat(pushes') = Flat(pushes)
                /\ FlattenSeq(ResolvedOf(pushes', ws)) = FlattenSeq(ResolvedOf(pushes, ws))
    <3>1. PICK ps, qs : ps = pushes /\ qs = pushes' OBVIOUS
    <3>2. /\ ps \in Seq(PushState) /\ qs \in Seq(PushState) /\ Len(qs) = Len(ps)
          /\ \A n \in 1 .. Len(ps) :
               /\ qs[n].by = ps[n].by /\ qs[n].bytes = ps[n].bytes
               /\ qs[n].state = "ok" <=> ps[n].state = "ok"
      BY <1>0, <1>1, <1>3, <1>5, <3>1
    <3>3. \A ws : /\ Flat(qs) = Flat(ps)
                  /\ FlattenSeq(ResolvedOf(qs, ws)) = FlattenSeq(ResolvedOf(ps, ws))
      BY <3>2, FailureMoves
    <3> QED BY <3>1, <3>3
  <2>2. teed => tap' = UpTo(Flat(pushes'), TapLimit) BY <1>0, <2>1 DEF Delivered
  <2> QED BY <1>0, <1>6, <2>1, <2>2, DeliveredStays
<1> QED BY <1>8, <1>9, <1>10, <1>11, <1>12, <1>13 DEF SinkInv

\* The destination takes the write in flight: only now does its writer's queue
\* give the bytes up.
LEMMA ResolveKeeps == ASSUME SinkInv, WriteResolves PROVE SinkInv'
<1> DEFINE k == InFlight
<1>0. /\ writers \in [Writers -> WriterState] /\ pushes \in Seq(PushState)
      /\ wire \in Seq(SinkByte)
      /\ InOrder /\ WritesWaited /\ Delivered /\ SinkPhase
  BY DEF SinkInv, SinkTypes
<1>1. PICK l : l = Len(pushes) OBVIOUS
<1>2. /\ l \in Nat /\ DOMAIN pushes = 1 .. l
      /\ \A n \in 1 .. l : pushes[n] \in PushState
  BY <1>0, <1>1, PiecesAre
<1>3. k \in Pending /\ \A m \in Pending : k <= m BY <1>0, InFlightIs DEF WriteResolves
<1> HIDE DEF k
<1>4. /\ k \in 1 .. l /\ pushes[k].state = "pending"
      /\ \A n \in 1 .. l : pushes[n].state = "pending" => k <= n
  BY <1>2, <1>3 DEF Pending
<1>5. PICK p, w : p = pushes[k] /\ w = p.by OBVIOUS
<1>6. p \in PushState /\ w \in Writers /\ p.bytes \in Seq(SinkByte) /\ p.state = "pending"
  BY <1>2, <1>4, <1>5, SMTT(20) DEF PushState
<1>7. /\ wire' = wire \o p.bytes /\ pushes' = PushSettled({k}, "ok")
      /\ writers' = [writers EXCEPT ![w] = [writers[w] EXCEPT
           !.queue = SubSeq(writers[w].queue, Len(p.bytes) + 1, Len(writers[w].queue)),
           !.at = "idle", !.ended = "ok"]]
      /\ UNCHANGED <<teed, tap, sinkState, release>>
  BY <1>5 DEF WriteResolves, k
<1>8. /\ pushes' \in Seq(PushState) /\ Len(pushes') = l /\ DOMAIN pushes' = 1 .. l
      /\ \A n \in 1 .. l :
           /\ pushes'[n].by = pushes[n].by /\ pushes'[n].bytes = pushes[n].bytes
           /\ pushes'[n].state = IF n \in {k} THEN "ok" ELSE pushes[n].state
           /\ n \notin {k} => pushes'[n] = pushes[n]
  BY <1>0, <1>1, <1>2, <1>7, SettledAre
<1>9. /\ writers[w].at = "writing" /\ writers[w].for = k
      /\ \E rest \in Seq(SinkByte) : writers[w].queue = p.bytes \o rest
  <2>1. writers[w].at = "writing" /\ writers[w].for = k
    BY <1>0, <1>2, <1>4, <1>5 DEF WritesWaited
  <2>2. WriterOK(w) BY <1>6 DEF SinkInv
  <2> QED BY <1>5, <2>1, <2>2 DEF WriterOK
<1>10. PICK rest \in Seq(SinkByte) : writers[w].queue = p.bytes \o rest BY <1>9
<1>11. /\ writers' \in [Writers -> WriterState]
       /\ writers'[w].queue = rest /\ writers'[w].at = "idle" /\ writers'[w].ended = "ok"
       /\ writers'[w].for = k
       /\ \A v \in Writers : v # w => writers'[v] = writers[v]
  <2>1. SubSeq(writers[w].queue, Len(p.bytes) + 1, Len(writers[w].queue)) = rest
    BY <1>6, <1>10, BehindFirst
  <2>2. writers' = [writers EXCEPT ![w] =
          [writers[w] EXCEPT !.queue = rest, !.at = "idle", !.ended = "ok"]]
    BY <1>7, <2>1
  <2>3. writers[w] \in WriterState BY <1>0, <1>6
  <2>4. PICK r : r = [writers[w] EXCEPT !.queue = rest, !.at = "idle", !.ended = "ok"] OBVIOUS
  <2>5. /\ r \in WriterState /\ r.queue = rest /\ r.at = "idle" /\ r.ended = "ok"
        /\ r.for = writers[w].for
    BY <2>3, <2>4 DEF WriterState
  <2>6. writers' = [writers EXCEPT ![w] = r] BY <2>2, <2>4
  <2> QED BY <1>0, <1>6, <1>9, <2>5, <2>6
<1>12. SinkTypes'
  <2>1. wire' \in Seq(SinkByte) BY <1>0, <1>6, <1>7, ConcatProperties
  <2> QED BY <1>7, <1>8, <1>11, <2>1 DEF SinkInv, SinkTypes
<1>13. /\ \A n \in 1 .. l : n < k => pushes[n].state = "ok"
       /\ \A n \in 1 .. l : k < n => pushes[n].state # "ok"
  <2>1. ASSUME NEW n \in 1 .. l, n < k PROVE pushes[n].state = "ok"
    <3>1. pushes[n].state \in {"pending", "ok", "failed"} BY <1>2 DEF PushState
    <3>2. pushes[n].state # "pending" BY <1>4, <2>1
    <3>3. pushes[n].state # "failed"
      <4>1. pushes[n].state = "failed" => pushes[k].state = "failed"
        BY <1>0, <1>2, <1>4, <2>1 DEF InOrder
      <4> QED BY <1>4, <4>1
    <3> QED BY <3>1, <3>2, <3>3
  <2>2. ASSUME NEW n \in 1 .. l, k < n PROVE pushes[n].state # "ok"
    <3>1. pushes[n].state = "ok" => pushes[k].state = "ok"
      BY <1>0, <1>2, <1>4, <2>2 DEF InOrder
    <3> QED BY <1>4, <3>1
  <2> QED BY <2>1, <2>2
<1>14. SinkPhase'
  <2>1. ASSUME NEW n \in 1 .. l
        PROVE  /\ pushes'[n].state = "failed" => pushes[n].state = "failed"
               /\ pushes'[n].state = "pending" => pushes[n].state = "pending"
    BY <1>8
  <2> QED BY <1>0, <1>2, <1>7, <1>8, <2>1 DEF SinkPhase
<1>15. InOrder'
  <2>1. ASSUME NEW m \in 1 .. l, NEW n \in 1 .. l, m < n
        PROVE  /\ pushes'[n].state = "ok" => pushes'[m].state = "ok"
               /\ pushes'[m].state = "failed" => pushes'[n].state = "failed"
    <3>1. /\ pushes[n].state = "ok" => pushes[m].state = "ok"
          /\ pushes[m].state = "failed" => pushes[n].state = "failed"
      BY <1>0, <1>2, <2>1 DEF InOrder
    <3>2. CASE n = k
      <4>1. pushes[m].state = "ok" BY <1>13, <2>1, <3>2
      <4>2. m \notin {k} BY <2>1, <3>2
      <4>3. pushes'[m] = pushes[m] BY <1>8, <4>2
      <4> QED BY <4>1, <4>3
    <3>3. CASE m = k
      <4>1. pushes'[m].state = "ok" BY <1>8, <3>3
      <4>2. n \notin {k} BY <2>1, <3>3
      <4>3. pushes'[n] = pushes[n] /\ pushes[n].state # "ok" BY <1>8, <1>13, <2>1, <3>3, <4>2
      <4> QED BY <4>1, <4>3
    <3>4. CASE m # k /\ n # k
      <4>1. pushes'[m] = pushes[m] /\ pushes'[n] = pushes[n] BY <1>8, <3>4
      <4> QED BY <3>1, <4>1
    <3> QED BY <3>2, <3>3, <3>4
  <2> QED BY <1>8, <2>1 DEF InOrder
<1>16. WritesWaited'
  <2>1. ASSUME NEW n \in 1 .. l, pushes'[n].state = "pending"
        PROVE  writers'[pushes'[n].by].at = "writing" /\ writers'[pushes'[n].by].for = n
    <3>1. n # k BY <1>8, <2>1
    <3>2. pushes'[n] = pushes[n] BY <1>8, <3>1
    <3>3. writers[pushes[n].by].at = "writing" /\ writers[pushes[n].by].for = n
      BY <1>0, <1>2, <2>1, <3>2 DEF WritesWaited
    <3>4. pushes[n].by \in Writers BY <1>2 DEF PushState
    <3>5. pushes[n].by # w BY <1>9, <3>1, <3>3
    <3> QED BY <1>11, <3>2, <3>3, <3>4, <3>5
  <2> QED BY <1>8, <2>1 DEF WritesWaited
<1>17. ASSUME NEW v \in Writers PROVE WriterOK(v)'
  <2>0. WriterOK(v) BY DEF SinkInv
  <2>1. PICK j : j = writers[v].for OBVIOUS
  <2>2. writers'[v].for = j /\ j <= l
    <3>1. writers'[v].for = j BY <1>9, <1>11, <2>1
    <3> QED BY <1>1, <2>0, <2>1, <3>1 DEF WriterOK
  <2>3. ASSUME writers'[v].at = "writing"
        PROVE  /\ j \in 1 .. l /\ pushes'[j].by = v /\ pushes'[j].state = "pending"
               /\ \E tail \in Seq(SinkByte) : writers'[v].queue = pushes'[j].bytes \o tail
    <3>1. v # w BY <1>11, <2>3
    <3>2. writers'[v] = writers[v] BY <1>11, <3>1
    <3>3. /\ j \in 1 .. l /\ pushes[j].by = v /\ pushes[j].state = "pending"
          /\ \E tail \in Seq(SinkByte) : writers[v].queue = pushes[j].bytes \o tail
      BY <1>2, <2>0, <2>1, <2>3, <3>2 DEF WriterOK
    <3>4. j # k BY <1>5, <3>1, <3>3
    <3>5. pushes'[j] = pushes[j] BY <1>8, <3>3, <3>4
    <3> QED BY <3>2, <3>3, <3>5
  <2>4. ASSUME writers'[v].ended = "flushed", NEW n \in 1 .. j PROVE pushes'[n].state = "ok"
    <3>1. v # w BY <1>11, <2>4
    <3>2. writers[v].ended = "flushed" BY <1>11, <2>4, <3>1
    <3>3. pushes[n].state = "ok" BY <2>0, <2>1, <3>2 DEF WriterOK
    <3>4. j \in Nat
      <4>1. writers[v] \in WriterState BY <1>0
      <4> QED BY <2>1, <4>1 DEF WriterState
    <3>5. n \in 1 .. l BY <1>2, <2>2, <3>4
    <3> QED BY <1>8, <3>3, <3>5
  <2> QED BY <1>8, <2>2, <2>3, <2>4 DEF WriterOK
<1>18. ResolvesAt(pushes, pushes', k)
  <2>1. pushes[k].state # "ok" /\ pushes'[k].state = "ok" BY <1>4, <1>8
  <2>2. pushes'[k].by = pushes[k].by /\ pushes'[k].bytes = pushes[k].bytes BY <1>4, <1>8
  <2>3. \A n \in 1 .. l : n # k => pushes'[n] = pushes[n] BY <1>8
  <2> QED BY <1>1, <1>4, <1>8, <1>13, <2>1, <2>2, <2>3 DEF ResolvesAt
<1>19. /\ Flat(pushes') = Flat(pushes)
       /\ \A ws : FlattenSeq(ResolvedOf(pushes', ws)) =
            FlattenSeq(ResolvedOf(pushes, ws)) \o (IF w \in ws THEN p.bytes ELSE <<>>)
  BY <1>0, <1>5, <1>8, <1>18, ResolvingMoves
<1>20. Delivered'
  <2>1. wire' = Resolved(Writers)'
    <3>1. Resolved(Writers)' = Resolved(Writers) \o p.bytes BY <1>6, <1>19, ResolvedIs
    <3> QED BY <1>0, <1>7, <3>1 DEF Delivered
  <2>2. ASSUME NEW v \in Writers
        PROVE  Resolved({v})' \o writers'[v].queue = [i \in 1 .. QueueBytes |-> <<v, i>>]
    <3>1. Resolved({v}) \o writers[v].queue = [i \in 1 .. QueueBytes |-> <<v, i>>]
      BY <1>0 DEF Delivered
    <3>2. Resolved({v}) \in Seq(SinkByte) BY <1>0, FlatIs, ResolvedIs
    <3>3. CASE v = w
      <4>1. Resolved({v})' = Resolved({v}) \o p.bytes BY <1>19, <3>3, ResolvedIs
      <4>2. (Resolved({v}) \o p.bytes) \o rest = Resolved({v}) \o (p.bytes \o rest)
        <5>1. PICK a, b : a = Resolved({v}) /\ b = p.bytes OBVIOUS
        <5>2. a \in Seq(SinkByte) /\ b \in Seq(SinkByte) BY <1>6, <3>2, <5>1
        <5>3. (a \o b) \o rest = a \o (b \o rest) BY <5>2, ConcatAssociative
        <5> QED BY <5>1, <5>3
      <4> QED BY <1>10, <1>11, <3>1, <3>3, <4>1, <4>2
    <3>4. CASE v # w
      <4>1. Resolved({v})' = Resolved({v}) \o <<>> BY <1>19, <3>4, ResolvedIs
      <4>2. Resolved({v})' = Resolved({v}) BY <3>2, <4>1, ConcatEmptySeq
      <4> QED BY <1>11, <3>1, <3>4, <4>2
    <3> QED BY <3>3, <3>4
  <2>3. teed' => tap' = UpTo(Flat(pushes)', TapLimit)
    <3>1. Flat(pushes)' = Flat(pushes') BY DEF Flat
    <3> QED BY <1>0, <1>7, <1>19, <3>1 DEF Delivered
  <2> QED BY <2>1, <2>2, <2>3 DEF Delivered
<1> QED BY <1>12, <1>14, <1>15, <1>16, <1>17, <1>20 DEF SinkInv

\* A call that ends: its writer is told how and holds what it held.
LEMMA EndsKeeps ==
  ASSUME SinkInv, NEW w \in Writers, NEW how \in {"ok", "closed", "short", "failed", "flushed"},
         Ends(w, how), UNCHANGED <<teed, tap, pushes, sinkState, release, wire>>,
         writers[w].at # "writing",
         how = "flushed" => \A n \in 1 .. writers[w].for : pushes[n].state = "ok"
  PROVE  SinkInv'
<1>1. writers[w] \in WriterState BY DEF SinkInv, SinkTypes
<1>2. PICK r : r = [writers[w] EXCEPT !.at = "idle", !.ended = how] OBVIOUS
<1>3. /\ r \in WriterState /\ r.queue = writers[w].queue /\ r.at = "idle" /\ r.ended = how
      /\ r.for = writers[w].for
  BY <1>1, <1>2 DEF WriterState
<1>4. writers' = [writers EXCEPT ![w] = r] BY <1>2 DEF Ends
<1>5. writers[w].for <= Len(pushes) BY DEF SinkInv, WriterOK
<1> QED BY <1>3, <1>4, <1>5, WriterMoves

\* write().
LEMMA WriteKeeps == ASSUME SinkInv, NEW w \in Writers, Write(w) PROVE SinkInv'
<1>0. /\ writers[w] \in WriterState /\ writers[w].at = "idle" /\ writers[w].queue \in Seq(SinkByte)
      /\ pushes \in Seq(PushState)
      /\ writers[w].for <= Len(pushes) /\ Len(pushes) \in Nat
  <2>1. writers[w] \in WriterState /\ pushes \in Seq(PushState) BY DEF SinkInv, SinkTypes
  <2>2. writers[w].for <= Len(pushes) BY DEF SinkInv, WriterOK
  <2>3. Len(pushes) \in Nat BY <2>1, LenProperties
  <2> QED BY <2>1, <2>2, <2>3 DEF Write, WriterState
<1>1. PICK count \in 0 .. QueueBytes :
        LET bytes == UpTo(writers[w].queue, count)
            push(state) == Append(pushes, [by |-> w, bytes |-> bytes, state |-> state]) IN
          CASE SinkClosed -> Ends(w, "closed") /\ UNCHANGED <<tap, pushes>>
            [] ~SinkClosed /\ count > Len(writers[w].queue) ->
                 Ends(w, "short") /\ UNCHANGED <<tap, pushes>>
            [] ~SinkClosed /\ count = 0 -> Ends(w, "ok") /\ UNCHANGED <<tap, pushes>>
            [] OTHER ->
                 /\ tap' = Mirrored(bytes)
                 /\ IF sinkState = "writable"
                    THEN /\ pushes' = push("pending")
                         /\ writers' = [writers EXCEPT ![w].at = "writing", ![w].for = Len(pushes'),
                                                 ![w].ended = "ok"]
                    ELSE pushes' = push("failed") /\ Ends(w, "failed")
  BY Zenon DEF Write
<1>2. UNCHANGED <<teed, sinkState, release, wire>> BY DEF Write
<1> DEFINE bytes == UpTo(writers[w].queue, count)
           p(state) == [by |-> w, bytes |-> bytes, state |-> state]
<1>3. CASE \E how \in {"closed", "short", "ok"} : Ends(w, how) /\ UNCHANGED <<tap, pushes>>
  BY <1>0, <1>2, <1>3, EndsKeeps
<1>4. CASE /\ ~ SinkClosed /\ ~ count > Len(writers[w].queue)
           /\ tap' = Mirrored(bytes)
           /\ sinkState = "writable" /\ pushes' = Append(pushes, p("pending"))
           /\ writers' = [writers EXCEPT ![w].at = "writing", ![w].for = Len(pushes'),
                                         ![w].ended = "ok"]
  <2>1. /\ bytes \in Seq(SinkByte)
        /\ \E rest \in Seq(SinkByte) : writers[w].queue = bytes \o rest
    <3>1. count \in Nat /\ count <= Len(writers[w].queue)
      <4>1. Len(writers[w].queue) \in Nat BY <1>0, LenProperties
      <4> QED BY <1>4, <4>1, SinkAssumption
    <3>2. PICK s : s = writers[w].queue OBVIOUS
    <3>3. s \in Seq(SinkByte) /\ count <= Len(s) BY <1>0, <3>1, <3>2
    <3>4. count \in Nat BY <3>1
    <3>5. /\ UpTo(s, count) \in Seq(SinkByte)
          /\ SubSeq(s, count + 1, Len(s)) \in Seq(SinkByte)
          /\ s = UpTo(s, count) \o SubSeq(s, count + 1, Len(s))
      BY <3>3, <3>4, CutInTwo
    <3> QED BY <3>2, <3>5
  <2> HIDE DEF bytes
  <2>2. PICK q : q = p("pending") OBVIOUS
  <2>3. q \in PushState /\ q.by = w /\ q.bytes = bytes /\ q.state = "pending"
    BY <2>1, <2>2 DEF PushState
  <2>4. pushes' = Append(pushes, q) /\ tap' = Mirrored(q.bytes) BY <1>4, <2>2, <2>3
  <2>5. Len(pushes') = Len(pushes) + 1 BY <1>0, <2>3, <2>4, AppendProperties
  <2>6. PICK r : r = [writers[w] EXCEPT !.at = "writing", !.for = Len(pushes) + 1, !.ended = "ok"]
    OBVIOUS
  <2>7. writers' = [writers EXCEPT ![w] = r] BY <1>4, <2>5, <2>6
  <2>8. /\ r \in WriterState /\ r.at = "writing" /\ r.for = Len(pushes) + 1
        /\ r.ended = "ok" /\ r.queue = writers[w].queue
    <3>1. PICK m \in Nat : m = Len(pushes) + 1 BY <1>0
    <3>2. r = [writers[w] EXCEPT !.at = "writing", !.for = m, !.ended = "ok"] BY <2>6, <3>1
    <3>3. writers[w] \in WriterState BY <1>0
    <3>4. /\ r \in WriterState /\ r.at = "writing" /\ r.for = m
          /\ r.ended = "ok" /\ r.queue = writers[w].queue
      BY <3>2, <3>3 DEF WriterState
    <3> QED BY <3>1, <3>4
  <2>9. \E rest \in Seq(SinkByte) : r.queue = q.bytes \o rest BY <2>1, <2>3, <2>8
  <2> QED BY <1>0, <1>2, <1>4, <2>3, <2>4, <2>7, <2>8, <2>9, PushKeeps
<1>5. CASE /\ ~ SinkClosed /\ tap' = Mirrored(bytes)
           /\ sinkState # "writable" /\ pushes' = Append(pushes, p("failed"))
           /\ Ends(w, "failed")
  <2>1. bytes \in Seq(SinkByte)
    <3>1. count \in Nat BY SinkAssumption
    <3> QED BY <1>0, <3>1, UpToTyped
  <2> HIDE DEF bytes
  <2>2. PICK q : q = p("failed") OBVIOUS
  <2>3. q \in PushState /\ q.by = w /\ q.bytes = bytes /\ q.state = "failed"
    BY <2>1, <2>2 DEF PushState
  <2>4. pushes' = Append(pushes, q) /\ tap' = Mirrored(q.bytes) BY <1>5, <2>2, <2>3
  <2>5. PICK r : r = [writers[w] EXCEPT !.at = "idle", !.ended = "failed"] OBVIOUS
  <2>6. writers' = [writers EXCEPT ![w] = r] BY <1>5, <2>5 DEF Ends
  <2>7. /\ r \in WriterState /\ r.at = "idle" /\ r.for = writers[w].for
        /\ r.ended = "failed" /\ r.queue = writers[w].queue
    BY <1>0, <2>5 DEF WriterState
  <2>8. sinkState \notin {"writable", "closing", "closed"}
    <3>1. SinkPhase BY DEF SinkInv
    <3> QED BY <1>5, <3>1 DEF SinkPhase, SinkClosed
  <2> QED BY <1>0, <1>2, <2>3, <2>4, <2>6, <2>7, <2>8, PushKeeps
<1>6. \/ \E how \in {"closed", "short", "ok"} : Ends(w, how) /\ UNCHANGED <<tap, pushes>>
      \/ /\ ~ SinkClosed /\ ~ count > Len(writers[w].queue) /\ tap' = Mirrored(bytes)
         /\ \/ /\ sinkState = "writable" /\ pushes' = Append(pushes, p("pending"))
               /\ writers' = [writers EXCEPT ![w].at = "writing", ![w].for = Len(pushes'),
                                             ![w].ended = "ok"]
            \/ /\ sinkState # "writable" /\ pushes' = Append(pushes, p("failed"))
               /\ Ends(w, "failed")
  <2>1. CASE SinkClosed BY <1>1, <2>1
  <2>2. CASE ~ SinkClosed /\ count > Len(writers[w].queue) BY <1>1, <2>2
  <2>3. CASE ~ SinkClosed /\ ~ count > Len(writers[w].queue) /\ count = 0 BY <1>1, <2>3
  <2>4. CASE ~ SinkClosed /\ ~ count > Len(writers[w].queue) /\ ~ count = 0 BY <1>1, <2>4
  <2> QED BY <2>1, <2>2, <2>3, <2>4
<1> QED BY <1>3, <1>4, <1>5, <1>6

\* emit() and flush(), started.
LEMMA StartEmitKeeps == ASSUME SinkInv, NEW w \in Writers, StartEmit(w) PROVE SinkInv'
<1>0. /\ writers[w] \in WriterState /\ writers[w].at = "idle" /\ Len(pushes) \in Nat
  <2>1. writers[w] \in WriterState /\ pushes \in Seq(PushState) BY DEF SinkInv, SinkTypes
  <2>2. Len(pushes) \in Nat BY <2>1, LenProperties
  <2> QED BY <2>1, <2>2 DEF StartEmit
<1>1. UNCHANGED <<teed, tap, pushes, sinkState, release, wire>> BY DEF StartEmit
<1>2. CASE SinkClosed
  <2>1. Ends(w, "closed") BY <1>2 DEF StartEmit
  <2> QED BY <1>0, <1>1, <2>1, EndsKeeps
<1>3. CASE ~ SinkClosed
  <2>1. PICK at \in {"emitting", "flushing"} :
          writers' = [writers EXCEPT ![w].at = at, ![w].for = Len(pushes), ![w].ended = "ok"]
    BY <1>3 DEF StartEmit
  <2>2. PICK r : r = [writers[w] EXCEPT !.at = at, !.for = Len(pushes), !.ended = "ok"] OBVIOUS
  <2>3. writers' = [writers EXCEPT ![w] = r] BY <2>1, <2>2
  <2>4. /\ r \in WriterState /\ r.at = at /\ r.for = Len(pushes) /\ r.ended = "ok"
        /\ r.queue = writers[w].queue
    BY <1>0, <2>2 DEF WriterState
  <2>5. r.for <= Len(pushes) BY <1>0, <2>4
  <2> QED BY <1>0, <1>1, <2>3, <2>4, <2>5, WriterMoves
<1> QED BY <1>2, <1>3

\* And ended: a writer is told that its writes were handed on only when the
\* last of them, and so all before it, resolved.
LEMMA EmitEndsKeeps == ASSUME SinkInv, NEW w \in Writers, EmitEnds(w) PROVE SinkInv'
<1> DEFINE last == writers[w].for
<1>0. /\ writers[w] \in WriterState /\ last \in Nat /\ last <= Len(pushes)
      /\ Len(pushes) \in Nat /\ DOMAIN pushes = 1 .. Len(pushes)
      /\ \A n \in 1 .. Len(pushes) : pushes[n] \in PushState
  <2>1. writers[w] \in WriterState /\ pushes \in Seq(PushState) BY DEF SinkInv, SinkTypes
  <2>2. last <= Len(pushes) BY DEF SinkInv, WriterOK
  <2>3. last \in Nat BY <2>1 DEF WriterState
  <2> QED BY <2>1, <2>2, <2>3, PiecesAre
<1>1. /\ writers[w].at # "writing" /\ last \notin Pending
      /\ UNCHANGED <<teed, tap, pushes, sinkState, release, wire>>
  BY DEF EmitEnds
<1>2. \/ Ends(w, "failed")
      \/ Ends(w, "flushed") /\ ~ (last > 0 /\ pushes[last].state = "failed")
  BY DEF EmitEnds
<1>3. CASE Ends(w, "failed") BY <1>1, <1>3, EndsKeeps
<1>4. CASE Ends(w, "flushed") /\ ~ (last > 0 /\ pushes[last].state = "failed")
  <2>1. ASSUME NEW n \in 1 .. last PROVE pushes[n].state = "ok"
    <3>1. last \in 1 .. Len(pushes) /\ n \in 1 .. Len(pushes) /\ last > 0 BY <1>0
    <3>2. pushes[last].state \in {"pending", "ok", "failed"} BY <1>0, <3>1 DEF PushState
    <3>3. pushes[last].state = "ok" BY <1>0, <1>1, <1>4, <3>1, <3>2 DEF Pending
    <3>4. n < last \/ n = last BY <1>0
    <3>5. InOrder BY DEF SinkInv
    <3> QED BY <1>0, <3>1, <3>3, <3>4, <3>5 DEF InOrder
  <2> QED BY <1>1, <1>4, <2>1, EndsKeeps
<1> QED BY <1>2, <1>3, <1>4

\* Every step keeps it.
LEMMA SinkSteps == ASSUME SinkInv, [SinkNext]_sinkVars PROVE SinkInv'
<1>0. SinkPhase /\ SinkTypes BY DEF SinkInv
<1>1. CASE WriteResolves BY <1>1, ResolveKeeps
<1>2. CASE WriteRejects
  <2>1. /\ pushes' = PushSettled(Pending, "failed") /\ writers' = Rejected(Pending)
        /\ UNCHANGED <<teed, tap, wire>> /\ sinkState' = "errored"
        /\ release' = IF release \in {"close", "abort"} THEN "failed" ELSE release
    BY <1>2 DEF WriteRejects
  <2>2. release' \in {"none", "abort", "done", "failed"} BY <1>0, <2>1 DEF SinkTypes
  <2> QED BY <2>1, <2>2, FailKeeps
<1>3. CASE CloseSink
  <2>1. SinkPhase' BY <1>0, <1>3 DEF CloseSink, SinkPhase
  <2> QED BY <1>0, <1>3, <2>1, PhaseMoves DEF CloseSink, SinkTypes
<1>4. CASE CloseSettles
  <2>1. SinkPhase' BY <1>0, <1>4 DEF CloseSettles, SinkPhase, Pending
  <2> QED BY <1>4, <2>1, PhaseMoves DEF CloseSettles
<1>5. CASE AbortSettles
  <2>1. SinkPhase' BY <1>0, <1>5 DEF AbortSettles, SinkPhase
  <2> QED BY <1>5, <2>1, PhaseMoves DEF AbortSettles
<1>6. CASE AbortSink
  <2>1. CASE sinkState = "writable"
    <3> DEFINE behind == IF Pending = {} THEN {} ELSE Pending \ {InFlight}
    <3>1. /\ sinkState' = "erroring" /\ release' = "abort"
          /\ pushes' = PushSettled(behind, "failed") /\ writers' = Rejected(behind)
          /\ UNCHANGED <<teed, tap, wire>>
      BY <1>6, <2>1 DEF AbortSink
    <3>2. behind \subseteq Pending OBVIOUS
    <3>3. \A n \in Pending : n \notin behind => \A m \in behind : ~ m < n
      <4>1. ASSUME NEW n \in Pending, n \notin behind, NEW m \in behind PROVE ~ m < n
        <5>1. Pending # {} /\ n = InFlight /\ m \in Pending BY <4>1
        <5>2. InFlight <= m BY <1>0, <5>1, InFlightIs DEF SinkTypes
        <5>3. Pending \subseteq Nat
          <6>1. DOMAIN pushes = 1 .. Len(pushes) /\ Len(pushes) \in Nat
            BY <1>0, LenProperties DEF SinkTypes
          <6> QED BY <6>1 DEF Pending
        <5> QED BY <5>1, <5>2, <5>3
      <4> QED BY <4>1
    <3> HIDE DEF behind
    <3> QED BY <3>1, <3>2, <3>3, FailKeeps
  <2>2. CASE sinkState # "writable"
    <3>1. release = "none" /\ release' = "done" /\ UNCHANGED <<teed, tap, pushes, sinkState, wire, writers>>
      BY <1>6, <2>2 DEF AbortSink
    <3>2. SinkPhase' BY <1>0, <3>1 DEF SinkPhase
    <3> QED BY <1>0, <3>1, <3>2, PhaseMoves DEF SinkTypes
  <2> QED BY <2>1, <2>2
<1>7. CASE \E w \in Writers : Write(w) \/ StartEmit(w) \/ EmitEnds(w)
  BY <1>7, WriteKeeps, StartEmitKeeps, EmitEndsKeeps
<1>8. CASE UNCHANGED sinkVars
  <2>1. UNCHANGED <<teed, tap, pushes, sinkState, release, wire, writers>> BY <1>8 DEF sinkVars
  <2>2. SinkPhase' BY <1>0, <2>1 DEF SinkPhase
  <2> QED BY <1>0, <2>1, <2>2, PhaseMoves DEF SinkTypes
<1> QED BY <1>1, <1>2, <1>3, <1>4, <1>5, <1>6, <1>7, <1>8 DEF SinkNext

\* The destination has the writes that resolved, in order and without a hole;
\* what did not resolve is still in its writer's queue; the tap has the first
\* bytes of what was attempted; and nobody is told otherwise: for any writers,
\* queues, tap and number of writes.
THEOREM SinkKeepsOrder == SinkSpec => []WritesArriveInOrder
<1>1. SinkInv /\ [SinkNext]_sinkVars => SinkInv' BY SinkSteps
<1> QED BY <1>1, SinkBegins, SinkImplies, PTL DEF SinkSpec

-----------------------------------------------------------------------------
(* Runs without a mark.                                                    *)

\* Where the run up to n begins.
LEMMA RunStartIs ==
  ASSUME NEW marks, NEW n \in Nat
  PROVE  /\ RunStart(marks, n) \in 1 .. n + 1
         /\ \A i \in RunStart(marks, n) .. n : i \notin marks
         /\ \A p \in 1 .. n + 1 : (\A i \in p .. n : i \notin marks) => RunStart(marks, n) <= p
<1> DEFINE S == {p \in 1 .. n + 1 : (p .. n) \intersect marks = {}}
<1>1. S \in SUBSET Nat /\ n + 1 \in S
  <2>1. (n + 1) .. n = {} /\ n + 1 \in 1 .. n + 1 OBVIOUS
  <2> QED BY <2>1
<1>2. RunStart(marks, n) = Min(S) BY DEF RunStart
<1>3. \A p : p \in S <=> p \in 1 .. n + 1 /\ \A i \in p .. n : i \notin marks OBVIOUS
<1> HIDE DEF S
<1>4. Min(S) \in S /\ \A y \in S : Min(S) <= y BY <1>1, LeastOfNaturals
<1> QED BY <1>2, <1>3, <1>4

\* A mark ends the run, any other position is one more of it.
LEMMA RunStartGrows ==
  ASSUME NEW marks, NEW n \in Nat
  PROVE  RunStart(marks, n + 1) = IF n + 1 \in marks THEN n + 2 ELSE RunStart(marks, n)
<1> DEFINE r == RunStart(marks, n)
           q == RunStart(marks, n + 1)
           Clear(p, m) == \A i \in p .. m : i \notin marks
<1>1. /\ r \in 1 .. n + 1 /\ Clear(r, n)
      /\ \A p \in 1 .. n + 1 : Clear(p, n) => r <= p
  BY RunStartIs
<1>2. /\ q \in 1 .. n + 2 /\ Clear(q, n + 1)
      /\ \A p \in 1 .. n + 2 : Clear(p, n + 1) => q <= p
  <2>1. n + 1 \in Nat /\ n + 1 + 1 = n + 2 OBVIOUS
  <2> QED BY <2>1, RunStartIs
<1> HIDE DEF r, q
<1>3. CASE n + 1 \in marks
  <2>1. q \notin 1 .. n + 1 BY <1>2, <1>3
  <2> QED BY <1>2, <1>3, <2>1 DEF q
<1>4. CASE n + 1 \notin marks
  <2>1. Clear(r, n + 1)
    <3> SUFFICES ASSUME NEW i \in r .. n + 1 PROVE i \notin marks OBVIOUS
    <3>1. i \in r .. n \/ i = n + 1 BY <1>1
    <3> QED BY <1>1, <1>4, <3>1
  <2>2. q <= r
    <3>1. r \in 1 .. n + 2 BY <1>1
    <3> QED BY <1>2, <2>1, <3>1
  <2>3. q \in 1 .. n + 1 BY <1>1, <1>2, <2>2
  <2>4. Clear(q, n)
    <3>1. \A i \in q .. n : i \in q .. n + 1 BY <2>3
    <3> QED BY <1>2, <3>1
  <2>5. r <= q BY <1>1, <2>3, <2>4
  <2>6. r = q BY <1>1, <2>2, <2>3, <2>5
  <2> QED BY <1>4, <2>6 DEF r, q
<1> QED BY <1>3, <1>4

\* A sequence with elements of E, kept whole so that E can be found.
MadeOf(s, E) == s \in Seq(E)

\* The run itself, one position more.
LEMMA RunGrows ==
  ASSUME NEW E, NEW s, MadeOf(s, E), NEW marks, NEW n \in Nat, n + 1 <= Len(s)
  PROVE  /\ RunUpTo(s, marks, n) \in Seq(E)
         /\ RunUpTo(s, marks, n + 1) = IF n + 1 \in marks THEN <<>>
                                       ELSE Append(RunUpTo(s, marks, n), s[n + 1])
<1> DEFINE r == RunStart(marks, n)
           e == s[n + 1]
           t == SubSeq(s, r, n)
<1>0. s \in Seq(E) BY DEF MadeOf
<1>1. r \in 1 .. n + 1 BY RunStartIs
<1>2. Len(s) \in Nat /\ n + 1 \in 1 .. Len(s)
  <2>1. Len(s) \in Nat BY <1>0, LenProperties
  <2> QED BY <2>1
<1>3. e \in E BY <1>0, <1>2, ElementOfSeq
<1>4. \A i \in r .. n : s[i] \in E
  <2>1. \A i \in r .. n : i \in 1 .. Len(s) BY <1>1, <1>2
  <2> QED BY <1>0, <2>1, ElementOfSeq
<1> HIDE DEF r
<1>5. t \in Seq(E) BY <1>1, <1>4, SubSeqProperties
<1>6. CASE n + 1 \in marks
  <2>1. RunStart(marks, n + 1) = n + 2 BY <1>6, RunStartGrows
  <2>2. SubSeq(s, n + 2, n + 1) = <<>>
    <3>1. n + 2 \in Int /\ n + 1 \in Int /\ n + 1 < n + 2 OBVIOUS
    <3> QED BY <3>1, SubSeqEmpty
  <2> QED BY <1>5, <1>6, <2>1, <2>2 DEF RunUpTo, r
<1>7. CASE n + 1 \notin marks
  <2>1. RunStart(marks, n + 1) = r BY <1>7, RunStartGrows DEF r
  <2>2. SubSeq(s, r, n + 1) = Append(t, e)
    <3>1. r \in 1 .. Len(s) /\ n + 1 \in r .. Len(s) /\ n + 1 - 1 = n BY <1>1, <1>2
    <3>2. SubSeq(s, r, n + 1) = SubSeq(s, r, n + 1 - 1) \o <<e>>
      BY <1>0, <3>1, SubSeqRecursiveSecond
    <3> HIDE DEF e, t
    <3>3. Append(t, e) = t \o <<e>> BY <1>3, <1>5, AppendIsConcat
    <3> QED BY <3>1, <3>2, <3>3 DEF t
  <2> QED BY <1>5, <1>7, <2>1, <2>2 DEF RunUpTo, r
<1> QED BY <1>6, <1>7

\* At the beginning there is none.
LEMMA RunEmpty ==
  ASSUME NEW s, NEW marks
  PROVE  RunUpTo(s, marks, 0) = <<>>
<1>1. RunStart(marks, 0) \in 1 .. 0 + 1 BY RunStartIs
<1>2. RunStart(marks, 0) = 1 BY <1>1
<1>3. SubSeq(s, 1, 0) = <<>> BY SubSeqEmpty
<1> QED BY <1>2, <1>3 DEF RunUpTo

\* Of a whole sequence it is a sequence.
LEMMA RunIsSeq ==
  ASSUME NEW E, NEW s \in Seq(E), NEW marks, NEW n \in 0 .. Len(s)
  PROVE  RunUpTo(s, marks, n) \in Seq(E)
<1> DEFINE r == RunStart(marks, n)
<1>1. n \in Nat /\ Len(s) \in Nat BY LenProperties
<1>2. r \in 1 .. n + 1 BY <1>1, RunStartIs
<1>3. \A i \in r .. n : i \in 1 .. Len(s) BY <1>1, <1>2
<1>4. \A i \in r .. n : s[i] \in E BY <1>3, ElementOfSeq
<1> HIDE DEF r
<1>5. SubSeq(s, r, n) \in Seq(E) BY <1>1, <1>2, <1>4, SubSeqProperties
<1> QED BY <1>5 DEF RunUpTo, r

\* It depends on no position beyond n.
LEMMA RunSame ==
  ASSUME NEW E, NEW s \in Seq(E), NEW t \in Seq(E), NEW a, NEW b, NEW n \in Nat,
         n <= Len(s), n <= Len(t), \A i \in 1 .. n : s[i] = t[i] /\ (i \in a <=> i \in b)
  PROVE  RunUpTo(s, a, n) = RunUpTo(t, b, n)
<1> DEFINE r == RunStart(a, n)
           q == RunStart(b, n)
<1>1. /\ r \in 1 .. n + 1 /\ \A i \in r .. n : i \notin a
      /\ \A p \in 1 .. n + 1 : (\A i \in p .. n : i \notin a) => r <= p
  BY RunStartIs
<1>2. /\ q \in 1 .. n + 1 /\ \A i \in q .. n : i \notin b
      /\ \A p \in 1 .. n + 1 : (\A i \in p .. n : i \notin b) => q <= p
  BY RunStartIs
<1> HIDE DEF r, q
<1>3. \A p \in 1 .. n + 1 : \A i \in p .. n : i \in 1 .. n OBVIOUS
<1>4. q <= r BY <1>1, <1>2, <1>3
<1>5. r <= q BY <1>1, <1>2, <1>3
<1>6. r = q BY <1>1, <1>2, <1>4, <1>5
<1> DEFINE u == SubSeq(s, r, n)
           v == SubSeq(t, r, n)
<1>7. Len(s) \in Nat /\ Len(t) \in Nat BY LenProperties
<1>8. /\ u \in Seq(E) /\ Len(u) = IF r <= n THEN n - r + 1 ELSE 0
      /\ \A i \in 1 .. n - r + 1 : u[i] = s[r + i - 1]
  <2>1. \A i \in r .. n : i \in 1 .. Len(s) BY <1>1, <1>7
  <2>2. \A i \in r .. n : s[i] \in E BY <2>1, ElementOfSeq
  <2>3. r \in Int /\ n \in Int BY <1>1
  <2> QED BY <2>2, <2>3, SubSeqProperties
<1>9. /\ v \in Seq(E) /\ Len(v) = IF r <= n THEN n - r + 1 ELSE 0
      /\ \A i \in 1 .. n - r + 1 : v[i] = t[r + i - 1]
  <2>1. \A i \in r .. n : i \in 1 .. Len(t) BY <1>1, <1>7
  <2>2. \A i \in r .. n : t[i] \in E BY <2>1, ElementOfSeq
  <2>3. r \in Int /\ n \in Int BY <1>1
  <2> QED BY <2>2, <2>3, SubSeqProperties
<1> HIDE DEF u, v
<1>10. \A i \in 1 .. Len(u) : i \in 1 .. n - r + 1 /\ r + i - 1 \in 1 .. n BY <1>1, <1>8
<1>11. \A i \in 1 .. Len(u) : u[i] = v[i] BY <1>8, <1>9, <1>10
<1>12. u = v BY <1>8, <1>9, <1>11, SeqEqual
<1> QED BY <1>6, <1>12 DEF RunUpTo, r, q, u, v

-----------------------------------------------------------------------------
(* The lines of a text, position by position.                              *)

Lines == Seq(Symbols)

LinePiece(text, i) == IF LineEndsAt(text, i) THEN <<LineUpTo(text, i - 1)>> ELSE <<>>

\* The line that runs, a position further.
LEMMA LineGrows ==
  ASSUME NEW text \in Seq(Symbols), NEW n \in Nat, n + 1 <= Len(text)
  PROVE  /\ LineUpTo(text, n) \in Lines
         /\ LineUpTo(text, n + 1) = IF text[n + 1] \in {"LF", "CR"} THEN <<>>
                                    ELSE Append(LineUpTo(text, n), text[n + 1])
<1> DEFINE marks == Terminators(text)
<1>1. n + 1 \in DOMAIN text
  <2>1. DOMAIN text = 1 .. Len(text) /\ Len(text) \in Nat BY LenProperties
  <2> QED BY <2>1
<1>2. n + 1 \in marks <=> text[n + 1] \in {"LF", "CR"} BY <1>1 DEF Terminators
<1> HIDE DEF marks
<1>3. /\ RunUpTo(text, marks, n) \in Lines
      /\ RunUpTo(text, marks, n + 1) = IF n + 1 \in marks THEN <<>>
                                       ELSE Append(RunUpTo(text, marks, n), text[n + 1])
  <2>1. MadeOf(text, Symbols) BY DEF MadeOf
  <2> QED BY <2>1, RunGrows DEF Lines
<1> QED BY <1>2, <1>3 DEF LineUpTo, marks

\* What ends at a position is a line or nothing.
LEMMA LinePieceIs ==
  ASSUME NEW text \in Seq(Symbols), NEW i \in 1 .. Len(text)
  PROVE  LinePiece(text, i) \in Seq(Lines)
<1>1. i - 1 \in 0 .. Len(text)
  <2>1. Len(text) \in Nat BY LenProperties
  <2> QED BY <2>1
<1>2. LineUpTo(text, i - 1) \in Lines
  <2> DEFINE n == i - 1
  <2>1. n \in 0 .. Len(text) BY <1>1
  <2> HIDE DEF n
  <2>2. RunUpTo(text, Terminators(text), n) \in Lines BY <2>1, RunIsSeq DEF Lines
  <2> QED BY <2>2 DEF LineUpTo, n
<1>3. <<LineUpTo(text, i - 1)>> \in Seq(Lines)
  <2> DEFINE line == LineUpTo(text, i - 1)
  <2> HIDE DEF line
  <2>1. line \in Lines BY <1>2 DEF line
  <2>2. <<line>> \in Seq(Lines) BY <2>1
  <2> QED BY <2>2 DEF line
<1>4. <<>> \in Seq(Lines) BY EmptySeq
<1> QED BY <1>3, <1>4 DEF LinePiece

\* A position more adds the line that ends there.
LEMMA LinesGrow ==
  ASSUME NEW text \in Seq(Symbols), NEW n \in Nat, n + 1 <= Len(text)
  PROVE  /\ LinePiece(text, n + 1) \in Seq(Lines)
         /\ LinesUpTo(text, n + 1) = LinesUpTo(text, n) \o LinePiece(text, n + 1)
<1> DEFINE m == n + 1
           ss == [i \in 1 .. n |-> LinePiece(text, i)]
           tt == [i \in 1 .. m |-> LinePiece(text, i)]
<1>1. LinePiece(text, m) \in Seq(Lines)
  <2>1. n + 1 \in 1 .. Len(text)
    <3>1. Len(text) \in Nat BY LenProperties
    <3> QED BY <3>1
  <2> QED BY <2>1, LinePieceIs
<1>2. LinesUpTo(text, n) = FlattenSeq(ss) /\ LinesUpTo(text, m) = FlattenSeq(tt)
  BY DEF LinesUpTo, LinePiece
<1>3. GoesOnBy(ss, tt, n, m) /\ tt[m] = LinePiece(text, m)
  BY DEF GoesOnBy, OneMore
<1> HIDE DEF ss, tt, m
<1>4. FlattenSeq(tt) = FlattenSeq(ss) \o tt[m]
  <2>1. GoesOnBy(ss, tt, n, m) BY <1>3
  <2>2. <<>> \o tt[m] = tt[m]
    <3>1. PICK u \in Seq(Lines) : u = tt[m] BY <1>1, <1>3
    <3> QED BY <3>1, ConcatEmptySeq
  <2> QED BY <2>1, <2>2, FlattenGrows
<1> QED BY <1>1, <1>2, <1>3, <1>4 DEF m

\* No lines before the text, and sequences of lines after.
LEMMA LinesAre ==
  ASSUME NEW text \in Seq(Symbols)
  PROVE  /\ LinesUpTo(text, 0) = <<>>
         /\ \A n \in 0 .. Len(text) : LinesUpTo(text, n) \in Seq(Lines)
<1> DEFINE S == {n \in Nat : n <= Len(text) => LinesUpTo(text, n) \in Seq(Lines)}
<1>0. LinesUpTo(text, 0) = <<>>
  <2>1. [i \in 1 .. 0 |-> LinePiece(text, i)] = <<>> OBVIOUS
  <2> QED BY <2>1, FlattenEmpty DEF LinesUpTo, LinePiece
<1>1. 0 \in S BY <1>0, EmptySeq
<1>2. ASSUME NEW n \in Nat, n \in S PROVE n + 1 \in S
  <2> SUFFICES ASSUME n + 1 <= Len(text) PROVE LinesUpTo(text, n + 1) \in Seq(Lines)
    OBVIOUS
  <2>1. Len(text) \in Nat BY LenProperties
  <2>2. n <= Len(text) BY <2>1
  <2>3. LinesUpTo(text, n) \in Seq(Lines) BY <1>2, <2>2
  <2> DEFINE s == LinesUpTo(text, n)
             u == LinePiece(text, n + 1)
  <2>4. LinesUpTo(text, n + 1) = s \o u /\ u \in Seq(Lines) BY LinesGrow
  <2> HIDE DEF s, u
  <2>5. s \o u \in Seq(Lines) BY <2>3, <2>4, ConcatProperties DEF s
  <2> QED BY <2>4, <2>5
<1>3. Nat \subseteq S
  <2> HIDE DEF S
  <2> QED BY <1>1, <1>2, SetInduction
<1>4. \A n \in 0 .. Len(text) : n \in Nat /\ n <= Len(text)
  <2>1. Len(text) \in Nat BY LenProperties
  <2> QED BY <2>1
<1> QED BY <1>0, <1>3, <1>4

\* The limit is kept up to n.
LinesFit(text, n) == \A m \in 1 .. n : m \notin Overlong(text)

\* Then what has ended up to n is the beginning of the lines.
LEMMA LinesBegin ==
  ASSUME NEW text \in Seq(Symbols), NEW n \in 0 .. Len(text), LinesFit(text, n)
  PROVE  /\ LinesOf(text) \in Seq(Lines)
         /\ IsPrefix(LinesUpTo(text, n), LinesOf(text))
<1> DEFINE L == Len(text)
           f == [m \in 0 .. L |-> LinesUpTo(text, m)]
           bad == Overlong(text)
           last == LineUpTo(text, L)
           rest == IF last = <<>> THEN <<>> ELSE <<last>>
<1>1. L \in Nat BY LenProperties
<1>2. GoesOn(f, Lines, L)
  <2>1. \A m \in 0 .. L : f[m] \in Seq(Lines) BY LinesAre
  <2>2. ASSUME NEW m \in 0 .. L, m # L PROVE \E u \in Seq(Lines) : f[m + 1] = f[m] \o u
    <3>1. m \in Nat /\ m + 1 <= L /\ m + 1 \in 0 .. L BY <1>1, <2>2
    <3>2. /\ LinePiece(text, m + 1) \in Seq(Lines)
          /\ LinesUpTo(text, m + 1) = LinesUpTo(text, m) \o LinePiece(text, m + 1)
      BY <3>1, LinesGrow
    <3> QED BY <3>1, <3>2
  <2> HIDE DEF f, L
  <2> QED BY <2>1, <2>2 DEF GoesOn
<1>3. \A m \in 0 .. L : f[m] = LinesUpTo(text, m) OBVIOUS
<1>4. n \in 0 .. L OBVIOUS
<1>5. bad \subseteq 1 .. L
  <2>1. DOMAIN text = 1 .. L BY LenProperties
  <2> QED BY <2>1 DEF Overlong
<1>6. \A m \in bad : n < m
  <2>1. \A m \in bad : m \in 1 .. L /\ m \notin 1 .. n BY <1>5 DEF LinesFit
  <2> QED BY <1>1, <1>4, <2>1
<1>7. last \in Lines
  <2>1. L \in 0 .. L BY <1>1
  <2>2. RunUpTo(text, Terminators(text), L) \in Lines BY <2>1, RunIsSeq DEF Lines
  <2> QED BY <2>2 DEF LineUpTo
<1>8. LinesOf(text) = IF bad # {} THEN LinesUpTo(text, Min(bad) - 1) ELSE LinesUpTo(text, L) \o rest
  BY DEF LinesOf
<1> HIDE DEF f, bad, last
<1>9. rest \in Seq(Lines)
  <2>1. <<last>> \in Seq(Lines) BY <1>7
  <2> QED BY <2>1, EmptySeq
<1> HIDE DEF rest, L
<1>10. CASE bad # {}
  <2> DEFINE q == Min(bad)
             m == q - 1
  <2>1. q \in bad
    <3>1. bad \in SUBSET Nat BY <1>1, <1>5
    <3> QED BY <1>10, <3>1, LeastOfNaturals
  <2> HIDE DEF q
  <2>2. m \in n .. L /\ m \in 0 .. L
    <3>1. q \in 1 .. L /\ n < q BY <1>5, <1>6, <2>1
    <3> QED BY <1>1, <1>4, <3>1
  <2> HIDE DEF m
  <2>3. IsPrefix(f[n], f[m]) BY <1>1, <1>2, <1>4, <2>2, EarlierIsPrefix
  <2>4. f[m] \in Seq(Lines) BY <1>2, <2>2 DEF GoesOn
  <2>5. LinesOf(text) = LinesUpTo(text, m) BY <1>8, <1>10 DEF m, q
  <2> QED BY <1>3, <1>4, <2>2, <2>3, <2>4, <2>5
<1>11. CASE bad = {}
  <2>1. L \in n .. L /\ L \in 0 .. L BY <1>1, <1>4
  <2>2. IsPrefix(f[n], f[L]) BY <1>1, <1>2, <1>4, <2>1, EarlierIsPrefix
  <2> DEFINE s == f[n]
             t == f[L]
  <2>3. s \in Seq(Lines) /\ t \in Seq(Lines) BY <1>2, <1>4, <2>1 DEF GoesOn
  <2>4. s = LinesUpTo(text, n) /\ t = LinesUpTo(text, L) BY <1>3, <1>4, <2>1
  <2>5. LinesOf(text) = t \o rest BY <1>8, <1>11, <2>4
  <2>6. IsPrefix(s, t) BY <2>2
  <2> HIDE DEF s, t
  <2>7. IsPrefix(s, t \o rest) /\ t \o rest \in Seq(Lines)
    BY <1>9, <2>3, <2>6, PrefixGrows, ConcatProperties
  <2> QED BY <2>4, <2>5, <2>7
<1> QED BY <1>10, <1>11

\* All of it, when the text is at its end or the line at n runs too long.
LEMMA LinesEnd ==
  ASSUME NEW text \in Seq(Symbols), NEW n \in 0 .. Len(text)
  PROVE  /\ LinesFit(text, n) /\ n = Len(text) =>
              LinesOf(text) = IF LineUpTo(text, n) = <<>> THEN LinesUpTo(text, n)
                              ELSE Append(LinesUpTo(text, n), LineUpTo(text, n))
         /\ n # 0 /\ LinesFit(text, n - 1) /\ n \in Overlong(text) =>
              LinesOf(text) = LinesUpTo(text, n - 1)
<1> DEFINE L == Len(text)
           bad == Overlong(text)
           last == LineUpTo(text, L)
           rest == IF last = <<>> THEN <<>> ELSE <<last>>
<1>1. L \in Nat /\ n \in 0 .. L BY LenProperties
<1>2. bad \subseteq 1 .. L
  <2>1. DOMAIN text = 1 .. L BY LenProperties
  <2> QED BY <2>1 DEF Overlong
<1>3. LinesOf(text) = IF bad # {} THEN LinesUpTo(text, Min(bad) - 1) ELSE LinesUpTo(text, L) \o rest
  BY DEF LinesOf
<1>4. ASSUME LinesFit(text, n), n = L
      PROVE  LinesOf(text) = IF last = <<>> THEN LinesUpTo(text, L)
                             ELSE Append(LinesUpTo(text, L), last)
  <2>1. bad = {} BY <1>2, <1>4 DEF LinesFit
  <2> DEFINE s == LinesUpTo(text, L)
  <2>2. s \in Seq(Lines)
    <3>1. L \in 0 .. L BY <1>1
    <3> QED BY <3>1, LinesAre
  <2>3. LinesOf(text) = s \o rest BY <1>3, <2>1
  <2>4. last \in Lines
    <3>1. L \in 0 .. L BY <1>1
    <3>2. RunUpTo(text, Terminators(text), L) \in Lines BY <3>1, RunIsSeq DEF Lines
    <3> QED BY <3>2 DEF LineUpTo
  <2> HIDE DEF s, last
  <2>5. s \o <<>> = s /\ s \o <<last>> = Append(s, last)
    BY <2>2, <2>4, ConcatEmptySeq, AppendIsConcat
  <2> QED BY <2>3, <2>5 DEF s
<1>5. ASSUME n # 0, LinesFit(text, n - 1), n \in bad
      PROVE  LinesOf(text) = LinesUpTo(text, n - 1)
  <2>1. \A m \in bad : n <= m
    <3>1. \A m \in bad : m \in 1 .. L /\ m \notin 1 .. n - 1 BY <1>2, <1>5 DEF LinesFit
    <3> QED BY <1>1, <3>1
  <2>2. bad \in SUBSET Int BY <1>2
  <2> HIDE DEF bad
  <2>3. Min(bad) = n BY <1>5, <2>1, <2>2, LeastIs
  <2> QED BY <1>3, <1>5, <2>3
<1> HIDE DEF bad
<1> QED BY <1>4, <1>5 DEF bad

-----------------------------------------------------------------------------
(* The event of a group, line by line.                                     *)

\* What a line tells of its name: only a comment's is empty.
LEMMA CommentIs ==
  ASSUME NEW line \in Lines, line # <<>>
  PROVE  /\ Head(line) = ":" <=> NameOf(line) = <<>>
         /\ Head(line) = ":" => ValueOf(line) = StripOneLeadingSpace(Tail(line))
<1> DEFINE C == Colons(line)
           L == Len(line)
<1>1. L \in Nat /\ L # 0 /\ DOMAIN line = 1 .. L /\ Head(line) = line[1]
  <2>1. line \in Seq(Symbols) BY DEF Lines
  <2> QED BY <2>1, LenProperties, EmptySeq
<1>2. C \in SUBSET Nat /\ C \subseteq 1 .. L /\ (1 \in C <=> line[1] = ":")
  BY <1>1 DEF Colons
<1> HIDE DEF L
<1>3. CASE C = {}
  <2>1. NameOf(line) = line BY <1>3 DEF NameOf
  <2>2. Head(line) # ":" BY <1>1, <1>2, <1>3
  <2> QED BY <2>1, <2>2
<1>4. CASE C # {}
  <2> DEFINE k == Min(C)
  <2>1. k \in C /\ \A y \in C : k <= y
    <3> HIDE DEF C
    <3> QED BY <1>2, <1>4, LeastOfNaturals
  <2>2. /\ NameOf(line) = SubSeq(line, 1, k - 1)
        /\ ValueOf(line) = StripOneLeadingSpace(SubSeq(line, k + 1, Len(line)))
    BY <1>4 DEF NameOf, ValueOf
  <2> HIDE DEF k, C
  <2>3. k \in 1 .. L BY <1>2, <2>1
  <2>4. CASE k = 1
    <3>1. Head(line) = ":" BY <1>1, <1>2, <2>1, <2>4
    <3>2. NameOf(line) = <<>>
      <4>1. 1 \in Int /\ 0 \in Int /\ 0 < 1 /\ 1 - 1 = 0 OBVIOUS
      <4>2. SubSeq(line, 1, 0) = <<>> BY <4>1, SubSeqEmpty
      <4> QED BY <2>2, <2>4, <4>1, <4>2
    <3>3. SubSeq(line, 2, Len(line)) = Tail(line) BY TailIsSubSeq DEF Lines
    <3>4. ValueOf(line) = StripOneLeadingSpace(SubSeq(line, 2, Len(line)))
      <4>1. 1 + 1 = 2 OBVIOUS
      <4> QED BY <2>2, <2>4, <4>1
    <3> QED BY <3>1, <3>2, <3>3, <3>4
  <2>5. CASE k # 1
    <3>1. Head(line) # ":"
      <4>1. 1 \notin C BY <1>1, <2>1, <2>3, <2>5
      <4> QED BY <1>1, <1>2, <4>1
    <3>2. NameOf(line) # <<>>
      <4> DEFINE s == SubSeq(line, 1, k - 1)
      <4>1. \A i \in 1 .. k - 1 : i \in 1 .. Len(line) BY <1>1, <2>3 DEF L
      <4>2. \A i \in 1 .. k - 1 : line[i] \in Symbols BY <4>1, ElementOfSeq DEF Lines
      <4>3. 1 \in Int /\ k - 1 \in Int /\ 1 <= k - 1 BY <1>1, <2>3, <2>5
      <4>4. Len(s) = k - 1 - 1 + 1 BY <4>2, <4>3, SubSeqProperties
      <4>5. Len(s) # 0 BY <4>3, <4>4
      <4>6. Len(<<>>) = 0 OBVIOUS
      <4> HIDE DEF s
      <4>7. s # <<>> BY <4>5, <4>6
      <4> QED BY <2>2, <4>7 DEF s
    <3> QED BY <3>1, <3>2
  <2> QED BY <2>4, <2>5
<1> QED BY <1>3, <1>4

\* The last line of a field, one line more.
LEMMA LatestGrows ==
  ASSUME NEW group \in Seq(Lines), NEW line \in Lines, NEW field
  PROVE  LatestOf(Append(group, line), field)
           = IF FieldOf(line) = field THEN ValueOf(line) ELSE LatestOf(group, field)
<1> DEFINE n == Len(group)
           more == Append(group, line)
           F == {i \in DOMAIN group : FieldOf(group[i]) = field}
           G == {i \in DOMAIN more : FieldOf(more[i]) = field}
<1>1. /\ n \in Nat /\ DOMAIN group = 1 .. n /\ DOMAIN more = 1 .. n + 1
      /\ \A i \in 1 .. n : more[i] = group[i]
      /\ more[n + 1] = line
  <2>1. more \in Seq(Lines) /\ Len(more) = n + 1 /\ more[n + 1] = line
        /\ \A i \in 1 .. n : more[i] = group[i]
    BY AppendProperties
  <2> QED BY <2>1, LenProperties
<1>2. /\ LatestOf(group, field) = IF F = {} THEN None ELSE ValueOf(group[Max(F)])
      /\ LatestOf(more, field) = IF G = {} THEN None ELSE ValueOf(more[Max(G)])
  BY DEF LatestOf
<1> HIDE DEF more, n
<1>3. /\ F \subseteq 1 .. n /\ G \subseteq 1 .. n + 1
      /\ \A i \in 1 .. n : i \in F <=> i \in G
      /\ (n + 1 \in G <=> FieldOf(line) = field)
  BY <1>1
<1> HIDE DEF F, G
<1>4. CASE FieldOf(line) = field
  <2>1. G # {} /\ n + 1 \in Nat BY <1>1, <1>3, <1>4
  <2>2. Max(G) \in G /\ \A y \in G : y <= Max(G) BY <1>3, <2>1, MaxOf
  <2> DEFINE q == Max(G)
  <2>4. q \in 1 .. n + 1 /\ n + 1 <= q BY <1>3, <1>4, <2>2
  <2> HIDE DEF q
  <2>5. q = n + 1 BY <1>1, <2>4
  <2>3. Max(G) = n + 1 BY <2>5 DEF q
  <2> QED BY <1>1, <1>2, <1>4, <2>1, <2>3 DEF more
<1>5. CASE FieldOf(line) # field
  <2>1. F = G
    <3>1. \A i \in 1 .. n + 1 : i \in 1 .. n \/ i = n + 1 BY <1>1
    <3>2. \A i : i \in F <=> i \in G
      <4>1. \A i \in F : i \in G BY <1>3
      <4>2. \A i \in G : i \in F BY <1>3, <1>5, <3>1
      <4> QED BY <4>1, <4>2
    <3> QED BY <3>2
  <2>2. F # {} => Max(F) \in 1 .. n
    <3> SUFFICES ASSUME F # {} PROVE Max(F) \in 1 .. n OBVIOUS
    <3>1. Max(F) \in F BY <1>1, <1>3, MaxOf
    <3> QED BY <1>3, <3>1
  <2> QED BY <1>1, <1>2, <1>5, <2>1, <2>2 DEF more
<1> QED BY <1>4, <1>5

\* The data lines, one line more.
LEMMA DataGrows ==
  ASSUME NEW group \in Seq(Lines), NEW line \in Lines
  PROVE  DataOf(Append(group, line))
           = IF FieldOf(line) = "data" THEN Append(DataOf(group), ValueOf(line)) ELSE DataOf(group)
<1> DEFINE Values == {ValueOf(l) : l \in Lines}
           piece(l) == IF FieldOf(l) = "data" THEN <<ValueOf(l)>> ELSE <<>>
           n == Len(group)
           more == Append(group, line)
           ss == [i \in 1 .. n |-> piece(group[i])]
           tt == [i \in 1 .. n + 1 |-> piece(more[i])]
<1>1. /\ n \in Nat /\ Len(more) = n + 1 /\ \A i \in 1 .. n : more[i] = group[i]
      /\ more[n + 1] = line
  BY AppendProperties, LenProperties
<1>2. DataOf(group) = FlattenSeq(ss) /\ DataOf(more) = FlattenSeq(tt)
  <2>1. DataOf(more) = FlattenSeq([i \in 1 .. Len(more) |-> piece(more[i])]) BY DEF DataOf
  <2> QED BY <1>1, <2>1 DEF DataOf
<1>3. \A l \in Lines : piece(l) \in Seq(Values)
  <2> TAKE l \in Lines
  <2> DEFINE v == ValueOf(l)
  <2>1. v \in Values OBVIOUS
  <2> HIDE DEF v, Values
  <2>2. <<v>> \in Seq(Values) BY <2>1
  <2>3. <<>> \in Seq(Values) BY EmptySeq
  <2> QED BY <2>2, <2>3 DEF v
<1>4. \A i \in 1 .. n : group[i] \in Lines BY ElementOfSeq
<1> HIDE DEF piece, n, more
<1>5. /\ Len(ss) = n /\ Len(tt) = n + 1 /\ (n = 0 => ss = <<>>)
      /\ tt[n + 1] = piece(line)
      /\ \A i \in 1 .. n : ss[i] = tt[i]
  BY <1>1
<1>6. ss \in Seq(Seq(Values)) /\ tt \in Seq(Seq(Values))
  <2>1. \A i \in 1 .. n : piece(group[i]) \in Seq(Values) BY <1>3, <1>4
  <2>2. \A i \in 1 .. n + 1 : piece(more[i]) \in Seq(Values)
    <3>1. \A i \in 1 .. n + 1 : i \in 1 .. n \/ i = n + 1 BY <1>1
    <3> HIDE DEF Values
    <3> QED BY <1>1, <1>3, <1>4, <3>1
  <2> HIDE DEF Values
  <2> QED BY <1>1, <2>1, <2>2
<1> HIDE DEF ss, tt, Values
<1>7. FlattenSeq(ss) \in Seq(Values) BY <1>6, FlattenType
<1>8. FlattenSeq(tt) = FlattenSeq(ss) \o piece(line)
  <2> DEFINE m == n + 1
  <2>1. OneMore(ss, tt, n, m) BY <1>1, <1>5 DEF OneMore
  <2>2. tt[m] = piece(line) BY <1>5
  <2>3. tt[m] \in Seq(Values) BY <1>3, <2>2
  <2> HIDE DEF m
  <2>4. FlattenSeq(tt) = FlattenSeq(ss) \o tt[m] BY <1>6, <2>1, <2>3, FlattenOneMore
  <2> QED BY <2>2, <2>4
<1>9. CASE FieldOf(line) = "data"
  <2> DEFINE v == ValueOf(line)
  <2>1. v \in Values BY DEF Values
  <2> HIDE DEF v
  <2>2. FlattenSeq(ss) \o <<v>> = Append(FlattenSeq(ss), v) BY <1>7, <2>1, AppendIsConcat
  <2> QED BY <1>2, <1>8, <1>9, <2>2 DEF piece, v, more
<1>10. CASE FieldOf(line) # "data"
  <2>1. FlattenSeq(ss) \o <<>> = FlattenSeq(ss) BY <1>7, ConcatEmptySeq
  <2> QED BY <1>2, <1>8, <1>10, <2>1 DEF piece, more
<1> QED BY <1>9, <1>10

\* No lines make an empty block.
LEMMA EmptyEvent == EventOf(<<>>) = EmptyBlock
<1>1. \A field : LatestOf(<<>>, field) = None
  <2> TAKE field
  <2>1. {i \in DOMAIN <<>> : FieldOf(<<>>[i]) = field} = {}
    <3>1. DOMAIN <<>> = {} OBVIOUS
    <3> QED BY <3>1
  <2> QED BY <2>1 DEF LatestOf
<1>2. DataOf(<<>>) = <<>>
  <2>1. Len(<<>>) = 0 OBVIOUS
  <2>2. [i \in 1 .. 0 |-> IF FieldOf(<<>>[i]) = "data" THEN <<ValueOf(<<>>[i])>> ELSE <<>>] = <<>>
    OBVIOUS
  <2> QED BY <2>1, <2>2, FlattenEmpty DEF DataOf
<1>3. (\E i \in DOMAIN <<>> : FieldOf(<<>>[i]) # "none") = FALSE
  <2>1. DOMAIN <<>> = {} OBVIOUS
  <2> QED BY <2>1
<1> QED BY <1>1, <1>2, <1>3 DEF EventOf, EmptyBlock

\* Folding a line into a block is adding it to the group.
LEMMA EventGrows ==
  ASSUME NEW group \in Seq(Lines), NEW line \in Lines, line # <<>>
  PROVE  ConsumeLine(EventOf(group), line) = EventOf(Append(group, line))
<1> DEFINE b == EventOf(group)
           e == EventOf(Append(group, line))
           f == FieldOf(line)
           v == ValueOf(line)
           saw == \E i \in DOMAIN group : FieldOf(group[i]) # "none"
           nowSaw == \E i \in DOMAIN Append(group, line) : FieldOf(Append(group, line)[i]) # "none"
<1>1. nowSaw = IF f # "none" THEN TRUE ELSE saw
  <2> DEFINE n == Len(group)
             more == Append(group, line)
  <2>1. /\ n \in Nat /\ DOMAIN group = 1 .. n /\ DOMAIN more = 1 .. n + 1
        /\ \A i \in 1 .. n : more[i] = group[i]
        /\ more[n + 1] = line
    <3>1. more \in Seq(Lines) /\ Len(more) = n + 1 /\ more[n + 1] = line
          /\ \A i \in 1 .. n : more[i] = group[i]
      BY AppendProperties
    <3> QED BY <3>1, LenProperties
  <2> HIDE DEF n, more
  <2>2. \A i \in 1 .. n + 1 : i \in 1 .. n \/ i = n + 1 BY <2>1
  <2>3. \A i \in 1 .. n : i \in 1 .. n + 1 BY <2>1
  <2>4. n + 1 \in 1 .. n + 1 BY <2>1
  <2>5. (\E i \in DOMAIN more : FieldOf(more[i]) # "none") <=> saw \/ f # "none"
    BY <2>1, <2>2, <2>3, <2>4
  <2>6. nowSaw <=> saw \/ f # "none" BY <2>5 DEF more
  <2> QED BY <2>6
<1>2. e = [id |-> IF f = "id" THEN v ELSE LatestOf(group, "id"),
           event |-> IF f = "event" THEN v ELSE LatestOf(group, "event"),
           data |-> IF f = "data" THEN Append(DataOf(group), v) ELSE DataOf(group),
           comment |-> IF f = "comment" THEN v ELSE LatestOf(group, "comment"),
           retry |-> IF f = "retry" THEN v ELSE LatestOf(group, "retry"),
           sawAnyField |-> nowSaw]
  BY LatestGrows, DataGrows DEF EventOf
<1>3. b = [id |-> LatestOf(group, "id"), event |-> LatestOf(group, "event"),
           data |-> DataOf(group), comment |-> LatestOf(group, "comment"),
           retry |-> LatestOf(group, "retry"), sawAnyField |-> saw]
  BY DEF EventOf
<1>4. (Head(line) = ":" <=> NameOf(line) = <<>>)
      /\ (Head(line) = ":" => v = StripOneLeadingSpace(Tail(line)))
  BY CommentIs
<1> HIDE DEF b, e, v, saw, nowSaw
<1> SUFFICES ConsumeLine(b, line) = e BY DEF b, e
<1>5. CASE Head(line) = ":"
  <2>1. f = "comment" BY <1>4, <1>5 DEF FieldOf
  <2>2. ConsumeLine(b, line) = [[b EXCEPT !.sawAnyField = TRUE] EXCEPT !.comment = v]
    <3>1. NameOf(line) \notin {<<"data">>, <<"event">>, <<"id">>, <<"retry">>}
      <4>1. \A x : <<x>> # <<>> OBVIOUS
      <4> QED BY <1>4, <1>5, <4>1
    <3> QED BY <1>4, <1>5, <3>1 DEF ConsumeLine
  <2> HIDE DEF f
  <2> QED BY <1>1, <1>2, <1>3, <2>1, <2>2
<1>6. CASE Head(line) # ":"
  <2>1. CASE NameOf(line) = <<"data">>
    <3>1. f = "data" BY <1>4, <1>6, <2>1 DEF FieldOf
    <3>2. ConsumeLine(b, line) = [[b EXCEPT !.sawAnyField = TRUE] EXCEPT !.data = Append(b.data, v)]
      BY <1>6, <2>1 DEF ConsumeLine, v
    <3> HIDE DEF f
    <3> QED BY <1>1, <1>2, <1>3, <3>1, <3>2
  <2>2. CASE NameOf(line) = <<"event">>
    <3>1. f = "event" BY <1>4, <1>6, <2>2 DEF FieldOf
    <3>2. ConsumeLine(b, line) = [[b EXCEPT !.sawAnyField = TRUE] EXCEPT !.event = v]
      BY <1>6, <2>2 DEF ConsumeLine, v
    <3> HIDE DEF f
    <3> QED BY <1>1, <1>2, <1>3, <3>1, <3>2
  <2>3. CASE NameOf(line) = <<"id">> /\ "NUL" \notin ToSet(v)
    <3>1. f = "id" BY <1>4, <1>6, <2>3 DEF FieldOf, v
    <3>2. ConsumeLine(b, line) = [[b EXCEPT !.sawAnyField = TRUE] EXCEPT !.id = v]
      BY <1>6, <2>3 DEF ConsumeLine, v
    <3> HIDE DEF f
    <3> QED BY <1>1, <1>2, <1>3, <3>1, <3>2
  <2>4. CASE NameOf(line) = <<"retry">> /\ IsRetry(v)
    <3>1. f = "retry" BY <1>4, <1>6, <2>4 DEF FieldOf, v
    <3>2. ConsumeLine(b, line) = [[b EXCEPT !.sawAnyField = TRUE] EXCEPT !.retry = v]
      BY <1>6, <2>4 DEF ConsumeLine, v
    <3> HIDE DEF f
    <3> QED BY <1>1, <1>2, <1>3, <3>1, <3>2
  <2>5. CASE /\ NameOf(line) # <<"data">> /\ NameOf(line) # <<"event">>
             /\ ~(NameOf(line) = <<"id">> /\ "NUL" \notin ToSet(v))
             /\ ~(NameOf(line) = <<"retry">> /\ IsRetry(v))
    <3>1. f = "none" BY <1>4, <1>6, <2>5 DEF FieldOf, v
    <3>2. ConsumeLine(b, line) = b BY <1>6, <2>5 DEF ConsumeLine, v
    <3> HIDE DEF f
    <3>3. nowSaw = saw BY <1>1, <3>1
    <3> QED BY <1>2, <1>3, <3>1, <3>2, <3>3
  <2> QED BY <2>1, <2>2, <2>3, <2>4, <2>5
<1> QED BY <1>5, <1>6

-----------------------------------------------------------------------------
(* The events of lines, line by line.                                      *)

Answers == {EventOf(group) : group \in Seq(Lines)}

EventPiece(lines, i) ==
  IF lines[i] = <<>> THEN EventIn(GroupUpTo(lines, i - 1)) ELSE <<>>

\* A group answers one event or none.
LEMMA EventInIs ==
  ASSUME NEW group \in Seq(Lines)
  PROVE  EventIn(group) \in Seq(Answers)
<1> DEFINE e == EventOf(group)
<1>1. e \in Answers BY DEF Answers
<1>2. EventIn(group) = IF e.sawAnyField THEN <<e>> ELSE <<>> BY DEF EventIn
<1> HIDE DEF e
<1>3. <<e>> \in Seq(Answers) BY <1>1
<1> QED BY <1>2, <1>3, EmptySeq

\* A group is some of the lines.
LEMMA GroupIs ==
  ASSUME NEW lines \in Seq(Lines), NEW n \in 0 .. Len(lines)
  PROVE  GroupUpTo(lines, n) \in Seq(Lines)
BY RunIsSeq DEF GroupUpTo

\* So does a position of the lines.
LEMMA EventPieceIs ==
  ASSUME NEW lines \in Seq(Lines), NEW i \in 1 .. Len(lines)
  PROVE  EventPiece(lines, i) \in Seq(Answers)
<1> DEFINE n == i - 1
<1>1. n \in 0 .. Len(lines)
  <2>1. Len(lines) \in Nat BY LenProperties
  <2> QED BY <2>1
<1>2. EventPiece(lines, i) = IF lines[i] = <<>> THEN EventIn(GroupUpTo(lines, n)) ELSE <<>>
  BY DEF EventPiece
<1> HIDE DEF n
<1>3. GroupUpTo(lines, n) \in Seq(Lines) BY <1>1, GroupIs
<1>4. EventIn(GroupUpTo(lines, n)) \in Seq(Answers) BY <1>3, EventInIs
<1> QED BY <1>2, <1>4, EmptySeq

\* A line more adds the event it ends.
LEMMA EventsGrow ==
  ASSUME NEW lines \in Seq(Lines), NEW n \in Nat, n + 1 <= Len(lines)
  PROVE  /\ EventPiece(lines, n + 1) \in Seq(Answers)
         /\ EventsUpTo(lines, n + 1) = EventsUpTo(lines, n) \o EventPiece(lines, n + 1)
<1> DEFINE m == n + 1
           ss == [i \in 1 .. n |-> EventPiece(lines, i)]
           tt == [i \in 1 .. m |-> EventPiece(lines, i)]
<1>1. EventPiece(lines, m) \in Seq(Answers)
  <2>1. n + 1 \in 1 .. Len(lines)
    <3>1. Len(lines) \in Nat BY LenProperties
    <3> QED BY <3>1
  <2> QED BY <2>1, EventPieceIs
<1>2. EventsUpTo(lines, n) = FlattenSeq(ss) /\ EventsUpTo(lines, m) = FlattenSeq(tt)
  BY DEF EventsUpTo, EventPiece
<1>3. GoesOnBy(ss, tt, n, m) /\ tt[m] = EventPiece(lines, m)
  BY DEF GoesOnBy, OneMore
<1> HIDE DEF ss, tt, m
<1>4. FlattenSeq(tt) = FlattenSeq(ss) \o tt[m]
  <2>1. GoesOnBy(ss, tt, n, m) BY <1>3
  <2>2. <<>> \o tt[m] = tt[m]
    <3>1. PICK u \in Seq(Answers) : u = tt[m] BY <1>1, <1>3
    <3> QED BY <3>1, ConcatEmptySeq
  <2> QED BY <2>1, <2>2, FlattenGrows
<1> QED BY <1>1, <1>2, <1>3, <1>4 DEF m

\* No events before the lines, and sequences of events after.
LEMMA EventsAre ==
  ASSUME NEW lines \in Seq(Lines)
  PROVE  /\ EventsUpTo(lines, 0) = <<>>
         /\ \A n \in 0 .. Len(lines) : EventsUpTo(lines, n) \in Seq(Answers)
<1> DEFINE S == {n \in Nat : n <= Len(lines) => EventsUpTo(lines, n) \in Seq(Answers)}
<1>0. EventsUpTo(lines, 0) = <<>>
  <2>1. [i \in 1 .. 0 |-> EventPiece(lines, i)] = <<>> OBVIOUS
  <2> QED BY <2>1, FlattenEmpty DEF EventsUpTo, EventPiece
<1>1. 0 \in S BY <1>0, EmptySeq
<1>2. ASSUME NEW n \in Nat, n \in S PROVE n + 1 \in S
  <2> SUFFICES ASSUME n + 1 <= Len(lines) PROVE EventsUpTo(lines, n + 1) \in Seq(Answers)
    OBVIOUS
  <2>1. Len(lines) \in Nat BY LenProperties
  <2>2. n <= Len(lines) BY <2>1
  <2>3. EventsUpTo(lines, n) \in Seq(Answers) BY <1>2, <2>2
  <2> DEFINE s == EventsUpTo(lines, n)
             u == EventPiece(lines, n + 1)
  <2>4. EventsUpTo(lines, n + 1) = s \o u /\ u \in Seq(Answers) BY EventsGrow
  <2> HIDE DEF s, u
  <2>5. s \o u \in Seq(Answers) BY <2>3, <2>4, ConcatProperties DEF s
  <2> QED BY <2>4, <2>5
<1>3. Nat \subseteq S
  <2> HIDE DEF S
  <2> QED BY <1>1, <1>2, SetInduction
<1>4. \A n \in 0 .. Len(lines) : n \in Nat /\ n <= Len(lines)
  <2>1. Len(lines) \in Nat BY LenProperties
  <2> QED BY <2>1
<1> QED BY <1>0, <1>3, <1>4

\* They begin with those of the first lines, of any lines that begin so.
LEMMA EventsBegin ==
  ASSUME NEW a \in Seq(Lines), NEW b \in Seq(Lines), IsPrefix(a, b)
  PROVE  IsPrefix(EventsUpTo(a, Len(a)), EventsOf(b))
<1> DEFINE n == Len(a)
           L == Len(b)
           f == [m \in 0 .. L |-> EventsUpTo(b, m)]
           rest == EventIn(GroupUpTo(b, L))
<1>1. n \in Nat /\ L \in Nat /\ n <= L /\ \A i \in 1 .. n : a[i] = b[i]
  BY LenProperties, PrefixIs
<1>2. n \in 0 .. L /\ L \in n .. L /\ L \in 0 .. L BY <1>1
<1>3. EventsUpTo(a, n) = EventsUpTo(b, n)
  <2>1. ASSUME NEW i \in 1 .. n PROVE EventPiece(a, i) = EventPiece(b, i)
    <3> DEFINE k == i - 1
    <3>1. k \in Nat /\ k <= n /\ k <= L /\ \A j \in 1 .. k : j \in 1 .. n /\ j \in 1 .. L
      BY <1>1
    <3>2. DOMAIN a = 1 .. n /\ DOMAIN b = 1 .. L BY LenProperties
    <3>3. \A j \in 1 .. k : a[j] = b[j] /\ (j \in EmptyLines(a) <=> j \in EmptyLines(b))
      <4> HIDE DEF n, k, L
      <4> QED BY <1>1, <3>1, <3>2 DEF EmptyLines
    <3> HIDE DEF k
    <3>4. GroupUpTo(a, k) = GroupUpTo(b, k)
      <4>1. RunUpTo(a, EmptyLines(a), k) = RunUpTo(b, EmptyLines(b), k)
        BY <3>1, <3>3, RunSame
      <4> QED BY <4>1 DEF GroupUpTo
    <3> QED BY <1>1, <3>4 DEF EventPiece, k
  <2>2. [i \in 1 .. n |-> EventPiece(a, i)] = [i \in 1 .. n |-> EventPiece(b, i)]
    <3> HIDE DEF n
    <3> QED BY <2>1
  <2>3. /\ EventsUpTo(a, n) = FlattenSeq([i \in 1 .. n |-> EventPiece(a, i)])
        /\ EventsUpTo(b, n) = FlattenSeq([i \in 1 .. n |-> EventPiece(b, i)])
    BY DEF EventsUpTo, EventPiece
  <2> QED BY <2>2, <2>3
<1>4. GoesOn(f, Answers, L)
  <2>1. \A m \in 0 .. L : f[m] \in Seq(Answers) BY EventsAre
  <2>2. ASSUME NEW m \in 0 .. L, m # L PROVE \E u \in Seq(Answers) : f[m + 1] = f[m] \o u
    <3>1. m \in Nat /\ m + 1 <= L /\ m + 1 \in 0 .. L BY <1>1, <2>2
    <3>2. /\ EventPiece(b, m + 1) \in Seq(Answers)
          /\ EventsUpTo(b, m + 1) = EventsUpTo(b, m) \o EventPiece(b, m + 1)
      BY <3>1, EventsGrow
    <3> QED BY <3>1, <3>2
  <2> HIDE DEF f, L
  <2> QED BY <2>1, <2>2 DEF GoesOn
<1>5. \A m \in 0 .. L : f[m] = EventsUpTo(b, m) OBVIOUS
<1>6. rest \in Seq(Answers)
  <2>1. GroupUpTo(b, L) \in Seq(Lines)
    <3> HIDE DEF L
    <3> QED BY <1>2, GroupIs DEF L
  <2> QED BY <2>1, EventInIs
<1>7. EventsOf(b) = EventsUpTo(b, L) \o rest BY DEF EventsOf
<1> HIDE DEF f, rest, n, L
<1>8. IsPrefix(f[n], f[L]) BY <1>1, <1>2, <1>4, EarlierIsPrefix
<1> DEFINE s == f[n]
           t == f[L]
<1>9. s \in Seq(Answers) /\ t \in Seq(Answers) BY <1>2, <1>4 DEF GoesOn
<1>10. s = EventsUpTo(a, n) /\ t = EventsUpTo(b, L) BY <1>2, <1>3, <1>5
<1>11. IsPrefix(s, t) BY <1>8
<1> HIDE DEF s, t
<1>12. IsPrefix(s, t \o rest) BY <1>6, <1>9, <1>11, PrefixGrows
<1> QED BY <1>7, <1>10, <1>12 DEF n

\* What block and events have of some lines.
Taken(lines, b, d) ==
  /\ b = EventOf(GroupUpTo(lines, Len(lines)))
  /\ d = EventsUpTo(lines, Len(lines))

\* A group and the events, one line more.
LEMMA LineAdded ==
  ASSUME NEW lines \in Seq(Lines), NEW line \in Lines
  PROVE  /\ GroupUpTo(Append(lines, line), Len(Append(lines, line)))
              = IF line = <<>> THEN <<>> ELSE Append(GroupUpTo(lines, Len(lines)), line)
         /\ EventsUpTo(Append(lines, line), Len(Append(lines, line)))
              = EventsUpTo(lines, Len(lines))
                  \o (IF line = <<>> THEN EventIn(GroupUpTo(lines, Len(lines))) ELSE <<>>)
<1> DEFINE n == Len(lines)
           more == Append(lines, line)
<1>1. /\ more \in Seq(Lines) /\ Len(more) = n + 1 /\ n \in Nat
      /\ \A i \in 1 .. n : more[i] = lines[i]
      /\ more[n + 1] = line
  BY AppendProperties, LenProperties
<1>2. DOMAIN lines = 1 .. n /\ DOMAIN more = 1 .. n + 1 BY <1>1, LenProperties
<1> HIDE DEF more, n
<1>3. n <= Len(lines) /\ n + 1 <= Len(more) BY <1>1 DEF n
<1>4. n + 1 \in EmptyLines(more) <=> line = <<>>
  <2>1. n + 1 \in DOMAIN more BY <1>1, <1>2
  <2> QED BY <1>1, <2>1 DEF EmptyLines
<1>5. n <= Len(more) BY <1>1
<1>6. \A i \in 1 .. n : more[i] = lines[i] /\ (i \in EmptyLines(more) <=> i \in EmptyLines(lines))
  <2>1. \A i \in 1 .. n : i \in 1 .. n + 1 BY <1>1
  <2> QED BY <1>1, <1>2, <2>1 DEF EmptyLines
<1>7. GroupUpTo(more, n) = GroupUpTo(lines, n)
  <2>1. RunUpTo(more, EmptyLines(more), n) = RunUpTo(lines, EmptyLines(lines), n)
    BY <1>1, <1>3, <1>5, <1>6, RunSame
  <2> QED BY <2>1 DEF GroupUpTo
<1>8. GroupUpTo(more, n + 1) = IF line = <<>> THEN <<>> ELSE Append(GroupUpTo(lines, n), line)
  <2> DEFINE marks == EmptyLines(more)
  <2> HIDE DEF marks
  <2>1. /\ RunUpTo(more, marks, n) \in Seq(Lines)
        /\ RunUpTo(more, marks, n + 1) = IF n + 1 \in marks THEN <<>>
                                         ELSE Append(RunUpTo(more, marks, n), more[n + 1])
    <3>1. MadeOf(more, Lines) BY <1>1 DEF MadeOf
    <3>2. n \in Nat /\ n + 1 <= Len(more) BY <1>1, <1>3
    <3> QED BY <3>1, <3>2, RunGrows
  <2> QED BY <1>1, <1>4, <1>7, <2>1 DEF GroupUpTo, marks
<1>9. EventsUpTo(more, n + 1) = EventsUpTo(more, n) \o EventPiece(more, n + 1)
  BY <1>1, <1>3, EventsGrow
<1>10. EventPiece(more, n + 1) = IF line = <<>> THEN EventIn(GroupUpTo(lines, n)) ELSE <<>>
  <2>1. n + 1 - 1 = n BY <1>1
  <2> QED BY <1>1, <1>7, <2>1 DEF EventPiece
<1>11. EventsUpTo(more, n) = EventsUpTo(lines, n)
  <2>1. ASSUME NEW i \in 1 .. n PROVE EventPiece(more, i) = EventPiece(lines, i)
    <3> DEFINE k == i - 1
    <3>1. k \in Nat /\ k <= n /\ k <= Len(more) /\ k <= Len(lines) /\ \A j \in 1 .. k : j \in 1 .. n
      BY <1>1, <1>3
    <3> HIDE DEF k
    <3>2. RunUpTo(more, EmptyLines(more), k) = RunUpTo(lines, EmptyLines(lines), k)
      BY <1>1, <1>6, <3>1, RunSame
    <3> QED BY <1>1, <3>2 DEF EventPiece, GroupUpTo, k
  <2>2. [i \in 1 .. n |-> EventPiece(more, i)] = [i \in 1 .. n |-> EventPiece(lines, i)]
    BY <2>1
  <2>3. /\ EventsUpTo(more, n) = FlattenSeq([i \in 1 .. n |-> EventPiece(more, i)])
        /\ EventsUpTo(lines, n) = FlattenSeq([i \in 1 .. n |-> EventPiece(lines, i)])
    BY DEF EventsUpTo, EventPiece
  <2> QED BY <2>2, <2>3
<1>12. EventsUpTo(more, n + 1)
         = EventsUpTo(lines, n) \o (IF line = <<>> THEN EventIn(GroupUpTo(lines, n)) ELSE <<>>)
  BY <1>9, <1>10, <1>11
<1> QED BY <1>1, <1>8, <1>12 DEF n, more

\* Dispatching the block adds the event of the group, if any.
LEMMA DispatchAdds ==
  ASSUME NEW lines \in Seq(Lines), Taken(lines, block, dispatched), DispatchBlock
  PROVE  /\ dispatched' = EventsUpTo(lines, Len(lines)) \o EventIn(GroupUpTo(lines, Len(lines)))
         /\ block' = EmptyBlock
<1> DEFINE n == Len(lines)
           d == EventsUpTo(lines, n)
           group == GroupUpTo(lines, n)
           e == EventOf(group)
<1>1. n \in 0 .. Len(lines)
  <2>1. Len(lines) \in Nat BY LenProperties
  <2> QED BY <2>1
<1>2. d \in Seq(Answers) BY <1>1, EventsAre
<1>3. group \in Seq(Lines)
  <2> HIDE DEF n
  <2> QED BY <1>1, GroupIs
<1>4. e \in Answers BY <1>3 DEF Answers
<1>5. block = e /\ dispatched = d BY DEF Taken
<1>6. EventIn(group) = IF e.sawAnyField THEN <<e>> ELSE <<>> BY DEF EventIn
<1>7. /\ dispatched' = IF block.sawAnyField THEN Append(dispatched, block) ELSE dispatched
      /\ block' = EmptyBlock
  BY DEF DispatchBlock
<1> HIDE DEF d, e
<1>8. Append(d, e) = d \o <<e>> /\ d \o <<>> = d BY <1>2, <1>4, AppendIsConcat, ConcatEmptySeq
<1> HIDE DEF group
<1>9. dispatched' = d \o EventIn(group) BY <1>5, <1>6, <1>7, <1>8
<1> QED BY <1>7, <1>9 DEF d, group

\* Taking a line.
LEMMA TakeLineTakes ==
  ASSUME NEW lines \in Seq(Lines), NEW line \in Lines,
         Taken(lines, block, dispatched), TakeLine(line)
  PROVE  Taken(Append(lines, line), block', dispatched')
<1> DEFINE group == GroupUpTo(lines, Len(lines))
           d == EventsUpTo(lines, Len(lines))
           more == Append(lines, line)
<1>1. /\ GroupUpTo(more, Len(more)) = IF line = <<>> THEN <<>> ELSE Append(group, line)
      /\ EventsUpTo(more, Len(more)) = d \o (IF line = <<>> THEN EventIn(group) ELSE <<>>)
  BY LineAdded
<1>2. CASE line = <<>>
  <2>1. DispatchBlock BY <1>2 DEF TakeLine
  <2>2. dispatched' = d \o EventIn(group) /\ block' = EmptyBlock BY <2>1, DispatchAdds
  <2> HIDE DEF group, d, more
  <2> QED BY <1>1, <1>2, <2>2, EmptyEvent DEF Taken, more
<1>3. CASE line # <<>>
  <2>1. block' = ConsumeLine(block, line) /\ dispatched' = dispatched BY <1>3 DEF TakeLine
  <2>2. block = EventOf(group) /\ dispatched = d BY DEF Taken
  <2>3. Len(lines) \in 0 .. Len(lines)
    <3>1. Len(lines) \in Nat BY LenProperties
    <3> QED BY <3>1
  <2>4. group \in Seq(Lines)
    <3> DEFINE n == Len(lines)
    <3>1. n \in 0 .. Len(lines) BY <2>3
    <3> HIDE DEF n
    <3>2. GroupUpTo(lines, n) \in Seq(Lines) BY <3>1, GroupIs
    <3> QED BY <3>2 DEF n
  <2>5. d \in Seq(Answers) BY <2>3, EventsAre
  <2> HIDE DEF group, d
  <2>6. block' = EventOf(Append(group, line)) BY <1>3, <2>1, <2>2, <2>4, EventGrows
  <2>7. dispatched' = d \o <<>> BY <2>1, <2>2, <2>5, ConcatEmptySeq
  <2> HIDE DEF more
  <2> QED BY <1>1, <1>3, <2>6, <2>7 DEF Taken, more
<1> QED BY <1>2, <1>3

\* No lines, no event.
LEMMA NothingTaken == Taken(<<>>, EmptyBlock, <<>>)
<1>1. <<>> \in Seq(Lines) /\ Len(<<>>) = 0 BY EmptySeq
<1>2. GroupUpTo(<<>>, 0) = <<>> BY RunEmpty DEF GroupUpTo
<1>3. EventsUpTo(<<>>, 0) = <<>> BY <1>1, EventsAre
<1> QED BY <1>1, <1>2, <1>3, EmptyEvent DEF Taken

-----------------------------------------------------------------------------
(* The parser follows the text.                                            *)

\* A byte more: one of a line, one that ends a line, or the LF of a CRLF.
LEMMA ByteMore ==
  ASSUME NEW text \in Seq(Symbols), NEW n \in Nat, n + 1 <= Len(text), LinesFit(text, n)
  PROVE  /\ text[n + 1] \notin {"LF", "CR"} =>
              /\ LineUpTo(text, n + 1) = Append(LineUpTo(text, n), text[n + 1])
              /\ LinesUpTo(text, n + 1) = LinesUpTo(text, n)
              /\ Len(LineUpTo(text, n + 1)) <= MaxLineBytes => LinesFit(text, n + 1)
              /\ Len(LineUpTo(text, n + 1)) > MaxLineBytes => LinesOf(text) = LinesUpTo(text, n)
         /\ text[n + 1] \in {"LF", "CR"} =>
              /\ LineUpTo(text, n + 1) = <<>> /\ LinesFit(text, n + 1)
              /\ IF text[n + 1] = "LF" /\ n # 0 /\ text[n] = "CR"
                   THEN LinesUpTo(text, n + 1) = LinesUpTo(text, n) /\ LineUpTo(text, n) = <<>>
                 ELSE LinesUpTo(text, n + 1) = Append(LinesUpTo(text, n), LineUpTo(text, n))
<1> DEFINE m == n + 1
           line == LineUpTo(text, n)
           lines == LinesUpTo(text, n)
           c == text[m]
<1>0. /\ Len(text) \in Nat /\ DOMAIN text = 1 .. Len(text)
      /\ MaxLineBytes \in Nat
  BY LenProperties, SseParserAssumption DEF SseParserAssumption
<1>1. m \in 1 .. Len(text) /\ m \in 0 .. Len(text) /\ m # 0 /\ m - 1 = n /\ n \in 0 .. Len(text)
  BY <1>0
<1>2. /\ line \in Lines
      /\ LineUpTo(text, m) = IF c \in {"LF", "CR"} THEN <<>> ELSE Append(line, c)
  BY LineGrows
<1>3. lines \in Seq(Lines) BY <1>1, LinesAre
<1>4. LinesUpTo(text, m) = lines \o LinePiece(text, m) BY LinesGrow
<1>5. m \in Overlong(text) <=> Len(LineUpTo(text, m)) > MaxLineBytes
  BY <1>0, <1>1 DEF Overlong
<1>6. m \notin Overlong(text) => LinesFit(text, m)
  <2> SUFFICES ASSUME m \notin Overlong(text), NEW k \in 1 .. m PROVE k \notin Overlong(text)
    BY DEF LinesFit
  <2>1. k \in 1 .. n \/ k = m OBVIOUS
  <2> HIDE DEF m
  <2> QED BY <2>1 DEF LinesFit
<1>7. m \in Overlong(text) => LinesOf(text) = lines
  <2>1. LinesFit(text, m - 1) BY <1>1
  <2> HIDE DEF m
  <2>2. m \in Overlong(text) => LinesOf(text) = LinesUpTo(text, m - 1)
    BY <1>1, <2>1, LinesEnd
  <2> QED BY <1>1, <2>2
<1>8. lines \o <<>> = lines /\ lines \o <<line>> = Append(lines, line)
  <2> HIDE DEF lines, line
  <2> QED BY <1>2, <1>3, ConcatEmptySeq, AppendIsConcat
<1>9. LinePiece(text, m) = IF LineEndsAt(text, m) THEN <<line>> ELSE <<>>
  BY <1>1 DEF LinePiece
<1>10. LineEndsAt(text, m) <=> c \in {"LF", "CR"} /\ ~(c = "LF" /\ n # 0 /\ text[n] = "CR")
  <2>1. m \in Terminators(text) <=> c \in {"LF", "CR"} BY <1>0, <1>1 DEF Terminators
  <2>2. m > 1 <=> n # 0 OBVIOUS
  <2> HIDE DEF m
  <2> QED BY <1>1, <2>1, <2>2 DEF LineEndsAt
<1>11. n # 0 /\ text[n] = "CR" => line = <<>>
  <2> SUFFICES ASSUME n # 0, text[n] = "CR" PROVE LineUpTo(text, n) = <<>> OBVIOUS
  <2> DEFINE k == n - 1
  <2>1. k \in Nat /\ k + 1 = n /\ k + 1 <= Len(text) BY <1>0, <1>1
  <2> HIDE DEF k
  <2>2. LineUpTo(text, k + 1) = IF text[k + 1] \in {"LF", "CR"} THEN <<>>
                                ELSE Append(LineUpTo(text, k), text[k + 1])
    BY <2>1, LineGrows
  <2> QED BY <2>1, <2>2
<1> HIDE DEF line, lines, c, m
<1>12. CASE c \notin {"LF", "CR"}
  <2>1. LineUpTo(text, m) = Append(line, c) /\ LinesUpTo(text, m) = lines
    BY <1>2, <1>4, <1>8, <1>9, <1>10, <1>12
  <2>2. Len(LineUpTo(text, m)) <= MaxLineBytes => LinesFit(text, m)
    <3>1. Len(LineUpTo(text, m)) <= MaxLineBytes => ~(Len(LineUpTo(text, m)) > MaxLineBytes)
      <4>1. LineUpTo(text, m) \in Seq(Symbols)
        <5>1. RunUpTo(text, Terminators(text), m) \in Seq(Symbols) BY <1>1, RunIsSeq
        <5> QED BY <5>1 DEF LineUpTo
      <4> DEFINE l == LineUpTo(text, m)
      <4>2. l \in Seq(Symbols) BY <4>1
      <4> HIDE DEF l
      <4>3. Len(l) \in Nat BY <4>2, LenProperties
      <4>4. Len(l) <= MaxLineBytes => ~(Len(l) > MaxLineBytes) BY <1>0, <4>3
      <4> QED BY <4>4 DEF l
    <3> QED BY <1>5, <1>6, <3>1
  <2>3. Len(LineUpTo(text, m)) > MaxLineBytes => LinesOf(text) = lines BY <1>5, <1>7
  <2> QED BY <1>12, <2>1, <2>2, <2>3 DEF line, lines, c, m
<1>13. CASE c \in {"LF", "CR"}
  <2>1. LineUpTo(text, m) = <<>> BY <1>2, <1>13
  <2>2. LinesFit(text, m)
    <3>1. Len(<<>>) = 0 /\ ~(0 > MaxLineBytes) BY <1>0
    <3> QED BY <1>5, <1>6, <2>1, <3>1
  <2>3. CASE c = "LF" /\ n # 0 /\ text[n] = "CR"
    <3>1. LinesUpTo(text, m) = lines BY <1>4, <1>8, <1>9, <1>10, <2>3
    <3> QED BY <1>11, <1>13, <2>1, <2>2, <2>3, <3>1 DEF line, lines, c, m
  <2>4. CASE ~(c = "LF" /\ n # 0 /\ text[n] = "CR")
    <3>1. LinesUpTo(text, m) = Append(lines, line) BY <1>4, <1>8, <1>9, <1>10, <1>13, <2>4
    <3> QED BY <1>13, <2>1, <2>2, <2>4, <3>1 DEF line, lines, c, m
  <2> QED BY <2>3, <2>4
<1> QED BY <1>12, <1>13

\* The text is the stream behind its byte order mark.
LEMMA TextIs ==
  ASSUME stream \in Seq(Symbols)
  PROVE  /\ Skipped \in Nat /\ Skipped <= Len(stream) /\ Len(stream) \in Nat
         /\ Text \in Seq(Symbols) /\ Len(Text) = Len(stream) - Skipped
         /\ \A i \in 1 .. Len(Text) : Text[i] = stream[Skipped + i]
<1> DEFINE k == Skipped
           L == Len(stream)
           m == k + 1
<1>1. L \in Nat /\ k \in Nat /\ k <= L
  <2>1. L \in Nat BY LenProperties
  <2>2. Len(Bom) = 3 BY DEF Bom
  <2>3. IsPrefix(Bom, stream) => 3 <= L BY <2>2 DEF IsPrefix
  <2> QED BY <2>1, <2>2, <2>3 DEF Skipped
<1>2. Text = SubSeq(stream, m, L) BY DEF Text
<1> HIDE DEF k, L
<1>3. \A i \in m .. L : stream[i] \in Symbols
  <2>1. \A i \in m .. L : i \in 1 .. L BY <1>1
  <2> QED BY <2>1, ElementOfSeq DEF L
<1>4. m \in Int /\ L \in Int /\ m = k + 1 BY <1>1
<1> HIDE DEF m
<1>5. /\ SubSeq(stream, m, L) \in Seq(Symbols)
      /\ Len(SubSeq(stream, m, L)) = IF m <= L THEN L - m + 1 ELSE 0
      /\ \A i \in 1 .. L - m + 1 : SubSeq(stream, m, L)[i] = stream[m + i - 1]
  BY <1>3, <1>4, SubSeqProperties
<1>6. Len(Text) = L - k BY <1>1, <1>2, <1>4, <1>5
<1>7. \A i \in 1 .. L - k : i \in 1 .. L - m + 1 /\ m + i - 1 = k + i BY <1>1, <1>4
<1>8. \A i \in 1 .. L - k : Text[i] = stream[k + i] BY <1>2, <1>5, <1>7
<1> QED BY <1>1, <1>2, <1>5, <1>6, <1>8 DEF k, L

\* A stream that stays has the same text.
LEMMA TextStays ==
  ASSUME stream' = stream
  PROVE  Skipped' = Skipped /\ Text' = Text /\ Events' = Events
<1>1. Skipped' = Skipped BY DEF Skipped
<1>2. Text' = Text BY <1>1 DEF Text
<1> QED BY <1>1, <1>2 DEF Events

-----------------------------------------------------------------------------
(* The invariant: how far the parser is, and what it has taken so far.     *)

\* How much of the text has been read.
Position == readAt - Skipped

\* Before the byte order mark; along the text, a line begun and a group begun;
\* behind its last line; stopped by an overlong line; and at the end.
BeforeBom ==
  /\ ~bomChecked /\ parser = "open"
  /\ readAt = 0 /\ pendingCr = FALSE /\ lineBytes = <<>>
  /\ block = EmptyBlock /\ dispatched = <<>>
Reading ==
  /\ bomChecked /\ parser = "open" /\ readAt \in Skipped .. Len(stream)
  /\ LinesFit(Text, Position)
  /\ lineBytes = LineUpTo(Text, Position)
  /\ pendingCr <=> Position # 0 /\ Text[Position] = "CR"
  /\ Taken(LinesUpTo(Text, Position), block, dispatched)
Exhausted ==
  /\ bomChecked /\ parser = "open" /\ readAt = Len(stream) /\ lineBytes = <<>>
  /\ Taken(LinesOf(Text), block, dispatched)
Failed == bomChecked /\ parser = "failed" /\ Taken(LinesOf(Text), block, dispatched)
AtEnd == bomChecked /\ parser = "ended" /\ dispatched = Events

ParserInv ==
  /\ stream \in Seq(Symbols)
  /\ BeforeBom \/ Reading \/ Exhausted \/ Failed \/ AtEnd

\* Where the parser reads, in the text.
LEMMA ReadingIs ==
  ASSUME stream \in Seq(Symbols), readAt \in Skipped .. Len(stream)
  PROVE  /\ Position \in Nat /\ Position <= Len(Text) /\ Position \in 0 .. Len(Text)
         /\ readAt = Len(stream) <=> Position = Len(Text)
         /\ readAt < Len(stream) => /\ Position + 1 <= Len(Text)
                                    /\ stream[readAt + 1] = Text[Position + 1]
                                    /\ readAt + 1 \in Skipped .. Len(stream)
<1> DEFINE k == Skipped
           L == Len(stream)
           n == Position
           T == Text
<1>1. k \in Nat /\ L \in Nat /\ Len(T) = L - k /\ \A i \in 1 .. Len(T) : T[i] = stream[k + i]
  BY TextIs
<1>2. n = readAt - k /\ readAt \in k .. L BY DEF Position
<1> HIDE DEF k, L, n, T
<1>3. n \in Nat /\ n <= Len(T) /\ n \in 0 .. Len(T) /\ (readAt = L <=> n = Len(T)) BY <1>1, <1>2
<1>4. ASSUME readAt < L
      PROVE  n + 1 <= Len(T) /\ stream[readAt + 1] = T[n + 1] /\ readAt + 1 \in k .. L
  <2>1. n + 1 \in 1 .. Len(T) /\ k + (n + 1) = readAt + 1 BY <1>1, <1>2, <1>4
  <2>2. T[n + 1] = stream[k + (n + 1)] BY <1>1, <2>1
  <2>3. n + 1 <= Len(T) /\ readAt + 1 \in k .. L BY <1>1, <1>2, <1>4
  <2> QED BY <2>1, <2>2, <2>3
<1> QED BY <1>3, <1>4 DEF k, L, n, T

\* Nothing is read at the start.
LEMMA ParserStartsWell == ParserInit => ParserInv
<1> SUFFICES ASSUME ParserInit PROVE ParserInv OBVIOUS
<1>1. PICK parts \in SeqOf(Pieces, MaxPieces) : ParserStarts(FlattenSeq(parts)) BY DEF ParserInit
<1>2. parts \in Seq(Seq(Symbols))
  <2>1. Pieces \subseteq Seq(Symbols) BY SseParserAssumption DEF SseParserAssumption
  <2>2. MaxPieces \in Nat BY SseParserAssumption DEF SseParserAssumption
  <2>3. PICK m \in 0 .. MaxPieces : parts \in [1 .. m -> Pieces] BY <1>1 DEF SeqOf
  <2>4. m \in Nat BY <2>2
  <2>5. parts \in [1 .. m -> Seq(Symbols)] BY <2>1, <2>3
  <2> DEFINE T == Seq(Symbols)
  <2>6. parts \in [1 .. m -> T] BY <2>5
  <2> HIDE DEF T
  <2>7. parts \in Seq(T) BY <2>4, <2>6
  <2> QED BY <2>7 DEF T
<1>3. stream = FlattenSeq(parts) BY <1>1 DEF ParserStarts
<1>4. stream \in Seq(Symbols) BY <1>2, <1>3, FlattenType
<1>5. BeforeBom BY <1>1 DEF ParserStarts, BeforeBom
<1> QED BY <1>4, <1>5 DEF ParserInv

\* The mark is skipped: nothing of the text is read.
LEMMA BomKeeps ==
  ASSUME ParserInv, ConsumeLeadingBom
  PROVE  ParserInv'
<1>1. /\ stream \in Seq(Symbols) /\ stream' = stream
      /\ BeforeBom
  BY DEF ParserInv, ConsumeLeadingBom, Reading, Exhausted, Failed, AtEnd
<1>2. /\ bomChecked' = TRUE /\ parser' = "open" /\ readAt' = Skipped /\ pendingCr' = FALSE
      /\ lineBytes' = <<>> /\ block' = EmptyBlock /\ dispatched' = <<>>
  BY <1>1 DEF ConsumeLeadingBom, BeforeBom, Skipped
<1>3. Skipped' = Skipped /\ Text' = Text BY <1>1, TextStays
<1>4. Skipped \in Nat /\ Len(stream) \in Nat /\ Skipped <= Len(stream) /\ Text \in Seq(Symbols)
  BY <1>1, TextIs
<1>5. Position' = 0 BY <1>2, <1>3, <1>4 DEF Position
<1>6. /\ LinesFit(Text, 0) /\ LineUpTo(Text, 0) = <<>> /\ LinesUpTo(Text, 0) = <<>>
  <2>1. LinesFit(Text, 0) BY DEF LinesFit
  <2>2. LineUpTo(Text, 0) = <<>> BY RunEmpty DEF LineUpTo
  <2> QED BY <1>4, <2>1, <2>2, LinesAre
<1>7. readAt' \in Skipped .. Len(stream) BY <1>2, <1>4
<1>8. Reading'
  BY <1>1, <1>2, <1>3, <1>5, <1>6, <1>7, NothingTaken DEF Reading
<1> QED BY <1>1, <1>8 DEF ParserInv

\* A byte read.
LEMMA ByteKeeps ==
  ASSUME ParserInv, ReadByte
  PROVE  ParserInv'
<1> DEFINE n == Position
           T == Text
           c == T[n + 1]
           line == LineUpTo(T, n)
           lines == LinesUpTo(T, n)
<1>1. /\ stream \in Seq(Symbols) /\ stream' = stream /\ readAt < Len(stream)
      /\ bomChecked /\ parser = "open" /\ bomChecked' = bomChecked /\ readAt' = readAt + 1
      /\ pendingCr' = (stream[readAt + 1] = "CR")
  BY DEF ParserInv, ReadByte
<1>2. Reading
  <2>1. ~(readAt = Len(stream))
    <3>1. Len(stream) \in Nat BY <1>1, TextIs
    <3> QED BY <1>1, <3>1
  <2> QED BY <1>1, <2>1 DEF ParserInv, BeforeBom, Exhausted, Failed, AtEnd
<1>3. /\ n \in Nat /\ n + 1 <= Len(T) /\ n \in 0 .. Len(T)
      /\ stream[readAt + 1] = c /\ readAt + 1 \in Skipped .. Len(stream)
  BY <1>1, <1>2, ReadingIs DEF Reading
<1>4. /\ T \in Seq(Symbols) /\ Skipped' = Skipped /\ Text' = T
      /\ Position' = n + 1
  <2>1. T \in Seq(Symbols) /\ Skipped \in Nat /\ Len(stream) \in Nat BY <1>1, TextIs
  <2>2. Skipped' = Skipped /\ Text' = T BY <1>1, TextStays
  <2>3. readAt \in Skipped .. Len(stream) BY <1>2 DEF Reading
  <2>4. Position' = n + 1 BY <1>1, <2>1, <2>2, <2>3 DEF Position
  <2> QED BY <2>1, <2>2, <2>4
<1>5. /\ LinesFit(T, n) /\ lineBytes = line /\ Taken(lines, block, dispatched)
      /\ pendingCr <=> n # 0 /\ T[n] = "CR"
  BY <1>2 DEF Reading
<1>6. lines \in Seq(Lines) /\ line \in Lines
  <2>1. LinesUpTo(T, n) \in Seq(Lines) BY <1>3, <1>4, LinesAre
  <2>2. LineUpTo(T, n) \in Lines BY <1>3, <1>4, LineGrows
  <2> QED BY <2>1, <2>2
<1>7. /\ c \notin {"LF", "CR"} =>
           /\ LineUpTo(T, n + 1) = Append(line, c)
           /\ LinesUpTo(T, n + 1) = lines
           /\ Len(LineUpTo(T, n + 1)) <= MaxLineBytes => LinesFit(T, n + 1)
           /\ Len(LineUpTo(T, n + 1)) > MaxLineBytes => LinesOf(T) = lines
      /\ c \in {"LF", "CR"} =>
           /\ LineUpTo(T, n + 1) = <<>> /\ LinesFit(T, n + 1)
           /\ IF c = "LF" /\ n # 0 /\ T[n] = "CR"
                THEN LinesUpTo(T, n + 1) = lines /\ line = <<>>
              ELSE LinesUpTo(T, n + 1) = Append(lines, line)
  BY <1>3, <1>4, <1>5, ByteMore
<1>8. n + 1 # 0 /\ pendingCr' = (c = "CR") BY <1>1, <1>3
<1> HIDE DEF n, T, c, line, lines
<1>9. Reading' <=> /\ parser' = "open" /\ LinesFit(T, n + 1)
                   /\ lineBytes' = LineUpTo(T, n + 1)
                   /\ Taken(LinesUpTo(T, n + 1), block', dispatched')
  <2>1. readAt' \in Skipped' .. Len(stream') BY <1>1, <1>3, <1>4
  <2>2. pendingCr' <=> Position' # 0 /\ Text'[Position'] = "CR" BY <1>4, <1>8 DEF c
  <2>3. bomChecked' BY <1>1
  <2> QED BY <1>4, <2>1, <2>2, <2>3 DEF Reading
<1>10. CASE pendingCr /\ c = "LF"
  <2>1. lineBytes' = lineBytes /\ block' = block /\ dispatched' = dispatched /\ parser' = parser
    BY <1>3, <1>10 DEF ReadByte
  <2>2. /\ LineUpTo(T, n + 1) = <<>> /\ LinesFit(T, n + 1)
        /\ LinesUpTo(T, n + 1) = lines /\ line = <<>>
    BY <1>5, <1>7, <1>10
  <2>3. Reading' BY <1>1, <1>5, <1>9, <2>1, <2>2
  <2> QED BY <1>1, <2>3 DEF ParserInv
<1>11. CASE ~(pendingCr /\ c = "LF") /\ c \in {"LF", "CR"}
  <2>1. TakeLine(lineBytes) /\ lineBytes' = <<>> /\ parser' = parser
    BY <1>3, <1>11 DEF ReadByte
  <2>2. /\ LineUpTo(T, n + 1) = <<>> /\ LinesFit(T, n + 1)
        /\ LinesUpTo(T, n + 1) = Append(lines, line)
    BY <1>5, <1>7, <1>11
  <2>3. Taken(Append(lines, line), block', dispatched') BY <1>5, <1>6, <2>1, TakeLineTakes
  <2>4. Reading' BY <1>1, <1>9, <2>1, <2>2, <2>3
  <2> QED BY <1>1, <2>4 DEF ParserInv
<1>12. CASE c \notin {"LF", "CR"}
  <2>1. /\ lineBytes' = Append(line, c) /\ block' = block /\ dispatched' = dispatched
        /\ parser' = IF Len(Append(line, c)) > MaxLineBytes THEN "failed" ELSE "open"
    BY <1>3, <1>5, <1>12 DEF ReadByte
  <2>2. LineUpTo(T, n + 1) = Append(line, c) /\ LinesUpTo(T, n + 1) = lines BY <1>7, <1>12
  <2>3. CASE Len(Append(line, c)) > MaxLineBytes
    <3>1. LinesOf(T) = lines BY <1>7, <1>12, <2>2, <2>3
    <3>2. Failed' BY <1>1, <1>4, <1>5, <2>1, <2>3, <3>1 DEF Failed
    <3> QED BY <1>1, <3>2 DEF ParserInv
  <2>4. CASE ~(Len(Append(line, c)) > MaxLineBytes)
    <3>1. Len(LineUpTo(T, n + 1)) <= MaxLineBytes
      <4> DEFINE l == LineUpTo(T, n + 1)
      <4>1. l \in Seq(Symbols)
        <5>1. n + 1 \in 0 .. Len(T)
          <6>1. Len(T) \in Nat BY <1>4, LenProperties
          <6> QED BY <1>3, <6>1
        <5>2. RunUpTo(T, Terminators(T), n + 1) \in Seq(Symbols) BY <1>4, <5>1, RunIsSeq
        <5> QED BY <5>2 DEF LineUpTo
      <4>2. ~(Len(l) > MaxLineBytes) BY <2>2, <2>4
      <4> HIDE DEF l
      <4>3. Len(l) \in Nat BY <4>1, LenProperties
      <4>4. MaxLineBytes \in Nat BY SseParserAssumption DEF SseParserAssumption
      <4>5. Len(l) <= MaxLineBytes BY <4>2, <4>3, <4>4
      <4> QED BY <4>5 DEF l
    <3>2. LinesFit(T, n + 1) BY <1>7, <1>12, <3>1
    <3>3. Reading' BY <1>5, <1>9, <2>1, <2>2, <2>4, <3>2
    <3> QED BY <1>1, <3>3 DEF ParserInv
  <2> QED BY <2>3, <2>4
<1> QED BY <1>10, <1>11, <1>12

\* The lines of the text are lines.
LEMMA TextLines ==
  ASSUME stream \in Seq(Symbols)
  PROVE  LinesOf(Text) \in Seq(Lines)
<1>1. Text \in Seq(Symbols) BY TextIs
<1>2. 0 \in 0 .. Len(Text)
  <2>1. Len(Text) \in Nat BY <1>1, LenProperties
  <2> QED BY <2>1
<1>3. LinesFit(Text, 0) BY DEF LinesFit
<1> QED BY <1>1, <1>2, <1>3, LinesBegin

\* A last line without terminator.
LEMMA LastKeeps ==
  ASSUME ParserInv, LastLine
  PROVE  ParserInv'
<1> DEFINE n == Position
           T == Text
<1>1. /\ stream \in Seq(Symbols) /\ stream' = stream /\ readAt = Len(stream) /\ readAt' = readAt
      /\ bomChecked /\ parser = "open" /\ bomChecked' = bomChecked /\ parser' = parser
      /\ lineBytes # <<>> /\ lineBytes' = <<>> /\ TakeLine(lineBytes)
  BY DEF ParserInv, LastLine
<1>2. Reading BY <1>1 DEF ParserInv, BeforeBom, Exhausted, Failed, AtEnd
<1>3. n \in 0 .. Len(T) /\ n = Len(T) /\ T \in Seq(Symbols)
  BY <1>1, <1>2, ReadingIs, TextIs DEF Reading
<1>4. LinesFit(T, n) /\ lineBytes = LineUpTo(T, n) /\ Taken(LinesUpTo(T, n), block, dispatched)
  BY <1>2 DEF Reading
<1>5. Text' = T BY <1>1, TextStays
<1> HIDE DEF n, T
<1>6. LinesOf(T) = Append(LinesUpTo(T, n), LineUpTo(T, n)) BY <1>1, <1>3, <1>4, LinesEnd
<1>7. LinesUpTo(T, n) \in Seq(Lines) BY <1>3, LinesAre
<1>8. LineUpTo(T, n) \in Lines
  <2>1. RunUpTo(T, Terminators(T), n) \in Lines BY <1>3, RunIsSeq DEF Lines
  <2> QED BY <2>1 DEF LineUpTo
<1>9. Taken(LinesOf(T), block', dispatched') BY <1>1, <1>4, <1>6, <1>7, <1>8, TakeLineTakes
<1>10. Exhausted' BY <1>1, <1>5, <1>9 DEF Exhausted
<1> QED BY <1>1, <1>10 DEF ParserInv

\* The end.
LEMMA EndKeeps ==
  ASSUME ParserInv, EndOfLines
  PROVE  ParserInv'
<1> DEFINE n == Position
           T == Text
<1>1. /\ stream \in Seq(Symbols) /\ stream' = stream /\ bomChecked' = bomChecked
      /\ parser' = "ended" /\ DispatchBlock
      /\ \/ parser = "open" /\ bomChecked /\ readAt = Len(stream) /\ lineBytes = <<>>
         \/ parser = "failed"
  BY DEF ParserInv, EndOfLines
<1>2. bomChecked /\ Taken(LinesOf(T), block, dispatched)
  <2>1. CASE Reading
    <3>1. /\ bomChecked /\ LinesFit(T, n) /\ lineBytes = LineUpTo(T, n) /\ lineBytes = <<>>
          /\ Taken(LinesUpTo(T, n), block, dispatched)
      BY <1>1, <2>1 DEF Reading
    <3>2. n \in 0 .. Len(T) /\ n = Len(T) /\ T \in Seq(Symbols)
      BY <1>1, <2>1, ReadingIs, TextIs DEF Reading
    <3> HIDE DEF n, T
    <3>3. LinesOf(T) = LinesUpTo(T, n) BY <3>1, <3>2, LinesEnd
    <3> QED BY <3>1, <3>3
  <2>2. CASE Exhausted BY <2>2 DEF Exhausted
  <2>3. CASE Failed BY <2>3 DEF Failed
  <2> QED BY <1>1, <2>1, <2>2, <2>3 DEF ParserInv, BeforeBom, AtEnd
<1>3. LinesOf(T) \in Seq(Lines) BY <1>1, TextLines
<1>4. Events' = EventsOf(LinesOf(T)) BY <1>1, TextStays DEF Events
<1> HIDE DEF T
<1>5. dispatched' = EventsOf(LinesOf(T)) BY <1>1, <1>2, <1>3, DispatchAdds DEF EventsOf
<1>6. AtEnd' BY <1>1, <1>2, <1>4, <1>5 DEF AtEnd
<1> QED BY <1>1, <1>6 DEF ParserInv

\* Every step of the parser keeps what it has taken true to the text.
LEMMA ParserKeeps == ParserInv /\ [ParserNext]_sseVars => ParserInv'
<1> SUFFICES ASSUME ParserInv, [ParserNext]_sseVars PROVE ParserInv' OBVIOUS
<1>1. CASE ConsumeLeadingBom BY <1>1, BomKeeps
<1>2. CASE ReadByte BY <1>2, ByteKeeps
<1>3. CASE LastLine BY <1>3, LastKeeps
<1>4. CASE EndOfLines BY <1>4, EndKeeps
<1>5. CASE UNCHANGED sseVars
  <2>1. /\ stream' = stream /\ readAt' = readAt /\ bomChecked' = bomChecked
        /\ pendingCr' = pendingCr /\ lineBytes' = lineBytes /\ block' = block
        /\ dispatched' = dispatched /\ parser' = parser
    BY <1>5 DEF sseVars
  <2>2. Skipped' = Skipped /\ Text' = Text /\ Events' = Events BY <2>1, TextStays
  <2>3. Position' = Position BY <2>1, <2>2 DEF Position
  <2>4. stream' \in Seq(Symbols) BY <2>1 DEF ParserInv
  <2>5. CASE BeforeBom
    <3>1. BeforeBom' BY <2>1, <2>5 DEF BeforeBom
    <3> QED BY <2>4, <3>1 DEF ParserInv
  <2>6. CASE Reading
    <3>1. Reading' BY <2>1, <2>2, <2>3, <2>6 DEF Reading
    <3> QED BY <2>4, <3>1 DEF ParserInv
  <2>7. CASE Exhausted
    <3>1. Exhausted' BY <2>1, <2>2, <2>7 DEF Exhausted
    <3> QED BY <2>4, <3>1 DEF ParserInv
  <2>8. CASE Failed
    <3>1. Failed' BY <2>1, <2>2, <2>8 DEF Failed
    <3> QED BY <2>4, <3>1 DEF ParserInv
  <2>9. CASE AtEnd
    <3>1. AtEnd' BY <2>1, <2>2, <2>9 DEF AtEnd
    <3> QED BY <2>4, <3>1 DEF ParserInv
  <2> QED BY <2>5, <2>6, <2>7, <2>8, <2>9 DEF ParserInv
<1> QED BY <1>1, <1>2, <1>3, <1>4, <1>5 DEF ParserNext

\* What was taken so far is the beginning of what there is.
LEMMA ParserImplies == ParserInv => EventsAreTheStreams
<1> SUFFICES ASSUME ParserInv PROVE EventsAreTheStreams OBVIOUS
<1> DEFINE T == Text
           all == LinesOf(T)
<1>1. T \in Seq(Symbols) /\ all \in Seq(Lines) BY TextIs, TextLines DEF ParserInv
<1>2. Events = EventsOf(all) BY DEF Events
<1> HIDE DEF all
<1>3. \A lines \in Seq(Lines) : IsPrefix(lines, all) => IsPrefix(EventsUpTo(lines, Len(lines)), Events)
  BY <1>1, <1>2, EventsBegin
<1>4. IsPrefix(all, all)
  <2>1. Len(all) <= Len(all) BY <1>1, LenProperties
  <2>2. \A i \in 1 .. Len(all) : all[i] = all[i] OBVIOUS
  <2> QED BY <1>1, <2>1, <2>2, PrefixIs
<1>5. \A n \in 0 .. Len(T) : LinesFit(T, n) => IsPrefix(LinesUpTo(T, n), all) /\ LinesUpTo(T, n) \in Seq(Lines)
  <2> HIDE DEF T
  <2> QED BY <1>1, LinesBegin, LinesAre DEF all
<1>6. CASE BeforeBom
  <2>1. 0 \in 0 .. Len(T)
    <3>1. Len(T) \in Nat BY <1>1, LenProperties
    <3> QED BY <3>1
  <2>2. LinesFit(T, 0) /\ LinesUpTo(T, 0) = <<>> BY <1>1, LinesAre DEF LinesFit
  <2>3. IsPrefix(<<>>, all) /\ <<>> \in Seq(Lines) BY <1>5, <2>1, <2>2
  <2>4. EventsUpTo(<<>>, Len(<<>>)) = <<>> BY NothingTaken DEF Taken
  <2>5. IsPrefix(<<>>, Events) BY <1>3, <2>3, <2>4
  <2> QED BY <1>6, <2>5 DEF BeforeBom, EventsAreTheStreams
<1>7. CASE Reading
  <2> DEFINE n == Position
  <2>1. n \in 0 .. Len(T) /\ LinesFit(T, n) /\ dispatched = EventsUpTo(LinesUpTo(T, n), Len(LinesUpTo(T, n)))
    BY <1>7, ReadingIs DEF Reading, Taken, ParserInv
  <2> HIDE DEF n, T
  <2>2. IsPrefix(dispatched, Events) BY <1>3, <1>5, <2>1
  <2> QED BY <1>7, <2>2 DEF Reading, EventsAreTheStreams
<1>8. CASE Exhausted \/ Failed
  <2>1. dispatched = EventsUpTo(all, Len(all)) /\ parser # "ended"
    BY <1>8 DEF Exhausted, Failed, Taken, all
  <2>2. IsPrefix(dispatched, Events) BY <1>1, <1>3, <1>4, <2>1
  <2> QED BY <2>1, <2>2 DEF EventsAreTheStreams
<1>9. CASE AtEnd BY <1>9 DEF AtEnd, EventsAreTheStreams
<1> QED BY <1>6, <1>7, <1>8, <1>9 DEF ParserInv

\* However a stream ends its lines and wherever it is cut by the limit, for any
\* pieces and limits: the events answered are those of its lines, in order and
\* each once, and the first ones while the parser goes on (SseParser, LineReader).
THEOREM ParserAnswersStream == ParserSpec => []EventsAreTheStreams
  BY ParserStartsWell, ParserKeeps, ParserImplies, PTL DEF ParserSpec

-----------------------------------------------------------------------------
(* The text codec.  A character is one to three bytes of UTF-8, and the    *)
(* decoder, which goes byte by byte, makes the same character of them.     *)

Characters == 0 .. 55295 \cup 57344 .. 65535
Bytes == 0 .. 255
ByteStep(text, byte) ==
  CASE byte < 128 -> Append(text, byte)
    [] byte >= 224 -> Append(text, byte - 224)
    [] byte \in 192 .. 223 -> Append(text, byte - 192)
    [] OTHER -> [text EXCEPT ![Len(text)] = @ * 64 + byte - 128]

\* Another number in the last place of a text.
LastReplaced(text, v) == [text EXCEPT ![Len(text)] = v]
LEMMA LastExcept ==
  ASSUME NEW text \in Seq(Nat), NEW v \in Nat
  PROVE  /\ LastReplaced(text, v) \in Seq(Nat)
         /\ \A before \in Seq(Nat), u \in Nat :
              text = Append(before, u) => LastReplaced(text, v) = Append(before, v)
<1> DEFINE n == Len(text)
           new == LastReplaced(text, v)
<1>1. n \in Nat /\ DOMAIN text = 1 .. n /\ \A i \in 1 .. n : text[i] \in Nat OBVIOUS
<1>2. DOMAIN new = 1 .. n /\ new = [i \in 1 .. n |-> IF i = n THEN v ELSE text[i]] BY <1>1 DEF LastReplaced
<1> HIDE DEF n, new
<1>3. new \in [1 .. n -> Nat] BY <1>1, <1>2
<1>4. new \in Seq(Nat) /\ Len(new) = n BY <1>1, <1>3
<1>5. ASSUME NEW before \in Seq(Nat), NEW u \in Nat, text = Append(before, u)
      PROVE  new = Append(before, v)
  <2> DEFINE m == Len(before)
             other == Append(before, v)
  <2>1. /\ m \in Nat /\ other \in Seq(Nat) /\ Len(other) = m + 1 /\ other[m + 1] = v
        /\ \A i \in 1 .. m : other[i] = before[i]
    OBVIOUS
  <2>2. n = m + 1 /\ \A i \in 1 .. m : text[i] = before[i] BY <1>5 DEF n
  <2> HIDE DEF m, other
  <2>3. \A i \in 1 .. n : new[i] = other[i]
    <3> TAKE i \in 1 .. n
    <3>1. i = m + 1 \/ (i # m + 1 /\ i \in 1 .. m) BY <2>1, <2>2
    <3> QED BY <1>2, <2>1, <2>2, <3>1
  <2> QED BY <1>4, <2>1, <2>2, <2>3, SeqEqual DEF other
<1> QED BY <1>4, <1>5 DEF new

LEMMA LastOf ==
  ASSUME NEW before \in Seq(Nat), NEW u \in Nat, NEW v \in Nat
  PROVE  LastReplaced(Append(before, u), v) = Append(before, v)
<1>1. Append(before, u) \in Seq(Nat) OBVIOUS
<1> QED BY <1>1, LastExcept

LEMMA ByteIs ==
  ASSUME NEW e \in Int, 0 <= e, e <= 255
  PROVE  e \in Bytes
  BY DEF Bytes
LEMMA ByteIn ==
  ASSUME NEW e \in Bytes
  PROVE  e \in Int /\ e \in Nat /\ e <= 255
  BY DEF Bytes

LEMMA ByteGoesOn ==
  ASSUME NEW a, NEW e \in Int, ~ e < 128, ~ e >= 224, e \notin 192 .. 223
  PROVE  ByteStep(a, e) = [a EXCEPT ![Len(a)] = a[Len(a)] * 64 + e - 128]
  BY Zenon DEF ByteStep

\* The four kinds of byte.
LEMMA ByteCases ==
  ASSUME NEW a, NEW e \in Int
  PROVE  /\ e < 128 => ByteStep(a, e) = Append(a, e)
         /\ e >= 224 => ByteStep(a, e) = Append(a, e - 224)
         /\ e >= 192 /\ e < 224 => ByteStep(a, e) = Append(a, e - 192)
         /\ e >= 128 /\ e < 192 => ByteStep(a, e) = [a EXCEPT ![Len(a)] = a[Len(a)] * 64 + e - 128]
<1>1. CASE e < 128
  <2>1. ~ e >= 224 /\ e \notin 192 .. 223 /\ ~ e >= 192 /\ ~ e >= 128 BY <1>1
  <2> QED BY <1>1, <2>1, Zenon DEF ByteStep
<1>2. CASE e >= 224
  <2>1. ~ e < 128 /\ e \notin 192 .. 223 /\ ~ e < 224 /\ ~ e < 192 BY <1>2
  <2> QED BY <1>2, <2>1, Zenon DEF ByteStep
<1>3. CASE e >= 192 /\ e < 224
  <2>1. ~ e < 128 /\ ~ e >= 224 /\ e \in 192 .. 223 /\ ~ e < 192 BY <1>3
  <2>2. ByteStep(a, e) = Append(a, e - 192) BY <2>1, Zenon DEF ByteStep
  <2> QED BY <2>1, <2>2, Zenon
<1>4. CASE e >= 128 /\ e < 192
  <2>1. ~ e < 128 /\ ~ e >= 224 /\ e \notin 192 .. 223 /\ ~ e >= 192 BY <1>4
  <2>2. ByteStep(a, e) = [a EXCEPT ![Len(a)] = a[Len(a)] * 64 + e - 128] BY <2>1, ByteGoesOn
  <2> QED BY <2>1, <2>2, Zenon
<1> QED BY <1>1, <1>2, <1>3, <1>4

LEMMA ByteFoldKeeps ==
  \A a \in Seq(Nat), e \in Bytes : ByteStep(a, e) \in Seq(Nat)
<1> SUFFICES ASSUME NEW a \in Seq(Nat), NEW e \in Bytes PROVE ByteStep(a, e) \in Seq(Nat)
  OBVIOUS
<1>1. e \in Nat /\ e \in Int BY ByteIn
<1>2. CASE e < 128 BY <1>1, <1>2, ByteCases
<1>3. CASE e >= 224
  <2>1. e - 224 \in Nat BY <1>1, <1>3
  <2>2. ByteStep(a, e) = Append(a, e - 224) BY <1>1, <1>3, ByteCases
  <2> QED BY <2>1, <2>2
<1>4. CASE e >= 192 /\ e < 224
  <2>1. e - 192 \in Nat BY <1>1, <1>4
  <2>2. ByteStep(a, e) = Append(a, e - 192) BY <1>1, <1>4, ByteCases
  <2> QED BY <2>1, <2>2
<1>5. CASE e >= 128 /\ e < 192
  <2> DEFINE last == a[Len(a)]
             v == last * 64 + e - 128
             new == [a EXCEPT ![Len(a)] = v]
  <2>1. ByteStep(a, e) = new BY <1>1, <1>5, ByteCases
  <2>2. CASE a = <<>>
    <3>1. DOMAIN a = {} /\ a \in [{} -> Nat] BY <2>2
    <3> HIDE DEF v
    <3>2. new = a BY <3>1
    <3> QED BY <2>1, <3>2
  <2>3. CASE a # <<>>
    <3>1. last \in Nat BY <2>3
    <3> HIDE DEF last
    <3>2. v \in Nat BY <1>1, <1>5, <3>1
    <3> HIDE DEF v
    <3>3. LastReplaced(a, v) \in Seq(Nat) BY <3>2, LastExcept
    <3> QED BY <2>1, <3>3 DEF LastReplaced
  <2> QED BY <2>2, <2>3
<1> QED BY <1>1, <1>2, <1>3, <1>4, <1>5

ByteFoldOf == [p \in Seq(Nat) \X Bytes |-> ByteStep(p[1], p[2])]
ByteFoldFold(iter, es, n) ==
  iter = [S \in SUBSET (1 .. n) |->
            IF S = {} THEN <<>> ELSE ByteStep(iter[S \ {Max(S)}], es[Max(S)])]
IsByteFold(A, E, step) ==
  /\ <<>> \in A /\ step \in [A \X E -> A]
  /\ \A a \in A, e \in E : step[<<a, e>>] = ByteStep(a, e)

LEMMA ByteFoldIs ==
  IsByteFold(Seq(Nat), Bytes, ByteFoldOf)
<1> DEFINE A == Seq(Nat)
           E == Bytes
<1>1. <<>> \in A OBVIOUS
<1>2. \A a \in A, e \in E : ByteStep(a, e) \in A BY ByteFoldKeeps
<1>3. \A p \in A \X E : p[1] \in A /\ p[2] \in E OBVIOUS
<1> HIDE DEF A, E
<1>4. ByteFoldOf = [p \in A \X E |-> ByteStep(p[1], p[2])] BY DEF ByteFoldOf, A, E
<1>5. ByteFoldOf \in [A \X E -> A]
  <2>1. \A p \in A \X E : ByteStep(p[1], p[2]) \in A BY <1>2, <1>3
  <2> QED BY <1>4, <2>1
<1>6. \A a \in A, e \in E : ByteFoldOf[<<a, e>>] = ByteStep(a, e) BY <1>4
<1> QED BY <1>1, <1>5, <1>6 DEF IsByteFold, A, E

\* A decoded text is what a run along its bytes comes to.
LEMMA ByteFoldRuns ==
  ASSUME NEW es \in Seq(Bytes)
  PROVE  \E r : RunsAlong(r, Seq(Nat), ByteFoldOf, <<>>, es) /\ Utf8Text(es) = r[Len(es)]
<1> DEFINE A == Seq(Nat)
           E == Bytes
           step == ByteFoldOf
           n == Len(es)
           base == <<>>
<1>0. IsByteFold(A, E, step) BY ByteFoldIs
<1>2. n \in Nat /\ DOMAIN es = 1 .. n /\ es \in Seq(E) /\ \A k \in 1 .. n : es[k] \in E OBVIOUS
<1> HIDE DEF A, E, step, n
<1>1. /\ base \in A /\ step \in [A \X E -> A]
      /\ \A a \in A, e \in E : step[<<a, e>>] = ByteStep(a, e)
  BY <1>0 DEF IsByteFold
<1>3. \E iter : ByteFoldFold(iter, es, n)
  <2> HIDE DEF base
  <2>1. PICK iter \in [SUBSET (1 .. Len(es)) -> A] : FoldOver(iter, step, base, es) BY <1>1, <1>2, FoldsExist
  <2> DEFINE h == [S \in SUBSET (1 .. n) |->
                     IF S = {} THEN base ELSE ByteStep(iter[S \ {Max(S)}], es[Max(S)])]
  <2>2. ASSUME NEW S \in SUBSET (1 .. n) PROVE iter[S] = h[S]
    <3>1. CASE S = {} BY <2>1, <3>1 DEF FoldOver
    <3>2. CASE S # {}
      <4>1. Max(S) \in 1 .. n /\ S \ {Max(S)} \in SUBSET (1 .. n) BY <1>2, <3>2, MaxOf
      <4>2. iter[S \ {Max(S)}] \in A /\ es[Max(S)] \in E BY <1>2, <2>1, <4>1 DEF n
      <4>3. iter[S] = step[<<iter[S \ {Max(S)}], es[Max(S)]>>] BY <2>1, <3>2 DEF FoldOver, n
      <4>4. iter[S] = ByteStep(iter[S \ {Max(S)}], es[Max(S)]) BY <1>1, <4>2, <4>3
      <4> QED BY <3>2, <4>4
    <3> QED BY <3>1, <3>2
  <2>3. iter = h
    <3>1. DOMAIN h = SUBSET (1 .. n) /\ h = [S \in SUBSET (1 .. n) |-> h[S]] OBVIOUS
    <3>2. iter = [S \in SUBSET (1 .. n) |-> iter[S]] BY <2>1 DEF n
    <3> HIDE DEF h
    <3> QED BY <2>2, <3>1, <3>2
  <2> HIDE DEF h
  <2>4. ByteFoldFold(iter, es, n) BY <2>3 DEF ByteFoldFold, h, base
  <2> QED BY <2>4
<1>4. Utf8Text(es) = (CHOOSE iter : ByteFoldFold(iter, es, n))[1 .. n]
  BY <1>2 DEF Utf8Text, ByteFoldFold, ByteStep, FoldLeft, MapThenFoldSet
<1>5. PICK g : ByteFoldFold(g, es, n) /\ Utf8Text(es) = g[1 .. n] BY <1>3, <1>4
<1> HIDE DEF base
<1> DEFINE h == [S \in SUBSET (1 .. n) |->
                   IF S = {} THEN base ELSE ByteStep(g[S \ {Max(S)}], es[Max(S)])]
<1>6. g = h BY <1>5 DEF ByteFoldFold, base
<1>7. h[{}] = base OBVIOUS
<1>8. ASSUME NEW k \in 1 .. n PROVE h[1 .. k] = ByteStep(g[1 .. k - 1], es[k])
  <2>1. /\ 1 .. k \in SUBSET (1 .. n) /\ 1 .. k # {} /\ Max(1 .. k) = k
        /\ (1 .. k) \ {k} = 1 .. (k - 1)
    BY <1>2, FoldOverAt
  <2>2. h[1 .. k] = ByteStep(g[(1 .. k) \ {Max(1 .. k)}], es[Max(1 .. k)]) BY <2>1
  <2> HIDE DEF h
  <2> QED BY <2>1, <2>2
<1> HIDE DEF h
<1>9. ASSUME NEW k \in 1 .. n, g[1 .. k - 1] \in A PROVE g[1 .. k] = step[<<g[1 .. k - 1], es[k]>>]
  BY <1>1, <1>2, <1>6, <1>8, <1>9
<1>10. g[{}] = base BY <1>6, <1>7
<1>11. GoesAlong(g, A, step, es) BY <1>9 DEF GoesAlong, n
<1>12. RunEnds(A, step, base, es, g[1 .. Len(es)]) BY <1>1, <1>2, <1>10, <1>11, FoldRuns
<1> QED BY <1>5, <1>12 DEF RunEnds, A, step, n, base

\* A byte more.
LEMMA ByteFoldGrows ==
         /\ Utf8Text(<<>>) = <<>>
         /\ \A es \in Seq(Bytes) : Utf8Text(es) \in Seq(Nat)
         /\ \A es \in Seq(Bytes), e \in Bytes : Utf8Text(Append(es, e)) = ByteStep(Utf8Text(es), e)
<1> DEFINE A == Seq(Nat)
           E == Bytes
           step == ByteFoldOf
           base == <<>>
<1>0. IsByteFold(A, E, step) BY ByteFoldIs
<1>2. \A es \in Seq(E) : \E r : RunsAlong(r, A, step, base, es) /\ Utf8Text(es) = r[Len(es)] BY ByteFoldRuns
<1>1. /\ base \in A /\ step \in [A \X E -> A]
      /\ \A a \in A, e \in E : step[<<a, e>>] = ByteStep(a, e)
  BY <1>0 DEF IsByteFold
<1> HIDE DEF A, E, step, base
<1>3. Utf8Text(<<>>) = base
  <2>1. <<>> \in Seq(E) /\ Len(<<>>) = 0 OBVIOUS
  <2>2. PICK r : RunsAlong(r, A, step, base, <<>>) /\ Utf8Text(<<>>) = r[Len(<<>>)] BY <1>2, <2>1
  <2> QED BY <2>1, <2>2 DEF RunsAlong
<1>4. ASSUME NEW es \in Seq(E) PROVE Utf8Text(es) \in A
  <2>1. PICK r : RunsAlong(r, A, step, base, es) /\ Utf8Text(es) = r[Len(es)] BY <1>2
  <2>2. Len(es) \in 0 .. Len(es) OBVIOUS
  <2> QED BY <2>1, <2>2 DEF RunsAlong
<1>5. ASSUME NEW es \in Seq(E), NEW e \in E PROVE Utf8Text(Append(es, e)) = ByteStep(Utf8Text(es), e)
  <2>1. PICK r : RunsAlong(r, A, step, base, es) /\ Utf8Text(es) = r[Len(es)] BY <1>2
  <2>2. Append(es, e) \in Seq(E) /\ Len(Append(es, e)) = Len(es) + 1 OBVIOUS
  <2>3. PICK q : RunsAlong(q, A, step, base, Append(es, e)) /\ Utf8Text(Append(es, e)) = q[Len(Append(es, e))]
    BY <1>2, <2>2
  <2>4. q[Len(es) + 1] = step[<<r[Len(es)], e>>] /\ r[Len(es)] \in A BY <1>1, <2>1, <2>3, RunsGoOn
  <2> QED BY <1>1, <2>1, <2>2, <2>3, <2>4
<1> QED BY <1>3, <1>4, <1>5 DEF A, E, base

\* The parts of a character.
LEMMA TwoParts ==
  ASSUME NEW c \in Nat, c >= 128, c < 2048
  PROVE  /\ c \div 64 \in Nat /\ 2 <= c \div 64 /\ c \div 64 < 32
         /\ c % 64 \in Nat /\ c % 64 < 64
         /\ (c \div 64) * 64 + (c % 64) = c
  BY Z3
LEMMA ThreeParts ==
  ASSUME NEW c \in Nat, c < 65536
  PROVE  /\ c \div 4096 \in Nat /\ c \div 4096 < 16
         /\ c \div 64 \in Nat /\ (c \div 64) % 64 \in Nat /\ (c \div 64) % 64 < 64
         /\ (c \div 4096) * 64 + ((c \div 64) % 64) = c \div 64
         /\ c % 64 \in Nat /\ c % 64 < 64
         /\ (c \div 64) * 64 + (c % 64) = c
<1>1. c \div 4096 \in Nat /\ c \div 4096 < 16 BY Z3
<1>2. c \div 64 \in Nat /\ (c \div 64) % 64 \in Nat /\ (c \div 64) % 64 < 64 BY Z3
<1>3. (c \div 4096) * 64 + ((c \div 64) % 64) = c \div 64
  <2> DEFINE t == c \div 4096
             q == c % 4096
             u == c \div 64
             r == c % 64
  <2>1. t \in Nat /\ q \in Nat /\ q < 4096 /\ c = 4096 * t + q BY Z3
  <2>2. u \in Nat /\ r \in Nat /\ r < 64 /\ c = 64 * u + r BY Z3
  <2> HIDE DEF t, q, u, r
  <2> DEFINE w == u \div 64
             v == u % 64
  <2>3. w \in Nat /\ v \in Nat /\ v < 64 /\ u = 64 * w + v BY <2>2, Z3
  <2> HIDE DEF w, v
  <2>4. w = t BY <2>1, <2>2, <2>3, Z3
  <2>5. t * 64 + v = u BY <2>1, <2>3, <2>4, Z3
  <2> QED BY <2>5 DEF t, u, v
<1>4. c % 64 \in Nat /\ c % 64 < 64 /\ (c \div 64) * 64 + (c % 64) = c BY Z3
<1> QED BY <1>1, <1>2, <1>3, <1>4

LEMMA CharacterIn ==
  ASSUME NEW c \in Characters
  PROVE  c \in Nat /\ c < 65536
  BY DEF Characters
LEMMA BytesCases ==
  ASSUME NEW c \in Nat
  PROVE  /\ c < 128 => Utf8Bytes(c) = <<c>>
         /\ c >= 128 /\ c < 2048 => Utf8Bytes(c) = <<192 + c \div 64, 128 + (c % 64)>>
         /\ c >= 2048 =>
              Utf8Bytes(c) = <<224 + c \div 4096, 128 + ((c \div 64) % 64), 128 + (c % 64)>>
<1> DEFINE one == <<c>>
           two == <<192 + c \div 64, 128 + (c % 64)>>
           three == <<224 + c \div 4096, 128 + ((c \div 64) % 64), 128 + (c % 64)>>
<1>1. Utf8Bytes(c) = CASE c < 128 -> one [] c \in 128 .. 2047 -> two [] OTHER -> three BY Zenon DEF Utf8Bytes
<1> HIDE DEF one, two, three
<1>2. CASE c < 128
  <2>1. c \notin 128 .. 2047 /\ ~ c >= 128 /\ ~ c >= 2048 BY <1>2
  <2>2. Utf8Bytes(c) = one BY <1>1, <1>2, <2>1
  <2> QED BY <2>1, <2>2 DEF one
<1>3. CASE c >= 128 /\ c < 2048
  <2>1. ~ c < 128 /\ c \in 128 .. 2047 /\ ~ c >= 2048 BY <1>3
  <2>2. Utf8Bytes(c) = two BY <1>1, <2>1
  <2> QED BY <2>1, <2>2 DEF two
<1>4. CASE c >= 2048
  <2>1. ~ c < 128 /\ c \notin 128 .. 2047 /\ ~ c < 2048 BY <1>4
  <2>2. Utf8Bytes(c) = three BY <1>1, <2>1
  <2> QED BY <2>1, <2>2 DEF three
<1> QED BY <1>2, <1>3, <1>4

\* The bytes of a character.
LEMMA CharacterBytes ==
  ASSUME NEW c \in Characters
  PROVE  Utf8Bytes(c) \in Seq(Bytes)
<1>1. c \in Nat /\ c < 65536 BY CharacterIn
<1>2. CASE c < 128
  <2>1. c \in Bytes BY <1>1, <1>2, ByteIs
  <2>2. Utf8Bytes(c) = <<c>> BY <1>1, <1>2, BytesCases
  <2> HIDE DEF Bytes
  <2> QED BY <2>1, <2>2
<1>3. CASE c >= 128 /\ c < 2048
  <2> DEFINE x == 192 + c \div 64
             y == 128 + (c % 64)
  <2>1. c >= 128 /\ c < 2048 BY <1>1, <1>3
  <2>2. Utf8Bytes(c) = <<x, y>> BY <1>1, <1>3, BytesCases
  <2>3. x \in Int /\ 0 <= x /\ x <= 255 /\ y \in Int /\ 0 <= y /\ y <= 255 BY <1>1, <2>1, TwoParts
  <2> HIDE DEF x, y
  <2>4. x \in Bytes /\ y \in Bytes BY <2>3, ByteIs
  <2> HIDE DEF Bytes
  <2> QED BY <2>2, <2>4
<1>4. CASE c >= 2048
  <2> DEFINE x == 224 + c \div 4096
             y == 128 + ((c \div 64) % 64)
             z == 128 + (c % 64)
  <2>2. Utf8Bytes(c) = <<x, y, z>> BY <1>1, <1>4, BytesCases
  <2>3. x \in Int /\ 0 <= x /\ x <= 255 /\ y \in Int /\ 0 <= y /\ y <= 255 /\ z \in Int /\ 0 <= z /\ z <= 255
    BY <1>1, ThreeParts
  <2> HIDE DEF x, y, z
  <2>4. x \in Bytes /\ y \in Bytes /\ z \in Bytes BY <2>3, ByteIs
  <2> HIDE DEF Bytes
  <2> QED BY <2>2, <2>4
<1> QED BY <1>1, <1>2, <1>3, <1>4

\* A byte behind others, and the byte that follows it in the same character.
LEMMA FirstByte ==
  ASSUME NEW bs \in Seq(Bytes), NEW x \in Bytes
  PROVE  /\ bs \o <<x>> = Append(bs, x) /\ Append(bs, x) \in Seq(Bytes)
         /\ x < 128 => Utf8Text(Append(bs, x)) = Append(Utf8Text(bs), x)
         /\ x >= 192 /\ x < 224 => Utf8Text(Append(bs, x)) = Append(Utf8Text(bs), x - 192)
         /\ x >= 224 => Utf8Text(Append(bs, x)) = Append(Utf8Text(bs), x - 224)
<1>1. bs \o <<x>> = Append(bs, x) /\ Append(bs, x) \in Seq(Bytes)
  <2> HIDE DEF Bytes
  <2>1. bs \o Append(<<>>, x) = Append(bs \o <<>>, x) BY ConcatOneMore
  <2>2. Append(<<>>, x) = <<x>> OBVIOUS
  <2> QED BY <2>1, <2>2, ConcatEmptySeq
<1>2. Utf8Text(Append(bs, x)) = ByteStep(Utf8Text(bs), x) BY ByteFoldGrows
<1>3. x \in Int BY ByteIn
<1> QED BY <1>1, <1>2, <1>3, ByteCases

ReadSoFar(bs, before, u) ==
  bs \in Seq(Bytes) /\ before \in Seq(Nat) /\ u \in Nat /\ Utf8Text(bs) = Append(before, u)
LEMMA NextByte ==
  ASSUME NEW bs, NEW before, NEW u, ReadSoFar(bs, before, u),
         NEW x \in Bytes, x >= 128, x < 192, NEW v, v = u * 64 + x - 128
  PROVE  ReadSoFar(Append(bs, x), before, v)
<1> DEFINE text == Utf8Text(bs)
<1>0. bs \in Seq(Bytes) /\ before \in Seq(Nat) /\ u \in Nat /\ text = Append(before, u) BY DEF ReadSoFar
<1>1. x \in Int BY ByteIn
<1>2. ~ x < 128 /\ ~ x >= 224 /\ x \notin 192 .. 223 BY <1>1
<1>3. Utf8Text(Append(bs, x)) = ByteStep(text, x) BY <1>0, ByteFoldGrows
<1>4. text[Len(text)] = u
  <2>1. Append(before, u)[Len(Append(before, u))] = u BY <1>0
  <2> QED BY <1>0, <2>1
<1>5. v \in Nat BY <1>0, <1>1
<1> HIDE DEF text
<1>6. ByteStep(text, x) = [text EXCEPT ![Len(text)] = text[Len(text)] * 64 + x - 128]
  BY <1>1, <1>2, ByteGoesOn
<1>7. ByteStep(text, x) = LastReplaced(text, v) BY <1>4, <1>6 DEF LastReplaced
<1>8. LastReplaced(text, v) = Append(before, v) BY <1>0, <1>5, LastOf
<1>9. Append(bs, x) \in Seq(Bytes)
  <2> HIDE DEF Bytes
  <2> QED BY <1>0
<1> QED BY <1>0, <1>3, <1>5, <1>7, <1>8, <1>9 DEF ReadSoFar

\* What is decoded of a text and one more character.
LEMMA CharacterRead ==
  ASSUME NEW bs \in Seq(Bytes), NEW c \in Characters
  PROVE  Utf8Text(bs \o Utf8Bytes(c)) = Append(Utf8Text(bs), c)
<1>1. c \in Nat /\ c < 65536 BY CharacterIn
<1>2. Utf8Text(bs) \in Seq(Nat) BY ByteFoldGrows
<1>3. CASE c < 128
  <2>1. c \in Bytes BY <1>1, <1>3, ByteIs
  <2>2. Utf8Bytes(c) = <<c>> BY <1>1, <1>3, BytesCases
  <2>3. bs \o <<c>> = Append(bs, c) BY <2>1, FirstByte
  <2>4. Utf8Text(Append(bs, c)) = Append(Utf8Text(bs), c) BY <1>3, <2>1, FirstByte
  <2> QED BY <2>2, <2>3, <2>4
<1>4. CASE c >= 128 /\ c < 2048
  <2> DEFINE u == c \div 64
             x == 192 + u
             y == 128 + (c % 64)
             one == Append(bs, x)
  <2>2. c >= 128 /\ c < 2048 BY <1>1, <1>4
  <2>1. u \in Nat /\ u < 32 /\ c % 64 \in Nat /\ c % 64 < 64 /\ u * 64 + (c % 64) = c BY <1>1, <2>2, TwoParts
  <2>3. Utf8Bytes(c) = <<x, y>> BY <1>1, <1>4, BytesCases
  <2> HIDE DEF u
  <2>9. /\ x \in Int /\ 0 <= x /\ x <= 255 /\ y \in Int /\ 0 <= y /\ y <= 255 BY <2>1
  <2>10. x >= 192 /\ x < 224 /\ x - 192 = u /\ y >= 128 /\ y < 192 /\ u * 64 + y - 128 = c BY <1>1, <2>1
  <2> HIDE DEF x, y
  <2>4. x \in Bytes /\ y \in Bytes BY <2>9, ByteIs
  <2>5. one \in Seq(Bytes) /\ Utf8Text(one) = Append(Utf8Text(bs), u) /\ bs \o <<x>> = one
    BY <2>4, <2>10, FirstByte
  <2> HIDE DEF one
  <2>6. Utf8Text(Append(one, y)) = Append(Utf8Text(bs), c)
    <3>1. y >= 128 /\ y < 192 /\ u * 64 + y - 128 = c BY <2>10
    <3>2. ReadSoFar(one, Utf8Text(bs), u) BY <1>2, <2>1, <2>5 DEF ReadSoFar
    <3>3. ReadSoFar(Append(one, y), Utf8Text(bs), c) BY <2>4, <3>1, <3>2, NextByte
    <3> QED BY <3>3 DEF ReadSoFar
  <2>7. bs \o <<x, y>> = Append(one, y)
    <3> HIDE DEF Bytes
    <3>1. <<x, y>> = Append(<<x>>, y) /\ <<x>> \in Seq(Bytes) BY <2>4
    <3>2. bs \o Append(<<x>>, y) = Append(bs \o <<x>>, y) BY <2>4, <3>1, ConcatOneMore
    <3> QED BY <2>5, <3>1, <3>2
  <2> QED BY <2>3, <2>6, <2>7
<1>5. CASE c >= 2048
  <2> DEFINE t == c \div 4096
             u == c \div 64
             x == 224 + t
             y == 128 + (u % 64)
             z == 128 + (c % 64)
             one == Append(bs, x)
             two == Append(one, y)
  <2>1. t \in Nat /\ t < 16 /\ u \in Nat /\ u % 64 \in Nat /\ u % 64 < 64 /\ t * 64 + (u % 64) = u
    BY <1>1, ThreeParts
  <2>2. c % 64 \in Nat /\ c % 64 < 64 /\ u * 64 + (c % 64) = c BY <1>1, ThreeParts
  <2>3. Utf8Bytes(c) = <<x, y, z>> BY <1>1, <1>5, BytesCases
  <2> HIDE DEF t, u
  <2>9. x \in Int /\ 0 <= x /\ x <= 255 /\ y \in Int /\ 0 <= y /\ y <= 255 /\ z \in Int /\ 0 <= z /\ z <= 255
    BY <2>1, <2>2
  <2>10. /\ x >= 224 /\ x - 224 = t /\ y >= 128 /\ y < 192 /\ t * 64 + y - 128 = u
         /\ z >= 128 /\ z < 192 /\ u * 64 + z - 128 = c
    BY <1>1, <2>1, <2>2
  <2> HIDE DEF x, y, z
  <2>4. x \in Bytes /\ y \in Bytes /\ z \in Bytes BY <2>9, ByteIs
  <2>5. one \in Seq(Bytes) /\ Utf8Text(one) = Append(Utf8Text(bs), t) /\ bs \o <<x>> = one
    BY <2>4, <2>10, FirstByte
  <2> HIDE DEF one
  <2>6. ReadSoFar(two, Utf8Text(bs), u)
    <3>1. y >= 128 /\ y < 192 /\ t * 64 + y - 128 = u BY <2>10
    <3>2. ReadSoFar(one, Utf8Text(bs), t) BY <1>2, <2>1, <2>5 DEF ReadSoFar
    <3> QED BY <2>4, <3>1, <3>2, NextByte
  <2> HIDE DEF two
  <2>7. Utf8Text(Append(two, z)) = Append(Utf8Text(bs), c)
    <3>1. z >= 128 /\ z < 192 /\ u * 64 + z - 128 = c BY <2>10
    <3>2. ReadSoFar(Append(two, z), Utf8Text(bs), c) BY <2>4, <2>6, <3>1, NextByte
    <3> QED BY <3>2 DEF ReadSoFar
  <2>8. bs \o <<x, y, z>> = Append(two, z)
    <3> HIDE DEF Bytes
    <3>1. /\ <<x, y>> = Append(<<x>>, y) /\ <<x>> \in Seq(Bytes)
          /\ <<x, y, z>> = Append(<<x, y>>, z) /\ <<x, y>> \in Seq(Bytes)
      BY <2>4
    <3>2. bs \o Append(<<x>>, y) = Append(bs \o <<x>>, y) BY <2>4, <3>1, ConcatOneMore
    <3>3. bs \o Append(<<x, y>>, z) = Append(bs \o <<x, y>>, z) BY <2>4, <3>1, ConcatOneMore
    <3> QED BY <2>5, <3>1, <3>2, <3>3 DEF two
  <2> QED BY <2>3, <2>7, <2>8
<1> QED BY <1>1, <1>3, <1>4, <1>5

\* The bytes of a text.
EncodedText(cs) == FlattenSeq([i \in DOMAIN cs |-> Utf8Bytes(cs[i])])
LEMMA TextRead ==
  \A cs \in Seq(Characters) : EncodedText(cs) \in Seq(Bytes) /\ Utf8Text(EncodedText(cs)) = cs
<1> DEFINE E == Characters
           S == {cs \in Seq(E) : EncodedText(cs) \in Seq(Bytes) /\ Utf8Text(EncodedText(cs)) = cs}
<1>1. <<>> \in S
  <2>1. [i \in DOMAIN <<>> |-> Utf8Bytes(<<>>[i])] = <<>> OBVIOUS
  <2>2. EncodedText(<<>>) = <<>> BY <2>1, FlattenEmpty DEF EncodedText
  <2>3. <<>> \in Seq(E) /\ <<>> \in Seq(Bytes) OBVIOUS
  <2> QED BY <2>2, <2>3, ByteFoldGrows
<1>2. ASSUME NEW cs \in Seq(E), NEW c \in E, cs \in S PROVE Append(cs, c) \in S
  <2> DEFINE n == Len(cs)
             all == Append(cs, c)
             ss == [i \in DOMAIN cs |-> Utf8Bytes(cs[i])]
             tt == [i \in DOMAIN all |-> Utf8Bytes(all[i])]
             t == Utf8Bytes(c)
             T == Seq(Bytes)
             right == Append(ss, t)
  <2>1. /\ n \in Nat /\ DOMAIN cs = 1 .. n /\ DOMAIN all = 1 .. n + 1 /\ all[n + 1] = c
        /\ all \in Seq(E) /\ \A i \in 1 .. n : all[i] = cs[i] /\ cs[i] \in E
    <3> HIDE DEF E
    <3> QED OBVIOUS
  <2>2. t \in T /\ \A i \in 1 .. n : Utf8Bytes(cs[i]) \in T BY <2>1, CharacterBytes
  <2> HIDE DEF n, all, t, T
  <2>3. /\ ss \in [1 .. n -> T] /\ \A i \in 1 .. n : ss[i] = Utf8Bytes(cs[i]) BY <2>1, <2>2
  <2>4. /\ tt \in [1 .. n + 1 -> T] /\ \A i \in 1 .. n + 1 : tt[i] = Utf8Bytes(all[i])
    <3>1. \A i \in 1 .. n + 1 : i = n + 1 \/ i \in 1 .. n BY <2>1
    <3>2. \A i \in 1 .. n + 1 : Utf8Bytes(all[i]) \in T BY <2>1, <2>2, <3>1 DEF t
    <3> QED BY <2>1, <3>2
  <2>5. EncodedText(cs) = FlattenSeq(ss) /\ EncodedText(all) = FlattenSeq(tt) BY DEF EncodedText
  <2> HIDE DEF ss, tt
  <2>6. ss \in Seq(T) /\ Len(ss) = n /\ tt \in Seq(T) /\ Len(tt) = n + 1 BY <2>1, <2>3, <2>4
  <2>7. right \in Seq(T) /\ Len(right) = n + 1 /\ right[n + 1] = t /\ \A i \in 1 .. n : right[i] = ss[i]
    BY <2>1, <2>2, <2>6
  <2>8. FlattenSeq(right) = FlattenSeq(ss) \o t
    <3> HIDE DEF right, Bytes
    <3> QED BY <2>2, <2>6, FlattenAppend DEF T, right
  <2> HIDE DEF right
  <2>9. \A i \in 1 .. n + 1 : tt[i] = right[i]
    <3> TAKE i \in 1 .. n + 1
    <3>1. CASE i = n + 1 BY <2>1, <2>4, <2>7, <3>1 DEF t
    <3>2. CASE i # n + 1
      <4>1. i \in 1 .. n BY <2>1, <3>2
      <4> QED BY <2>1, <2>3, <2>4, <2>7, <4>1
    <3> QED BY <3>1, <3>2
  <2>10. tt = right BY <2>6, <2>7, <2>9, SeqEqual
  <2>11. EncodedText(all) = EncodedText(cs) \o t BY <2>5, <2>8, <2>10
  <2>12. EncodedText(cs) \in Seq(Bytes) /\ Utf8Text(EncodedText(cs)) = cs
    <3> HIDE DEF E, Bytes
    <3> QED BY <1>2
  <2>13. EncodedText(all) \in Seq(Bytes)
    <3> HIDE DEF Bytes
    <3> QED BY <2>2, <2>11, <2>12, ConcatProperties DEF T
  <2>14. Utf8Text(EncodedText(all)) = all BY <2>11, <2>12, CharacterRead DEF t, all
  <2> HIDE DEF E, Bytes
  <2> QED BY <2>1, <2>13, <2>14 DEF all
<1>3. Seq(E) \subseteq S
  <2> HIDE DEF S, E
  <2> QED BY <1>1, <1>2, SequenceInduction
<1> HIDE DEF Bytes
<1> QED BY <1>3

\* Every text of the first plane, however its characters mix in their number of
\* bytes, reads back as it was written, in UTF-8 and, where it can be written,
\* in Latin-1; and what is written in Latin-1 is bytes.
THEOREM CodecRoundTrips ==
  ASSUME NEW codes \in Seq(Characters), NEW charset
  PROVE  CodecHolds(codes, charset)
<1> SUFFICES ASSUME NEW bytes \in EncodeText(codes, charset)
             PROVE  /\ DecodeText(bytes, charset) = {codes}
                    /\ AssertDecodable(charset)
                    /\ charset \in Latin1Labels => \A i \in DOMAIN bytes : bytes[i] < 256
  BY DEF CodecHolds
<1>1. CASE charset \in Utf8Labels
  <2>1. charset \notin Latin1Labels BY <1>1 DEF Utf8Labels, Latin1Labels
  <2>5. EncodeText(codes, charset) = {EncodedText(codes)} BY <1>1, <2>1, Zenon DEF EncodeText, EncodedText
  <2>2. bytes = EncodedText(codes) BY <2>5
  <2>3. DecodeText(bytes, charset) = {Utf8Text(bytes)} BY <1>1, <2>1 DEF DecodeText
  <2>4. Utf8Text(bytes) = codes BY <2>2, TextRead
  <2> QED BY <1>1, <2>1, <2>3, <2>4 DEF AssertDecodable
<1>2. CASE charset \notin Utf8Labels /\ charset \in Latin1Labels
  <2>1. bytes = codes /\ \A i \in DOMAIN codes : codes[i] <= 255 BY <1>2 DEF EncodeText
  <2>2. DecodeText(bytes, charset) = {bytes} BY <1>2 DEF DecodeText
  <2>3. \A i \in DOMAIN codes : codes[i] \in Characters
    <3> HIDE DEF Characters
    <3> QED OBVIOUS
  <2>4. \A i \in DOMAIN codes : codes[i] \in Nat BY <2>3, CharacterIn
  <2>5. \A i \in DOMAIN codes : codes[i] < 256 BY <2>1, <2>4
  <2> QED BY <1>2, <2>1, <2>2, <2>5 DEF AssertDecodable
<1>3. CASE charset \notin Utf8Labels /\ charset \notin Latin1Labels BY <1>3 DEF EncodeText
<1> QED BY <1>1, <1>2, <1>3

-----------------------------------------------------------------------------
(* A foreign source.  What it hands on is its reads up to the first one    *)
(* that does not append what it reports.                                   *)

ReadReports == [reported : Int, appended : Nat]
EndReport == [reported |-> EndOfStream, appended |-> 0]
Honest(read) == read.reported = read.appended /\ read.appended > 0

StreamStates == [state : {"open", "closed", "errored"}, bytes : Seq(Nat)]
FreshStream == [state |-> "open", bytes |-> <<>>]
ReadStep(fed, read) ==
  IF fed.state # "open" THEN fed
  ELSE CASE ForeignRead(read.reported, read.appended) = "chunk" ->
              [fed EXCEPT !.bytes = Append(@, read.reported)]
         [] ForeignRead(read.reported, read.appended) = "closed" ->
              [fed EXCEPT !.state = "closed"]
         [] OTHER -> [fed EXCEPT !.state = "errored"]

\* The three kinds of read.
LEMMA ReadIs ==
  ASSUME NEW read \in ReadReports
  PROVE  /\ Honest(read) =>
              read # EndReport /\ ForeignRead(read.reported, read.appended) = "chunk" /\ read.reported \in Nat
         /\ read = EndReport => ~Honest(read) /\ ForeignRead(read.reported, read.appended) = "closed"
         /\ ~Honest(read) /\ read # EndReport => ForeignRead(read.reported, read.appended) = "violation"
<1> DEFINE r == read.reported
           a == read.appended
<1>1. r \in Int /\ a \in Nat /\ read = [reported |-> r, appended |-> a] BY DEF ReadReports
<1>2. read = EndReport <=> r = -1 /\ a = 0 BY <1>1 DEF EndReport, EndOfStream
<1>3. Honest(read) <=> r = a /\ a > 0 BY DEF Honest
<1>4. ForeignRead(r, a) = IF r = -1 /\ a = 0 THEN "closed"
                          ELSE IF r \in {-1, 0} \/ a # r THEN "violation" ELSE "chunk"
  BY DEF ForeignRead, EndOfStream
<1> HIDE DEF r, a
<1>5. CASE r = -1 /\ a = 0 BY <1>1, <1>2, <1>3, <1>4, <1>5 DEF r, a
<1>6. CASE r = a /\ a > 0
  <2>1. r # -1 /\ r # 0 /\ r \in Nat BY <1>1, <1>6
  <2>2. ForeignRead(r, a) = "chunk" BY <1>4, <1>6, <2>1
  <2> QED BY <1>2, <1>3, <1>6, <2>1, <2>2 DEF r, a
<1>7. CASE ~(r = -1 /\ a = 0) /\ ~(r = a /\ a > 0)
  <2>1. r \in {-1, 0} \/ a # r BY <1>1, <1>7
  <2>2. ForeignRead(r, a) = "violation" BY <1>4, <1>7, <2>1
  <2> QED BY <1>2, <1>3, <1>7, <2>2 DEF r, a
<1> QED BY <1>5, <1>6, <1>7

\* What a read makes of an open stream; another one stays as it is.
LEMMA ReadMakes ==
  ASSUME NEW fed \in StreamStates, NEW read \in ReadReports
  PROVE  /\ fed.state # "open" => ReadStep(fed, read) = fed
         /\ fed.state = "open" /\ Honest(read) =>
              /\ read.appended \in Nat
              /\ ReadStep(fed, read) = [state |-> "open", bytes |-> Append(fed.bytes, read.appended)]
         /\ fed.state = "open" /\ read = EndReport =>
              ReadStep(fed, read) = [state |-> "closed", bytes |-> fed.bytes]
         /\ fed.state = "open" /\ ~Honest(read) /\ read # EndReport =>
              ReadStep(fed, read) = [state |-> "errored", bytes |-> fed.bytes]
<1> DEFINE kind == ForeignRead(read.reported, read.appended)
           chunk == [fed EXCEPT !.bytes = Append(@, read.reported)]
           closed == [fed EXCEPT !.state = "closed"]
           errored == [fed EXCEPT !.state = "errored"]
<1>1. ReadStep(fed, read) =
        IF fed.state # "open" THEN fed
        ELSE CASE kind = "chunk" -> chunk [] kind = "closed" -> closed [] OTHER -> errored
  BY Zenon DEF ReadStep
<1>2. fed = [state |-> fed.state, bytes |-> fed.bytes] BY DEF StreamStates
<1>3. /\ chunk = [state |-> fed.state, bytes |-> Append(fed.bytes, read.reported)]
      /\ closed = [state |-> "closed", bytes |-> fed.bytes]
      /\ errored = [state |-> "errored", bytes |-> fed.bytes]
  BY <1>2
<1> HIDE DEF kind, chunk, closed, errored
<1>4. CASE fed.state # "open" BY <1>1, <1>4
<1>5. CASE fed.state = "open" /\ Honest(read)
  <2>1. kind = "chunk" /\ read # EndReport BY <1>5, ReadIs DEF kind
  <2>2. ReadStep(fed, read) = chunk BY <1>1, <1>5, <2>1
  <2>3. read.reported = read.appended /\ read.appended \in Nat BY <1>5 DEF Honest, ReadReports
  <2>4. chunk = [state |-> "open", bytes |-> Append(fed.bytes, read.appended)] BY <1>3, <1>5, <2>3
  <2> QED BY <1>5, <2>1, <2>2, <2>3, <2>4
<1>6. CASE fed.state = "open" /\ read = EndReport
  <2>1. kind = "closed" /\ ~Honest(read) BY <1>6, ReadIs DEF kind
  <2>2. ReadStep(fed, read) = closed BY <1>1, <1>6, <2>1
  <2> QED BY <1>3, <1>6, <2>1, <2>2
<1>7. CASE fed.state = "open" /\ ~Honest(read) /\ read # EndReport
  <2>1. kind = "violation" BY <1>7, ReadIs DEF kind
  <2>2. ReadStep(fed, read) = errored BY <1>1, <1>7, <2>1
  <2> QED BY <1>3, <1>7, <2>2
<1> QED BY <1>4, <1>5, <1>6, <1>7

LEMMA StreamFoldKeeps ==
  \A a \in StreamStates, e \in ReadReports : ReadStep(a, e) \in StreamStates
<1> SUFFICES ASSUME NEW a \in StreamStates, NEW e \in ReadReports PROVE ReadStep(a, e) \in StreamStates
  OBVIOUS
<1>1. a.bytes \in Seq(Nat) BY DEF StreamStates
<1>2. CASE a.state # "open" BY <1>2, ReadMakes
<1>3. CASE a.state = "open" /\ Honest(e)
  <2>1. e.appended \in Nat /\ ReadStep(a, e) = [state |-> "open", bytes |-> Append(a.bytes, e.appended)]
    BY <1>3, ReadMakes
  <2>2. Append(a.bytes, e.appended) \in Seq(Nat) BY <1>1, <2>1
  <2> QED BY <2>1, <2>2 DEF StreamStates
<1>4. CASE a.state = "open" /\ e = EndReport
  <2>1. ReadStep(a, e) = [state |-> "closed", bytes |-> a.bytes] BY <1>4, ReadMakes
  <2> QED BY <1>1, <2>1 DEF StreamStates
<1>5. CASE a.state = "open" /\ ~Honest(e) /\ e # EndReport
  <2>1. ReadStep(a, e) = [state |-> "errored", bytes |-> a.bytes] BY <1>5, ReadMakes
  <2> QED BY <1>1, <2>1 DEF StreamStates
<1> QED BY <1>2, <1>3, <1>4, <1>5

StreamFoldOf == [p \in StreamStates \X ReadReports |-> ReadStep(p[1], p[2])]
StreamFoldFold(iter, es, n) ==
  iter = [S \in SUBSET (1 .. n) |->
            IF S = {} THEN FreshStream ELSE ReadStep(iter[S \ {Max(S)}], es[Max(S)])]
IsStreamFold(A, E, step) ==
  /\ FreshStream \in A /\ step \in [A \X E -> A]
  /\ \A a \in A, e \in E : step[<<a, e>>] = ReadStep(a, e)

LEMMA StreamFoldIs ==
  IsStreamFold(StreamStates, ReadReports, StreamFoldOf)
<1> DEFINE A == StreamStates
           E == ReadReports
<1>1. FreshStream \in A BY DEF StreamStates, FreshStream
<1>2. \A a \in A, e \in E : ReadStep(a, e) \in A BY StreamFoldKeeps
<1>3. \A p \in A \X E : p[1] \in A /\ p[2] \in E OBVIOUS
<1> HIDE DEF A, E
<1>4. StreamFoldOf = [p \in A \X E |-> ReadStep(p[1], p[2])] BY DEF StreamFoldOf, A, E
<1>5. StreamFoldOf \in [A \X E -> A]
  <2>1. \A p \in A \X E : ReadStep(p[1], p[2]) \in A BY <1>2, <1>3
  <2> QED BY <1>4, <2>1
<1>6. \A a \in A, e \in E : StreamFoldOf[<<a, e>>] = ReadStep(a, e) BY <1>4
<1> QED BY <1>1, <1>5, <1>6 DEF IsStreamFold, A, E

\* A stream is what a run along its reads comes to.
LEMMA StreamFoldRuns ==
  ASSUME NEW es \in Seq(ReadReports)
  PROVE  \E r : RunsAlong(r, StreamStates, StreamFoldOf, FreshStream, es) /\ OverPrimitive(es) = r[Len(es)]
<1> DEFINE A == StreamStates
           E == ReadReports
           step == StreamFoldOf
           n == Len(es)
           base == FreshStream
<1>0. IsStreamFold(A, E, step) BY StreamFoldIs
<1>2. n \in Nat /\ DOMAIN es = 1 .. n /\ es \in Seq(E) /\ \A k \in 1 .. n : es[k] \in E OBVIOUS
<1> HIDE DEF A, E, step, n
<1>1. /\ base \in A /\ step \in [A \X E -> A]
      /\ \A a \in A, e \in E : step[<<a, e>>] = ReadStep(a, e)
  BY <1>0 DEF IsStreamFold
<1>3. \E iter : StreamFoldFold(iter, es, n)
  <2> HIDE DEF base
  <2>1. PICK iter \in [SUBSET (1 .. Len(es)) -> A] : FoldOver(iter, step, base, es) BY <1>1, <1>2, FoldsExist
  <2> DEFINE h == [S \in SUBSET (1 .. n) |->
                     IF S = {} THEN base ELSE ReadStep(iter[S \ {Max(S)}], es[Max(S)])]
  <2>2. ASSUME NEW S \in SUBSET (1 .. n) PROVE iter[S] = h[S]
    <3>1. CASE S = {} BY <2>1, <3>1 DEF FoldOver
    <3>2. CASE S # {}
      <4>1. Max(S) \in 1 .. n /\ S \ {Max(S)} \in SUBSET (1 .. n) BY <1>2, <3>2, MaxOf
      <4>2. iter[S \ {Max(S)}] \in A /\ es[Max(S)] \in E BY <1>2, <2>1, <4>1 DEF n
      <4>3. iter[S] = step[<<iter[S \ {Max(S)}], es[Max(S)]>>] BY <2>1, <3>2 DEF FoldOver, n
      <4>4. iter[S] = ReadStep(iter[S \ {Max(S)}], es[Max(S)]) BY <1>1, <4>2, <4>3
      <4> QED BY <3>2, <4>4
    <3> QED BY <3>1, <3>2
  <2>3. iter = h
    <3>1. DOMAIN h = SUBSET (1 .. n) /\ h = [S \in SUBSET (1 .. n) |-> h[S]] OBVIOUS
    <3>2. iter = [S \in SUBSET (1 .. n) |-> iter[S]] BY <2>1 DEF n
    <3> HIDE DEF h
    <3> QED BY <2>2, <3>1, <3>2
  <2> HIDE DEF h
  <2>4. StreamFoldFold(iter, es, n) BY <2>3 DEF StreamFoldFold, h, base
  <2> QED BY <2>4
<1>4. OverPrimitive(es) = (CHOOSE iter : StreamFoldFold(iter, es, n))[1 .. n]
  BY <1>2 DEF OverPrimitive, StreamFoldFold, ReadStep, FreshStream, FoldLeft, MapThenFoldSet
<1>5. PICK g : StreamFoldFold(g, es, n) /\ OverPrimitive(es) = g[1 .. n] BY <1>3, <1>4
<1> HIDE DEF base
<1> DEFINE h == [S \in SUBSET (1 .. n) |->
                   IF S = {} THEN base ELSE ReadStep(g[S \ {Max(S)}], es[Max(S)])]
<1>6. g = h BY <1>5 DEF StreamFoldFold, base
<1>7. h[{}] = base OBVIOUS
<1>8. ASSUME NEW k \in 1 .. n PROVE h[1 .. k] = ReadStep(g[1 .. k - 1], es[k])
  <2>1. /\ 1 .. k \in SUBSET (1 .. n) /\ 1 .. k # {} /\ Max(1 .. k) = k
        /\ (1 .. k) \ {k} = 1 .. (k - 1)
    BY <1>2, FoldOverAt
  <2>2. h[1 .. k] = ReadStep(g[(1 .. k) \ {Max(1 .. k)}], es[Max(1 .. k)]) BY <2>1
  <2> HIDE DEF h
  <2> QED BY <2>1, <2>2
<1> HIDE DEF h
<1>9. ASSUME NEW k \in 1 .. n, g[1 .. k - 1] \in A PROVE g[1 .. k] = step[<<g[1 .. k - 1], es[k]>>]
  BY <1>1, <1>2, <1>6, <1>8, <1>9
<1>10. g[{}] = base BY <1>6, <1>7
<1>11. GoesAlong(g, A, step, es) BY <1>9 DEF GoesAlong, n
<1>12. RunEnds(A, step, base, es, g[1 .. Len(es)]) BY <1>1, <1>2, <1>10, <1>11, FoldRuns
<1> QED BY <1>5, <1>12 DEF RunEnds, A, step, n, base

\* A read more.
LEMMA StreamFoldGrows ==
         /\ OverPrimitive(<<>>) = FreshStream
         /\ \A es \in Seq(ReadReports) : OverPrimitive(es) \in StreamStates
         /\ \A es \in Seq(ReadReports), e \in ReadReports : OverPrimitive(Append(es, e)) = ReadStep(OverPrimitive(es), e)
<1> DEFINE A == StreamStates
           E == ReadReports
           step == StreamFoldOf
           base == FreshStream
<1>0. IsStreamFold(A, E, step) BY StreamFoldIs
<1>2. \A es \in Seq(E) : \E r : RunsAlong(r, A, step, base, es) /\ OverPrimitive(es) = r[Len(es)] BY StreamFoldRuns
<1>1. /\ base \in A /\ step \in [A \X E -> A]
      /\ \A a \in A, e \in E : step[<<a, e>>] = ReadStep(a, e)
  BY <1>0 DEF IsStreamFold
<1> HIDE DEF A, E, step, base
<1>3. OverPrimitive(<<>>) = base
  <2>1. <<>> \in Seq(E) /\ Len(<<>>) = 0 OBVIOUS
  <2>2. PICK r : RunsAlong(r, A, step, base, <<>>) /\ OverPrimitive(<<>>) = r[Len(<<>>)] BY <1>2, <2>1
  <2> QED BY <2>1, <2>2 DEF RunsAlong
<1>4. ASSUME NEW es \in Seq(E) PROVE OverPrimitive(es) \in A
  <2>1. PICK r : RunsAlong(r, A, step, base, es) /\ OverPrimitive(es) = r[Len(es)] BY <1>2
  <2>2. Len(es) \in 0 .. Len(es) OBVIOUS
  <2> QED BY <2>1, <2>2 DEF RunsAlong
<1>5. ASSUME NEW es \in Seq(E), NEW e \in E PROVE OverPrimitive(Append(es, e)) = ReadStep(OverPrimitive(es), e)
  <2>1. PICK r : RunsAlong(r, A, step, base, es) /\ OverPrimitive(es) = r[Len(es)] BY <1>2
  <2>2. Append(es, e) \in Seq(E) /\ Len(Append(es, e)) = Len(es) + 1 OBVIOUS
  <2>3. PICK q : RunsAlong(q, A, step, base, Append(es, e)) /\ OverPrimitive(Append(es, e)) = q[Len(Append(es, e))]
    BY <1>2, <2>2
  <2>4. q[Len(es) + 1] = step[<<r[Len(es)], e>>] /\ r[Len(es)] \in A BY <1>1, <2>1, <2>3, RunsGoOn
  <2> QED BY <1>1, <2>1, <2>2, <2>3, <2>4
<1> QED BY <1>3, <1>4, <1>5 DEF A, E, base

\* What all the reads come to: the honest ones at the beginning, and then the
\* first one that is not decides.
StreamAfter(reads, fed, h) ==
  /\ h \in 0 .. Len(reads) /\ \A i \in 1 .. h : Honest(reads[i])
  /\ h < Len(reads) => ~Honest(reads[h + 1])
  /\ fed.bytes = [i \in 1 .. h |-> reads[i].appended]
  /\ fed.state = IF h = Len(reads) THEN "open"
                    ELSE IF reads[h + 1] = EndReport THEN "closed" ELSE "errored"

LEMMA StreamFollows ==
  \A reads \in Seq(ReadReports) : \E h \in 0 .. Len(reads) : StreamAfter(reads, OverPrimitive(reads), h)
<1> DEFINE E == ReadReports
           S == {reads \in Seq(E) : \E h \in 0 .. Len(reads) : StreamAfter(reads, OverPrimitive(reads), h)}
<1>1. <<>> \in S
  <2>1. OverPrimitive(<<>>) = FreshStream BY StreamFoldGrows
  <2>2. FreshStream.bytes = <<>> /\ FreshStream.state = "open" BY DEF FreshStream
  <2>3. <<>> \in Seq(E) /\ Len(<<>>) = 0 /\ [i \in 1 .. 0 |-> <<>>[i].appended] = <<>> OBVIOUS
  <2>4. StreamAfter(<<>>, OverPrimitive(<<>>), 0) BY <2>1, <2>2, <2>3 DEF StreamAfter
  <2> QED BY <2>3, <2>4
<1>2. ASSUME NEW reads \in Seq(E), NEW r \in E, reads \in S PROVE Append(reads, r) \in S
  <2> DEFINE all == Append(reads, r)
             n == Len(reads)
             was == OverPrimitive(reads)
             is == OverPrimitive(all)
  <2>1. PICK h \in 0 .. n : StreamAfter(reads, was, h) BY <1>2
  <2>2. /\ n \in Nat /\ all \in Seq(E) /\ Len(all) = n + 1 /\ all[n + 1] = r
        /\ \A i \in 1 .. n : all[i] = reads[i] /\ reads[i] \in E
    <3> HIDE DEF E
    <3> QED OBVIOUS
  <2>3. was \in StreamStates /\ is = ReadStep(was, r) BY StreamFoldGrows
  <2>4. was.bytes \in Seq(Nat) BY <2>3 DEF StreamStates
  <2>5. r \in ReadReports OBVIOUS
  <2> HIDE DEF n, all, was, is, E
  <2>6. /\ h \in Nat /\ h <= n /\ \A i \in 1 .. h : Honest(reads[i])
        /\ h < n => ~Honest(reads[h + 1])
        /\ was.bytes = [i \in 1 .. h |-> reads[i].appended]
        /\ was.state = IF h = n THEN "open" ELSE IF reads[h + 1] = EndReport THEN "closed" ELSE "errored"
    BY <2>1, <2>2 DEF StreamAfter, n
  <2>7. \A i \in 1 .. h : all[i] = reads[i] /\ i \in 1 .. n BY <2>2, <2>6
  <2>8. was.bytes = [i \in 1 .. h |-> all[i].appended] BY <2>6, <2>7
  <2>9. \E g \in 0 .. n + 1 : StreamAfter(all, is, g)
    <3>1. CASE h # n
      <4>1. h + 1 \in 1 .. n /\ h # n + 1 /\ h \in 0 .. n + 1 /\ h < n BY <2>2, <2>6, <3>1
      <4>2. all[h + 1] = reads[h + 1] BY <2>2, <4>1
      <4>3. was.state # "open" BY <2>6, <3>1
      <4>4. is = was BY <2>3, <2>5, <4>3, ReadMakes
      <4>5. was.state = IF all[h + 1] = EndReport THEN "closed" ELSE "errored" BY <2>6, <3>1, <4>2
      <4>6. ~Honest(all[h + 1]) BY <2>6, <4>1, <4>2
      <4>7. \A i \in 1 .. h : Honest(all[i]) BY <2>6, <2>7
      <4>8. StreamAfter(all, is, h) BY <2>2, <2>8, <4>1, <4>4, <4>5, <4>6, <4>7 DEF StreamAfter
      <4> QED BY <4>1, <4>8
    <3>2. CASE h = n /\ Honest(r)
      <4> DEFINE bytes == [i \in 1 .. n + 1 |-> all[i].appended]
                 more == Append(was.bytes, r.appended)
      <4>1. was.state = "open" BY <2>6, <3>2
      <4>2. /\ r.appended \in Nat
            /\ is = [state |-> "open", bytes |-> more]
        BY <2>3, <2>5, <3>2, <4>1, ReadMakes
      <4>3. \A i \in 1 .. n + 1 : i = n + 1 \/ i \in 1 .. n BY <2>2
      <4>4. \A i \in 1 .. n + 1 : all[i].appended \in Nat
        <5>1. \A i \in 1 .. n + 1 : all[i] \in ReadReports BY <2>2, <2>5, <4>3 DEF E
        <5> QED BY <5>1 DEF ReadReports
      <4>5. bytes \in [1 .. n + 1 -> Nat] BY <4>4
      <4>6. bytes \in Seq(Nat) /\ Len(bytes) = n + 1 BY <2>2, <4>5
      <4>7. \A i \in 1 .. n + 1 : bytes[i] = all[i].appended OBVIOUS
      <4>8. Len(was.bytes) = n /\ \A i \in 1 .. n : was.bytes[i] = all[i].appended BY <2>2, <2>4, <2>8, <3>2
      <4>9. /\ more \in Seq(Nat) /\ Len(more) = n + 1 /\ more[n + 1] = r.appended
            /\ \A i \in 1 .. n : more[i] = was.bytes[i]
        BY <2>4, <4>2, <4>8
      <4> HIDE DEF bytes, more
      <4>10. \A i \in 1 .. n + 1 : more[i] = bytes[i] BY <2>2, <4>3, <4>7, <4>8, <4>9
      <4>11. more = bytes BY <2>2, <4>6, <4>9, <4>10, SeqEqual
      <4>12. is.bytes = [i \in 1 .. n + 1 |-> all[i].appended] /\ is.state = "open" BY <4>2, <4>11 DEF bytes
      <4>13. \A i \in 1 .. n + 1 : Honest(all[i]) BY <2>2, <2>6, <2>7, <3>2, <4>3
      <4>14. n + 1 \in 0 .. n + 1 /\ ~ n + 1 < n + 1 BY <2>2
      <4>15. StreamAfter(all, is, n + 1) BY <2>2, <4>12, <4>13, <4>14 DEF StreamAfter
      <4> QED BY <4>14, <4>15
    <3>3. CASE h = n /\ ~Honest(r)
      <4>1. was.state = "open" /\ h # n + 1 /\ h \in 0 .. n + 1 BY <2>2, <2>6, <3>3
      <4>2. /\ is.bytes = was.bytes
            /\ is.state = IF r = EndReport THEN "closed" ELSE "errored"
        <5>1. CASE r = EndReport
          <6>1. is = [state |-> "closed", bytes |-> was.bytes] BY <2>3, <2>5, <4>1, <5>1, ReadMakes
          <6> QED BY <5>1, <6>1
        <5>2. CASE r # EndReport
          <6>1. is = [state |-> "errored", bytes |-> was.bytes] BY <2>3, <2>5, <3>3, <4>1, <5>2, ReadMakes
          <6> QED BY <5>2, <6>1
        <5> QED BY <5>1, <5>2
      <4>3. \A i \in 1 .. h : Honest(all[i]) BY <2>6, <2>7
      <4>4. all[h + 1] = r /\ ~Honest(all[h + 1]) BY <2>2, <3>3
      <4>5. StreamAfter(all, is, h) BY <2>2, <2>8, <4>1, <4>2, <4>3, <4>4 DEF StreamAfter
      <4> QED BY <4>1, <4>5
    <3> QED BY <3>1, <3>2, <3>3
  <2>10. \E g \in 0 .. Len(all) : StreamAfter(all, OverPrimitive(all), g) BY <2>2, <2>9 DEF is
  <2>11. all \in S BY <2>2, <2>10
  <2> HIDE DEF S
  <2> QED BY <2>11 DEF all
<1>3. Seq(E) \subseteq S
  <2> HIDE DEF S, E
  <2> QED BY <1>1, <1>2, SequenceInduction
<1> QED BY <1>3

\* What is written of a stream, and how much.
PumpStates == [written : Seq(Nat), total : Nat]
AtRest == [written |-> <<>>, total |-> 0]
PumpStep(pump, size) == [written |-> Append(pump.written, size), total |-> pump.total + size]
AllWritten(sizes) ==
  FoldLeft(LAMBDA pump, size : [written |-> Append(pump.written, size), total |-> pump.total + size],
           [written |-> <<>>, total |-> 0], sizes)
AddStep(sum, n) == sum + n
SumOfSizes(sizes) == FoldLeft(LAMBDA sum, n : sum + n, 0, sizes)

LEMMA PumpFoldKeeps ==
  \A a \in PumpStates, e \in Nat : PumpStep(a, e) \in PumpStates
<1> SUFFICES ASSUME NEW a \in PumpStates, NEW e \in Nat PROVE PumpStep(a, e) \in PumpStates
  OBVIOUS
<1>1. a.written \in Seq(Nat) /\ a.total \in Nat BY DEF PumpStates
<1>2. Append(a.written, e) \in Seq(Nat) /\ a.total + e \in Nat BY <1>1
<1> QED BY <1>2 DEF PumpStep, PumpStates
LEMMA SumFoldKeeps ==
  \A a \in Nat, e \in Nat : AddStep(a, e) \in Nat
  BY DEF AddStep

PumpFoldOf == [p \in PumpStates \X Nat |-> PumpStep(p[1], p[2])]
PumpFoldFold(iter, es, n) ==
  iter = [S \in SUBSET (1 .. n) |->
            IF S = {} THEN AtRest ELSE PumpStep(iter[S \ {Max(S)}], es[Max(S)])]
IsPumpFold(A, E, step) ==
  /\ AtRest \in A /\ step \in [A \X E -> A]
  /\ \A a \in A, e \in E : step[<<a, e>>] = PumpStep(a, e)

LEMMA PumpFoldIs ==
  IsPumpFold(PumpStates, Nat, PumpFoldOf)
<1> DEFINE A == PumpStates
           E == Nat
<1>1. AtRest \in A BY DEF PumpStates, AtRest
<1>2. \A a \in A, e \in E : PumpStep(a, e) \in A BY PumpFoldKeeps
<1>3. \A p \in A \X E : p[1] \in A /\ p[2] \in E OBVIOUS
<1> HIDE DEF A, E
<1>4. PumpFoldOf = [p \in A \X E |-> PumpStep(p[1], p[2])] BY DEF PumpFoldOf, A, E
<1>5. PumpFoldOf \in [A \X E -> A]
  <2>1. \A p \in A \X E : PumpStep(p[1], p[2]) \in A BY <1>2, <1>3
  <2> QED BY <1>4, <2>1
<1>6. \A a \in A, e \in E : PumpFoldOf[<<a, e>>] = PumpStep(a, e) BY <1>4
<1> QED BY <1>1, <1>5, <1>6 DEF IsPumpFold, A, E

\* What is written is what a run along the sizes comes to.
LEMMA PumpFoldRuns ==
  ASSUME NEW es \in Seq(Nat)
  PROVE  \E r : RunsAlong(r, PumpStates, PumpFoldOf, AtRest, es) /\ AllWritten(es) = r[Len(es)]
<1> DEFINE A == PumpStates
           E == Nat
           step == PumpFoldOf
           n == Len(es)
           base == AtRest
<1>0. IsPumpFold(A, E, step) BY PumpFoldIs
<1>2. n \in Nat /\ DOMAIN es = 1 .. n /\ es \in Seq(E) /\ \A k \in 1 .. n : es[k] \in E OBVIOUS
<1> HIDE DEF A, E, step, n
<1>1. /\ base \in A /\ step \in [A \X E -> A]
      /\ \A a \in A, e \in E : step[<<a, e>>] = PumpStep(a, e)
  BY <1>0 DEF IsPumpFold
<1>3. \E iter : PumpFoldFold(iter, es, n)
  <2> HIDE DEF base
  <2>1. PICK iter \in [SUBSET (1 .. Len(es)) -> A] : FoldOver(iter, step, base, es) BY <1>1, <1>2, FoldsExist
  <2> DEFINE h == [S \in SUBSET (1 .. n) |->
                     IF S = {} THEN base ELSE PumpStep(iter[S \ {Max(S)}], es[Max(S)])]
  <2>2. ASSUME NEW S \in SUBSET (1 .. n) PROVE iter[S] = h[S]
    <3>1. CASE S = {} BY <2>1, <3>1 DEF FoldOver
    <3>2. CASE S # {}
      <4>1. Max(S) \in 1 .. n /\ S \ {Max(S)} \in SUBSET (1 .. n) BY <1>2, <3>2, MaxOf
      <4>2. iter[S \ {Max(S)}] \in A /\ es[Max(S)] \in E BY <1>2, <2>1, <4>1 DEF n
      <4>3. iter[S] = step[<<iter[S \ {Max(S)}], es[Max(S)]>>] BY <2>1, <3>2 DEF FoldOver, n
      <4>4. iter[S] = PumpStep(iter[S \ {Max(S)}], es[Max(S)]) BY <1>1, <4>2, <4>3
      <4> QED BY <3>2, <4>4
    <3> QED BY <3>1, <3>2
  <2>3. iter = h
    <3>1. DOMAIN h = SUBSET (1 .. n) /\ h = [S \in SUBSET (1 .. n) |-> h[S]] OBVIOUS
    <3>2. iter = [S \in SUBSET (1 .. n) |-> iter[S]] BY <2>1 DEF n
    <3> HIDE DEF h
    <3> QED BY <2>2, <3>1, <3>2
  <2> HIDE DEF h
  <2>4. PumpFoldFold(iter, es, n) BY <2>3 DEF PumpFoldFold, h, base
  <2> QED BY <2>4
<1>4. AllWritten(es) = (CHOOSE iter : PumpFoldFold(iter, es, n))[1 .. n]
  BY <1>2 DEF AllWritten, PumpFoldFold, PumpStep, AtRest, FoldLeft, MapThenFoldSet
<1>5. PICK g : PumpFoldFold(g, es, n) /\ AllWritten(es) = g[1 .. n] BY <1>3, <1>4
<1> HIDE DEF base
<1> DEFINE h == [S \in SUBSET (1 .. n) |->
                   IF S = {} THEN base ELSE PumpStep(g[S \ {Max(S)}], es[Max(S)])]
<1>6. g = h BY <1>5 DEF PumpFoldFold, base
<1>7. h[{}] = base OBVIOUS
<1>8. ASSUME NEW k \in 1 .. n PROVE h[1 .. k] = PumpStep(g[1 .. k - 1], es[k])
  <2>1. /\ 1 .. k \in SUBSET (1 .. n) /\ 1 .. k # {} /\ Max(1 .. k) = k
        /\ (1 .. k) \ {k} = 1 .. (k - 1)
    BY <1>2, FoldOverAt
  <2>2. h[1 .. k] = PumpStep(g[(1 .. k) \ {Max(1 .. k)}], es[Max(1 .. k)]) BY <2>1
  <2> HIDE DEF h
  <2> QED BY <2>1, <2>2
<1> HIDE DEF h
<1>9. ASSUME NEW k \in 1 .. n, g[1 .. k - 1] \in A PROVE g[1 .. k] = step[<<g[1 .. k - 1], es[k]>>]
  BY <1>1, <1>2, <1>6, <1>8, <1>9
<1>10. g[{}] = base BY <1>6, <1>7
<1>11. GoesAlong(g, A, step, es) BY <1>9 DEF GoesAlong, n
<1>12. RunEnds(A, step, base, es, g[1 .. Len(es)]) BY <1>1, <1>2, <1>10, <1>11, FoldRuns
<1> QED BY <1>5, <1>12 DEF RunEnds, A, step, n, base

\* A size more.
LEMMA PumpFoldGrows ==
         /\ AllWritten(<<>>) = AtRest
         /\ \A es \in Seq(Nat) : AllWritten(es) \in PumpStates
         /\ \A es \in Seq(Nat), e \in Nat : AllWritten(Append(es, e)) = PumpStep(AllWritten(es), e)
<1> DEFINE A == PumpStates
           E == Nat
           step == PumpFoldOf
           base == AtRest
<1>0. IsPumpFold(A, E, step) BY PumpFoldIs
<1>2. \A es \in Seq(E) : \E r : RunsAlong(r, A, step, base, es) /\ AllWritten(es) = r[Len(es)] BY PumpFoldRuns
<1>1. /\ base \in A /\ step \in [A \X E -> A]
      /\ \A a \in A, e \in E : step[<<a, e>>] = PumpStep(a, e)
  BY <1>0 DEF IsPumpFold
<1> HIDE DEF A, E, step, base
<1>3. AllWritten(<<>>) = base
  <2>1. <<>> \in Seq(E) /\ Len(<<>>) = 0 OBVIOUS
  <2>2. PICK r : RunsAlong(r, A, step, base, <<>>) /\ AllWritten(<<>>) = r[Len(<<>>)] BY <1>2, <2>1
  <2> QED BY <2>1, <2>2 DEF RunsAlong
<1>4. ASSUME NEW es \in Seq(E) PROVE AllWritten(es) \in A
  <2>1. PICK r : RunsAlong(r, A, step, base, es) /\ AllWritten(es) = r[Len(es)] BY <1>2
  <2>2. Len(es) \in 0 .. Len(es) OBVIOUS
  <2> QED BY <2>1, <2>2 DEF RunsAlong
<1>5. ASSUME NEW es \in Seq(E), NEW e \in E PROVE AllWritten(Append(es, e)) = PumpStep(AllWritten(es), e)
  <2>1. PICK r : RunsAlong(r, A, step, base, es) /\ AllWritten(es) = r[Len(es)] BY <1>2
  <2>2. Append(es, e) \in Seq(E) /\ Len(Append(es, e)) = Len(es) + 1 OBVIOUS
  <2>3. PICK q : RunsAlong(q, A, step, base, Append(es, e)) /\ AllWritten(Append(es, e)) = q[Len(Append(es, e))]
    BY <1>2, <2>2
  <2>4. q[Len(es) + 1] = step[<<r[Len(es)], e>>] /\ r[Len(es)] \in A BY <1>1, <2>1, <2>3, RunsGoOn
  <2> QED BY <1>1, <2>1, <2>2, <2>3, <2>4
<1> QED BY <1>3, <1>4, <1>5 DEF A, E, base

SumFoldOf == [p \in Nat \X Nat |-> AddStep(p[1], p[2])]
SumFoldFold(iter, es, n) ==
  iter = [S \in SUBSET (1 .. n) |->
            IF S = {} THEN 0 ELSE AddStep(iter[S \ {Max(S)}], es[Max(S)])]
IsSumFold(A, E, step) ==
  /\ 0 \in A /\ step \in [A \X E -> A]
  /\ \A a \in A, e \in E : step[<<a, e>>] = AddStep(a, e)

LEMMA SumFoldIs ==
  IsSumFold(Nat, Nat, SumFoldOf)
<1> DEFINE A == Nat
           E == Nat
<1>1. 0 \in A OBVIOUS
<1>2. \A a \in A, e \in E : AddStep(a, e) \in A BY SumFoldKeeps
<1>3. \A p \in A \X E : p[1] \in A /\ p[2] \in E OBVIOUS
<1> HIDE DEF A, E
<1>4. SumFoldOf = [p \in A \X E |-> AddStep(p[1], p[2])] BY DEF SumFoldOf, A, E
<1>5. SumFoldOf \in [A \X E -> A]
  <2>1. \A p \in A \X E : AddStep(p[1], p[2]) \in A BY <1>2, <1>3
  <2> QED BY <1>4, <2>1
<1>6. \A a \in A, e \in E : SumFoldOf[<<a, e>>] = AddStep(a, e) BY <1>4
<1> QED BY <1>1, <1>5, <1>6 DEF IsSumFold, A, E

\* And so is their sum.
LEMMA SumFoldRuns ==
  ASSUME NEW es \in Seq(Nat)
  PROVE  \E r : RunsAlong(r, Nat, SumFoldOf, 0, es) /\ SumOfSizes(es) = r[Len(es)]
<1> DEFINE A == Nat
           E == Nat
           step == SumFoldOf
           n == Len(es)
           base == 0
<1>0. IsSumFold(A, E, step) BY SumFoldIs
<1>2. n \in Nat /\ DOMAIN es = 1 .. n /\ es \in Seq(E) /\ \A k \in 1 .. n : es[k] \in E OBVIOUS
<1> HIDE DEF A, E, step, n
<1>1. /\ base \in A /\ step \in [A \X E -> A]
      /\ \A a \in A, e \in E : step[<<a, e>>] = AddStep(a, e)
  BY <1>0 DEF IsSumFold
<1>3. \E iter : SumFoldFold(iter, es, n)
  <2> HIDE DEF base
  <2>1. PICK iter \in [SUBSET (1 .. Len(es)) -> A] : FoldOver(iter, step, base, es) BY <1>1, <1>2, FoldsExist
  <2> DEFINE h == [S \in SUBSET (1 .. n) |->
                     IF S = {} THEN base ELSE AddStep(iter[S \ {Max(S)}], es[Max(S)])]
  <2>2. ASSUME NEW S \in SUBSET (1 .. n) PROVE iter[S] = h[S]
    <3>1. CASE S = {} BY <2>1, <3>1 DEF FoldOver
    <3>2. CASE S # {}
      <4>1. Max(S) \in 1 .. n /\ S \ {Max(S)} \in SUBSET (1 .. n) BY <1>2, <3>2, MaxOf
      <4>2. iter[S \ {Max(S)}] \in A /\ es[Max(S)] \in E BY <1>2, <2>1, <4>1 DEF n
      <4>3. iter[S] = step[<<iter[S \ {Max(S)}], es[Max(S)]>>] BY <2>1, <3>2 DEF FoldOver, n
      <4>4. iter[S] = AddStep(iter[S \ {Max(S)}], es[Max(S)]) BY <1>1, <4>2, <4>3
      <4> QED BY <3>2, <4>4
    <3> QED BY <3>1, <3>2
  <2>3. iter = h
    <3>1. DOMAIN h = SUBSET (1 .. n) /\ h = [S \in SUBSET (1 .. n) |-> h[S]] OBVIOUS
    <3>2. iter = [S \in SUBSET (1 .. n) |-> iter[S]] BY <2>1 DEF n
    <3> HIDE DEF h
    <3> QED BY <2>2, <3>1, <3>2
  <2> HIDE DEF h
  <2>4. SumFoldFold(iter, es, n) BY <2>3 DEF SumFoldFold, h, base
  <2> QED BY <2>4
<1>4. SumOfSizes(es) = (CHOOSE iter : SumFoldFold(iter, es, n))[1 .. n]
  BY <1>2 DEF SumOfSizes, SumFoldFold, AddStep, FoldLeft, MapThenFoldSet
<1>5. PICK g : SumFoldFold(g, es, n) /\ SumOfSizes(es) = g[1 .. n] BY <1>3, <1>4
<1> HIDE DEF base
<1> DEFINE h == [S \in SUBSET (1 .. n) |->
                   IF S = {} THEN base ELSE AddStep(g[S \ {Max(S)}], es[Max(S)])]
<1>6. g = h BY <1>5 DEF SumFoldFold, base
<1>7. h[{}] = base OBVIOUS
<1>8. ASSUME NEW k \in 1 .. n PROVE h[1 .. k] = AddStep(g[1 .. k - 1], es[k])
  <2>1. /\ 1 .. k \in SUBSET (1 .. n) /\ 1 .. k # {} /\ Max(1 .. k) = k
        /\ (1 .. k) \ {k} = 1 .. (k - 1)
    BY <1>2, FoldOverAt
  <2>2. h[1 .. k] = AddStep(g[(1 .. k) \ {Max(1 .. k)}], es[Max(1 .. k)]) BY <2>1
  <2> HIDE DEF h
  <2> QED BY <2>1, <2>2
<1> HIDE DEF h
<1>9. ASSUME NEW k \in 1 .. n, g[1 .. k - 1] \in A PROVE g[1 .. k] = step[<<g[1 .. k - 1], es[k]>>]
  BY <1>1, <1>2, <1>6, <1>8, <1>9
<1>10. g[{}] = base BY <1>6, <1>7
<1>11. GoesAlong(g, A, step, es) BY <1>9 DEF GoesAlong, n
<1>12. RunEnds(A, step, base, es, g[1 .. Len(es)]) BY <1>1, <1>2, <1>10, <1>11, FoldRuns
<1> QED BY <1>5, <1>12 DEF RunEnds, A, step, n, base

\* A size more.
LEMMA SumFoldGrows ==
         /\ SumOfSizes(<<>>) = 0
         /\ \A es \in Seq(Nat) : SumOfSizes(es) \in Nat
         /\ \A es \in Seq(Nat), e \in Nat : SumOfSizes(Append(es, e)) = AddStep(SumOfSizes(es), e)
<1> DEFINE A == Nat
           E == Nat
           step == SumFoldOf
           base == 0
<1>0. IsSumFold(A, E, step) BY SumFoldIs
<1>2. \A es \in Seq(E) : \E r : RunsAlong(r, A, step, base, es) /\ SumOfSizes(es) = r[Len(es)] BY SumFoldRuns
<1>1. /\ base \in A /\ step \in [A \X E -> A]
      /\ \A a \in A, e \in E : step[<<a, e>>] = AddStep(a, e)
  BY <1>0 DEF IsSumFold
<1> HIDE DEF A, E, step, base
<1>3. SumOfSizes(<<>>) = base
  <2>1. <<>> \in Seq(E) /\ Len(<<>>) = 0 OBVIOUS
  <2>2. PICK r : RunsAlong(r, A, step, base, <<>>) /\ SumOfSizes(<<>>) = r[Len(<<>>)] BY <1>2, <2>1
  <2> QED BY <2>1, <2>2 DEF RunsAlong
<1>4. ASSUME NEW es \in Seq(E) PROVE SumOfSizes(es) \in A
  <2>1. PICK r : RunsAlong(r, A, step, base, es) /\ SumOfSizes(es) = r[Len(es)] BY <1>2
  <2>2. Len(es) \in 0 .. Len(es) OBVIOUS
  <2> QED BY <2>1, <2>2 DEF RunsAlong
<1>5. ASSUME NEW es \in Seq(E), NEW e \in E PROVE SumOfSizes(Append(es, e)) = AddStep(SumOfSizes(es), e)
  <2>1. PICK r : RunsAlong(r, A, step, base, es) /\ SumOfSizes(es) = r[Len(es)] BY <1>2
  <2>2. Append(es, e) \in Seq(E) /\ Len(Append(es, e)) = Len(es) + 1 OBVIOUS
  <2>3. PICK q : RunsAlong(q, A, step, base, Append(es, e)) /\ SumOfSizes(Append(es, e)) = q[Len(Append(es, e))]
    BY <1>2, <2>2
  <2>4. q[Len(es) + 1] = step[<<r[Len(es)], e>>] /\ r[Len(es)] \in A BY <1>1, <2>1, <2>3, RunsGoOn
  <2> QED BY <1>1, <2>1, <2>2, <2>3, <2>4
<1> QED BY <1>3, <1>4, <1>5 DEF A, E, base

LEMMA AllIsWritten ==
  \A sizes \in Seq(Nat) : AllWritten(sizes) = [written |-> sizes, total |-> SumOfSizes(sizes)]
<1> DEFINE S == {sizes \in Seq(Nat) : AllWritten(sizes) = [written |-> sizes, total |-> SumOfSizes(sizes)]}
<1>1. <<>> \in S
  <2>1. AllWritten(<<>>) = AtRest /\ SumOfSizes(<<>>) = 0 BY PumpFoldGrows, SumFoldGrows
  <2> QED BY <2>1 DEF AtRest
<1>2. ASSUME NEW sizes \in Seq(Nat), NEW n \in Nat, sizes \in S PROVE Append(sizes, n) \in S
  <2>1. AllWritten(sizes) = [written |-> sizes, total |-> SumOfSizes(sizes)] BY <1>2
  <2>2. AllWritten(Append(sizes, n)) = PumpStep(AllWritten(sizes), n) BY PumpFoldGrows
  <2>3. SumOfSizes(Append(sizes, n)) = SumOfSizes(sizes) + n BY SumFoldGrows DEF AddStep
  <2>4. AllWritten(Append(sizes, n)) = [written |-> Append(sizes, n), total |-> SumOfSizes(sizes) + n]
    BY <2>1, <2>2 DEF PumpStep
  <2>5. Append(sizes, n) \in Seq(Nat) OBVIOUS
  <2> QED BY <2>3, <2>4, <2>5
<1>3. Seq(Nat) \subseteq S
  <2> HIDE DEF S
  <2> QED BY <1>1, <1>2, SequenceInduction
<1> QED BY <1>3

\* Whatever a foreign source reports and appends, in however many reads, a
\* reader gets what was appended up to the first read that broke the contract
\* and not a byte of it or behind it, hears of it unless it was the end, and a
\* sink behind the stream is written just that.
THEOREM ForeignSourcesAreHeld ==
  ASSUME NEW reads \in Seq([reported : Int, appended : Nat])
  PROVE  ForeignReadsHold(reads)
<1> DEFINE n == Len(reads)
           fed == OverPrimitive(reads)
           kept == {k \in 0 .. n : \A i \in 1 .. k : reads[i].reported = reads[i].appended /\ reads[i].appended > 0}
           honest == CHOOSE k \in kept : \A m \in kept : m <= k
<1>1. reads \in Seq(ReadReports) BY DEF ReadReports
<1>2. n \in Nat BY <1>1
<1>3. PICK h \in 0 .. n : StreamAfter(reads, fed, h) BY <1>1, StreamFollows
<1>4. fed \in StreamStates BY <1>1, StreamFoldGrows
<1>5. fed.bytes \in Seq(Nat) BY <1>4 DEF StreamStates
<1>6. honest = h
  <2> HIDE DEF n, fed
  <2>1. /\ h \in Nat /\ h <= n /\ \A i \in 1 .. h : Honest(reads[i])
        /\ h < n => ~Honest(reads[h + 1])
    BY <1>2, <1>3 DEF StreamAfter, n
  <2>2. kept = {k \in 0 .. n : \A i \in 1 .. k : Honest(reads[i])} BY DEF Honest
  <2> HIDE DEF kept
  <2>3. h \in kept BY <2>1, <2>2
  <2>4. ASSUME NEW m \in kept PROVE m <= h
    <3>1. m \in 0 .. n /\ \A i \in 1 .. m : Honest(reads[i]) BY <2>2
    <3>2. CASE m > h
      <4>1. h + 1 \in 1 .. m /\ h < n BY <1>2, <2>1, <3>1, <3>2
      <4> QED BY <2>1, <3>1, <4>1
    <3> QED BY <2>1, <3>1, <3>2
  <2>5. \A k \in kept : k \in Nat BY <1>2, <2>2
  <2>6. \A k \in kept : (\A m \in kept : m <= k) => k = h BY <2>1, <2>3, <2>4, <2>5
  <2>7. honest \in kept /\ \A m \in kept : m <= honest BY <2>3, <2>4
  <2> HIDE DEF honest
  <2> QED BY <2>6, <2>7
<1>7. /\ fed.bytes = [i \in 1 .. honest |-> reads[i].appended]
      /\ fed.state = "errored" <=> honest < n /\ reads[honest + 1] # [reported |-> EndOfStream, appended |-> 0]
  <2> HIDE DEF fed, honest
  <2>1. /\ fed.bytes = [i \in 1 .. h |-> reads[i].appended]
        /\ fed.state = IF h = n THEN "open" ELSE IF reads[h + 1] = EndReport THEN "closed" ELSE "errored"
    BY <1>3 DEF StreamAfter
  <2>2. h < n <=> h # n BY <1>2
  <2>3. fed.state = "errored" <=> h # n /\ reads[h + 1] # EndReport BY <2>1
  <2> QED BY <1>6, <2>1, <2>2, <2>3 DEF EndReport
<1>8. WriteAll(fed) = [written |-> fed.bytes, total |-> SumOfSizes(fed.bytes)]
  <2>1. WriteAll(fed) = AllWritten(fed.bytes) BY DEF WriteAll, AllWritten
  <2> QED BY <1>5, <2>1, AllIsWritten
<1>9. WriteAll(fed).total = FoldLeft(LAMBDA sum, k : sum + k, 0, fed.bytes)
  <2>1. WriteAll(fed).total = SumOfSizes(fed.bytes) BY <1>8
  <2> QED BY <2>1 DEF SumOfSizes
<1>10. \A i \in DOMAIN fed.bytes : SinkOverPrimitive(fed.bytes)[i].queue = WriteAll(fed).written[i]
  <2> HIDE DEF fed
  <2>1. WriteAll(fed).written = fed.bytes BY <1>8
  <2> QED BY <2>1 DEF SinkOverPrimitive
<1> HIDE DEF fed
<1> QED BY <1>7, <1>9, <1>10, Zenon DEF ForeignReadsHold, fed, honest, kept, n
=============================================================================
