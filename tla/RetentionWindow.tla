--------------------------- MODULE RetentionWindow ---------------------------
(***************************************************************************)
(* BufferedSource and its peek and slice views over one RetentionWindow:   *)
(* the sources share a queue of pulled bytes and one stream reader, each   *)
(* has a cursor and a byte budget, and the root owns the window.  A byte   *)
(* is its offset in the stream.  Each source has one read in flight at     *)
(* most (IO-37); distinct sources pull concurrently, and any of them may   *)
(* be closed under a pull, as the stream bridge's cancel() does.           *)
(***************************************************************************)
EXTENDS Naturals, Sequences, FiniteSets, FiniteSetsExt

CONSTANTS
  Root,        \* the source that owns the window
  PeekViews,   \* views that may be opened on it or on one another
  MaxStream,   \* bound: bytes of the stream
  MaxRead      \* bound: bytes of a chunk, a read, a slice and its offset

ASSUME WindowAssumption ==
  /\ Root \notin PeekViews
  /\ MaxStream \in Nat /\ MaxRead \in Nat \ {0}

VARIABLES
  window,   \* queue, offset of its first byte, pulled, exhausted, closed; and
            \* how the stream itself came to an end
  cursors,  \* the sources whose cursor the window still minds
  sources,   \* each source: its state, cursor, start and byte limit
  pulls,    \* sources awaiting reader.read(), oldest first
  wants,    \* what the read in flight of each source asked for, 0 for none
  got,      \* bytes each source has delivered
  readEnd   \* how the last read of each source ended

windowVars == <<window, cursors, sources, pulls, wants, got, readEnd>>

BufferedSources == PeekViews \cup {Root}

Infinite == MaxStream + MaxRead + 1   \* a limit nothing reaches

WindowInit ==
  /\ window = [queue |-> <<>>, from |-> 0, pulled |-> 0,
               exhausted |-> FALSE, closed |-> FALSE,
               ended |-> FALSE, errored |-> FALSE]
  /\ cursors = {Root}
  /\ sources = [s \in BufferedSources |->
       [state |-> IF s = Root THEN "open" ELSE "unborn",
        at |-> 0, started |-> 0, limit |-> IF s = Root THEN Infinite ELSE 0]]
  /\ pulls = <<>>
  /\ wants = [s \in BufferedSources |-> 0]
  /\ got = [s \in BufferedSources |-> <<>>]
  /\ readEnd = [s \in BufferedSources |-> "none"]

-----------------------------------------------------------------------------

Usable(s) == sources[s].state = "open" /\ ~window.closed

RemainingBudget(s) ==
  IF sources[s].limit = Infinite THEN Infinite
  ELSE Max({0, sources[s].limit - (sources[s].at - sources[s].started)})

\* #trim: forget the bytes every live cursor has passed.  A cursor may lie
\* beyond what was pulled, as a slice's does.
LowestCursor(live, src) == Min({window.pulled} \cup {src[s].at : s \in live})

Trimmed(live, src) ==
  LET low == LowestCursor(live, src)
  IN IF low <= window.from THEN window
     ELSE [window EXCEPT !.from = low,
             !.queue = SubSeq(@, low - window.from + 1, Len(@))]

PullMore(s) == window.pulled < sources[s].at + 1 /\ ~window.exhausted

\* read(): the budget is read before the pull, the window tested on each turn.
StartSourceRead(s) ==
  /\ Usable(s) /\ wants[s] = 0
  /\ \E count \in 1 .. MaxRead :
       LET want == Min({count, RemainingBudget(s)})
       IN IF want = 0
          THEN readEnd' = [readEnd EXCEPT ![s] = "eos"] /\ UNCHANGED <<wants, pulls>>
          ELSE /\ wants' = [wants EXCEPT ![s] = want]
               /\ pulls' = IF PullMore(s) THEN Append(pulls, s) ELSE pulls
               /\ UNCHANGED readEnd
  /\ UNCHANGED <<window, cursors, sources, got>>

EndRead(s, how) ==
  /\ wants' = [wants EXCEPT ![s] = 0]
  /\ readEnd' = [readEnd EXCEPT ![s] = how]

\* The oldest read of the stream is answered: a chunk is queued for every
\* source, an end exhausts the window.  A chunk may have been on its way when
\* the window was closed, and a cancelled reader answers its reads with an end.
ChunkArrives(s) ==
  \E size \in 1 .. MaxRead :
    /\ ~window.errored /\ ~window.exhausted
    /\ window.pulled + size <= MaxStream
    /\ window' = [window EXCEPT !.pulled = @ + size,
         !.queue = @ \o [i \in 1 .. size |-> window.pulled + i - 1]]

StreamEnds(s) ==
  /\ ~window.errored
  /\ window' = [window EXCEPT !.exhausted = TRUE, !.ended = @ \/ ~window.closed]

PullAnswered(s) ==
  /\ pulls # <<>> /\ Head(pulls) = s
  /\ ChunkArrives(s) \/ StreamEnds(s)
  /\ pulls' = Tail(pulls)
  /\ UNCHANGED <<cursors, sources, wants, got, readEnd>>

PullFails(s) ==
  /\ pulls # <<>> /\ Head(pulls) = s /\ ~window.exhausted
  /\ window.errored \/ ~window.closed
  /\ window' = [window EXCEPT !.errored = TRUE]
  /\ pulls' = Tail(pulls)
  /\ EndRead(s, "failed")
  /\ UNCHANGED <<cursors, sources, got>>

Resumable(s) ==
  wants[s] > 0 /\ \A i \in DOMAIN pulls : pulls[i] # s

\* pullThrough resumes: the window is tested again, then the loop's condition.
Reasserted(s) == Resumable(s) /\ window.closed

ReadRefused(s) ==
  /\ Reasserted(s)
  /\ EndRead(s, "closed")
  /\ UNCHANGED <<window, cursors, sources, pulls, got>>

PullAgain(s) ==
  /\ Resumable(s) /\ ~Reasserted(s) /\ PullMore(s)
  /\ pulls' = Append(pulls, s)
  /\ UNCHANGED <<window, cursors, sources, wants, got, readEnd>>

ReadEnds(s) ==
  /\ Resumable(s) /\ ~Reasserted(s) /\ ~PullMore(s)
  /\ window.pulled <= sources[s].at
  /\ EndRead(s, "eos")
  /\ UNCHANGED <<window, cursors, sources, pulls, got>>

\* readInto: copy from the cursor and advance it.  A source closed under its
\* own read has no cursor in the window any more, so the others may have
\* trimmed what it was going to read: the queue's assertion fails.
ReadInto(s) ==
  /\ Resumable(s) /\ ~Reasserted(s) /\ window.pulled > sources[s].at
  /\ LET take == Min({wants[s], window.pulled - sources[s].at})
         skip == sources[s].at - window.from
         moved == [sources EXCEPT ![s].at = @ + take]
     IN IF sources[s].at < window.from
        THEN EndRead(s, "internal") /\ UNCHANGED <<window, sources, got>>
        ELSE /\ got' = [got EXCEPT ![s] = @ \o SubSeq(window.queue, skip + 1, skip + take)]
             /\ sources' = moved
             /\ window' = Trimmed(cursors, moved)
             /\ EndRead(s, "bytes")
  /\ UNCHANGED <<cursors, pulls>>

\* peek() and slice(): a new cursor ahead of this one, under its budget.
OpenView(s, offset, budget) ==
  \E v \in PeekViews :
    /\ sources[v].state = "unborn"
    /\ sources' = [sources EXCEPT ![v] =
         [state |-> "open", at |-> sources[s].at + offset,
          started |-> sources[s].at + offset, limit |-> budget]]
    /\ cursors' = cursors \cup {v}
    /\ UNCHANGED <<window, pulls, wants, got, readEnd>>

Peek(s) == Usable(s) /\ OpenView(s, 0, RemainingBudget(s))

Slice(s) ==
  /\ Usable(s)
  /\ \E offset \in 0 .. MaxRead, count \in 0 .. MaxRead :
       OpenView(s, offset,
         IF RemainingBudget(s) <= offset THEN 0
         ELSE Min({count, RemainingBudget(s) - offset}))

\* #teardown: nothing is retained, and nothing can be read any more.
TornDown == [window EXCEPT !.closed = TRUE, !.queue = <<>>]

\* close(): a view gives up its cursor, the root tears the window down.
CloseSource(s) ==
  /\ sources[s].state = "open"
  /\ sources' = [sources EXCEPT ![s].state = "closed"]
  /\ IF s # Root
     THEN /\ cursors' = cursors \ {s}
          /\ window' = IF window.closed THEN window ELSE Trimmed(cursors \ {s}, sources)
     ELSE /\ cursors' = {}
          /\ window' = TornDown
  /\ UNCHANGED <<pulls, wants, got, readEnd>>

WindowNext ==
  \E s \in BufferedSources :
    \/ StartSourceRead(s) \/ PullAnswered(s) \/ PullFails(s) \/ ReadRefused(s)
    \/ PullAgain(s) \/ ReadEnds(s) \/ ReadInto(s)
    \/ Peek(s) \/ Slice(s) \/ CloseSource(s)

WindowSpec == WindowInit /\ [][WindowNext]_windowVars

-----------------------------------------------------------------------------

\* Whatever the other sources read, skip or close meanwhile, a source delivers
\* the bytes from its own start on, in order and within its budget (IO-19,
\* IO-20, IO-23); no read of an open source fails an assertion of the queue;
\* and a read that reports the end does so at the end of its budget or of the
\* stream, never because the window was torn down under it (IO-24).
ReadsInPlace ==
  \A s \in BufferedSources :
    /\ got[s] = [i \in 1 .. (sources[s].at - sources[s].started) |->
                   sources[s].started + i - 1]
    /\ Len(got[s]) <= sources[s].limit
    /\ sources[s].state = "open" => readEnd[s] # "internal"
    /\ readEnd[s] = "eos" => RemainingBudget(s) = 0 \/ window.ended
=============================================================================
