------------------------------- MODULE ByteQueue -------------------------------
(***************************************************************************)
(* ByteQueue: a linked list of chunks with a partly consumed head, and a   *)
(* memo of the chunk the last random access ended in, so that a scan need  *)
(* not walk the list from its head each time.  The memo outlives appends   *)
(* and is dropped, by a generation count, when bytes leave the queue.      *)
(*                                                                         *)
(* A byte is its number in the order written.  Chunks that were dropped    *)
(* stay in the heap: a stale memo could still point at one.                *)
(***************************************************************************)
EXTENDS Integers, Sequences, FiniteSetsExt, SequencesExt

CONSTANTS
  MaxQueued,   \* bound: bytes written
  MaxPiece     \* bound: bytes of one write

ASSUME ByteQueueAssumption == MaxQueued \in Nat /\ MaxPiece \in Nat \ {0}

VARIABLES
  chunks,      \* every chunk allocated: its first byte, length and read start
  headChunk,   \* index of the head of the list; one past the end when empty
  written,     \* bytes written so far
  queued,      \* #size
  generation,  \* bumped whenever bytes leave
  seekMemo     \* chunk, logical start and generation of the last access

queueVars == <<chunks, headChunk, written, queued, generation, seekMemo>>

NoChunk == 0   \* the memo of an access at the end of the list

ByteQueueInit ==
  /\ chunks = <<>> /\ headChunk = 1
  /\ written = 0 /\ queued = 0 /\ generation = 0
  /\ seekMemo = [chunk |-> NoChunk, start |-> 0, generation |-> -1]

-----------------------------------------------------------------------------

Available(c) == chunks[c].length - chunks[c].start
LiveBytes(c) == [i \in 1 .. Available(c) |-> chunks[c].first + chunks[c].start + i - 1]
BytesFrom(c) == FlattenSeq([i \in 1 .. (Len(chunks) - c + 1) |-> LiveBytes(c + i - 1)])

\* Mutant: the memo is trusted whatever has left the queue since.
MemoUsableAlways(offset) ==
  /\ seekMemo.chunk # NoChunk
  /\ seekMemo.start <= offset

\* #seek: start at the memo when it is of this generation and not past the
\* offset, else at the head; walk to the chunk the offset lies in.
MemoUsable(offset) ==
  /\ seekMemo.chunk # NoChunk
  /\ seekMemo.generation = generation
  /\ seekMemo.start <= offset

SeekStart(offset) ==
  IF MemoUsable(offset) THEN [chunk |-> seekMemo.chunk, start |-> seekMemo.start]
  ELSE [chunk |-> headChunk, start |-> 0]

Seek(offset) ==
  LET begin == SeekStart(offset)
      startOf(c) == begin.start + Len(BytesFrom(begin.chunk)) - Len(BytesFrom(c))
      reached == {c \in begin.chunk .. Len(chunks) : offset < startOf(c) + Available(c)}
  IN [chunk |-> IF reached = {} THEN NoChunk ELSE Min(reached),
      start |-> IF reached = {} THEN startOf(Len(chunks) + 1) ELSE startOf(Min(reached)),
      generation |-> generation]

Materialize(offset, count) ==
  LET seek == Seek(offset)
      skip == offset - seek.start
  IN IF seek.chunk = NoChunk THEN <<>>
     ELSE SubSeq(BytesFrom(seek.chunk), skip + 1, skip + count)

AppendChunk(n) == Append(chunks, [first |-> written, length |-> n, start |-> 0])

\* writeBytes and #append: the memo stays valid.
WritePiece ==
  /\ \E n \in 1 .. MaxPiece :
       /\ written + n <= MaxQueued
       /\ chunks' = AppendChunk(n)
       /\ written' = written + n /\ queued' = queued + n
  /\ UNCHANGED <<headChunk, generation, seekMemo>>

\* copyOut, copyTo and snapshot leave the bytes and move the memo.
CopyPiece ==
  /\ \E offset \in 0 .. queued : seekMemo' = Seek(offset)
  /\ UNCHANGED <<chunks, headChunk, written, queued, generation>>

\* What #discard and #moveTo leave of a chunk once count bytes went: chunks
\* used up are dropped from the head.
BytesBefore(c) == Len(BytesFrom(headChunk)) - Len(BytesFrom(c))

Consumed(count) ==
  [c \in DOMAIN chunks |->
     IF c < headChunk THEN chunks[c]
     ELSE [chunks[c] EXCEPT !.start =
             @ + Min({Available(c), Max({0, count - BytesBefore(c)})})]]

DropBytes(count) ==
  /\ chunks' = Consumed(count)
  /\ headChunk' = Min({c \in headChunk .. Len(chunks) :
                         BytesBefore(c) + Available(c) > count} \cup {Len(chunks) + 1})
  /\ queued' = queued - count
  /\ generation' = generation + 1

\* skip(), and read() or write() moving bytes to another queue.
DiscardPiece ==
  /\ \E count \in 1 .. queued : DropBytes(count)
  /\ UNCHANGED <<written, seekMemo>>

\* takeBytes() materializes from the head, which moves the memo, then drops.
TakePiece ==
  /\ \E count \in 1 .. queued : DropBytes(count) /\ seekMemo' = Seek(0)
  /\ UNCHANGED written

\* clear(); of an empty queue it would change the generation alone.
ClearQueue ==
  /\ queued > 0
  /\ headChunk' = Len(chunks) + 1 /\ queued' = 0
  /\ generation' = generation + 1
  /\ UNCHANGED <<chunks, written, seekMemo>>

ByteQueueNext ==
  WritePiece \/ CopyPiece \/ DiscardPiece \/ TakePiece \/ ClearQueue

ByteQueueSpec == ByteQueueInit /\ [][ByteQueueNext]_queueVars

-----------------------------------------------------------------------------

\* The queue is the flat sequence of the bytes written and not yet taken, and
\* whatever mix of appends, moves and random accesses came before, no window
\* into it is read from a chunk the memo should have forgotten.
QueueIsFlat ==
  /\ Len(BytesFrom(headChunk)) = queued
  /\ \A offset \in 0 .. queued : \A count \in 0 .. (queued - offset) :
       Materialize(offset, count) =
         [i \in 1 .. count |-> written - queued + offset + i - 1]
=============================================================================
