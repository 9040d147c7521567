------------------------------ MODULE SinkChain ------------------------------
(***************************************************************************)
(* A BufferedSink over a native writable stream, alone or under a TeeSink, *)
(* with several writers that need not await each other.                    *)
(*                                                                         *)
(* A writer has a queue of bytes of its own.  Every write that reaches the *)
(* native writer gets a number; the writer handles them in order, one at a *)
(* time.                                                                   *)
(***************************************************************************)
EXTENDS Naturals, Sequences, SequencesExt, FiniteSets

CONSTANTS
  Writers,     \* who writes into the sink
  QueueBytes,  \* bytes in each writer's queue at the start
  TapLimit,    \* bytes the tee's tap keeps
  MaxPushes    \* bound: writes that reach the native writer

ASSUME SinkAssumption == {QueueBytes, TapLimit, MaxPushes} \subseteq Nat

VARIABLES
  teed,      \* is there a TeeSink in front?
  tap,       \* what the tee mirrored
  pushes,    \* the writes handed to the native writer: who, the bytes, how it ended
  sinkState, \* "writable", "closing", "closed", "erroring" or "errored"
  release,   \* the memoized teardown: "none", "close", "abort", "done" or "failed"
  wire,      \* bytes the destination has taken
  writers    \* per writer: its queue, what it waits for, how its last call ended

sinkVars == <<teed, tap, pushes, sinkState, release, wire, writers>>

SinkStarts(tee) ==
  /\ teed = tee /\ tap = <<>> /\ pushes = <<>> /\ wire = <<>>
  /\ sinkState = "writable" /\ release = "none"
  /\ writers = [w \in Writers |->
       [queue |-> [i \in 1 .. QueueBytes |-> <<w, i>>], at |-> "idle", for |-> 0, ended |-> "ok"]]

SinkInit == \E tee \in BOOLEAN : SinkStarts(tee)

-----------------------------------------------------------------------------

SinkClosed == release # "none"
Pending == {n \in DOMAIN pushes : pushes[n].state = "pending"}

\* The write the native writer is busy with.
InFlight == CHOOSE n \in Pending : \A m \in Pending : n <= m

Ends(w, how) == writers' = [writers EXCEPT ![w].at = "idle", ![w].ended = how]

UpTo(s, n) == SubSeq(s, 1, IF n < Len(s) THEN n ELSE Len(s))

\* #mirror: as much as there is room for, before anything is forwarded.
Mirrored(bytes) ==
  IF teed THEN tap \o UpTo(bytes, TapLimit - Len(tap)) ELSE tap

\* The tee refuses a closed sink before it touches the tap, and both refuse a
\* short queue; nothing is taken from the queue until the write has resolved.
Write(w) ==
  /\ writers[w].at = "idle" /\ Len(pushes) < MaxPushes
  /\ \E count \in 0 .. QueueBytes :
       LET bytes == UpTo(writers[w].queue, count)
           push(state) == Append(pushes, [by |-> w, bytes |-> bytes, state |-> state]) IN
         CASE SinkClosed -> Ends(w, "closed") /\ UNCHANGED <<tap, pushes>>
           [] ~SinkClosed /\ count > Len(writers[w].queue) ->
                Ends(w, "short") /\ UNCHANGED <<tap, pushes>>
           [] ~SinkClosed /\ count = 0 -> Ends(w, "ok") /\ UNCHANGED <<tap, pushes>>
           [] OTHER ->
                /\ tap' = Mirrored(bytes)
                /\ IF sinkState = "writable"
                   THEN /\ pushes' = push("pending")
                        /\ writers' = [writers EXCEPT ![w].at = "writing", ![w].for = Len(pushes'),
                                                ![w].ended = "ok"]
                   ELSE pushes' = push("failed") /\ Ends(w, "failed")
  /\ UNCHANGED <<teed, sinkState, release, wire>>

\* Writers that wait for the pushes of a set learn that they failed.
Rejected(failed) ==
  [w \in Writers |->
     IF writers[w].at = "writing" /\ writers[w].for \in failed
     THEN [writers[w] EXCEPT !.at = "idle", !.ended = "failed"] ELSE writers[w]]

PushSettled(set, state) ==
  [n \in DOMAIN pushes |-> IF n \in set THEN [pushes[n] EXCEPT !.state = state] ELSE pushes[n]]

\* The destination takes the bytes; only now does the queue give them up.
WriteResolves ==
  /\ Pending # {}
  /\ LET p == pushes[InFlight] IN
       /\ wire' = wire \o p.bytes
       /\ pushes' = PushSettled({InFlight}, "ok")
       /\ writers' = [writers EXCEPT ![p.by].queue = SubSeq(@, Len(p.bytes) + 1, Len(@)),
                                   ![p.by].at = "idle", ![p.by].ended = "ok"]
  /\ UNCHANGED <<teed, tap, sinkState, release>>

\* It refuses them: the stream is errored, and with it every write behind.
WriteRejects ==
  /\ Pending # {}
  /\ pushes' = PushSettled(Pending, "failed")
  /\ writers' = Rejected(Pending)
  /\ sinkState' = "errored"
  /\ release' = IF release \in {"close", "abort"} THEN "failed" ELSE release
  /\ UNCHANGED <<teed, tap, wire>>

\* emit awaits the last write, flush the destination's readiness as well.
StartEmit(w) ==
  /\ writers[w].at = "idle"
  /\ IF SinkClosed THEN Ends(w, "closed")
     ELSE \E at \in {"emitting", "flushing"} :
            writers' = [writers EXCEPT ![w].at = at, ![w].for = Len(pushes), ![w].ended = "ok"]
  /\ UNCHANGED <<teed, tap, pushes, sinkState, release, wire>>

EmitEnds(w) ==
  /\ writers[w].at \in {"emitting", "flushing"}
  /\ LET last == writers[w].for IN
       /\ last \notin Pending
       /\ IF last > 0 /\ pushes[last].state = "failed" THEN Ends(w, "failed")
          ELSE IF writers[w].at = "emitting" THEN Ends(w, "flushed")
          ELSE /\ Pending = {} \/ sinkState = "errored"
               /\ Ends(w, IF sinkState \in {"writable", "closing", "closed"} THEN "flushed" ELSE "failed")
  /\ UNCHANGED <<teed, tap, pushes, sinkState, release, wire>>

\* close and abort share one promise, whichever came first.
CloseSink ==
  /\ release = "none"
  /\ IF sinkState = "writable"
     THEN sinkState' = "closing" /\ release' = "close"
     ELSE release' = "failed" /\ UNCHANGED sinkState
  /\ UNCHANGED <<teed, tap, pushes, wire, writers>>

CloseSettles ==
  /\ release = "close" /\ Pending = {}
  /\ \/ sinkState' = "closed" /\ release' = "done"
     \/ sinkState' = "errored" /\ release' = "failed"
  /\ UNCHANGED <<teed, tap, pushes, wire, writers>>

\* The write in flight may still arrive, the ones behind it are rejected.
AbortSink ==
  /\ release = "none"
  /\ IF sinkState = "writable"
     THEN LET behind == IF Pending = {} THEN {} ELSE Pending \ {InFlight} IN
            /\ sinkState' = "erroring" /\ release' = "abort"
            /\ pushes' = PushSettled(behind, "failed")
            /\ writers' = Rejected(behind)
     ELSE release' = "done" /\ UNCHANGED <<sinkState, pushes, writers>>
  /\ UNCHANGED <<teed, tap, wire>>

AbortSettles ==
  /\ release = "abort" /\ Pending = {}
  /\ sinkState' = "errored" /\ release' \in {"done", "failed"}
  /\ UNCHANGED <<teed, tap, pushes, wire, writers>>

SinkNext ==
  \/ WriteResolves \/ WriteRejects \/ CloseSink \/ CloseSettles \/ AbortSink \/ AbortSettles
  \/ \E w \in Writers : Write(w) \/ StartEmit(w) \/ EmitEnds(w)

SinkSpec == SinkInit /\ [][SinkNext]_sinkVars

-----------------------------------------------------------------------------

Flat(ps) == FlattenSeq([n \in DOMAIN ps |-> ps[n].bytes])

\* The bytes of the writes of some writers that resolved.
Resolved(ws) ==
  FlattenSeq([n \in DOMAIN pushes |->
    IF pushes[n].by \in ws /\ pushes[n].state = "ok" THEN pushes[n].bytes ELSE <<>>])

\* The destination has the writes that resolved, in the order they were made
\* and without a hole; what did not resolve is still in its writer's queue; the
\* tap has what was attempted, up to its limit; a destination that was closed,
\* not aborted, has all of it; and who was told that its writes were handed on
\* was told the truth.
WritesArriveInOrder ==
  /\ wire = Resolved(Writers)
  /\ \A m, n \in DOMAIN pushes : m < n /\ pushes[n].state = "ok" => pushes[m].state = "ok"
  /\ \A w \in Writers :
       Resolved({w}) \o writers[w].queue = [i \in 1 .. QueueBytes |-> <<w, i>>]
  /\ teed => tap = UpTo(Flat(pushes), TapLimit)
  /\ sinkState = "closed" => \A n \in DOMAIN pushes : pushes[n].state = "ok"
  /\ \A w \in Writers : writers[w].ended = "flushed" =>
       \A n \in 1 .. writers[w].for : pushes[n].state = "ok"
=============================================================================
