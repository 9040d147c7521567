------------------------------- MODULE RxBridge -------------------------------
(***************************************************************************)
(* fromAsyncIterable: an async iterator driven by a loop that feeds an     *)
(* RxJS subscriber, and the finalizer RxJS runs on every termination.  The *)
(* source is an async generator: a return() waits behind a pull in flight, *)
(* which only a value, an end, an error or the source's release settles.   *)
(***************************************************************************)
EXTENDS Naturals

CONSTANT MaxValues   \* bound: values the source yields

ASSUME RxAssumption == MaxValues \in Nat

VARIABLES
  loop,        \* the loop: before a pull, in one, or out of it
  pull,        \* the pull in flight: "none", "pending", or how it settled
  subscriber,  \* "open", or how it was closed
  returnsRx,   \* calls of iterator.return()
  releasesRx,  \* calls of the caller's release
  sourceRx,    \* the source: values given, and whether it was released
  heardRx      \* values the subscriber was given, and those it got once closed

rxVars == <<loop, pull, subscriber, returnsRx, releasesRx, sourceRx, heardRx>>

RxInit ==
  /\ loop = "testing" /\ pull = "none" /\ subscriber = "open"
  /\ returnsRx = 0 /\ releasesRx = 0
  /\ sourceRx = [given |-> 0, released |-> FALSE]
  /\ heardRx = [values |-> 0, late |-> 0]

-----------------------------------------------------------------------------

Cancelled == subscriber # "open"

\* returnOnce, whoever comes first.
ReturnOnce == returnsRx' = IF returnsRx = 0 THEN 1 ELSE returnsRx

\* Closing the subscriber runs its finalizer there and then: the release, and
\* then the return.  Closing it again runs nothing.
CloseSubscriber(how) ==
  IF subscriber = "open"
  THEN /\ subscriber' = how
       /\ releasesRx' = releasesRx + 1
       /\ sourceRx' = [sourceRx EXCEPT !.released = TRUE]
       /\ ReturnOnce
  ELSE UNCHANGED <<subscriber, releasesRx, sourceRx, returnsRx>>

Unsubscribe ==
  /\ subscriber = "open"
  /\ CloseSubscriber("unsubscribed")
  /\ UNCHANGED <<loop, pull, heardRx>>

PullNext ==
  /\ loop = "testing" /\ subscriber = "open"
  /\ loop' = "pulling" /\ pull' = "pending"
  /\ UNCHANGED <<subscriber, returnsRx, releasesRx, sourceRx, heardRx>>

\* The source answers, if it ever does; a released one ends or fails.
PullSettles ==
  /\ pull = "pending"
  /\ \/ /\ sourceRx.given < MaxValues /\ ~sourceRx.released
        /\ sourceRx' = [sourceRx EXCEPT !.given = @ + 1]
        /\ pull' = "value"
     \/ pull' \in {"done", "error"} /\ UNCHANGED sourceRx
  /\ UNCHANGED <<loop, subscriber, returnsRx, releasesRx, heardRx>>

\* The loop resumes with a value: dropped if the subscriber has closed since,
\* else delivered, and the consumer may unsubscribe inside that call.
DeliverValue ==
  /\ loop = "pulling" /\ pull = "value" /\ ~Cancelled
  /\ heardRx' = [values |-> heardRx.values + 1,
                 late |-> heardRx.late + IF subscriber = "open" THEN 0 ELSE 1]
  /\ pull' = "none" /\ loop' = "testing"
  /\ \/ CloseSubscriber("unsubscribed")
     \/ UNCHANGED <<subscriber, releasesRx, sourceRx, returnsRx>>

LoopBreaks ==
  /\ \/ loop = "pulling" /\ pull = "done"
     \/ loop = "pulling" /\ pull = "value" /\ Cancelled
     \/ loop = "testing" /\ subscriber # "open"
  /\ loop' = "returning" /\ pull' = "none"
  /\ CloseSubscriber("completed")
  /\ UNCHANGED heardRx

PullThrows ==
  /\ loop = "pulling" /\ pull = "error"
  /\ loop' = "returning" /\ pull' = "none"
  /\ CloseSubscriber("errored")
  /\ UNCHANGED heardRx

\* The finally block of the loop.
LoopReturns ==
  /\ loop = "returning"
  /\ loop' = "over"
  /\ ReturnOnce
  /\ UNCHANGED <<pull, subscriber, releasesRx, sourceRx, heardRx>>

RxNext ==
  \/ Unsubscribe \/ PullNext \/ PullSettles \/ DeliverValue
  \/ LoopBreaks \/ PullThrows \/ LoopReturns

RxSpec == RxInit /\ [][RxNext]_rxVars

-----------------------------------------------------------------------------

\* Once the subscriber is closed, by whom and wherever the pull stands, the
\* source has been released and the iterator returned, each exactly once; and
\* nothing is done to either before (ASYNC-6, ASYNC-21).  No value reaches a
\* subscriber that has gone, whenever the pull that carries it settles.
RxReleasesOnce ==
  /\ heardRx.late = 0
  /\ IF subscriber = "open" THEN returnsRx = 0 /\ releasesRx = 0
     ELSE returnsRx = 1 /\ releasesRx = 1
=============================================================================
