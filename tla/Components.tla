------------------------------ MODULE Components ------------------------------
(***************************************************************************)
(* The components that run beside the pipeline, side by side, and what     *)
(* several of them promise together.  They share no state: a behaviour of  *)
(* all of them is one that is a behaviour of each.                         *)
(***************************************************************************)
EXTENDS CallContexts, LoggingStep, Transport, Paginator, RxBridge, RecoveryChain,
        ResponseBody, LoggedBody, BodyWrites, RetentionWindow, ByteQueue, SinkChain

\* Watching a call changes nothing of it: one operation span per call, and a
\* logging step that hands on what it was given.
ObservabilityIsTransparent == OperationSpanOnce /\ LoggingIsTransparent

\* Whoever leaves a walk or a subscription, and whenever: what it held has been
\* released, once, and a failed release has been heard.
TeardownReleases == PagesReleased /\ CloseFailureHeard /\ RxReleasesOnce

\* A response is released by whoever owned it last: by the chain that replaced
\* or refused it, and by the call that read it.
ResponsesReleased == RecoveryReleases /\ ReadersRelease

\* No body is taken for whole that is not: neither the captured one a caller
\* reads, nor the one a sink is told is complete, nor what a reader of a
\* response makes of it.
BodiesAreWhole == NoSilentTruncation /\ CommittedIsWhole /\ NoPartialRead

\* Bytes are read where they are: by every cursor of a shared window, and from
\* the queue under it whatever the memo of its last access says; and they are
\* written in the order of the writes.
BytesInPlace == ReadsInPlace /\ QueueIsFlat /\ WritesArriveInOrder
=============================================================================
