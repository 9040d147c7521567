----------------------------- MODULE LoggingStep -----------------------------
(***************************************************************************)
(* The LOGGING pillar step as an outer step (RETRY, REDIRECT) drives it    *)
(* under Runtime.send: the request body's tap, the span of each attempt,   *)
(* the response capture, metrics and events, and the async-scoped slot the *)
(* active span is kept in.                                                 *)
(*                                                                         *)
(* A frame is what AsyncLocalStorage gives code between two awaits: the    *)
(* synchronous prefix of an async function runs in its caller's frame,     *)
(* its continuations have a frame of their own that starts as a copy.      *)
(* Tracer, meter, logger, transport and body delegate are external.        *)
(***************************************************************************)
EXTENDS Naturals, Sequences, FiniteSets

CONSTANTS
  LogCalls,     \* the send() calls one application frame issues
  MaxDrives,    \* bound: attempts of one call
  TapCap,       \* preview size, in chunks
  MaxChunks     \* bound: chunks of a request body

ASSUME LoggingAssumption ==
  /\ MaxDrives \in Nat \ {0}
  /\ TapCap \in Nat \ {0}
  /\ MaxChunks \in Nat

VARIABLES
  logging,     \* settings: tracers, granularity, SPI callbacks that throw
  appSpan,     \* the span active in the application's frame
  driverSpan,  \* ... in the frame of the step that drives LOGGING
  stepSpan,    \* ... in the frame of the LOGGING step itself
  spanEnds,    \* of each span started: how often end() was called
  logPc,       \* where each call is
  operation,   \* the operation span of each call
  attempt,     \* the attempt under way of each call
  drives,      \* attempts of each call so far
  tapped       \* the request body of each call: tap, chunks, primary sink

logVars == <<logging, appSpan, driverSpan, stepSpan, spanEnds, logPc,
             operation, attempt, drives, tapped>>

\* NOOP_SPAN and an empty slot: neither records.
NoSpan == 0
Recording(span) == span # NoSpan

Bodies == {"none", "replayable", "oneShot"}
NewAttempt(span, before) ==
  [span |-> span, before |-> before, gave |-> "none", hands |-> "none", metered |-> 0,
   logged |-> <<>>, closed |-> 0]
NoAttempt == NewAttempt(NoSpan, NoSpan)
NoTap == [body |-> "none", chunks |-> 0, mirrored |-> 0, sink |-> "none", failed |-> FALSE]

Settings == [operations : BOOLEAN, attempts : BOOLEAN, throws : BOOLEAN,
             granularity : {"none", "headers", "body"}]

LoggingStarts(settings) ==
  /\ logging = settings
  /\ appSpan = NoSpan /\ spanEnds = <<>>
  /\ driverSpan = [c \in LogCalls |-> NoSpan]
  /\ stepSpan = [c \in LogCalls |-> NoSpan]
  /\ logPc = [c \in LogCalls |-> "idle"]
  /\ operation = [c \in LogCalls |-> NoSpan]
  /\ attempt = [c \in LogCalls |-> NoAttempt]
  /\ drives = [c \in LogCalls |-> 0]
  /\ tapped = [c \in LogCalls |-> NoTap]

LoggingInit == \E settings \in Settings : LoggingStarts(settings)

-----------------------------------------------------------------------------
(* Runtime.send and the span slot                                          *)

\* startOperationSpan: none inside a recording span or without a tracer.
OpensOperation == logging.operations /\ ~Recording(appSpan)

\* resolveTracer: the step's own factory, or the one of the call's context.
TracesAttempts == logging.attempts \/ logging.operations

\* The spans a stretch starts, in order.
Started(n) == spanEnds' = spanEnds \o [i \in 1 .. n |-> 0]

\* The head of handleRequestExecution: start the span, activate it over what
\* the current frame has, prepare the body.  The probe of a replayable body
\* writes it to nowhere first; its size and preview are not needed here.
Probes(body) == logging.granularity = "body" /\ body = "replayable"

Entered(c, span, before, body) ==
  /\ attempt' = [attempt EXCEPT ![c] = NewAttempt(span, before)]
  /\ stepSpan' = [stepSpan EXCEPT ![c] = span]
  /\ drives' = [drives EXCEPT ![c] = @ + 1]
  /\ logPc' = [logPc EXCEPT ![c] = IF Probes(body) THEN "probing" ELSE "requesting"]
  /\ tapped' = [tapped EXCEPT ![c] =
       [NoTap EXCEPT !.body = body, !.sink = IF Probes(body) THEN "open" ELSE "none"]]

\* send(), when no step outside LOGGING awaits anything before it drives it:
\* the span slot is still the application's, unless an operation span put a
\* run() around the drive.
SendThrough(c) ==
  /\ logPc[c] = "idle"
  /\ \E body \in Bodies :
       LET opened == IF OpensOperation THEN Len(spanEnds) + 1 ELSE NoSpan
           count == (IF OpensOperation THEN 1 ELSE 0) + (IF TracesAttempts THEN 1 ELSE 0)
           span == IF TracesAttempts THEN Len(spanEnds) + count ELSE NoSpan
       IN /\ Started(count)
          /\ operation' = [operation EXCEPT ![c] = opened]
          /\ Entered(c, span, IF OpensOperation THEN opened ELSE appSpan, body)
          /\ driverSpan' = [driverSpan EXCEPT ![c] = span]
          /\ appSpan' = IF OpensOperation THEN appSpan ELSE span
  /\ UNCHANGED logging

\* send(), when an outer step awaits first.
SendDeferred(c) ==
  /\ logPc[c] = "idle"
  /\ LET opened == IF OpensOperation THEN Len(spanEnds) + 1 ELSE NoSpan
     IN /\ Started(IF OpensOperation THEN 1 ELSE 0)
        /\ operation' = [operation EXCEPT ![c] = opened]
        /\ driverSpan' = [driverSpan EXCEPT ![c] = IF OpensOperation THEN opened ELSE appSpan]
  /\ \E body \in Bodies : tapped' = [tapped EXCEPT ![c] = [NoTap EXCEPT !.body = body]]
  /\ logPc' = [logPc EXCEPT ![c] = "driving"]
  /\ UNCHANGED <<logging, appSpan, stepSpan, attempt, drives>>

\* The outer step drives LOGGING from a continuation of its own; the slot it
\* leaves behind is the driver's.
Drive(c) ==
  /\ logPc[c] = "driving" /\ drives[c] < MaxDrives
  /\ LET span == IF TracesAttempts THEN Len(spanEnds) + 1 ELSE NoSpan
     IN /\ Started(IF TracesAttempts THEN 1 ELSE 0)
        /\ Entered(c, span, driverSpan[c], tapped[c].body)
        /\ driverSpan' = [driverSpan EXCEPT ![c] = span]
  /\ UNCHANGED <<logging, appSpan, operation>>

-----------------------------------------------------------------------------
(* The tap: one writeTo of the logged body, by the probe or the transport  *)

Writing(c) == logPc[c] \in {"probing", "sending"} /\ tapped[c].sink = "open"

\* A chunk is mirrored up to the cap before it is forwarded, so one that the
\* primary rejects is in the preview.
MirrorChunk(c) ==
  /\ Writing(c) /\ tapped[c].chunks < MaxChunks
  /\ tapped' = [tapped EXCEPT ![c].chunks = @ + 1,
                              ![c].mirrored = IF @ < TapCap THEN @ + 1 ELSE @]
  /\ UNCHANGED <<logging, appSpan, driverSpan, stepSpan, spanEnds, logPc, operation, attempt, drives>>

\* The delegate settles: it closed or aborted the adapter, or did neither, in
\* which case the wrapper closes or aborts the primary on its behalf.
TapSettles(c) ==
  /\ Writing(c)
  /\ \E failed \in BOOLEAN :
       /\ tapped' = [tapped EXCEPT ![c].sink = IF failed THEN "aborted" ELSE "closed",
                                   ![c].failed = failed]
       /\ logPc' = [logPc EXCEPT ![c] = IF @ = "probing" THEN "requesting" ELSE @]
  /\ UNCHANGED <<logging, appSpan, driverSpan, stepSpan, spanEnds, operation, attempt, drives>>

-----------------------------------------------------------------------------
(* executePipeline                                                         *)

\* emitRequestEvent and the others: nothing at granularity none, and an
\* emission that throws is contained.
Logged(c, event) ==
  IF logging.granularity = "none" THEN attempt[c].logged
  ELSE Append(attempt[c].logged, event)

\* next(): the transport writes the body, whose tap starts over.
NextCalled(c) ==
  /\ logPc[c] = "requesting"
  /\ logPc' = [logPc EXCEPT ![c] = "sending"]
  /\ attempt' = [attempt EXCEPT ![c].logged = Logged(c, "request")]
  /\ tapped' = [tapped EXCEPT ![c].chunks = 0, ![c].mirrored = 0, ![c].failed = FALSE,
       ![c].sink = IF tapped[c].body # "none" /\ logging.granularity = "body"
                   THEN "open" ELSE "none"]
  /\ UNCHANGED <<logging, appSpan, driverSpan, stepSpan, spanEnds, operation, drives>>

\* The rest of the pipeline answers, possibly before the body was written out,
\* or rejects.
NextSettles(c) ==
  /\ logPc[c] = "sending"
  /\ \E gave \in {"response", "error"} :
       /\ tapped[c].failed => gave = "error"
       /\ attempt' = [attempt EXCEPT ![c].gave = gave, ![c].hands = gave]
       /\ logPc' = [logPc EXCEPT ![c] =
            IF gave = "error" THEN "failing"
            ELSE IF logging.granularity = "body" THEN "capturing" ELSE "measuring"]
  /\ tapped' = [tapped EXCEPT ![c].sink = "none"]
  /\ UNCHANGED <<logging, appSpan, driverSpan, stepSpan, spanEnds, operation, drives>>

\* captureResponseBody: a body of declared length is replaced by its capture;
\* without one, or when the capture fails, the response is handed on as it is.
Capture(c) ==
  /\ logPc[c] = "capturing"
  /\ \E hands \in {"response", "captured"} : attempt' = [attempt EXCEPT ![c].hands = hands]
  /\ logPc' = [logPc EXCEPT ![c] = "measuring"]
  /\ UNCHANGED <<logging, appSpan, driverSpan, stepSpan, spanEnds, operation, drives, tapped>>

\* Metrics, then the response event.  A meter that throws ends in the catch.
Measure(c) ==
  /\ logPc[c] = "measuring"
  /\ \/ /\ attempt' = [attempt EXCEPT ![c].metered = @ + 1, ![c].logged = Logged(c, "response")]
        /\ logPc' = [logPc EXCEPT ![c] = "ending"]
     \/ /\ logging.throws
        /\ attempt' = [attempt EXCEPT ![c].hands = "spi"]
        /\ logPc' = [logPc EXCEPT ![c] = "failing"]
  /\ UNCHANGED <<logging, appSpan, driverSpan, stepSpan, spanEnds, operation, drives, tapped>>

\* The catch: metrics, the failure event, recordException, rethrow.
RecordError(c) ==
  /\ logPc[c] = "failing"
  /\ \/ attempt' = [attempt EXCEPT ![c].metered = @ + 1, ![c].logged = Logged(c, "failure")]
     \/ logging.throws /\ attempt' = [attempt EXCEPT ![c].hands = "spi"]
  /\ logPc' = [logPc EXCEPT ![c] = "ending"]
  /\ UNCHANGED <<logging, appSpan, driverSpan, stepSpan, spanEnds, operation, drives, tapped>>

EndCalled(span) ==
  IF Recording(span) THEN [spanEnds EXCEPT ![span] = @ + 1] ELSE spanEnds

\* The nested finally: end(), which may throw, and the scope's close(), which
\* restores the slot of the frame it runs in.
LeaveStep(c) ==
  /\ logPc[c] = "ending"
  /\ spanEnds' = EndCalled(attempt[c].span)
  /\ \/ attempt' = [attempt EXCEPT ![c].closed = @ + 1]
     \/ logging.throws /\ attempt' = [attempt EXCEPT ![c].closed = @ + 1, ![c].hands = "spi"]
  /\ stepSpan' = [stepSpan EXCEPT ![c] = attempt[c].before]
  /\ logPc' = [logPc EXCEPT ![c] = "attempted"]
  /\ UNCHANGED <<logging, appSpan, driverSpan, operation, drives, tapped>>

\* The driving step goes round again; a body it cannot send twice ends it.
DriveAgain(c) ==
  /\ logPc[c] = "attempted" /\ drives[c] < MaxDrives /\ tapped[c].body # "oneShot"
  /\ logPc' = [logPc EXCEPT ![c] = "driving"]
  /\ UNCHANGED <<logging, appSpan, driverSpan, stepSpan, spanEnds, operation, attempt, drives, tapped>>

\* The call settles: driveWithSpan ends the operation span.
CallEnds(c) ==
  /\ logPc[c] = "attempted"
  /\ spanEnds' = EndCalled(operation[c])
  /\ logPc' = [logPc EXCEPT ![c] = "settled"]
  /\ UNCHANGED <<logging, appSpan, driverSpan, stepSpan, operation, attempt, drives, tapped>>

LoggingNext == \E c \in LogCalls :
  \/ SendThrough(c) \/ SendDeferred(c) \/ Drive(c)
  \/ MirrorChunk(c) \/ TapSettles(c)
  \/ NextCalled(c) \/ NextSettles(c) \/ Capture(c)
  \/ Measure(c) \/ RecordError(c) \/ LeaveStep(c) \/ DriveAgain(c) \/ CallEnds(c)

LoggingSpec == LoggingInit /\ [][LoggingNext]_logVars

-----------------------------------------------------------------------------
(* Properties                                                              *)

InStep(c) == logPc[c] \in {"probing", "requesting", "sending", "capturing",
                           "measuring", "failing", "ending"}

\* Whatever the tap, the probe, the capture and the sinks do, the step hands on
\* what the pipeline inside it gave, the kind of it at least, unless a tracer
\* or a meter breaks its promise not to throw; it records one metric and one
\* outcome event per attempt; its span is the active one of its frame as long
\* as it runs, and is ended once, before its scope is closed once, on each of
\* the ways out; and the preview holds no chunk of an earlier write.
\* (logging-step.ts:413-499, request-body-logging.ts:44-141)
LoggingIsTransparent ==
  \A c \in LogCalls :
    /\ InStep(c) => stepSpan[c] = attempt[c].span
    /\ InStep(c) /\ Recording(attempt[c].span) => spanEnds[attempt[c].span] = 0
    /\ tapped[c].mirrored = IF tapped[c].chunks < TapCap THEN tapped[c].chunks ELSE TapCap
    /\ logPc[c] = "attempted" =>
         /\ attempt[c].closed = 1
         /\ Recording(attempt[c].span) => spanEnds[attempt[c].span] = 1
         /\ attempt[c].hands \in
              IF attempt[c].gave = "error" THEN {"error", "spi"} ELSE {"response", "captured", "spi"}
         /\ ~logging.throws =>
              /\ attempt[c].hands # "spi" /\ attempt[c].metered = 1
              /\ Len(attempt[c].logged) = IF logging.granularity = "none" THEN 0 ELSE 2

\* "The caller's async context is restored when this settles": once no call is
\* under way the application's frame has the active span it had, none.
\* (runtime.ts:200-203, pipelines.md:147-150)
CallerContextRestored ==
  (\A c \in LogCalls : logPc[c] \in {"idle", "settled"}) => appSpan = NoSpan
=============================================================================
