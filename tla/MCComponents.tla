----------------------------- MODULE MCComponents -----------------------------
(***************************************************************************)
(* The components that run beside the pipeline, each on a small instance.  *)
(* They share no state, so one run checks them all: the initial state      *)
(* picks a component, whose behaviours are then those of its own           *)
(* specification while the others rest where they start.  Questions about  *)
(* values are initial states of a component "values" that takes no step.   *)
(***************************************************************************)
EXTENDS Components, PipelineBuilder, DigestAuth, SseParser, ValueQuestions

CONSTANTS c1, c2, c3, k1, k2   \* calls and context keys

VARIABLE component

\* Two calls that pin the same key, and a third nested in the first.
CallKeys == (c1 :> k1) @@ (c2 :> k1) @@ (c3 :> k2)
CallParents == (c1 :> NoCall) @@ (c2 :> NoCall) @@ (c3 :> c1)

\* Two pillars around an ordinary stage.
BuilderStages == <<"RETRY", "PRE_AUTH", "AUTH", "SEND">>

\* Fields with and without a colon, a space or a legal value, every line
\* terminator, and a byte order mark.
StreamPieces ==
  {<<"data">>, <<"data", ":", " ", "a">>, <<"id", ":", "NUL">>, <<"id", ":", "a">>,
   <<"retry", ":", "7">>, <<"CR">>, <<"LF">>, Bom}

\* Bodies that keep their promise, and ones that yield more, less or nothing.
Part(kind, declared, chunkSizes) == [kind |-> kind, declared |-> declared, chunks |-> chunkSizes]
BodyParts ==
  {Part("bytes", 2, <<2>>), Part("bytes", 0, <<>>), Part("stream", Unknown, <<1, 0, 1>>),
   Part("stream", 2, <<1, 1>>), Part("stream", 1, <<1, 1>>), Part("stream", 2, <<1>>),
   Part("stream", 1, <<0, 1>>), Part("file", 2, <<1, 1>>), Part("file", 2, <<1>>)}

\* Two algorithms over three nonces, one challenge nobody can answer and Basic.
Digest(nonce, algorithm, qop, sess) ==
  [scheme |-> "digest", realm |-> "realm", nonce |-> nonce, algorithm |-> algorithm,
   qop |-> qop, sess |-> sess, charset |-> "latin1", echoable |-> TRUE]
OfferedChallenges ==
  {Digest("n1", "SHA-256", "auth", FALSE), Digest("n2", "MD5", "auth", FALSE),
   Digest("n3", "MD5", "absent", TRUE), Digest("n1", "SHA-256", "auth-int", FALSE),
   [scheme |-> "basic", nonce |-> ""]}
Algorithms == <<"SHA-256", "MD5">>

-----------------------------------------------------------------------------

QuietLogging ==
  [operations |-> FALSE, attempts |-> FALSE, throws |-> FALSE, granularity |-> "none"]

Init ==
  /\ component \in {"calls", "builder", "transport", "logged", "paging", "window", "recovery",
                    "rx", "queue", "logging", "digest", "sse", "writes", "response", "sink",
                    "values"}
  /\ CallsInit /\ BuilderInit /\ LoggedBodyInit /\ WindowInit /\ RecoveryInit
  /\ RxInit /\ ByteQueueInit /\ DigestInit
  /\ IF component = "transport" THEN TransportInit ELSE TransportStarts("fetch", {})
  /\ IF component = "paging" THEN PaginatorInit ELSE PaginatorStarts("pages")
  /\ IF component = "logging" THEN LoggingInit ELSE LoggingStarts(QuietLogging)
  /\ IF component = "sse" THEN ParserInit ELSE ParserStarts(<<>>)
  /\ IF component = "writes" THEN WritesInit ELSE WritesStart(<<>>, FALSE)
  /\ IF component = "response" THEN ResponseInit ELSE ResponseStarts("other", 0, "null")
  /\ IF component = "sink" THEN SinkInit ELSE SinkStarts(FALSE)
  /\ IF component = "values" THEN QuestionInit ELSE question = NoQuestion

\* A component that was not picked stays where it starts.
Rests(name, vars) == IF component = name THEN TRUE ELSE UNCHANGED vars

Next ==
  /\ \/ component = "calls" /\ CallsNext
     \/ component = "builder" /\ BuilderNext
     \/ component = "transport" /\ TransportNext
     \/ component = "logged" /\ LoggedBodyNext
     \/ component = "paging" /\ PaginatorNext
     \/ component = "window" /\ WindowNext
     \/ component = "recovery" /\ RecoveryNext
     \/ component = "rx" /\ RxNext
     \/ component = "queue" /\ ByteQueueNext
     \/ component = "logging" /\ LoggingNext
     \/ component = "digest" /\ DigestNext
     \/ component = "sse" /\ ParserNext
     \/ component = "writes" /\ WritesNext
     \/ component = "response" /\ ResponseNext
     \/ component = "sink" /\ SinkNext
  /\ UNCHANGED <<component, question>>
  /\ Rests("calls", callVars) /\ Rests("builder", builderVars)
  /\ Rests("transport", transportVars) /\ Rests("logged", bodyVars)
  /\ Rests("paging", pagingVars) /\ Rests("window", windowVars)
  /\ Rests("recovery", recoveryVars) /\ Rests("rx", rxVars)
  /\ Rests("queue", queueVars) /\ Rests("logging", logVars)
  /\ Rests("digest", digestVars) /\ Rests("sse", sseVars)
  /\ Rests("writes", writesVars) /\ Rests("response", responseVars)
  /\ Rests("sink", sinkVars)
=============================================================================
