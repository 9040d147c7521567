---------------------------- MODULE CallContexts ----------------------------
(***************************************************************************)
(* Runtime.send around the pipeline walk: the process-wide ContextStore it *)
(* installs the call's execution context into, and the one operation span  *)
(* it opens.  The walk itself is StandardPipeline's; here it is a wait     *)
(* that ends with a response or an error.  A runtime is itself a           *)
(* Transport, so a call may be nested in the walk of another.              *)
(*                                                                         *)
(* Everything Runtime.#drive does before its first await is one action,    *)
(* and so is everything between two awaits.                                *)
(***************************************************************************)
EXTENDS Naturals, Sequences

CONSTANTS
  Calls,        \* the send() calls of one process
  Keys,         \* context keys; two calls share one only when it is pinned
  KeyOf,        \* the key of each call's context chain
  ParentOf,     \* the call whose terminal transport issued this one
  NoCall,       \* a call the application issued itself
  MaxEntries    \* the store's cap

ASSUME CallsAssumption ==
  /\ NoCall \notin Calls
  /\ KeyOf \in [Calls -> Keys]
  /\ ParentOf \in [Calls -> Calls \cup {NoCall}]
  /\ MaxEntries \in Nat \ {0}

VARIABLES
  store,     \* the contexts in the store's Map, oldest insertion first
  callPc,    \* where each call is
  current,   \* the context each call installed last
  callSpan,  \* the operation span of each call
  ended,     \* how often span.end() was called for each call
  displaced  \* calls whose entry was evicted at the cap or overwritten

callVars == <<store, callPc, current, callSpan, ended, displaced>>

\* What a request can be by the time it is sent: the caller's own, or one a
\* step substituted for it.
Requests == {"original", "substituted"}

\* The frozen links of one call's chain.  Identity is by call and kind, as a
\* call creates one of each.
RequestContext(c, r) ==
  [call |-> c, key |-> KeyOf[c], kind |-> "request", request |-> r]
PromoteToExchange(context) == [context EXCEPT !.kind = "exchange"]
ExchangeSource(context, sent) ==
  IF sent = context.request THEN context ELSE RequestContext(context.call, sent)

Contexts ==
  [call : Calls, key : Keys, kind : {"request", "exchange"}, request : Requests]
NoContext == [kind |-> "none"]

\* "inherited" is an active recording span this call did not open; "abandoned"
\* is an open one whose recordException threw past its end().
SpanState == {"none", "inherited", "open", "ended", "abandoned"}
CallState == {"idle", "driving", "answered", "failed", "closing", "settled"}

CallsTypeOK ==
  /\ store \in Seq(Contexts)
  /\ callPc \in [Calls -> CallState]
  /\ current \in [Calls -> Contexts \cup {NoContext}]
  /\ callSpan \in [Calls -> SpanState]
  /\ ended \in [Calls -> Nat]
  /\ displaced \subseteq Calls

CallsInit ==
  /\ store = <<>>
  /\ callPc = [c \in Calls |-> "idle"]
  /\ current = [c \in Calls |-> NoContext]
  /\ callSpan = [c \in Calls |-> "none"]
  /\ ended = [c \in Calls |-> 0]
  /\ displaced = {}

-----------------------------------------------------------------------------
(* The store: operators on the insertion-ordered Map.                      *)

Entries(s) == {s[i] : i \in DOMAIN s}

\* Map.set: an existing key keeps its place, a new one goes to the end.
Put(s, context) ==
  IF \E i \in DOMAIN s : s[i].key = context.key
  THEN [i \in DOMAIN s |-> IF s[i].key = context.key THEN context ELSE s[i]]
  ELSE Append(s, context)

\* #drain: evict from the oldest insertion on, until the cap holds.
Drain(s) ==
  IF Len(s) > MaxEntries THEN SubSeq(s, Len(s) - MaxEntries + 1, Len(s)) ELSE s

Install(s, context) == Drain(Put(s, context))

\* Mutant: close evicts whatever occupies the slot.
CloseByKey(s, context) == SelectSeq(s, LAMBDA e : e.key # context.key)

\* close evicts a slot only when its occupant is this very context.
Close(s, context) ==
  IF \E i \in DOMAIN s : s[i] = context
  THEN LET i == CHOOSE i \in DOMAIN s : s[i] = context
       IN  SubSeq(s, 1, i - 1) \o SubSeq(s, i + 1, Len(s))
  ELSE s

\* The calls that lose their entry to an install by call c.
Losers(s, context) ==
  {d \in Calls \ {context.call} : 
     /\ \E e \in Entries(s) : e.call = d
     /\ \A e \in Entries(Install(s, context)) : e.call # d}

-----------------------------------------------------------------------------
(* Runtime.send                                                            *)

\* A call can be issued by the application, or by the terminal transport of
\* a call that is in its walk.
MayStart(c) ==
  /\ callPc[c] = "idle"
  /\ ParentOf[c] # NoCall => callPc[ParentOf[c]] = "driving"

\* The walk of a call ends only after the calls nested in it have settled.
WalkMayEnd(c) ==
  /\ callPc[c] = "driving"
  /\ \A d \in Calls : ParentOf[d] = c => callPc[d] \in {"idle", "settled"}

\* startOperationSpan: a call inside a recording span opens none; otherwise the
\* caller-supplied factory may be absent, supply a span, or throw.
SpanStarts(c) ==
  IF ParentOf[c] # NoCall
  THEN IF callSpan[ParentOf[c]] \in {"inherited", "open"} THEN {"inherited"}
       ELSE {"none", "open", "throws"}
  ELSE {"none", "inherited", "open", "throws"}

\* An empty pipeline goes straight to the transport: no cursor, no context.
SendEmpty(c) ==
  /\ MayStart(c)
  /\ callPc' = [callPc EXCEPT ![c] = "settled"]
  /\ UNCHANGED <<store, current, callSpan, ended, displaced>>

\* send() up to its first await: promote to the request stage, install, open
\* the span, enter the walk.
Send(c) ==
  /\ MayStart(c)
  /\ LET context == RequestContext(c, "original") IN
     \E started \in SpanStarts(c) \ {"throws"} :
       /\ store' = Install(store, context)
       /\ displaced' = displaced \cup Losers(store, context)
       /\ current' = [current EXCEPT ![c] = context]
       /\ callSpan' = [callSpan EXCEPT ![c] = started]
       /\ callPc' = [callPc EXCEPT ![c] = "driving"]
       /\ UNCHANGED ended

\* A tracer factory that throws: the finally closes the entry just installed.
SendFactoryThrows(c) ==
  /\ MayStart(c)
  /\ "throws" \in SpanStarts(c)
  /\ LET context == RequestContext(c, "original") IN
       /\ store' = Close(Install(store, context), context)
       /\ displaced' = displaced \cup Losers(store, context)
       /\ current' = [current EXCEPT ![c] = context]
  /\ callPc' = [callPc EXCEPT ![c] = "settled"]
  /\ UNCHANGED <<callSpan, ended>>

\* The walk resolves: promote to the exchange stage from what was really sent
\* and replace the entry.
Answer(c) ==
  /\ WalkMayEnd(c)
  /\ \E sent \in Requests :
       LET context == PromoteToExchange(ExchangeSource(current[c], sent)) IN
         /\ store' = Install(store, context)
         /\ displaced' = (displaced \ {c}) \cup Losers(store, context)
         /\ current' = [current EXCEPT ![c] = context]
  /\ callPc' = [callPc EXCEPT ![c] = IF callSpan[c] = "open" THEN "answered"
                                     ELSE "closing"]
  /\ UNCHANGED <<callSpan, ended>>

\* The walk rejects: nothing is promoted.
Fail(c) ==
  /\ WalkMayEnd(c)
  /\ callPc' = [callPc EXCEPT ![c] = IF callSpan[c] = "open" THEN "failed"
                                     ELSE "closing"]
  /\ UNCHANGED <<store, current, callSpan, ended, displaced>>

\* Mutant: the catch ends a span the success path has ended.
EndOnceUnlatched(c) ==
  /\ ended' = [ended EXCEPT ![c] = @ + 1]
  /\ callSpan' = [callSpan EXCEPT ![c] = "ended"]

\* endOnce: the latch is set before end() runs, so an end() that throws is
\* not repeated.
EndOnce(c) ==
  /\ ended' = [ended EXCEPT ![c] = IF callSpan[c] = "ended" THEN @ ELSE @ + 1]
  /\ callSpan' = [callSpan EXCEPT ![c] = "ended"]

\* driveWithSpan after a response: end the span.  An end() that throws lands
\* in the catch, with the latch already set.
EndSpan(c) ==
  /\ callPc[c] = "answered"
  /\ EndOnce(c)
  /\ \E next \in {"closing", "failed"} : callPc' = [callPc EXCEPT ![c] = next]
  /\ UNCHANGED <<store, current, displaced>>

\* driveWithSpan's catch: record the failure, then end the span if the latch
\* is open.  A recordException that throws leaves the span as it is.
RecordFailure(c) ==
  /\ callPc[c] = "failed"
  /\ \/ EndOnce(c)
     \/ /\ callSpan' = [callSpan EXCEPT ![c] = IF @ = "open" THEN "abandoned" ELSE @]
        /\ UNCHANGED ended
  /\ callPc' = [callPc EXCEPT ![c] = "closing"]
  /\ UNCHANGED <<store, current, displaced>>

\* The finally: close the context this call installed last.
Settle(c) ==
  /\ callPc[c] = "closing"
  /\ store' = Close(store, current[c])
  /\ callPc' = [callPc EXCEPT ![c] = "settled"]
  /\ UNCHANGED <<current, callSpan, ended, displaced>>

CallsNext == \E c \in Calls :
  \/ SendEmpty(c) \/ Send(c) \/ SendFactoryThrows(c)
  \/ Answer(c) \/ Fail(c)
  \/ EndSpan(c) \/ RecordFailure(c) \/ Settle(c)

CallsSpec == CallsInit /\ [][CallsNext]_callVars

-----------------------------------------------------------------------------
(* Properties                                                              *)

RunningCall(c) == callPc[c] \in {"driving", "answered", "failed", "closing"}

\* A leaked entry would pin a finished call's whole request and response:
\* whatever is in the store is the latest context of a call still running.
NoEntryOutlivesItsCall ==
  \A e \in Entries(store) : RunningCall(e.call) /\ current[e.call] = e

\* A running call's latest context is in the store, unless another call's
\* install took its slot: closing a superseded link, or the close of another
\* call on the same key, never evicts it.
OnlyInstallsDisplace ==
  \A c \in Calls : RunningCall(c) => current[c] \in Entries(store) \/ c \in displaced

\* The store of in-flight contexts holds exactly the latest context of each
\* running call, less what installs displaced, at most one per key, within
\* its cap (ContextStore with Runtime's finally).
StoreMirrorsRunningCalls ==
  /\ NoEntryOutlivesItsCall
  /\ OnlyInstallsDisplace
  /\ \A i, j \in DOMAIN store : store[i].key = store[j].key => i = j
  /\ Len(store) <= MaxEntries

\* One operation span per logical operation: by the time its call settles a
\* span was ended exactly once, never twice when end() throws on the success
\* path, and a call nested in an operation opens none of its own; only a
\* recordException that throws can leave one open (startOperationSpan,
\* driveWithSpan).
OperationSpanOnce ==
  \A c \in Calls :
    /\ ended[c] = IF callSpan[c] = "ended" THEN 1 ELSE 0
    /\ callPc[c] \in {"closing", "settled"} => callSpan[c] # "open"
    /\ callSpan[c] \in {"open", "ended", "abandoned"} /\ ParentOf[c] # NoCall
         => callSpan[ParentOf[c]] = "none"
=============================================================================
