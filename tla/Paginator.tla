------------------------------ MODULE Paginator ------------------------------
(***************************************************************************)
(* One pagination walk: Paginator's #walk under its page view or its item  *)
(* view, or the fetcher-driven walk of paginateWithFetchers.  A walk is an *)
(* async generator, so it runs only between a request of its consumer and  *)
(* the next yield; the consumer may close a page it was given, stop at any *)
(* yield, and the signal may fire at any time.                             *)
(*                                                                         *)
(* Page n is the page of the n-th response.  Items, requests and cursors   *)
(* are abstracted to whether a strategy names a next request.              *)
(***************************************************************************)
EXTENDS Naturals, FiniteSets

CONSTANTS
  PageCap,     \* maxPages, or 0 for none
  PageBound    \* bound: responses a server gives in one walk

ASSUME PaginatorAssumption == PageCap \in Nat /\ PageBound \in Nat

VARIABLES
  view,        \* which of the three walks this is
  walkPc,      \* where the walk is suspended
  fetched,     \* responses received; the last one is page number `fetched`
  held,        \* the page the walk owns, 0 for none
  page,        \* how far the response of each page has been released
  more,        \* did the strategy name a next request?
  signalled,   \* has the caller's signal fired?
  walkResult   \* "none", or how the consumer learned of the end

pagingVars ==
  <<view, walkPc, fetched, held, page, more, signalled, walkResult>>

Pages == 1 .. PageBound
Views == {"pages", "items", "fetchers"}

PaginatorStarts(v) ==
  /\ view = v
  /\ walkPc = "start" /\ fetched = 0 /\ held = 0
  /\ page = [n \in Pages |-> "none"]
  /\ more = TRUE /\ signalled = FALSE /\ walkResult = "none"

PaginatorInit == \E v \in Views : PaginatorStarts(v)

-----------------------------------------------------------------------------

Capped == PageCap # 0 /\ fetched >= PageCap

\* The tests ahead of an exchange: #walk's own abort test and cap, and the
\* fetcher walk's cap and nextKey, which only apply once a page was delivered.
MayContinue ==
  /\ more
  /\ ~Capped
  /\ view = "fetchers" \/ ~signalled

\* Page.close() is Response.close(): it releases once, and later calls get the
\* outcome of the first.
Released(n) == IF page[n] = "open" THEN [page EXCEPT ![n] = "closing"] ELSE page
Settled(n) == page[n] \in {"closed", "failed"}

\* The finally block: close what is still held, then tell the consumer.
Finish(result) ==
  IF held = 0
  THEN walkPc' = "over" /\ walkResult' = result /\ UNCHANGED <<held, page>>
  ELSE /\ walkPc' = "releasing" /\ walkResult' = result
       /\ page' = Released(held)
       /\ UNCHANGED held

\* The consumer asks for a page: the walk runs to its next await.
AskForPage ==
  /\ walkPc \in {"start", "yielded"}
  /\ CASE ~MayContinue -> Finish("ended")
       [] MayContinue /\ held = 0 ->
            walkPc' = "sending" /\ UNCHANGED <<held, page, walkResult>>
       [] MayContinue /\ held # 0 ->
            /\ walkPc' = "closing" /\ held' = 0
            /\ page' = Released(held)
            /\ UNCHANGED walkResult
  /\ UNCHANGED <<view, fetched, more, signalled>>

\* The previous page has been released, or its release failed and ends the
\* walk: the page is not held any more, so nothing closes it again.
PreviousClosed ==
  /\ walkPc = "closing" /\ Settled(fetched)
  /\ IF page[fetched] = "failed"
     THEN Finish("failed")
     ELSE walkPc' = "sending" /\ UNCHANGED <<held, page, walkResult>>
  /\ UNCHANGED <<view, fetched, more, signalled>>

SendPageFails ==
  /\ walkPc = "sending"
  /\ Finish("failed")
  /\ UNCHANGED <<view, fetched, more, signalled>>

\* A fetcher may answer with no page at all.
NoPageAnswered ==
  /\ walkPc = "sending" /\ view = "fetchers"
  /\ Finish("ended")
  /\ UNCHANGED <<view, fetched, more, signalled>>

\* A response arrives.  A fetcher hands over a built page; #walk tests the
\* signal, releasing quietly, and parses.
PageAnswered ==
  /\ walkPc = "sending" /\ fetched < PageBound
  /\ fetched' = fetched + 1
  /\ IF view = "fetchers"
     THEN /\ walkPc' = "yielded" /\ held' = fetched + 1
          /\ page' = [page EXCEPT ![fetched + 1] = "open"]
          /\ more' \in BOOLEAN
     ELSE /\ walkPc' = IF signalled THEN "quiet" ELSE "parsing"
          /\ page' = [page EXCEPT ![fetched + 1] = IF signalled THEN "closing" ELSE "open"]
          /\ UNCHANGED <<held, more>>
  /\ UNCHANGED <<view, signalled, walkResult>>

\* The quiet release after an abort has settled, either way.
QuietlyClosed ==
  /\ walkPc = "quiet" /\ Settled(fetched)
  /\ Finish("ended")
  /\ UNCHANGED <<view, fetched, more, signalled>>

\* parseOrClose and pageOrClose: a page is built and held before it is yielded.
Parsed ==
  /\ walkPc = "parsing"
  /\ walkPc' = IF view = "items" THEN "closingItems" ELSE "yielded"
  /\ held' = fetched
  /\ page' = IF view = "items" THEN Released(fetched) ELSE page
  /\ more' \in BOOLEAN
  /\ UNCHANGED <<view, fetched, signalled, walkResult>>

\* Mutant: the error of a strategy leaves the response it was parsing open.
ParseFailsOpen ==
  /\ walkPc = "parsing"
  /\ Finish("failed")
  /\ UNCHANGED <<view, fetched, more, signalled>>

\* A strategy that rejects, or returns something malformed: the response is
\* closed first, and a failing close rides on the error as suppressed.
ParseFails ==
  /\ walkPc = "parsing"
  /\ walkPc' = "rethrow" /\ page' = Released(fetched)
  /\ UNCHANGED <<view, fetched, held, more, signalled, walkResult>>

Rethrown ==
  /\ walkPc = "rethrow" /\ Settled(fetched)
  /\ Finish("failed")
  /\ UNCHANGED <<view, fetched, more, signalled>>

\* items() closes a page before it yields its items; a failing close leaves
\* the for-await loop, which returns the walk into its finally block.
ItemsClosed ==
  /\ walkPc = "closingItems" /\ Settled(held)
  /\ IF page[held] = "failed"
     THEN Finish("failed")
     ELSE walkPc' = "yielded" /\ UNCHANGED <<held, page, walkResult>>
  /\ UNCHANGED <<view, fetched, more, signalled>>

\* The consumer stops: return() at a yield runs the finally block, return()
\* before the first request runs nothing.
StopPaging ==
  /\ walkPc \in {"start", "yielded"}
  /\ Finish("ended")
  /\ UNCHANGED <<view, fetched, more, signalled>>

\* The consumer of a page view closes the page it was given.
ConsumerClosesPage ==
  /\ view # "items"
  /\ \E n \in Pages : page[n] = "open" /\ walkPc = "yielded" /\ page' = Released(n)
  /\ UNCHANGED <<view, walkPc, fetched, held, more, signalled, walkResult>>

\* A release settles; the failure of the finally block's own is the
\* consumer's, and so is that of a release it shares.
PageReleaseSettles ==
  \E n \in Pages :
    /\ page[n] = "closing"
    /\ \E how \in {"closed", "failed"} : page' = [page EXCEPT ![n] = how]
    /\ UNCHANGED <<view, walkPc, fetched, held, more, signalled, walkResult>>

WalkReleased ==
  /\ walkPc = "releasing" /\ Settled(held)
  /\ walkPc' = "over"
  /\ walkResult' = IF page[held] = "failed" THEN "failed" ELSE walkResult
  /\ UNCHANGED <<view, fetched, held, page, more, signalled>>

SignalPaging ==
  /\ ~signalled /\ signalled' = TRUE
  /\ UNCHANGED <<view, walkPc, fetched, held, page, more, walkResult>>

PaginatorNext ==
  \/ AskForPage \/ PreviousClosed \/ SendPageFails \/ NoPageAnswered
  \/ PageAnswered \/ QuietlyClosed \/ Parsed \/ ParseFails \/ Rethrown
  \/ ItemsClosed \/ StopPaging \/ ConsumerClosesPage \/ PageReleaseSettles
  \/ WalkReleased \/ SignalPaging

PaginatorSpec == PaginatorInit /\ [][PaginatorNext]_pagingVars

-----------------------------------------------------------------------------

Live(n) == page[n] \in {"open", "closing"}

\* A walk holds at most one response, holds none across an exchange, and
\* leaves none behind when it is over, however it ended: by the strategy, the
\* cap, a failing send, parse or close, an abort, or the consumer leaving.
\* (paginator.ts:169-209, fetchers.ts:120-145)
PagesReleased ==
  /\ Cardinality({n \in Pages : Live(n)}) <= 1
  /\ walkPc \in {"sending", "over"} => \A n \in Pages : ~Live(n)
  /\ walkPc = "yielded" /\ view = "items" => \A n \in Pages : ~Live(n)

\* A release that failed is the consumer's to hear as an error, unless the walk
\* had given up on that response because of the signal before it became a page.
CloseFailureHeard ==
  walkPc = "over" /\ walkResult = "ended" =>
    \A n \in Pages : page[n] = "failed" => signalled /\ n = fetched /\ held # n
=============================================================================
