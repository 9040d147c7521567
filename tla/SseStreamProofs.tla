-------------------------- MODULE SseStreamProofs --------------------------
(***************************************************************************)
(* Proofs about SseStream, for any callers of close(), any number of       *)
(* events and of requests.                                                 *)
(***************************************************************************)
EXTENDS SseStream, TLAPS

-----------------------------------------------------------------------------
(* The inductive invariant.                                                *)

(* A generator that is running is serving the head of the queue.           *)
Serving == gen \in {"pulling", "parsed", "finishing", "catching"} => queue # <<>>

(* The release, once: it is begun by somebody, those who wait for it came  *)
(* after, and those who have its outcome have the one it settled with.     *)
Release1 ==
    /\ ReleasedOnce
    /\ starter = "nobody" <=> closing = "none"
    /\ gen \in {"finishing", "catching"} => closing # "none"
    /\ signal = "armed" => closing = "none"
    /\ signal = "waiting" => closing # "none"
    /\ consumer = "throwing" => closing # "none"
    /\ ReleaseBeforeEnd
    /\ signal = "heard" => closing \in Settled
    /\ \A c \in Closer :
          /\ caller[c] = "waiting" => closing # "none"
          /\ caller[c] = "resolved" => closing = "ok"
          /\ caller[c] = "rejected" => closing = "failed"

(* What was reported: by the abort's handler, and by the iterator when it  *)
(* ended cleanly, which it did not if its error carries the failure.       *)
AbortReports == IF signal = "heard" /\ closing = "failed" THEN 1 ELSE 0
Accounts ==
    /\ gen # "done" => reports = AbortReports
    /\ gen = "done" => reports \in {AbortReports, AbortReports + 1}
    /\ "pull" \in attached => gen = "done" /\ closing = "failed" /\ reports = AbortReports

(* The one who began the release is still waiting for it, or has let       *)
(* somebody know how it failed.                                            *)
Heard == reports > 0 \/ attached # {}
Owner ==
    /\ starter = "caller" => \E c \in Closer : caller[c] # "idle"
    /\ starter = "abort" => signal = "waiting" \/ signal = "heard"
    /\ starter \in {"iterator", "error"} =>
          \/ gen \in {"finishing", "catching"}
          \/ gen = "done" /\ (closing = "failed" => Heard)
    /\ starter = "mapper" =>
          \/ consumer = "throwing"
          \/ closing \in Settled /\ (closing = "failed" => Heard)

IInv == TypeOK /\ Serving /\ Release1 /\ Accounts /\ Owner

-----------------------------------------------------------------------------
(* The initial states: a stream that nobody closed, or one that was opened *)
(* with a signal already aborted.                                          *)
LEMMA InvInit == Init => IInv
<1>. SUFFICES ASSUME Init PROVE IInv
  OBVIOUS
<1>1. closed \in BOOLEAN /\ (closed <=> signal = "waiting")
  BY Zenon DEF Init
<1>2. TypeOK
  <2>1. queue \in Seq(Request) /\ attached \subseteq {"pull", "mapper"}
    BY DEF Init
  <2>2. caller \in [Closer -> {"idle", "waiting", "resolved", "rejected"}]
    BY DEF Init
  <2>3. left \in 0..MaxEvents /\ asked \in 0..MaxAsks /\ releases \in Nat /\ reports \in Nat
    BY BoundAssumption DEF Init
  <2>. QED
    BY <1>1, <2>1, <2>2, <2>3 DEF Init, TypeOK, Settled
<1>3. Serving /\ Release1 /\ Accounts /\ Owner
  BY <1>1
  DEF Init, Serving, Release1, ReleasedOnce, ReleaseBeforeEnd, Settled, Accounts,
      AbortReports, Owner, Heard
<1>. QED
  BY <1>2, <1>3 DEF IInv

(* The types, in three parts.                                              *)
FacadeType ==
    /\ closed \in BOOLEAN
    /\ closing \in {"none", "source", "response"} \cup Settled
    /\ closed <=> closing # "none"
    /\ sourceFailed \in BOOLEAN
    /\ starter \in {"nobody", "caller", "abort", "iterator", "error", "mapper"}
    /\ releases \in Nat
IteratorType ==
    /\ gen \in {"none", "start", "yielded", "pulling", "parsed", "finishing",
                "catching", "abandoned", "done"}
    /\ pulled \in {"event", "end", "failure"}
    /\ queue \in Seq(Request)
    /\ left \in 0..MaxEvents
ActorType ==
    /\ caller \in [Closer -> {"idle", "waiting", "resolved", "rejected"}]
    /\ signal \in {"none", "armed", "waiting", "heard"}
    /\ consumer \in {"raw", "start", "asking", "value", "throwing", "leaving",
                     "done", "refused"}
    /\ stream \in {"live", "ended", "errored"}
    /\ asked \in 0..MaxAsks
    /\ reports \in Nat
    /\ attached \subseteq {"pull", "mapper"}

(* They are the type invariant.                                            *)
LEMMA TypeParts == TypeOK <=> FacadeType /\ IteratorType /\ ActorType
  BY DEF TypeOK, FacadeType, IteratorType, ActorType

(* What is left of a queue whose head was answered is a queue.             *)
LEMMA TailTyped ==
    ASSUME queue \in Seq(Request), queue # <<>>
    PROVE  Tail(queue) \in Seq(Request)
  OBVIOUS

(* Those who may ask for the release.                                      *)
Party == {"caller", "abort", "iterator", "error", "mapper"}

(* The facade.                                                             *)
LEMMA FacadeTypeStep ==
    ASSUME FacadeType, [Next]_vars
    PROVE  FacadeType'
<1>. USE DEF FacadeType, Settled, Party
<1>1. CASE \E who \in Party : Release(who)
  BY <1>1 DEF Release, facade
<1>2. CASE SourceReleased
  <2>1. sourceFailed' \in BOOLEAN
    BY <1>2, Zenon DEF SourceReleased
  <2>. QED
    BY <1>2, <2>1 DEF SourceReleased
<1>3. CASE ResponseReleased
  BY <1>3 DEF ResponseReleased
<1>4. CASE UNCHANGED facade
  BY <1>4 DEF facade
<1>. QED
  BY <1>1, <1>2, <1>3, <1>4
     DEF Next, Releasing, Iterating, Consuming, vars, Mapping, AdapterAsks,
         ReleaseQuietly, ResumeNext, ResumeClosed, ResumeReturn,
         ReturnUnstarted, AnswerDone, PullSettles, PullTorn, Yield,
         EndOfStream, PullFailed, FinishQuietly, FinishWithError, RawOpen,
         RawAsk, TypedFirst, TypedRefused, TypedNext, TypedBreak,
         TypedValue, TypedSkip, TypedDone, MapperThrows, TypedThrow,
         TypedEnds, Close, CloseSettles, Abort, AbortSettles, SourceSettles

(* The iterator.                                                           *)
LEMMA IteratorTypeStep ==
    ASSUME IteratorType, Serving, [Next]_vars
    PROVE  IteratorType'
<1>. USE DEF IteratorType, Request
<1>1. CASE ResumeNext
  BY <1>1 DEF ResumeNext
<1>2. CASE ResumeClosed
  BY <1>2 DEF ResumeClosed, ReleaseQuietly
<1>3. CASE ResumeReturn
  BY <1>3 DEF ResumeReturn, ReleaseQuietly
<1>4. CASE ReturnUnstarted
  BY <1>4 DEF ReturnUnstarted
<1>5. CASE AnswerDone
  BY <1>5 DEF AnswerDone
<1>6. CASE PullSettles
  BY <1>6, BoundAssumption DEF PullSettles
<1>7. CASE PullTorn
  BY <1>7 DEF PullTorn
<1>8. CASE Yield
  <2>1. queue' \in Seq(Request)
    BY <1>8, TailTyped DEF Yield, Serving
  <2>. QED
    BY <1>8, <2>1 DEF Yield
<1>9. CASE EndOfStream
  BY <1>9 DEF EndOfStream, ReleaseQuietly
<1>10. CASE PullFailed
  BY <1>10 DEF PullFailed
<1>11. CASE FinishQuietly
  <2>1. queue' \in Seq(Request)
    BY <1>11, TailTyped DEF FinishQuietly, Serving
  <2>. QED
    BY <1>11, <2>1 DEF FinishQuietly
<1>12. CASE FinishWithError
  <2>1. queue' \in Seq(Request)
    BY <1>12, TailTyped DEF FinishWithError, Serving
  <2>. QED
    BY <1>12, <2>1 DEF FinishWithError
<1>13. CASE RawOpen
  BY <1>13 DEF RawOpen
<1>14. ASSUME NEW request \in Request, RawAsk(request) PROVE IteratorType'
  BY <1>14 DEF RawAsk
<1>15. CASE TypedFirst
  BY <1>15 DEF TypedFirst, AdapterAsks
<1>16. CASE TypedNext
  BY <1>16 DEF TypedNext, AdapterAsks
<1>17. CASE TypedBreak
  BY <1>17 DEF TypedBreak, AdapterAsks
<1>18. CASE TypedSkip
  BY <1>18 DEF TypedSkip, AdapterAsks
<1>19. CASE TypedDone
  BY <1>19 DEF TypedDone, AdapterAsks
<1>20. CASE TypedThrow
  BY <1>20 DEF TypedThrow
<1>21. CASE UNCHANGED iterator
  BY <1>21 DEF iterator
<1>. QED
  BY <1>1, <1>2, <1>3, <1>4, <1>5, <1>6, <1>7, <1>8, <1>9, <1>10, <1>11,
     <1>12, <1>13, <1>14, <1>15, <1>16, <1>17, <1>18, <1>19, <1>20, <1>21
     DEF Next, Releasing, Iterating, Consuming, vars, SourceReleased,
         ResponseReleased, TypedRefused, TypedValue, MapperThrows,
         TypedEnds, Close, CloseSettles, Abort, AbortSettles, SourceSettles

(* The actors and what was heard of the release.                           *)
actors == <<heard, caller, signal, consumer, stream, asked>>

LEMMA ActorTypeStep ==
    ASSUME ActorType, [Next]_vars
    PROVE  ActorType'
<1>. USE DEF ActorType, heard
<1>1. CASE ResumeClosed
  BY <1>1 DEF ResumeClosed, ReleaseQuietly, Unbind
<1>2. CASE ResumeReturn
  BY <1>2 DEF ResumeReturn, ReleaseQuietly, Unbind
<1>3. CASE EndOfStream
  BY <1>3 DEF EndOfStream, ReleaseQuietly, Unbind
<1>4. CASE PullFailed
  BY <1>4 DEF PullFailed, Unbind
<1>5. CASE FinishQuietly
  BY <1>5 DEF FinishQuietly
<1>6. CASE FinishWithError
  BY <1>6 DEF FinishWithError
<1>7. ASSUME NEW request \in Request, RawAsk(request) PROVE ActorType'
  BY <1>7, BoundAssumption DEF RawAsk
<1>8. CASE TypedFirst
  BY <1>8 DEF TypedFirst, AdapterAsks
<1>9. CASE TypedRefused
  BY <1>9 DEF TypedRefused
<1>10. CASE TypedNext
  BY <1>10 DEF TypedNext, AdapterAsks
<1>11. CASE TypedBreak
  BY <1>11 DEF TypedBreak, AdapterAsks
<1>12. CASE TypedValue
  BY <1>12 DEF TypedValue
<1>13. CASE TypedSkip
  BY <1>13 DEF TypedSkip, AdapterAsks
<1>14. CASE TypedDone
  BY <1>14 DEF TypedDone, AdapterAsks
<1>15. CASE MapperThrows
  BY <1>15 DEF MapperThrows, Unbind
<1>16. CASE TypedThrow
  BY <1>16 DEF TypedThrow
<1>17. CASE TypedEnds
  BY <1>17 DEF TypedEnds
<1>18. ASSUME NEW c \in Closer, Close(c) PROVE ActorType'
  BY <1>18 DEF Close, Unbind
<1>19. ASSUME NEW c \in Closer, CloseSettles(c) PROVE ActorType'
  BY <1>19 DEF CloseSettles
<1>20. CASE Abort
  BY <1>20 DEF Abort
<1>21. CASE AbortSettles
  BY <1>21 DEF AbortSettles
<1>22. CASE SourceSettles
  BY <1>22 DEF SourceSettles
<1>23. CASE UNCHANGED actors
  BY <1>23 DEF actors
<1>. QED
  BY <1>1, <1>2, <1>3, <1>4, <1>5, <1>6, <1>7, <1>8, <1>9, <1>10, <1>11,
     <1>12, <1>13, <1>14, <1>15, <1>16, <1>17, <1>18, <1>19, <1>20, <1>21,
     <1>22, <1>23
     DEF Next, Releasing, Iterating, Consuming, vars, SourceReleased,
         ResponseReleased, ResumeNext, ReturnUnstarted, AnswerDone,
         PullSettles, PullTorn, Yield, RawOpen

(* Types.                                                                  *)
LEMMA TypeStep ==
    ASSUME TypeOK, Serving, [Next]_vars
    PROVE  TypeOK'
<1>1. FacadeType /\ IteratorType /\ ActorType
  BY TypeParts
<1>2. FacadeType' /\ IteratorType' /\ ActorType'
  BY <1>1, FacadeTypeStep, IteratorTypeStep, ActorTypeStep
<1>. QED
  BY <1>2 DEF TypeOK, FacadeType, IteratorType, ActorType

(* The queue is not empty while the generator runs.                        *)
LEMMA ServingStep ==
    ASSUME TypeOK, Serving, [Next]_vars
    PROVE  Serving'
<1>. USE DEF TypeOK, Serving, Request, facade, iterator, heard
<1>1. CASE SourceReleased
  BY <1>1 DEF SourceReleased
<1>2. CASE ResponseReleased
  BY <1>2 DEF ResponseReleased
<1>3. CASE ResumeNext
  BY <1>3 DEF ResumeNext
<1>4. CASE ResumeClosed
  BY <1>4 DEF ResumeClosed, ReleaseQuietly, Release, Unbind
<1>5. CASE ResumeReturn
  BY <1>5 DEF ResumeReturn, ReleaseQuietly, Release, Unbind
<1>6. CASE ReturnUnstarted
  BY <1>6 DEF ReturnUnstarted
<1>7. CASE AnswerDone
  BY <1>7 DEF AnswerDone
<1>8. CASE PullSettles
  BY <1>8 DEF PullSettles
<1>9. CASE PullTorn
  BY <1>9 DEF PullTorn
<1>10. CASE Yield
  BY <1>10 DEF Yield
<1>11. CASE EndOfStream
  BY <1>11 DEF EndOfStream, ReleaseQuietly, Release, Unbind
<1>12. CASE PullFailed
  BY <1>12 DEF PullFailed, Release, Unbind
<1>13. CASE FinishQuietly
  BY <1>13 DEF FinishQuietly
<1>14. CASE FinishWithError
  BY <1>14 DEF FinishWithError
<1>15. CASE RawOpen
  BY <1>15 DEF RawOpen, CanIterate
<1>16. ASSUME NEW request \in Request, RawAsk(request) PROVE Serving'
  BY <1>16 DEF RawAsk
<1>17. CASE TypedFirst
  BY <1>17 DEF TypedFirst, CanIterate, AdapterAsks
<1>18. CASE TypedRefused
  BY <1>18 DEF TypedRefused
<1>19. CASE TypedNext
  BY <1>19 DEF TypedNext, AdapterAsks
<1>20. CASE TypedBreak
  BY <1>20 DEF TypedBreak, AdapterAsks
<1>21. CASE TypedValue
  BY <1>21 DEF TypedValue, Mapping
<1>22. CASE TypedSkip
  BY <1>22 DEF TypedSkip, AdapterAsks, Mapping
<1>23. CASE TypedDone
  BY <1>23 DEF TypedDone, AdapterAsks, Mapping
<1>24. CASE MapperThrows
  BY <1>24 DEF MapperThrows, Release, Unbind, Mapping
<1>25. CASE TypedThrow
  BY <1>25 DEF TypedThrow
<1>26. CASE TypedEnds
  BY <1>26 DEF TypedEnds
<1>27. ASSUME NEW c \in Closer, Close(c) PROVE Serving'
  BY <1>27 DEF Close, Release, Unbind
<1>28. ASSUME NEW c \in Closer, CloseSettles(c) PROVE Serving'
  BY <1>28 DEF CloseSettles
<1>29. CASE Abort
  BY <1>29 DEF Abort, Release
<1>30. CASE AbortSettles
  BY <1>30 DEF AbortSettles
<1>31. CASE SourceSettles
  BY <1>31 DEF SourceSettles
<1>32. CASE UNCHANGED vars
  BY <1>32 DEF vars
<1>. QED
  BY <1>1, <1>2, <1>3, <1>4, <1>5, <1>6, <1>7, <1>8, <1>9, <1>10, <1>11,
     <1>12, <1>13, <1>14, <1>15, <1>16, <1>17, <1>18, <1>19, <1>20, <1>21,
     <1>22, <1>23, <1>24, <1>25, <1>26, <1>27, <1>28, <1>29, <1>30, <1>31,
     <1>32
     DEF Next, Releasing, Iterating, Consuming

(* The release.                                                            *)
LEMMA ReleaseStep ==
    ASSUME TypeOK, Release1, [Next]_vars
    PROVE  Release1'
<1>. USE DEF TypeOK, Release1, ReleasedOnce, ReleaseBeforeEnd, Settled, facade, iterator, heard
<1>1. CASE SourceReleased
  BY <1>1 DEF SourceReleased
<1>2. CASE ResponseReleased
  BY <1>2 DEF ResponseReleased
<1>3. CASE ResumeNext
  BY <1>3 DEF ResumeNext
<1>4. CASE ResumeClosed
  BY <1>4 DEF ResumeClosed, ReleaseQuietly, Release, Unbind
<1>5. CASE ResumeReturn
  BY <1>5 DEF ResumeReturn, ReleaseQuietly, Release, Unbind
<1>6. CASE ReturnUnstarted
  BY <1>6 DEF ReturnUnstarted
<1>7. CASE AnswerDone
  BY <1>7 DEF AnswerDone
<1>8. CASE PullSettles
  BY <1>8 DEF PullSettles
<1>9. CASE PullTorn
  BY <1>9 DEF PullTorn
<1>10. CASE Yield
  BY <1>10 DEF Yield
<1>11. CASE EndOfStream
  BY <1>11 DEF EndOfStream, ReleaseQuietly, Release, Unbind
<1>12. CASE PullFailed
  BY <1>12 DEF PullFailed, Release, Unbind
<1>13. CASE FinishQuietly
  BY <1>13 DEF FinishQuietly
<1>14. CASE FinishWithError
  BY <1>14 DEF FinishWithError
<1>15. CASE RawOpen
  BY <1>15 DEF RawOpen, CanIterate
<1>16. ASSUME NEW request \in Request, RawAsk(request) PROVE Release1'
  BY <1>16 DEF RawAsk
<1>17. CASE TypedFirst
  BY <1>17 DEF TypedFirst, CanIterate, AdapterAsks
<1>18. CASE TypedRefused
  BY <1>18 DEF TypedRefused
<1>19. CASE TypedNext
  BY <1>19 DEF TypedNext, AdapterAsks
<1>20. CASE TypedBreak
  BY <1>20 DEF TypedBreak, AdapterAsks
<1>21. CASE TypedValue
  BY <1>21 DEF TypedValue, Mapping
<1>22. CASE TypedSkip
  BY <1>22 DEF TypedSkip, AdapterAsks, Mapping
<1>23. CASE TypedDone
  BY <1>23 DEF TypedDone, AdapterAsks, Mapping
<1>24. CASE MapperThrows
  BY <1>24 DEF MapperThrows, Release, Unbind, Mapping
<1>25. CASE TypedThrow
  BY <1>25 DEF TypedThrow
<1>26. CASE TypedEnds
  BY <1>26 DEF TypedEnds
<1>27. ASSUME NEW c \in Closer, Close(c) PROVE Release1'
  BY <1>27 DEF Close, Release, Unbind
<1>28. ASSUME NEW c \in Closer, CloseSettles(c) PROVE Release1'
  BY <1>28 DEF CloseSettles
<1>29. CASE Abort
  BY <1>29 DEF Abort, Release
<1>30. CASE AbortSettles
  BY <1>30 DEF AbortSettles
<1>31. CASE SourceSettles
  BY <1>31 DEF SourceSettles
<1>32. CASE UNCHANGED vars
  BY <1>32 DEF vars
<1>. QED
  BY <1>1, <1>2, <1>3, <1>4, <1>5, <1>6, <1>7, <1>8, <1>9, <1>10, <1>11,
     <1>12, <1>13, <1>14, <1>15, <1>16, <1>17, <1>18, <1>19, <1>20, <1>21,
     <1>22, <1>23, <1>24, <1>25, <1>26, <1>27, <1>28, <1>29, <1>30, <1>31,
     <1>32
     DEF Next, Releasing, Iterating, Consuming

(* The accounts.                                                           *)
LEMMA AccountsStep ==
    ASSUME TypeOK, Release1, Accounts, [Next]_vars
    PROVE  Accounts'
<1>. USE DEF TypeOK, Release1, ReleaseBeforeEnd, Settled, Accounts, AbortReports, facade, iterator, heard
<1>1. CASE SourceReleased
  BY <1>1 DEF SourceReleased
<1>2. CASE ResponseReleased
  BY <1>2 DEF ResponseReleased
<1>3. CASE ResumeNext
  BY <1>3 DEF ResumeNext
<1>4. CASE ResumeClosed
  BY <1>4 DEF ResumeClosed, ReleaseQuietly, Release, Unbind
<1>5. CASE ResumeReturn
  BY <1>5 DEF ResumeReturn, ReleaseQuietly, Release, Unbind
<1>6. CASE ReturnUnstarted
  BY <1>6 DEF ReturnUnstarted
<1>7. CASE AnswerDone
  BY <1>7 DEF AnswerDone
<1>8. CASE PullSettles
  BY <1>8 DEF PullSettles
<1>9. CASE PullTorn
  BY <1>9 DEF PullTorn
<1>10. CASE Yield
  BY <1>10 DEF Yield
<1>11. CASE EndOfStream
  BY <1>11 DEF EndOfStream, ReleaseQuietly, Release, Unbind
<1>12. CASE PullFailed
  BY <1>12 DEF PullFailed, Release, Unbind
<1>13. CASE FinishQuietly
  BY <1>13 DEF FinishQuietly
<1>14. CASE FinishWithError
  BY <1>14 DEF FinishWithError
<1>15. CASE RawOpen
  BY <1>15 DEF RawOpen, CanIterate
<1>16. ASSUME NEW request \in Request, RawAsk(request) PROVE Accounts'
  BY <1>16 DEF RawAsk
<1>17. CASE TypedFirst
  BY <1>17 DEF TypedFirst, CanIterate, AdapterAsks
<1>18. CASE TypedRefused
  BY <1>18 DEF TypedRefused
<1>19. CASE TypedNext
  BY <1>19 DEF TypedNext, AdapterAsks
<1>20. CASE TypedBreak
  BY <1>20 DEF TypedBreak, AdapterAsks
<1>21. CASE TypedValue
  BY <1>21 DEF TypedValue, Mapping
<1>22. CASE TypedSkip
  BY <1>22 DEF TypedSkip, AdapterAsks, Mapping
<1>23. CASE TypedDone
  BY <1>23 DEF TypedDone, AdapterAsks, Mapping
<1>24. CASE MapperThrows
  BY <1>24 DEF MapperThrows, Release, Unbind, Mapping
<1>25. CASE TypedThrow
  BY <1>25 DEF TypedThrow
<1>26. CASE TypedEnds
  BY <1>26 DEF TypedEnds
<1>27. ASSUME NEW c \in Closer, Close(c) PROVE Accounts'
  BY <1>27 DEF Close, Release, Unbind
<1>28. ASSUME NEW c \in Closer, CloseSettles(c) PROVE Accounts'
  BY <1>28 DEF CloseSettles
<1>29. CASE Abort
  BY <1>29 DEF Abort, Release
<1>30. CASE AbortSettles
  BY <1>30 DEF AbortSettles
<1>31. CASE SourceSettles
  BY <1>31 DEF SourceSettles
<1>32. CASE UNCHANGED vars
  BY <1>32 DEF vars
<1>. QED
  BY <1>1, <1>2, <1>3, <1>4, <1>5, <1>6, <1>7, <1>8, <1>9, <1>10, <1>11,
     <1>12, <1>13, <1>14, <1>15, <1>16, <1>17, <1>18, <1>19, <1>20, <1>21,
     <1>22, <1>23, <1>24, <1>25, <1>26, <1>27, <1>28, <1>29, <1>30, <1>31,
     <1>32
     DEF Next, Releasing, Iterating, Consuming

(* Whose the release is.                                                   *)
LEMMA OwnerStep ==
    ASSUME TypeOK, Release1, Accounts, Owner, [Next]_vars
    PROVE  Owner'
<1>. USE DEF TypeOK, Release1, ReleaseBeforeEnd, Settled, Accounts, AbortReports, Owner, Heard, facade, iterator, heard
<1>1. CASE SourceReleased
  BY <1>1 DEF SourceReleased
<1>2. CASE ResponseReleased
  BY <1>2 DEF ResponseReleased
<1>3. CASE ResumeNext
  BY <1>3 DEF ResumeNext
<1>4. CASE ResumeClosed
  BY <1>4 DEF ResumeClosed, ReleaseQuietly, Release, Unbind
<1>5. CASE ResumeReturn
  BY <1>5 DEF ResumeReturn, ReleaseQuietly, Release, Unbind
<1>6. CASE ReturnUnstarted
  BY <1>6 DEF ReturnUnstarted
<1>7. CASE AnswerDone
  BY <1>7 DEF AnswerDone
<1>8. CASE PullSettles
  BY <1>8 DEF PullSettles
<1>9. CASE PullTorn
  BY <1>9 DEF PullTorn
<1>10. CASE Yield
  BY <1>10 DEF Yield
<1>11. CASE EndOfStream
  BY <1>11 DEF EndOfStream, ReleaseQuietly, Release, Unbind
<1>12. CASE PullFailed
  BY <1>12 DEF PullFailed, Release, Unbind
<1>13. CASE FinishQuietly
  BY <1>13 DEF FinishQuietly
<1>14. CASE FinishWithError
  BY <1>14 DEF FinishWithError
<1>15. CASE RawOpen
  BY <1>15 DEF RawOpen, CanIterate
<1>16. ASSUME NEW request \in Request, RawAsk(request) PROVE Owner'
  BY <1>16 DEF RawAsk
<1>17. CASE TypedFirst
  BY <1>17 DEF TypedFirst, CanIterate, AdapterAsks
<1>18. CASE TypedRefused
  BY <1>18 DEF TypedRefused
<1>19. CASE TypedNext
  BY <1>19 DEF TypedNext, AdapterAsks
<1>20. CASE TypedBreak
  BY <1>20 DEF TypedBreak, AdapterAsks
<1>21. CASE TypedValue
  BY <1>21 DEF TypedValue, Mapping
<1>22. CASE TypedSkip
  BY <1>22 DEF TypedSkip, AdapterAsks, Mapping
<1>23. CASE TypedDone
  BY <1>23 DEF TypedDone, AdapterAsks, Mapping
<1>24. CASE MapperThrows
  BY <1>24 DEF MapperThrows, Release, Unbind, Mapping
<1>25. CASE TypedThrow
  BY <1>25 DEF TypedThrow
<1>26. CASE TypedEnds
  BY <1>26 DEF TypedEnds
<1>27. ASSUME NEW c \in Closer, Close(c) PROVE Owner'
  BY <1>27 DEF Close, Release, Unbind
<1>28. ASSUME NEW c \in Closer, CloseSettles(c) PROVE Owner'
  BY <1>28 DEF CloseSettles
<1>29. CASE Abort
  BY <1>29 DEF Abort, Release
<1>30. CASE AbortSettles
  BY <1>30 DEF AbortSettles
<1>31. CASE SourceSettles
  BY <1>31 DEF SourceSettles
<1>32. CASE UNCHANGED vars
  BY <1>32 DEF vars
<1>. QED
  BY <1>1, <1>2, <1>3, <1>4, <1>5, <1>6, <1>7, <1>8, <1>9, <1>10, <1>11,
     <1>12, <1>13, <1>14, <1>15, <1>16, <1>17, <1>18, <1>19, <1>20, <1>21,
     <1>22, <1>23, <1>24, <1>25, <1>26, <1>27, <1>28, <1>29, <1>30, <1>31,
     <1>32
     DEF Next, Releasing, Iterating, Consuming

(* The invariant is kept by every step.                                    *)
LEMMA InvStep == IInv /\ [Next]_vars => IInv'
  BY TypeStep, ServingStep, ReleaseStep, AccountsStep, OwnerStep DEF IInv

-----------------------------------------------------------------------------
(* The facade's promises.                                                  *)

(* The variables keep their types, and the stream is closed exactly from   *)
(* the moment its resource is being released.                              *)
THEOREM SseTypeCorrect == Spec => []TypeOK
<1>1. IInv => TypeOK
  BY DEF IInv
<1>. QED
  BY InvInit, InvStep, <1>1, PTL DEF Spec

(* The resource is released once if the stream was closed, and never       *)
(* otherwise, whoever ends the stream and however many do.                 *)
THEOREM ReleasedExactlyOnce == Spec => []ReleasedOnce
<1>1. IInv => ReleasedOnce
  BY DEF IInv, Release1
<1>. QED
  BY InvInit, InvStep, <1>1, PTL DEF Spec

(* The consumer learns of the end or of an error only after the release    *)
(* has settled.                                                            *)
THEOREM EndFollowsRelease == Spec => []ReleaseBeforeEnd
<1>1. IInv => ReleaseBeforeEnd
  BY DEF IInv, Release1
<1>. QED
  BY InvInit, InvStep, <1>1, PTL DEF Spec

(* A failure that a pull's error carries is not reported as well.          *)
THEOREM NoDoubleReport == Spec => []SuppressedNotReported
<1>1. IInv => SuppressedNotReported
  BY DEF IInv, Accounts, AbortReports, SuppressedNotReported
<1>. QED
  BY InvInit, InvStep, <1>1, PTL DEF Spec

(* A release that failed reaches somebody.                                 *)
THEOREM NoSilentFailure == Spec => []FailureHeard
<1>1. IInv => FailureHeard
  <2>. SUFFICES ASSUME IInv, closing = "failed", ~Waiting,
                       \A c \in Closer : caller[c] # "rejected"
                PROVE  Heard
    BY DEF FailureHeard, Heard
  <2>1. starter \in {"caller", "abort", "iterator", "error", "mapper"}
    BY DEF IInv, TypeOK, Release1
  <2>2. CASE starter = "caller"
    BY <2>2 DEF IInv, TypeOK, Release1, Owner, Waiting
  <2>3. CASE starter = "abort"
    BY <2>3 DEF IInv, TypeOK, Accounts, AbortReports, Owner, Waiting, Heard
  <2>4. CASE starter \in {"iterator", "error", "mapper"}
    BY <2>4 DEF IInv, Owner, Waiting
  <2>. QED
    BY <2>1, <2>2, <2>3, <2>4
<1>. QED
  BY InvInit, InvStep, <1>1, PTL DEF Spec

(* No pull starts on a torn-down source.                                   *)
THEOREM PullsReadAnOpenSource == Spec => NoReadAfterTeardown
<1>1. ASSUME TypeOK, [Next]_vars
      PROVE  gen' = "pulling" /\ gen # "pulling" => closing = "none"
  <2>. SUFFICES ASSUME gen' = "pulling", gen # "pulling"
                PROVE  closing = "none"
    OBVIOUS
  <2>1. ResumeNext
    BY <1>1
    DEF Next, Releasing, Iterating, Consuming, vars, iterator,
        ReleaseQuietly, Mapping, AdapterAsks, SourceReleased,
        ResponseReleased, ResumeClosed, ResumeReturn, ReturnUnstarted,
        AnswerDone, PullSettles, PullTorn, Yield, EndOfStream, PullFailed,
        FinishQuietly, FinishWithError, RawOpen, RawAsk, TypedFirst,
        TypedRefused, TypedNext, TypedBreak, TypedValue, TypedSkip,
        TypedDone, MapperThrows, TypedThrow, TypedEnds, Close, CloseSettles,
        Abort, AbortSettles, SourceSettles
  <2>. QED
    BY <1>1, <2>1 DEF ResumeNext, TypeOK
<1>. QED
  BY InvInit, InvStep, <1>1, PTL DEF Spec, IInv, NoReadAfterTeardown

=============================================================================
