--------------------------- MODULE MCRetryEngine ---------------------------
(* Values of the constants of RetryEngine.                                 *)
EXTENDS RetryEngine

CONSTANTS c1, c2, e1

OneCall == {c1}
TwoCalls == {c1, c2}
MCSharedError == {e1}

(* A schedule that may draw no delay, one tick or two.                     *)
MCBackoff == [n \in 1..MaxAttempts |-> {n - 1, 1}]
NoBackoff == [n \in 1..MaxAttempts |-> {0}]

(* A hint longer than one timer, and an override before now.               *)
MCHint == {0, 3}
MCOverride == {-1, 2}
NoDelay == {}
NoSharedError == {}
=============================================================================
