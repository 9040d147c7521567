---------------------------- MODULE MCSseStream ----------------------------
(* Values of the constants of SseStream.                                   *)
EXTENDS SseStream

CONSTANTS c1, c2

OneCloser == {c1}
TwoClosers == {c1, c2}
=============================================================================
