------------------------- MODULE MCStandardPipeline -------------------------
(* Values of the constants of StandardPipeline for TLC: two targets of the *)
(* caller's origin, its plaintext twin, and two targets of a foreign one.  *)
EXTENDS StandardPipeline, TLC

CONSTANTS home, homeToo, homePlain, away, awayToo

MCUrl == {home, homeToo, homePlain, away, awayToo}
MCSeed == {home, homePlain}
MCPlaintext == {homePlain}
MCOrigin ==
    home :> 1 @@ homeToo :> 1 @@ homePlain :> 2 @@ away :> 3 @@ awayToo :> 3
=============================================================================
