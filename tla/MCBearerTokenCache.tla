------------------------- MODULE MCBearerTokenCache -------------------------
(* Values of the constants of BearerTokenCache for TLC.                    *)
EXTENDS BearerTokenCache, TLC

CONSTANTS c1, c2, tShort, tLong

MCCaller == {c1, c2}
MCToken == {tShort, tLong}

(* One token that is fresh at 0, expiring at 1 and dead at 2, and one that *)
(* never expires within the bound of the clock.                            *)
MCExpiresAt == tShort :> 1 @@ tLong :> 9

(* For liveness one token is enough, expiring at 0 and dead at 1.          *)
MCTokenLive == {tShort}
MCExpiresAtLive == tShort :> 0

CallerSymmetry == Permutations(MCCaller)
=============================================================================
