---------------------------- MODULE SingleFlight ----------------------------
(***************************************************************************)
(* What the bearer token cache promises (the class comment of              *)
(* packages/core/src/auth/bearer-cache.ts), without generations, slots or  *)
(* microtasks: there is at most one fetch whose token will be cached; a    *)
(* fetch that answers a 401 takes that role from an ordinary one and keeps *)
(* it until it ends; only the fetch in that role ever fills the cache.     *)
(***************************************************************************)
EXTENDS Naturals

CONSTANTS Token, NoToken

VARIABLES
    cached,        \* the cached token
    live,          \* number of the fetch whose token will be cached, 0 when none
    forChallenge,  \* whether that fetch answers a 401
    started        \* number of fetches started

vars == <<cached, live, forChallenge, started>>

Init ==
    /\ cached = NoToken
    /\ live = 0
    /\ forChallenge = FALSE
    /\ started = 0

(* A request finds no usable token and no fetch to share.                  *)
Start ==
    /\ live = 0
    /\ started' = started + 1
    /\ live' = started'
    /\ forChallenge' = FALSE
    /\ UNCHANGED cached

(* A 401 starts a fetch of its own unless one that answers a 401 is out.   *)
StartForChallenge ==
    /\ ~forChallenge
    /\ started' = started + 1
    /\ live' = started'
    /\ forChallenge' = TRUE
    /\ cached' = NoToken

Publish ==
    /\ live # 0
    /\ cached' \in Token
    /\ live' = 0
    /\ forChallenge' = FALSE
    /\ UNCHANGED started

Fail ==
    /\ live # 0
    /\ live' = 0
    /\ forChallenge' = FALSE
    /\ UNCHANGED <<cached, started>>

(* A 401 clears the cache; a fetch that answers an earlier 401 goes on.    *)
Evict ==
    /\ cached' = NoToken
    /\ UNCHANGED <<live, forChallenge, started>>

Next == Start \/ StartForChallenge \/ Publish \/ Fail \/ Evict

Spec == Init /\ [][Next]_vars
=============================================================================
