---------------------------- MODULE MCRateLimit ----------------------------
(***************************************************************************)
(* Three requests on a counter with limit two: one finds the counter, sees *)
(* it expire and creates it anew while the others use it or come later.    *)
(***************************************************************************)
EXTENDS RateLimit

CONSTANTS r1, r2, r3

TwoRequests == {r1, r2}
ThreeRequests == {r1, r2, r3}
=============================================================================
