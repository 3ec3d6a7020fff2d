--------------------------- MODULE MCRateLimiter ---------------------------
(* TLC instance of RateLimiter: the slots share one client and two pods.   *)
EXTENDS RateLimiter, TLC

CONSTANTS k1, p1, p2, r1, r2, r3

ClientOf == [r \in Requests |-> k1]
PodOf == [r \in Requests |-> IF r = r3 THEN p2 ELSE p1]
=============================================================================
