--------------------------- MODULE MCRateLimiter ---------------------------
(* The rate limiter on a small instance: the requests are alike.           *)
EXTENDS RateLimiter, TLC

CONSTANTS r1, r2, r3, r4

Symmetry == Permutations(Requests)

=============================================================================
