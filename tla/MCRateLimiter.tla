---------------------------- MODULE MCRateLimiter ----------------------------
(* A small instance of RateLimiter. *)
EXTENDS RateLimiter, TLC

CONSTANTS c1, c2, c3

Symmetric == Permutations({c1, c2, c3})
=============================================================================
