----------------------------- MODULE MCRateLimiter -----------------------------
(* RateLimiter, with the history of SlidingWindow, on a small instance. *)
EXTENDS SlidingWindow, TLC

Symmetry == Permutations(Ips) \cup Permutations(Reqs)
================================================================================
