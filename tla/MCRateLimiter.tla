---------------------------- MODULE MCRateLimiter ----------------------------
(* Instances of RateLimiter for TLC. *)
EXTENDS RateLimiter, TLC

Symmetry == Permutations(Ips) \cup Permutations(Accounts) \cup Permutations(Requests)
=============================================================================
