---------------------------- MODULE MCRateLimits ----------------------------
(***************************************************************************)
(* RateLimits on small instances.                                          *)
(***************************************************************************)
EXTENDS RateLimits, TLC

CONSTANTS c1, h1, h2

Symmetry == Permutations(Handlers)
=============================================================================
