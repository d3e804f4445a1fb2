---------------------------- MODULE MCRateLimiter ----------------------------
(***************************************************************************)
(* RateLimiter for TLC: two addresses, windows of three ticks and two ticks *)
(* to a second, so that a wait ends within a second.                        *)
(***************************************************************************)
EXTENDS RateLimiter

CONSTANTS k1, k2

=============================================================================
