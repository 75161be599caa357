--------------------------- MODULE MCRateLimiter ---------------------------
(***************************************************************************)
(* Two addresses, two ticks per second, a burst of two tokens that is      *)
(* earned in exactly the time after which a bucket may be dropped: the     *)
(* tightest limiter LimiterAssumption admits.                              *)
(***************************************************************************)
EXTENDS RateLimiter
=============================================================================
