---------------------------- MODULE MCRateLimit -----------------------------
(* RateLimit with two or three requests in flight. *)
EXTENDS RateLimit
===========================================================================
