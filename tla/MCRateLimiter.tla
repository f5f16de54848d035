---------------------------- MODULE MCRateLimiter -----------------------------
(* Model checking RateLimiter: two clients over three windows.               *)
EXTENDS RateLimiter, TLC
===============================================================================
