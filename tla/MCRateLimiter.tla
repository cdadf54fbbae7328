--------------------------- MODULE MCRateLimiter ---------------------------
(* An instance of RateLimiter for TLC; the .cfg gives the bounds. *)
EXTENDS RateLimiter, TLC

\* A limiter that refills, by less than a token a second, and one that does not.
Rates == {0, 2}

\* No property tells callers apart.
KeySymmetry == Permutations(Keys)
=============================================================================
