----------------------------- MODULE MCLimiter -----------------------------
(* Instances of ConcurrencyLimiter for TLC; the .cfg files give the bounds. *)
EXTENDS ConcurrencyLimiter
=============================================================================
