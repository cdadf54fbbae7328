----------------------------- MODULE MCServing -----------------------------
(* Instances of Serving for TLC; the .cfg files give the bounds. *)
EXTENDS Serving

\* No safety property tells requests apart.
RequestSymmetry == Permutations(Requests)
=============================================================================
