--------------------------- MODULE MCModelRelease ---------------------------
(* Instances of ModelRelease for TLC.                                      *)
EXTENDS ModelReleaseRefinement, TLC

\* Model values: the callers, and the processes they run in.
CONSTANTS c1, c2, p1, p2

\* The callers all in one process, or each in its own.
OneProcess == [c \in Callers |-> p1]
TwoProcesses == c1 :> p1 @@ c2 :> p2

DataSymmetry == Permutations(Releases) \cup Permutations(Keys)

\* Swapping the callers is sound when it swaps their processes too.
SwapSides == c1 :> c2 @@ c2 :> c1 @@ p1 :> p2 @@ p2 :> p1
TwoProcessesSymmetry == DataSymmetry \cup {SwapSides}
OneProcessSymmetry == DataSymmetry \cup Permutations(Callers)
=============================================================================
