----------------------- MODULE ModelReleaseRefinement -----------------------
(***************************************************************************)
(* Operators of model_release that take turns implement ReleaseStack: the  *)
(* stack is the previous_release_id chain that hangs from the ACTIVE row.  *)
(***************************************************************************)
EXTENDS ModelRelease

ASSUME RefinementAssumption == IsFiniteSet(Releases)

\* The chain from the ACTIVE row upwards, None once it has ended; longer than
\* the number of releases only if it has a cycle.
Lineage ==
    LET up[i \in 0..Cardinality(Releases)] ==
          IF i = 0 THEN GetActiveRow
          ELSE IF up[i - 1] = None THEN None ELSE row[up[i - 1]].previous
    IN  up

Depth == Cardinality({i \in DOMAIN Lineage : Lineage[i] # None})

Stack == [i \in 1..Depth |-> Lineage[Depth - i]]

Retired == {r \in Releases : row[r].status = "ROLLED_BACK"}

Answer == [k \in Keys |-> IF IdempotencyKeyFree(k) THEN None ELSE AnswerTo(k)]

RS == INSTANCE ReleaseStack WITH stack <- Stack, retired <- Retired, answer <- Answer

\* Every step of the lifecycle pushes a fresh release, pops the one in service
\* under an unused key, or leaves the stack alone: a rollback restores the
\* release below and nothing rolled back comes into service again.
RefinesReleaseStack == RS!Spec

\* The SUPERSEDED releases are exactly the ones a rollback can still return
\* to, and following previous_release_id from the ACTIVE one ends.
LineageSound ==
    /\ Lineage[Cardinality(Releases)] = None
    /\ {r \in Releases : row[r].status = "SUPERSEDED"}
         = {Lineage[i] : i \in DOMAIN Lineage \ {0}} \ {None}
=============================================================================
