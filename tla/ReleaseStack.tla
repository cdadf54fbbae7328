---------------------------- MODULE ReleaseStack ----------------------------
(***************************************************************************)
(* What the model-release lifecycle promises a single operator, without    *)
(* rows, statuses or sessions: the releases in service form a stack.       *)
(* Activating pushes a release never used before; rolling back pops the    *)
(* one in service for good and returns to the one below, at most once per  *)
(* idempotency key.  The bottom release cannot be rolled back.             *)
(***************************************************************************)
EXTENDS Naturals, Sequences

CONSTANTS Releases, Keys, None

VARIABLES
    stack,    \* releases activated and not rolled back, the last in service
    retired,  \* releases rolled back from, known to be bad
    answer    \* the release each idempotency key was answered with, or None

vars == <<stack, retired, answer>>

InUse == {stack[i] : i \in DOMAIN stack}

Init ==
    /\ stack = <<>>
    /\ retired = {}
    /\ answer = [k \in Keys |-> None]

Activate(r) ==
    /\ r \notin InUse \cup retired
    /\ stack' = Append(stack, r)
    /\ UNCHANGED <<retired, answer>>

Rollback(k) ==
    /\ Len(stack) > 1
    /\ answer[k] = None
    /\ stack' = SubSeq(stack, 1, Len(stack) - 1)
    /\ retired' = retired \cup {stack[Len(stack)]}
    /\ answer' = [answer EXCEPT ![k] = stack[Len(stack) - 1]]

Next ==
    \/ \E r \in Releases : Activate(r)
    \/ \E k \in Keys : Rollback(k)

Spec == Init /\ [][Next]_vars
=============================================================================
