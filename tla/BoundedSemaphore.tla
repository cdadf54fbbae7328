-------------------------- MODULE BoundedSemaphore --------------------------
(***************************************************************************)
(* What serving/concurrency.py promises, without its counters, condition   *)
(* variable and cancellations: at most Slots visitors are inside, at most  *)
(* Places wait, one that comes when there is no slot and no place is       *)
(* refused at once, and nobody who could be let in on arrival is made to   *)
(* wait.  When a slot comes free it says who may take it, not who does:    *)
(* a waiter may stay where it is beside a free slot.                       *)
(***************************************************************************)
EXTENDS Naturals, FiniteSets

CONSTANTS Visitors, Slots, Places

VARIABLE visit   \* where each visitor is

Where == {"outside", "waiting", "inside", "refused"}

Those(place) == {v \in Visitors : visit[v] = place}

FreeSlot == Cardinality(Those("inside")) < Slots

Init == visit = [v \in Visitors |-> "outside"]

Move(v, place) == visit' = [visit EXCEPT ![v] = place]

Arrive(v) ==
    /\ visit[v] \in {"outside", "refused"}
    /\ \/ FreeSlot /\ Move(v, "inside")
       \/ /\ ~FreeSlot
          /\ Cardinality(Those("waiting")) < Places
          /\ Move(v, "waiting")
       \/ /\ ~FreeSlot
          /\ Cardinality(Those("waiting")) >= Places
          /\ Move(v, "refused")

Admit(v) == visit[v] = "waiting" /\ FreeSlot /\ Move(v, "inside")

GiveUp(v) == visit[v] = "waiting" /\ Move(v, "outside")

Leave(v) == visit[v] = "inside" /\ Move(v, "outside")

Next == \E v \in Visitors : Arrive(v) \/ Admit(v) \/ GiveUp(v) \/ Leave(v)

Spec == Init /\ [][Next]_visit
=============================================================================
