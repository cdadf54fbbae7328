---------------------- MODULE ConcurrencyLimiterProofs ----------------------
(***************************************************************************)
(* Theorems about ConcurrencyLimiter, for any set of requests and any      *)
(* bounds: the counters never drift from the tasks they count, the bounds  *)
(* are kept, and the limiter implements BoundedSemaphore.                  *)
(***************************************************************************)
EXTENDS ConcurrencyLimiter, FiniteSetTheorems, TLAPS

\* The tasks that are in one of the places, when they are as t says.
Of(t, places) == {r \in Requests : t[r] \in places}

-----------------------------------------------------------------------------
(* Counting the tasks in some places after one of them has moved.          *)

\* Sets of requests have a cardinality.
LEMMA CountIsNat ==
    ASSUME NEW t, NEW places
    PROVE  IsFiniteSet(Of(t, places)) /\ Cardinality(Of(t, places)) \in Nat
<1>1. Of(t, places) \subseteq Requests /\ IsFiniteSet(Requests)
  BY LimiterAssumption DEF Of
<1> QED  BY <1>1, FS_Subset, FS_CardinalityType

\* Between t and u at most r has moved.
OnlyMoved(r, t, u) == \A s \in Requests \ {r} : u[s] = t[s]

One(b) == IF b THEN 1 ELSE 0

\* What the move of r does to the number of tasks in some places.
LEMMA Moved ==
    ASSUME NEW t, NEW u, NEW r \in Requests, NEW places, OnlyMoved(r, t, u)
    PROVE  Cardinality(Of(u, places)) =
             Cardinality(Of(t, places)) + One(u[r] \in places) - One(t[r] \in places)
<1>1. Cardinality(Of(t, places)) \in Nat
  BY CountIsNat
<1>2. CASE t[r] \in places <=> u[r] \in places
  <2>1. Of(u, places) = Of(t, places)
    BY <1>2 DEF Of, OnlyMoved
  <2> QED  BY <1>1, <1>2, <2>1 DEF One
<1>3. CASE t[r] \notin places /\ u[r] \in places
  <2>1. Of(u, places) = Of(t, places) \cup {r} /\ r \notin Of(t, places)
    BY <1>3 DEF Of, OnlyMoved
  <2>2. Cardinality(Of(u, places)) = Cardinality(Of(t, places)) + 1
    BY <2>1, CountIsNat, FS_AddElement
  <2> QED  BY <1>1, <1>3, <2>2 DEF One
<1>4. CASE t[r] \in places /\ u[r] \notin places
  <2>1. Of(u, places) = Of(t, places) \ {r} /\ r \in Of(t, places)
    BY <1>4 DEF Of, OnlyMoved
  <2>2. Cardinality(Of(u, places)) = Cardinality(Of(t, places)) - 1
    BY <2>1, CountIsNat, FS_RemoveElement
  <2> QED  BY <1>1, <1>4, <2>2 DEF One
<1> QED  BY <1>2, <1>3, <1>4

-----------------------------------------------------------------------------
(* The inductive invariant: types, exact counters, and bounds.             *)

LimiterInv == LimiterTypeOK /\ CountersExact /\ WithinBounds

LEMMA LimiterInitInv == LimiterInit => LimiterInv
<1> SUFFICES ASSUME LimiterInit PROVE LimiterInv
  OBVIOUS
<1>1. Those({"inside"}) = {} /\ Those(Queueing) = {}
  BY DEF LimiterInit, Those, Queueing
<1>2. CountersExact
  BY <1>1, FS_EmptySet DEF LimiterInit, CountersExact
<1> QED  BY <1>2, LimiterAssumption DEF LimiterInit, LimiterInv, LimiterTypeOK, WithinBounds, Places

\* Taking a future off the condition's list.
LEMMA RemovedFromList ==
    ASSUME NEW w \in Seq(Requests), NEW i \in DOMAIN w
    PROVE  RemoveAt(w, i) \in Seq(Requests)
<1>1. SubSeq(w, 1, i - 1) \in Seq(Requests) /\ SubSeq(w, i + 1, Len(w)) \in Seq(Requests)
  OBVIOUS
<1> QED  BY <1>1 DEF RemoveAt

\* What a step that moves r from one place to another does to the counts.
LEMMA MoveCounts ==
    ASSUME LimiterInv, NEW r \in Requests, NEW q \in Places, Move(r, q)
    PROVE  /\ task' \in [Requests -> Places]
           /\ Cardinality(Those({"inside"})') = inFlight + One(q = "inside") - One(task[r] = "inside")
           /\ Cardinality(Those(Queueing)') = queued + One(q \in Queueing) - One(task[r] \in Queueing)
<1>1. task \in [Requests -> Places] /\ task' = [task EXCEPT ![r] = q]
  BY DEF LimiterInv, LimiterTypeOK, Move
<1>2. OnlyMoved(r, task, task') /\ task'[r] = q /\ task' \in [Requests -> Places]
  BY <1>1 DEF OnlyMoved
<1>3. Cardinality(Of(task, {"inside"})) = inFlight /\ Cardinality(Of(task, Queueing)) = queued
  BY DEF LimiterInv, CountersExact, Of, Those
<1>4. Those({"inside"})' = Of(task', {"inside"}) /\ Those(Queueing)' = Of(task', Queueing)
  BY DEF Of, Those
<1>5. \A places : Cardinality(Of(task', places)) =
         Cardinality(Of(task, places)) + One(task'[r] \in places) - One(task[r] \in places)
  BY <1>2, Moved
<1>6. One(q \in {"inside"}) = One(q = "inside") /\ One(task[r] \in {"inside"}) = One(task[r] = "inside")
  BY DEF One
<1> QED  BY <1>2, <1>3, <1>4, <1>5, <1>6

\* A notification moves a task from one queueing place to another, if at all.
LEMMA NotifyCounts ==
    ASSUME LimiterTypeOK, NEW t \in [Requests -> Places], Notify(t)
    PROVE  /\ task' \in [Requests -> Places]
           /\ Cardinality(Those({"inside"})') = Cardinality(Of(t, {"inside"}))
           /\ Cardinality(Those(Queueing)') = Cardinality(Of(t, Queueing))
<1>1. CASE task' = t
  BY <1>1 DEF Those, Of
<1>2. CASE \E i \in Asleep(t) : task' = [t EXCEPT ![waiters[i]] = "notified"]
  <2>1. PICK i \in Asleep(t) : task' = [t EXCEPT ![waiters[i]] = "notified"]
    BY <1>2
  <2>2. waiters[i] \in Requests /\ t[waiters[i]] = "waiting"
    BY <2>1 DEF Asleep, LimiterTypeOK
  <2>3. /\ task' \in [Requests -> Places]
        /\ OnlyMoved(waiters[i], t, task') /\ task'[waiters[i]] = "notified"
    BY <2>1, <2>2 DEF OnlyMoved, Places
  <2>4. "notified" \in Queueing /\ "waiting" \in Queueing
    BY DEF Queueing
  <2>5. Of(task', {"inside"}) = Of(t, {"inside"}) /\ Of(task', Queueing) = Of(t, Queueing)
    BY <2>2, <2>3, <2>4 DEF Of, OnlyMoved
  <2> QED  BY <2>3, <2>5 DEF Those, Of
<1> QED  BY <1>1, <1>2 DEF Notify

\* The tasks that queue are counted, so one that leaves leaves a Nat behind.
LEMMA QueuedPositive ==
    ASSUME LimiterInv, NEW r \in Requests, task[r] \in Queueing
    PROVE  queued \in Nat \ {0}
<1>1. r \in Those(Queueing) /\ Those(Queueing) = Of(task, Queueing)
  BY DEF Those, Of
<1> QED  BY <1>1, CountIsNat, FS_EmptySet DEF LimiterInv, CountersExact, LimiterTypeOK

LEMMA InFlightPositive ==
    ASSUME LimiterInv, NEW r \in Requests, task[r] = "inside"
    PROVE  inFlight \in Nat \ {0}
<1>1. r \in Those({"inside"}) /\ Those({"inside"}) = Of(task, {"inside"})
  BY DEF Those, Of
<1> QED  BY <1>1, CountIsNat, FS_EmptySet DEF LimiterInv, CountersExact, LimiterTypeOK

LEMMA EnterInv == ASSUME LimiterInv, NEW r \in Requests, Enter(r) PROVE LimiterInv'
<1>1. /\ task[r] \notin Queueing /\ task[r] # "inside"
      /\ "inside" \notin Queueing /\ "waiting" \in Queueing /\ "refused" \notin Queueing
      /\ {"inside", "waiting", "refused"} \subseteq Places
  BY DEF Enter, Queueing, Places
<1>2. CASE Granted(r)
  <2>1. Move(r, "inside")
    BY <1>2 DEF Granted
  <2> QED  BY <1>1, <1>2, <2>1, MoveCounts, LimiterAssumption
           DEF Granted, LimiterInv, LimiterTypeOK, CountersExact, WithinBounds, One
<1>3. CASE QueuedUp(r)
  <2>1. Move(r, "waiting")
    BY <1>3 DEF QueuedUp
  <2> QED  BY <1>1, <1>3, <2>1, MoveCounts, LimiterAssumption
           DEF QueuedUp, LimiterInv, LimiterTypeOK, CountersExact, WithinBounds, One
<1>4. CASE Refused(r)
  <2>1. Move(r, "refused")
    BY <1>4 DEF Refused
  <2> QED  BY <1>1, <1>4, <2>1, MoveCounts
           DEF Refused, LimiterInv, LimiterTypeOK, CountersExact, WithinBounds, One
<1> QED  BY <1>2, <1>3, <1>4 DEF Enter

LEMMA WakeInv == ASSUME LimiterInv, NEW r \in Requests, Wake(r) PROVE LimiterInv'
<1>1. /\ task[r] \in Queueing /\ task[r] # "inside" /\ "waiting" \in Queueing
      /\ "inside" \notin Queueing /\ "waiting" \in Places /\ "inside" \in Places
  BY DEF Wake, Queueing, Places
<1>2. PICK i \in DOMAIN waiters :
        \/ WakeToSlot(r) /\ waiters' = RemoveAt(waiters, i)
        \/ /\ waiters' = Append(RemoveAt(waiters, i), r)
           /\ Move(r, "waiting")
           /\ UNCHANGED <<inFlight, queued>>
  BY DEF Wake
<1>3. RemoveAt(waiters, i) \in Seq(Requests)
  BY RemovedFromList DEF LimiterInv, LimiterTypeOK
<1>4. waiters' \in Seq(Requests)
  BY <1>2, <1>3
<1>5. CASE WakeToSlot(r)
  <2>1. Move(r, "inside")
    BY <1>5 DEF WakeToSlot
  <2>2. task' \in [Requests -> Places] /\ CountersExact'
    BY <1>1, <1>5, <2>1, MoveCounts DEF WakeToSlot, LimiterInv, LimiterTypeOK, CountersExact, One
  <2>3. queued \in Nat \ {0}
    BY <1>1, QueuedPositive
  <2> QED  BY <1>4, <1>5, <2>2, <2>3, LimiterAssumption
           DEF WakeToSlot, LimiterInv, LimiterTypeOK, WithinBounds
<1>6. CASE Move(r, "waiting") /\ UNCHANGED <<inFlight, queued>>
  <2>1. task' \in [Requests -> Places] /\ CountersExact'
    BY <1>1, <1>6, MoveCounts DEF LimiterInv, LimiterTypeOK, CountersExact, One
  <2> QED  BY <1>4, <1>6, <2>1 DEF LimiterInv, LimiterTypeOK, WithinBounds
<1> QED  BY <1>2, <1>5, <1>6

LEMMA CancelInv == ASSUME LimiterInv, NEW r \in Requests, Cancel(r) PROVE LimiterInv'
<1>1. /\ task[r] \in Queueing /\ task[r] # "inside"
      /\ "cancelled" \in Queueing /\ "cancelled" \in Places
  BY DEF Cancel, Queueing, Places
<1>2. Move(r, "cancelled") /\ UNCHANGED <<inFlight, queued, waiters>>
  BY DEF Cancel
<1> QED  BY <1>1, <1>2, MoveCounts DEF LimiterInv, LimiterTypeOK, CountersExact, WithinBounds, One

LEMMA UnwindInv == ASSUME LimiterInv, NEW r \in Requests, Unwind(r) PROVE LimiterInv'
<1>1. /\ task[r] \in Queueing /\ task[r] # "inside"
      /\ "outside" \notin Queueing /\ "outside" \in Places
  BY DEF Unwind, Queueing, Places
<1>2. Move(r, "outside") /\ inFlight' = inFlight /\ queued' = queued - 1
  BY DEF Unwind
<1>3. waiters' \in Seq(Requests)
  BY RemovedFromList DEF Unwind, LimiterInv, LimiterTypeOK
<1>4. queued \in Nat \ {0}
  BY <1>1, QueuedPositive
<1>5. task' \in [Requests -> Places] /\ CountersExact'
  BY <1>1, <1>2, MoveCounts DEF LimiterInv, LimiterTypeOK, CountersExact, One
<1> QED  BY <1>2, <1>3, <1>4, <1>5, LimiterAssumption DEF LimiterInv, LimiterTypeOK, WithinBounds

LEMMA ReleaseInv == ASSUME LimiterInv, NEW r \in Requests, Release(r) PROVE LimiterInv'
<1> DEFINE t == [task EXCEPT ![r] = "outside"]
<1>1. /\ task \in [Requests -> Places] /\ t \in [Requests -> Places] /\ LimiterTypeOK
      /\ OnlyMoved(r, task, t) /\ t[r] = "outside"
  BY DEF LimiterInv, LimiterTypeOK, Places, OnlyMoved
<1>2. /\ task[r] = "inside" /\ task[r] \notin Queueing /\ "outside" \notin Queueing
      /\ Notify(t) /\ inFlight' = inFlight - 1 /\ UNCHANGED <<queued, waiters>>
  BY DEF Release, Queueing
<1>3. \A places : Cardinality(Of(t, places)) =
         Cardinality(Of(task, places)) + One(t[r] \in places) - One(task[r] \in places)
  BY ONLY <1>1, Moved, ZenonT(40)
<1>4. /\ One(t[r] \in {"inside"}) = 0 /\ One(task[r] \in {"inside"}) = 1
      /\ One(t[r] \in Queueing) = 0 /\ One(task[r] \in Queueing) = 0
  BY <1>1, <1>2 DEF One
<1>5. /\ task' \in [Requests -> Places]
      /\ Cardinality(Those({"inside"})') = Cardinality(Of(t, {"inside"}))
      /\ Cardinality(Those(Queueing)') = Cardinality(Of(t, Queueing))
  BY <1>1, <1>2, NotifyCounts
<1>6. inFlight \in Nat \ {0}
  BY <1>2, InFlightPositive
<1>7. Those({"inside"}) = Of(task, {"inside"}) /\ Those(Queueing) = Of(task, Queueing)
  BY DEF Those, Of
<1>8. /\ Cardinality(Those({"inside"})') = inFlight - 1
      /\ Cardinality(Those(Queueing)') = queued
  <2>1. Cardinality(Of(task, {"inside"})) = inFlight /\ Cardinality(Of(task, Queueing)) = queued
    BY <1>7 DEF LimiterInv, CountersExact
  <2>2. inFlight \in Nat /\ queued \in Nat
    BY DEF LimiterInv, LimiterTypeOK
  <2>3. Cardinality(Of(t, {"inside"})) = inFlight + 0 - 1
    BY <1>3, <1>4, <2>1
  <2>4. Cardinality(Of(t, Queueing)) = queued + 0 - 0
    BY <1>3, <1>4, <2>1
  <2> QED  BY <1>5, <2>2, <2>3, <2>4
<1>9. CountersExact'
  BY <1>2, <1>8 DEF CountersExact
<1> QED  BY <1>2, <1>5, <1>6, <1>9, LimiterAssumption DEF LimiterInv, LimiterTypeOK, WithinBounds

LEMMA LimiterNextInv == LimiterInv /\ [LimiterNext]_limiterVars => LimiterInv'
<1> SUFFICES ASSUME LimiterInv, [LimiterNext]_limiterVars PROVE LimiterInv'
  OBVIOUS
<1>1. CASE UNCHANGED limiterVars
  BY <1>1 DEF limiterVars, LimiterInv, LimiterTypeOK, CountersExact, WithinBounds, Those
<1>2. ASSUME NEW r \in Requests,
             Enter(r) \/ Wake(r) \/ Cancel(r) \/ Unwind(r) \/ Release(r)
      PROVE  LimiterInv'
  BY <1>2, EnterInv, WakeInv, CancelInv, UnwindInv, ReleaseInv
<1> QED  BY <1>1, <1>2 DEF LimiterNext

LEMMA LimiterInvariance == LimiterSpec => []LimiterInv
BY LimiterInitInv, LimiterNextInv, PTL DEF LimiterSpec

-----------------------------------------------------------------------------
\* The types of the limiter's counters, list and tasks: a counter that were
\* decremented twice, in the handling of a cancellation say, would go below 0.
THEOREM LimiterTypeCorrect == LimiterSpec => []LimiterTypeOK
<1>1. LimiterInv => LimiterTypeOK
  BY DEF LimiterInv
<1> QED  BY <1>1, LimiterInvariance, PTL

\* The counters are exact however notifications, cancellations and newcomers
\* interleave (concurrency.py:47-58).
THEOREM CountersNeverDrift == LimiterSpec => []CountersExact
<1>1. LimiterInv => CountersExact
  BY DEF LimiterInv
<1> QED  BY <1>1, LimiterInvariance, PTL

\* Streams and waiters stay within max_in_flight and max_queued
\* (concurrency.py:42-52).
THEOREM BoundsKept == LimiterSpec => []WithinBounds
<1>1. LimiterInv => WithinBounds
  BY DEF LimiterInv
<1> QED  BY <1>1, LimiterInvariance, PTL

-----------------------------------------------------------------------------
(* The refinement of BoundedSemaphore.                                     *)

\* The instance brings its own copy of FiniteSets.
LEMMA SameCardinality ==
    ASSUME NEW S
    PROVE  Semaphore!Cardinality(S) = Cardinality(S)
BY DEF Semaphore!Cardinality, Cardinality, Semaphore!IsFiniteSet, IsFiniteSet

\* The semaphore's counts are the limiter's counters.
LEMMA SameCounts ==
    ASSUME LimiterInv
    PROVE  /\ Visit \in [Requests -> Semaphore!Where]
           /\ Semaphore!FreeSlot <=> inFlight < MaxInFlight
           /\ Semaphore!Cardinality(Semaphore!Those("waiting")) = queued
<1>1. task \in [Requests -> Places]
  BY DEF LimiterInv, LimiterTypeOK
<1>2. Visit \in [Requests -> Semaphore!Where]
  BY <1>1 DEF Visit, Places, Queueing, Semaphore!Where
<1>3. Semaphore!Those("inside") = Those({"inside"})
  BY <1>1 DEF Semaphore!Those, Those, Visit, Queueing
<1>4. Semaphore!Those("waiting") = Those(Queueing)
  BY <1>1 DEF Semaphore!Those, Those, Visit, Queueing
<1> QED  BY <1>2, <1>3, <1>4, SameCardinality DEF Semaphore!FreeSlot, LimiterInv, CountersExact

\* A task that moves, or is notified, moves its visitor accordingly.
LEMMA VisitMoves ==
    ASSUME LimiterInv, NEW r \in Requests, NEW q \in Places, Move(r, q)
    PROVE  Visit' = [Visit EXCEPT ![r] = IF q \in Queueing THEN "waiting" ELSE q]
BY DEF LimiterInv, LimiterTypeOK, Move, Visit

LEMMA VisitLeaves ==
    ASSUME LimiterInv, NEW r \in Requests, Release(r)
    PROVE  Visit' = [Visit EXCEPT ![r] = "outside"]
<1> DEFINE t == [task EXCEPT ![r] = "outside"]
<1>1. t \in [Requests -> Places] /\ Notify(t) /\ waiters \in Seq(Requests) /\ task \in [Requests -> Places]
  BY DEF LimiterInv, LimiterTypeOK, Places, Release
<1>2. Visit' = [s \in Requests |-> IF t[s] \in Queueing THEN "waiting" ELSE t[s]]
  <2>1. CASE task' = t
    BY <2>1 DEF Visit
  <2>2. ASSUME NEW i \in Asleep(t), task' = [t EXCEPT ![waiters[i]] = "notified"]
        PROVE  Visit' = [s \in Requests |-> IF t[s] \in Queueing THEN "waiting" ELSE t[s]]
    <3>1. waiters[i] \in Requests /\ t[waiters[i]] = "waiting"
      BY <1>1 DEF Asleep
    <3> QED  BY <1>1, <2>2, <3>1 DEF Visit, Queueing
  <2> QED  BY <1>1, <2>1, <2>2 DEF Notify
<1> QED  BY <1>1, <1>2 DEF Visit, Queueing

LEMMA StepImplements ==
    LimiterInv /\ [LimiterNext]_limiterVars => [Semaphore!Next]_Visit
<1> SUFFICES ASSUME LimiterInv, [LimiterNext]_limiterVars
             PROVE  [Semaphore!Next]_Visit
  OBVIOUS
<1> USE DEF Semaphore!Move
<1>1. CASE UNCHANGED limiterVars
  BY <1>1 DEF limiterVars, Visit
<1>2. ASSUME NEW r \in Requests, Enter(r) PROVE Semaphore!Arrive(r)
  <2>1. Visit[r] \in {"outside", "refused"}
    BY <1>2 DEF Enter, Visit, Queueing
  <2>2. CASE Granted(r)
    BY <2>1, <2>2, SameCounts, VisitMoves DEF Granted, Semaphore!Arrive, Places, Queueing
  <2>3. CASE QueuedUp(r)
    BY <2>1, <2>3, SameCounts, VisitMoves, LimiterAssumption
       DEF QueuedUp, Semaphore!Arrive, Places, Queueing, LimiterInv, LimiterTypeOK
  <2>4. CASE Refused(r)
    BY <2>1, <2>4, SameCounts, VisitMoves, LimiterAssumption
       DEF Refused, Semaphore!Arrive, Places, Queueing, LimiterInv, LimiterTypeOK
  <2> QED  BY <1>2, <2>2, <2>3, <2>4 DEF Enter
<1>3. ASSUME NEW r \in Requests, Wake(r) PROVE Semaphore!Admit(r) \/ UNCHANGED Visit
  <2>1. Visit[r] = "waiting" /\ Visit \in [Requests -> Semaphore!Where]
    BY <1>3, SameCounts DEF Wake, Visit, Queueing
  <2>2. CASE WakeToSlot(r)
    BY <2>1, <2>2, SameCounts, VisitMoves DEF WakeToSlot, Semaphore!Admit, Places, Queueing
  <2>3. CASE Move(r, "waiting")
    BY <2>1, <2>3, VisitMoves DEF Places, Queueing
  <2> QED  BY <1>3, <2>2, <2>3 DEF Wake
<1>4. ASSUME NEW r \in Requests, Cancel(r) PROVE UNCHANGED Visit
  <2>1. Visit[r] = "waiting" /\ Visit \in [Requests -> Semaphore!Where] /\ Move(r, "cancelled")
    BY <1>4, SameCounts DEF Cancel, Visit, Queueing
  <2> QED  BY <2>1, VisitMoves DEF Places, Queueing
<1>5. ASSUME NEW r \in Requests, Unwind(r) PROVE Semaphore!GiveUp(r)
  <2>1. Visit[r] = "waiting" /\ Move(r, "outside")
    BY <1>5 DEF Unwind, Visit, Queueing
  <2> QED  BY <2>1, VisitMoves DEF Semaphore!GiveUp, Places, Queueing
<1>6. ASSUME NEW r \in Requests, Release(r) PROVE Semaphore!Leave(r)
  <2>1. Visit[r] = "inside"
    BY <1>6 DEF Release, Visit, Queueing
  <2> QED  BY <1>6, <2>1, VisitLeaves DEF Semaphore!Leave
<1> QED  BY <1>1, <1>2, <1>3, <1>4, <1>5, <1>6 DEF LimiterNext, Semaphore!Next

\* Slots are granted, queued for and refused as the semaphore with a bounded
\* waiting room does it, whatever is notified or cancelled in between
\* (concurrency.py:36-58).
THEOREM LimiterIsSemaphore == LimiterSpec => ImplementsSemaphore
<1>1. LimiterInit => Semaphore!Init
  BY DEF LimiterInit, Semaphore!Init, Visit, Queueing
<1> QED  BY <1>1, StepImplements, LimiterInvariance, PTL
         DEF LimiterSpec, ImplementsSemaphore, Semaphore!Spec
=============================================================================
