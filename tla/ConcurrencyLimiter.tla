------------------------- MODULE ConcurrencyLimiter -------------------------
(***************************************************************************)
(* The slot limiter of backend/app/serving/concurrency.py, on the          *)
(* asyncio.Condition of the Python 3.12 the repository is built with.      *)
(*                                                                         *)
(* Coroutines of one event loop interleave only where they suspend.  The   *)
(* condition's lock is held only across code that does not await, so it is *)
(* never contended and the one place where slot() suspends is the wait for *)
(* a notification: everything else is one step.  A notification and a      *)
(* cancellation reach a waiter in two steps, the one that completes its    *)
(* future (or marks its task) and the one in which the loop resumes it.    *)
(*                                                                         *)
(* Definitions named Faulty... are bugs this code could have; each run is  *)
(* shown to notice them.                                                   *)
(***************************************************************************)
EXTENDS Naturals, Sequences, FiniteSets, SequencesExt

CONSTANTS
    Requests,      \* tasks that use the limiter
    MaxInFlight,   \* max_in_flight
    MaxQueued      \* max_queued

ASSUME LimiterAssumption ==
    /\ IsFiniteSet(Requests)
    /\ MaxInFlight \in Nat
    /\ MaxQueued \in Nat

VARIABLES
    inFlight,   \* _in_flight
    queued,     \* _queued
    waiters,    \* _condition._waiters, the tasks whose futures it holds
    task        \* where each task is in slot()

limiterVars == <<inFlight, queued, waiters, task>>

\* "notified": its future has a result; "cancelled": it will be resumed with
\* CancelledError; neither has run yet, and both still count as queued.
Places == {"outside", "waiting", "notified", "cancelled", "inside", "refused"}

Queueing == {"waiting", "notified", "cancelled"}

Those(places) == {r \in Requests : task[r] \in places}

-----------------------------------------------------------------------------
LimiterInit ==
    /\ inFlight = 0
    /\ queued = 0
    /\ waiters = <<>>
    /\ task = [r \in Requests |-> "outside"]

Move(r, place) == task' = [task EXCEPT ![r] = place]

\* slot().__aenter__ of a task that has no slot.
Granted(r) ==
    /\ inFlight < MaxInFlight
    /\ inFlight' = inFlight + 1
    /\ Move(r, "inside")
    /\ UNCHANGED <<queued, waiters>>

FaultyQueuedUp(r) ==
    /\ inFlight >= MaxInFlight
    /\ queued <= MaxQueued
    /\ queued' = queued + 1
    /\ waiters' = Append(waiters, r)
    /\ Move(r, "waiting")
    /\ UNCHANGED inFlight

QueuedUp(r) ==
    /\ inFlight >= MaxInFlight
    /\ queued < MaxQueued
    /\ queued' = queued + 1
    /\ waiters' = Append(waiters, r)
    /\ Move(r, "waiting")
    /\ UNCHANGED inFlight

Refused(r) ==
    /\ inFlight >= MaxInFlight
    /\ queued >= MaxQueued
    /\ Move(r, "refused")
    /\ UNCHANGED <<inFlight, queued, waiters>>

Enter(r) ==
    /\ task[r] \in {"outside", "refused"}
    /\ Granted(r) \/ QueuedUp(r) \/ Refused(r)

FaultyWakeToSlot(r) ==
    /\ inFlight' = inFlight + 1
    /\ queued' = queued - 1
    /\ Move(r, "inside")

WakeToSlot(r) ==
    /\ inFlight < MaxInFlight
    /\ inFlight' = inFlight + 1
    /\ queued' = queued - 1
    /\ Move(r, "inside")

\* The loop resumes a notified task: wait_for looks at the predicate again,
\* and waits on a new future, behind the others, if the slot was taken.
Wake(r) ==
    /\ task[r] = "notified"
    /\ \E i \in DOMAIN waiters :
          /\ waiters[i] = r
          /\ \/ WakeToSlot(r) /\ waiters' = RemoveAt(waiters, i)
             \/ /\ inFlight >= MaxInFlight
                /\ waiters' = Append(RemoveAt(waiters, i), r)
                /\ Move(r, "waiting")
                /\ UNCHANGED <<inFlight, queued>>

\* The deadline's timer cancels the task.  One that has been notified is
\* cancelled all the same: its future is done, so the task is marked and its
\* next step raises CancelledError instead of returning from wait().
Cancel(r) ==
    /\ task[r] \in {"waiting", "notified"}
    /\ Move(r, "cancelled")
    /\ UNCHANGED <<inFlight, queued, waiters>>

FaultyUnwind(r) ==
    /\ task[r] = "cancelled"
    /\ \E i \in DOMAIN waiters : waiters[i] = r /\ waiters' = RemoveAt(waiters, i)
    /\ Move(r, "outside")
    /\ UNCHANGED <<inFlight, queued>>

\* The loop resumes a cancelled task, which leaves through the finally blocks
\* of wait() and slot().
Unwind(r) ==
    /\ task[r] = "cancelled"
    /\ \E i \in DOMAIN waiters : waiters[i] = r /\ waiters' = RemoveAt(waiters, i)
    /\ queued' = queued - 1
    /\ Move(r, "outside")
    /\ UNCHANGED inFlight

\* The waiters whose futures are not done once the tasks are as in t.
Asleep(t) == {i \in DOMAIN waiters : t[waiters[i]] = "waiting"}

\* notify(): the first of them gets a result.
Notify(t) ==
    \/ Asleep(t) = {} /\ task' = t
    \/ \E i \in Asleep(t) :
          /\ \A j \in Asleep(t) : i <= j
          /\ task' = [t EXCEPT ![waiters[i]] = "notified"]

\* slot().__aexit__: however the body ended, the slot is given back.
Release(r) ==
    /\ task[r] = "inside"
    /\ inFlight' = inFlight - 1
    /\ Notify([task EXCEPT ![r] = "outside"])
    /\ UNCHANGED <<queued, waiters>>

LimiterNext ==
    \E r \in Requests : Enter(r) \/ Wake(r) \/ Cancel(r) \/ Unwind(r) \/ Release(r)

LimiterSpec == LimiterInit /\ [][LimiterNext]_limiterVars

-----------------------------------------------------------------------------
(* Properties.                                                             *)

LimiterTypeOK ==
    /\ inFlight \in Nat
    /\ queued \in Nat
    /\ waiters \in Seq(Requests)
    /\ task \in [Requests -> Places]

\* The counters are the tasks they count, whatever was cancelled or notified
\* in between, so neither drifts: a slot or a place in the queue that is lost
\* would stay lost (concurrency.py:47-58).
CountersExact ==
    /\ inFlight = Cardinality(Those({"inside"}))
    /\ queued = Cardinality(Those(Queueing))

\* Real backpressure (concurrency.py:1-5): never more streams than slots and
\* never more waiters than places, although a notified waiter and a newcomer
\* compete for the slot that was given back.
WithinBounds == inFlight <= MaxInFlight /\ queued <= MaxQueued

\* The refinement mapping: notified and cancelled tasks are waiting until they
\* have run.
Visit == [r \in Requests |-> IF task[r] \in Queueing THEN "waiting" ELSE task[r]]

Semaphore == INSTANCE BoundedSemaphore WITH
    Visitors <- Requests, Slots <- MaxInFlight, Places <- MaxQueued, visit <- Visit

\* The limiter is a semaphore with a bounded waiting room: nobody is made to
\* wait, or refused, on arrival while a slot is free, nobody is refused while
\* there is a place in the queue, and nobody gets in while all slots are taken
\* (concurrency.py:36-40).
ImplementsSemaphore == Semaphore!Spec

\* A slot that is free is not left beside a sleeping waiter: a task that has
\* been notified will look at it, or one that has been cancelled is still on its
\* way out of slot() and may pass the notification on (concurrency.py:38-40:
\* releasing the slot, "including on cancellation", "always notifies the next
\* waiter").
FreeSlotWakesSomeone ==
    inFlight < MaxInFlight /\ Those({"waiting"}) # {} => Those({"notified", "cancelled"}) # {}
=============================================================================
