----------------------------- MODULE TraceChain -----------------------------
(***************************************************************************)
(* The hash chain of services/trace.py.  SHA-256 is taken to be injective: *)
(* a hash is modelled by what is hashed, and the chain's hash after some   *)
(* events by the contents and argument hashes of those events, in order.   *)
(***************************************************************************)
EXTENDS Naturals, Sequences

\* What result_hash covers of an event (its trace_id and timestamp it does not).
Content(event) ==
    <<event.sequence, event.stage, event.type, event.tool, event.ids>>

\* What the events up to the i-th fold into the chain.
FoldedTo(events, i) == [j \in 1 .. i |-> <<Content(events[j]), events[j].arguments>>]

FaultyChained(seed, events) ==
    [i \in DOMAIN events |->
        [event |-> events[i], result |-> Content(events[i]),
         before |-> <<seed, FoldedTo(events, i - 1)>>,
         after |-> <<seed, FoldedTo(events, i - 1)>>]]

\* The rows TraceRecorder.record leaves for a list of events.
Chained(seed, events) ==
    [i \in DOMAIN events |->
        [event |-> events[i], result |-> Content(events[i]),
         before |-> <<seed, FoldedTo(events, i - 1)>>,
         after |-> <<seed, FoldedTo(events, i)>>]]

EventsOf(rows) == [i \in DOMAIN rows |-> rows[i].event]

\* verify_trace_chain, of rows in the order of their sequence numbers.
Verified(seed, rows) ==
    \A i \in DOMAIN rows :
        /\ rows[i].before = <<seed, FoldedTo(EventsOf(rows), i - 1)>>
        /\ rows[i].result = Content(rows[i].event)
        /\ rows[i].after = <<seed, FoldedTo(EventsOf(rows), i)>>
=============================================================================
