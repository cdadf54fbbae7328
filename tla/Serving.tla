------------------------------ MODULE Serving ------------------------------
(***************************************************************************)
(* One request of POST /api/generate/stream after another and beside       *)
(* another: the handler of serving/router.py, the generator of             *)
(* serving/streaming.py with the retries of serving/model_backend.py, and  *)
(* the slot of ConcurrencyLimiter.  All of it runs on one event loop: a    *)
(* step goes from one await that suspends to the next.                     *)
(*                                                                         *)
(* The response (sse_starlette on uvicorn) is external: it iterates the    *)
(* generator, sends what it yields, and is cancelled at an await of either *)
(* when the client has gone.  Sending the head does not suspend, so it has *)
(* always begun to iterate by then.  Time is one flag per request,         *)
(* `expired`: the clock has passed its deadline.                           *)
(***************************************************************************)
EXTENDS ConcurrencyLimiter

CONSTANTS
    NumTokens,     \* num_tokens of the model
    MaxAttempts,   \* RETRY_MAX_ATTEMPTS
    RecoversAt,    \* the attempt at which a transient failure is over
    FailIndex      \* the token at which a mid-stream failure happens

ASSUME ServingAssumption ==
    /\ {NumTokens, MaxAttempts, RecoversAt, FailIndex} \subseteq Nat \ {0}
    /\ RecoversAt <= MaxAttempts

VARIABLES
    req,     \* what each request has done
    gauge    \* the IN_FLIGHT metric

servingVars == <<inFlight, queued, waiters, task, req, gauge>>

FailModes == {"none", "transient", "permanent", "mid_stream"}

Phases == {"new", "queueing", "responding", "priming", "streaming", "sending",
           "abandoned", "ended"}

\* Phases between the grant of the slot and its release.
Occupying == {"responding", "priming", "streaming", "sending", "abandoned"}

Events == {"token", "done", "TIMEOUT", "BACKEND_ERROR"}

Terminal == Events \ {"token"}

Statuses == {"completed", "timeout", "backend_error", "cancelled"}

\* How the HTTP exchange ended: with a JSON error, or with the stream.
Replies == {"none", "rateLimited", "busy", "queueTimeout", "stream"}

Requested == [phase : Phases, mode : FailModes, attempt : 0 .. MaxAttempts,
              sent : Seq(Events), status : Statuses, reply : Replies,
              expired : BOOLEAN, gone : BOOLEAN]

ServingInit ==
    /\ LimiterInit
    /\ req = [r \in Requests |->
                [phase |-> "new", mode |-> "none", attempt |-> 0, sent |-> <<>>,
                 status |-> "completed", reply |-> "none", expired |-> FALSE, gone |-> FALSE]]
    /\ gauge = 0

Go(r, q) == req' = [req EXCEPT ![r] = q]

In(r, phases) == req[r].phase \in phases

-----------------------------------------------------------------------------
(* The handler: generate_stream.                                           *)

\* The request ends with a JSON error.
Answered(r, reply) ==
    /\ Go(r, [req[r] EXCEPT !.phase = "ended", !.reply = reply])
    /\ UNCHANGED gauge

\* The slot is granted: the handler returns the response.
Responding(r, q) ==
    /\ Go(r, [q EXCEPT !.phase = "responding"])
    /\ gauge' = gauge + 1

\* From the first line to the slot, or to the queue: nothing suspends before
\* wait_for does.  The rate limiter and the clock may say anything.
Arrive(r, mode) ==
    LET q == [req[r] EXCEPT !.mode = mode] IN
    /\ In(r, {"new"})
    /\ \/ Answered(r, "rateLimited") /\ UNCHANGED limiterVars
       \/ /\ Go(r, [q EXCEPT !.phase = "ended", !.reply = "queueTimeout", !.expired = TRUE])
          /\ UNCHANGED <<limiterVars, gauge>>
       \/ Enter(r) /\ Granted(r) /\ Responding(r, q)
       \/ /\ Enter(r) /\ QueuedUp(r)
          /\ Go(r, [q EXCEPT !.phase = "queueing"])
          /\ UNCHANGED gauge
       \/ Enter(r) /\ Refused(r) /\ Answered(r, "busy")

LeaveQueueForSlot(r) ==
    /\ In(r, {"queueing"})
    /\ Wake(r)
    /\ \/ task'[r] = "inside" /\ Responding(r, req[r])
       \/ task'[r] # "inside" /\ UNCHANGED <<req, gauge>>

\* The timer of wait_for fires.
QueueTimeout(r) ==
    /\ In(r, {"queueing"})
    /\ req[r].expired
    /\ Cancel(r)
    /\ UNCHANGED <<req, gauge>>

LeaveQueue(r) ==
    /\ In(r, {"queueing"})
    /\ Unwind(r)
    /\ Answered(r, "queueTimeout")

-----------------------------------------------------------------------------
(* The generator: _generate_and_release around stream_generation.          *)

\* The generator is suspended at a yield; the response sends the event.
Yield(r, q, event) == Go(r, [q EXCEPT !.phase = "sending", !.sent = Append(q.sent, event)])

Await(r, q) == Go(r, q) /\ UNCHANGED <<limiterVars, gauge>>

Emit(r, q, event) == Yield(r, q, event) /\ UNCHANGED <<limiterVars, gauge>>

TimedOut(r) == Emit(r, [req[r] EXCEPT !.status = "timeout"], "TIMEOUT")

BackendFailed(r) == Emit(r, [req[r] EXCEPT !.status = "backend_error"], "BACKEND_ERROR")

FaultyFinish(r, status) ==
    /\ Go(r, [req[r] EXCEPT !.phase = "ended", !.reply = "stream", !.status = status])
    /\ gauge' = gauge - 1
    /\ UNCHANGED limiterVars

\* Both finally blocks: the status is counted, the gauge and the slot go back.
Finish(r, status) ==
    /\ Go(r, [req[r] EXCEPT !.phase = "ended", !.reply = "stream", !.status = status])
    /\ gauge' = gauge - 1
    /\ Release(r)

\* The response iterates the generator for the first time.
Start(r) ==
    /\ In(r, {"responding"})
    /\ IF req[r].expired THEN TimedOut(r)
       ELSE Await(r, [req[r] EXCEPT !.phase = "priming", !.attempt = 1])

Failing(r) ==
    \/ req[r].mode = "permanent"
    \/ req[r].mode = "transient" /\ req[r].attempt < RecoversAt

FaultyRetrying(r) == req[r].mode = "transient" /\ req[r].attempt + 1 < MaxAttempts

\* Only a TransientBackendError is retried, and not after the last attempt.
Retrying(r) == req[r].mode = "transient" /\ req[r].attempt < MaxAttempts

\* One attempt of prime_generation ends.
Attempt(r) ==
    /\ In(r, {"priming"})
    /\ \/ ~Failing(r) /\ Emit(r, req[r], "token")
       \/ /\ Failing(r) /\ Retrying(r)
          /\ Await(r, [req[r] EXCEPT !.attempt = req[r].attempt + 1])
       \/ Failing(r) /\ ~Retrying(r) /\ BackendFailed(r)

FaultyTimerFires(r) ==
    /\ In(r, {"priming"})
    /\ req[r].expired
    /\ TimedOut(r)

\* The timer of _await_within_deadline fires.
TimerFires(r) ==
    /\ In(r, {"priming", "streaming"})
    /\ req[r].expired
    /\ TimedOut(r)

LastSent(r) == req[r].sent[Len(req[r].sent)]

FaultyResume(r) ==
    /\ LastSent(r) # "done"
    /\ IF req[r].expired THEN TimedOut(r)
       ELSE IF Len(req[r].sent) = NumTokens THEN Emit(r, req[r], "done")
       ELSE IF req[r].mode = "mid_stream" /\ Len(req[r].sent) = FailIndex THEN BackendFailed(r)
       ELSE Await(r, [req[r] EXCEPT !.phase = "streaming"])

\* The generator runs on after a token: it checks the deadline and asks the
\* model, which is exhausted, fails, or takes its time.
Resume(r) ==
    /\ LastSent(r) = "token"
    /\ IF req[r].expired THEN TimedOut(r)
       ELSE IF Len(req[r].sent) = NumTokens THEN Emit(r, req[r], "done")
       ELSE IF req[r].mode = "mid_stream" /\ Len(req[r].sent) = FailIndex THEN BackendFailed(r)
       ELSE Await(r, [req[r] EXCEPT !.phase = "streaming"])

\* The client has taken the event, and the response asks for the next one.
Sent(r) ==
    /\ In(r, {"sending"})
    /\ \/ Resume(r)
       \/ LastSent(r) \in Terminal /\ Finish(r, req[r].status)

\* The model's next token; the disconnect check is made now, and only now.
NextToken(r) ==
    /\ In(r, {"streaming"})
    /\ IF req[r].gone THEN Finish(r, "cancelled") ELSE Emit(r, req[r], "token")

-----------------------------------------------------------------------------
(* The response when the client has gone: it is cancelled where it is.     *)

\* While the generator awaits the model: CancelledError runs the finally
\* blocks with the status as it is.
CancelStream(r) ==
    /\ In(r, {"priming", "streaming"})
    /\ req[r].gone
    /\ Finish(r, req[r].status)

\* While the response sends: the generator is left at its yield, and the loop
\* closes it once it is garbage.
AbandonStream(r) ==
    /\ In(r, {"sending"})
    /\ req[r].gone
    /\ Await(r, [req[r] EXCEPT !.phase = "abandoned"])

CloseStream(r) == In(r, {"abandoned"}) /\ Finish(r, req[r].status)

\* The environment: clients leave and clocks pass deadlines.
ClientLeaves(r) ==
    /\ ~In(r, {"new", "ended"}) /\ ~req[r].gone
    /\ Await(r, [req[r] EXCEPT !.gone = TRUE])

Expire(r) ==
    /\ ~In(r, {"new", "ended"}) /\ ~req[r].expired
    /\ Await(r, [req[r] EXCEPT !.expired = TRUE])

-----------------------------------------------------------------------------
LoopStep(r) ==
    \/ LeaveQueueForSlot(r) \/ QueueTimeout(r) \/ LeaveQueue(r)
    \/ Start(r) \/ TimerFires(r)
    \/ CancelStream(r) \/ AbandonStream(r) \/ CloseStream(r)

ServingNext ==
    \E r \in Requests :
        \/ \E mode \in FailModes : Arrive(r, mode)
        \/ LoopStep(r)
        \/ Attempt(r) \/ Sent(r) \/ NextToken(r)
        \/ ClientLeaves(r) \/ Expire(r)

ServingSpec == ServingInit /\ [][ServingNext]_servingVars

\* The event loop runs what is ready and time passes; the model and the client
\* owe nothing.
LoopFairness ==
    \A r \in Requests : WF_servingVars(LoopStep(r)) /\ WF_servingVars(Expire(r))

LoopSpec == ServingSpec /\ LoopFairness

\* Every client takes what it is sent, or its connection breaks.
ClientsRead == \A r \in Requests : WF_servingVars(Sent(r))

-----------------------------------------------------------------------------
(* Properties.                                                             *)

ServingTypeOK ==
    /\ req \in [Requests -> Requested]
    /\ gauge \in Nat
    /\ \A r \in Requests : Len(req[r].sent) <= NumTokens + 1

\* The slots in use are those of the requests between grant and end: nothing
\* is generated without one, every one has a request that will give it back,
\* and the gauge counts them (router.py:123-151).
SlotsMatchStreams ==
    /\ \A r \in Requests : In(r, Occupying) <=> task[r] = "inside"
    /\ \A r \in Requests : In(r, {"queueing"}) <=> task[r] \in Queueing
    /\ gauge = inFlight

\* A stream ends with exactly one terminal event, the last one sent, unless
\* its client left (streaming.py:62-66).
OneTerminalEvent ==
    \A r \in Requests :
        LET sent == req[r].sent IN
        /\ \A i \in DOMAIN sent : sent[i] \in Terminal => i = Len(sent)
        /\ In(r, {"ended"}) /\ req[r].reply = "stream" /\ ~req[r].gone
           => sent # <<>> /\ LastSent(r) \in Terminal

\* How a request ends has a cause that fits: a transient failure is retried
\* until it is over, a timeout means that the deadline has passed, and a
\* stream that is done sent every token (streaming.py:46-50, 72-132).
EndsForCause ==
    \A r \in Requests :
        LET ends(event) == req[r].sent # <<>> /\ LastSent(r) = event IN
        /\ ends("BACKEND_ERROR") => req[r].mode \in {"permanent", "mid_stream"}
        /\ ends("TIMEOUT") \/ req[r].reply = "queueTimeout" => req[r].expired
        /\ ends("done") => Len(req[r].sent) = NumTokens + 1

\* Every request that arrived ends, whatever the model does, if the clients
\* read what they are sent or leave (streaming.py:7-13).
RequestsEnd == ClientsRead => \A r \in Requests : ~In(r, {"new"}) ~> In(r, {"ended"})

\* The slot of a client that left comes back even if the model never answers
\* and nothing more can be sent (router.py:136-151).
DisconnectFreesSlot ==
    \A r \in Requests : In(r, Occupying) /\ req[r].gone ~> task[r] = "outside"
=============================================================================
