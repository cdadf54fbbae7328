---------------------------- MODULE ServingProofs ----------------------------
(***************************************************************************)
(* Theorems about Serving, for any requests, bounds, numbers of tokens and *)
(* attempts: every stream is accounted for, ends once, and ends for a      *)
(* cause, and the limiter's bounds hold of the service.                    *)
(***************************************************************************)
EXTENDS Serving, ConcurrencyLimiterProofs

-----------------------------------------------------------------------------
(* The handler's steps are steps of the limiter.                           *)

LEMMA LimiterStep == [ServingNext]_servingVars => [LimiterNext]_limiterVars
<1> SUFFICES ASSUME [ServingNext]_servingVars PROVE [LimiterNext]_limiterVars
  OBVIOUS
<1>1. CASE UNCHANGED servingVars
  BY <1>1 DEF servingVars, limiterVars
<1>2. ASSUME NEW r \in Requests, NEW mode \in FailModes, Arrive(r, mode)
      PROVE  [LimiterNext]_limiterVars
  BY <1>2 DEF Arrive, LimiterNext, limiterVars
<1>3. ASSUME NEW r \in Requests, LoopStep(r) PROVE [LimiterNext]_limiterVars
  BY <1>3 DEF LoopStep, LeaveQueueForSlot, QueueTimeout, LeaveQueue, Start, TimerFires, CancelStream,
              AbandonStream, CloseStream, TimedOut, Await, Emit, Finish, LimiterNext
<1>4. ASSUME NEW r \in Requests, Attempt(r) \/ Sent(r) \/ NextToken(r)
      PROVE  [LimiterNext]_limiterVars
  BY <1>4 DEF Attempt, Sent, Resume, NextToken, TimedOut, BackendFailed, Await, Emit, Finish,
              LimiterNext
<1>5. ASSUME NEW r \in Requests, ClientLeaves(r) \/ Expire(r)
      PROVE  [LimiterNext]_limiterVars
  BY <1>5 DEF ClientLeaves, Expire, Await
<1> QED  BY <1>1, <1>2, <1>3, <1>4, <1>5 DEF ServingNext

\* The actions of Serving are put together from those of the limiter, so what
\* is proved of LimiterSpec can be used of the service.
LEMMA ServingUsesLimiter == ServingSpec => LimiterSpec
<1>1. ServingInit => LimiterInit
  BY DEF ServingInit
<1> QED  BY <1>1, LimiterStep, PTL DEF ServingSpec, LimiterSpec

\* The service never streams to more clients than it has slots, and its
\* counters are exact (concurrency.py:42-58, seen from the handler).
THEOREM ServingWithinBounds == ServingSpec => [](WithinBounds /\ CountersExact)
BY ServingUsesLimiter, BoundsKept, CountersNeverDrift, PTL

-----------------------------------------------------------------------------
(* The inductive invariant of the requests.                                *)

LastOf(q) == q.sent[Len(q.sent)]

\* The slot and the place in the queue a request has are those of its phase.
Placed(q, place) ==
    /\ q.phase \in Occupying <=> place = "inside"
    /\ q.phase = "queueing" <=> place \in Queueing
    /\ place = "cancelled" => q.expired

\* What has been sent fits the phase: nothing before the first token, tokens
\* alone until the terminal event, and room for one more while it streams.
Streamed(q) ==
    /\ \A i \in DOMAIN q.sent : q.sent[i] \in Terminal => i = Len(q.sent)
    /\ Len(q.sent) <= NumTokens + 1
    /\ Len(q.sent) = NumTokens + 1 => LastOf(q) \in Terminal
    /\ q.phase \in {"new", "queueing", "responding", "priming"} => q.sent = <<>>
    /\ q.phase = "streaming" => /\ q.sent # <<>> /\ LastOf(q) = "token"
                               /\ Len(q.sent) < NumTokens
    /\ q.phase = "sending" => q.sent # <<>>
    /\ q.phase = "abandoned" => q.gone
    /\ q.phase = "ended" /\ q.reply = "stream" /\ ~q.gone => q.sent # <<>> /\ LastOf(q) \in Terminal
    /\ q.reply = "queueTimeout" => q.phase = "ended"

\* What has been sent last has its cause.
Caused(q) ==
    /\ q.sent # <<>> /\ LastOf(q) = "BACKEND_ERROR" => q.mode \in {"permanent", "mid_stream"}
    /\ (q.sent # <<>> /\ LastOf(q) = "TIMEOUT") \/ q.reply = "queueTimeout" => q.expired
    /\ q.sent # <<>> /\ LastOf(q) = "done" => Len(q.sent) = NumTokens + 1

Sound(q, place) == q \in Requested /\ Placed(q, place) /\ Streamed(q) /\ Caused(q)

ServingInv ==
    /\ LimiterInv
    /\ req = [r \in Requests |-> req[r]]
    /\ \A r \in Requests : Sound(req[r], task[r])
    /\ gauge = inFlight

LEMMA ServingInitInv == ServingInit => ServingInv
<1> SUFFICES ASSUME ServingInit PROVE ServingInv
  OBVIOUS
<1>1. LimiterInv /\ gauge = inFlight
  BY LimiterInitInv DEF ServingInit, LimiterInit
<1>2. ASSUME NEW r \in Requests PROVE Sound(req[r], task[r])
  <2>1. task[r] = "outside"
    BY DEF ServingInit, LimiterInit
  <2>2. PICK q : q = req[r]
    OBVIOUS
  <2>3. q = [phase |-> "new", mode |-> "none", attempt |-> 0, sent |-> <<>>,
             status |-> "completed", reply |-> "none", expired |-> FALSE, gone |-> FALSE]
    BY <2>2 DEF ServingInit
  <2>4. q \in Requested
    BY <2>3, ServingAssumption DEF Requested, Phases, FailModes, Statuses, Replies, Events
  <2>5. Placed(q, "outside")
    BY <2>3 DEF Placed, Occupying, Queueing
  <2>6. Streamed(q) /\ Caused(q)
    BY <2>3, ServingAssumption DEF Streamed, Caused
  <2> QED  BY <2>1, <2>2, <2>4, <2>5, <2>6 DEF Sound
<1>3. req = [r \in Requests |-> req[r]]
  BY DEF ServingInit
<1> QED  BY <1>1, <1>2, <1>3 DEF ServingInv

\* What the other tasks' places may do in a step of r: nothing, or one that
\* waits is notified.
OthersKept(r) ==
    \A s \in Requests \ {r} : task'[s] = task[s] \/ (task[s] = "waiting" /\ task'[s] = "notified")

LEMMA MoveKeeps ==
    ASSUME LimiterInv, NEW r \in Requests, NEW place \in Places, Move(r, place)
    PROVE  OthersKept(r) /\ task'[r] = place
BY DEF Move, OthersKept, LimiterInv, LimiterTypeOK

LEMMA ReleaseKeeps ==
    ASSUME LimiterInv, NEW r \in Requests, Release(r)
    PROVE  OthersKept(r) /\ task'[r] = "outside"
<1> DEFINE t == [task EXCEPT ![r] = "outside"]
<1>1. /\ Notify(t) /\ t[r] = "outside" /\ task \in [Requests -> Places] /\ waiters \in Seq(Requests)
      /\ \A s \in Requests \ {r} : t[s] = task[s]
      /\ DOMAIN t = Requests
  BY DEF Release, LimiterInv, LimiterTypeOK
<1>2. CASE task' = t
  BY <1>1, <1>2 DEF OthersKept
<1>3. ASSUME NEW i \in Asleep(t), task' = [t EXCEPT ![waiters[i]] = "notified"]
      PROVE  OthersKept(r) /\ task'[r] = "outside"
  <2>1. waiters[i] \in Requests /\ t[waiters[i]] = "waiting" /\ waiters[i] # r
    BY <1>1 DEF Asleep
  <2> HIDE DEF t
  <2>2. task'[r] = "outside"
    BY <1>1, <1>3, <2>1
  <2>3. \A s \in Requests \ {r} : task'[s] = IF s = waiters[i] THEN "notified" ELSE t[s]
    BY <1>1, <1>3, <2>1
  <2> QED  BY <1>1, <2>1, <2>2, <2>3 DEF OthersKept
<1> QED  BY <1>1, <1>2, <1>3 DEF Notify

\* It is enough to look at the request that takes the step.
LEMMA OneRequestSteps ==
    ASSUME ServingInv, NEW r \in Requests, NEW q, Go(r, q), OthersKept(r),
           Sound(q, task'[r]), LimiterInv', gauge' = inFlight'
    PROVE  ServingInv'
<1>1. req' = [s \in Requests |-> IF s = r THEN q ELSE req[s]]
  BY DEF Go, ServingInv
<1>2. ASSUME NEW s \in Requests, s # r PROVE Sound(req'[s], task'[s])
  <2>1. req'[s] = req[s] /\ Sound(req[s], task[s])
    BY <1>1, <1>2 DEF ServingInv
  <2>2. task'[s] = task[s] \/ (task[s] = "waiting" /\ task'[s] = "notified")
    BY <1>2 DEF OthersKept
  <2>3. Placed(req[s], "waiting") => Placed(req[s], "notified")
    BY DEF Placed, Queueing, Occupying
  <2> QED  BY <2>1, <2>2, <2>3 DEF Sound
<1>3. Sound(req'[r], task'[r])
  BY <1>1
<1>4. req' = [s \in Requests |-> req'[s]]
  BY <1>1
<1> QED  BY <1>2, <1>3, <1>4 DEF ServingInv

-----------------------------------------------------------------------------
(* One lemma per kind of step.  Each names the new record of the request,  *)
(* and shows that it is sound where its task then is.                      *)

\* An event is sent: it is the first terminal one, and has its cause.
LEMMA EmitInv ==
    ASSUME ServingInv, NEW r \in Requests, NEW m, NEW event \in Events, Emit(r, m, event),
           m \in Requested, m.sent = req[r].sent, m.mode = req[r].mode,
           m.reply = req[r].reply, m.expired = req[r].expired,
           req[r].phase \in {"responding", "priming", "streaming", "sending"},
           \A i \in DOMAIN m.sent : m.sent[i] = "token",
           Len(m.sent) <= NumTokens, event = "token" => Len(m.sent) < NumTokens,
           event = "BACKEND_ERROR" => m.mode \in {"permanent", "mid_stream"},
           event = "TIMEOUT" => m.expired,
           event = "done" => Len(m.sent) = NumTokens
    PROVE  ServingInv'
<1>1. PICK q : q = [m EXCEPT !.phase = "sending", !.sent = Append(m.sent, event)]
  OBVIOUS
<1>2. /\ q \in Requested
      /\ q.phase = "sending" /\ q.mode = m.mode /\ q.reply = m.reply /\ q.expired = m.expired
      /\ Len(q.sent) = Len(m.sent) + 1 /\ Len(m.sent) \in Nat
      /\ LastOf(q) = event /\ q.sent # <<>>
      /\ \A i \in DOMAIN q.sent : i # Len(q.sent) => i \in DOMAIN m.sent /\ q.sent[i] = m.sent[i]
  <2>1. m.sent \in Seq(Events)
    BY DEF Requested
  <2>2. q.sent = Append(m.sent, event) /\ q.sent \in Seq(Events)
    BY <1>1, <2>1 DEF Requested
  <2>3. q \in Requested
    BY <1>1, <2>2 DEF Requested, Phases
  <2>4. /\ Len(q.sent) = Len(m.sent) + 1 /\ Len(m.sent) \in Nat /\ q.sent # <<>>
        /\ q.sent[Len(q.sent)] = event
        /\ \A i \in DOMAIN q.sent : i # Len(q.sent) => i \in DOMAIN m.sent /\ q.sent[i] = m.sent[i]
    BY ONLY <2>1, <2>2
  <2>5. q.phase = "sending" /\ q.mode = m.mode /\ q.reply = m.reply /\ q.expired = m.expired
    BY <1>1 DEF Requested
  <2> QED  BY <2>3, <2>4, <2>5 DEF LastOf
<1>3. Sound(req[r], task[r]) /\ task[r] = "inside"
  BY DEF ServingInv, Sound, Placed, Occupying
<1>4. Go(r, q) /\ UNCHANGED <<limiterVars, gauge>>
  BY <1>1 DEF Emit, Yield
<1>5. m.reply # "queueTimeout"
  BY <1>3 DEF Sound, Streamed
<1>6. Placed(q, "inside")
  BY <1>2 DEF Placed, Occupying, Queueing
<1>7. Streamed(q)
  BY <1>2, <1>5, ServingAssumption DEF Streamed, Terminal
<1>8. Caused(q)
  BY <1>2, <1>5 DEF Caused
<1>9. LimiterInv' /\ gauge' = inFlight' /\ task' = task /\ OthersKept(r)
  BY <1>4 DEF ServingInv, limiterVars, LimiterInv, LimiterTypeOK, CountersExact, WithinBounds,
              Those, OthersKept
<1> QED  BY <1>2, <1>3, <1>4, <1>6, <1>7, <1>8, <1>9, OneRequestSteps DEF Sound

\* Nothing but the record of the request changes.
LEMMA AwaitInv ==
    ASSUME ServingInv, NEW r \in Requests, NEW q, Await(r, q), Sound(q, task[r])
    PROVE  ServingInv'
<1>1. LimiterInv' /\ gauge' = inFlight' /\ task' = task /\ OthersKept(r)
  BY DEF Await, ServingInv, limiterVars, LimiterInv, LimiterTypeOK, CountersExact, WithinBounds,
         Those, OthersKept
<1> QED  BY <1>1, OneRequestSteps DEF Await

\* The request ends, and its stream's slot and gauge are given back.
LEMMA FinishInv ==
    ASSUME ServingInv, NEW r \in Requests, NEW status \in Statuses, Finish(r, status),
           req[r].gone \/ (req[r].sent # <<>> /\ LastSent(r) \in Terminal)
    PROVE  ServingInv'
<1>1. PICK q : q = [req[r] EXCEPT !.phase = "ended", !.reply = "stream", !.status = status]
  OBVIOUS
<1>2. Sound(req[r], task[r])
  BY DEF ServingInv
<1>3. Go(r, q) /\ Release(r) /\ gauge' = gauge - 1
  BY <1>1 DEF Finish
<1>4. /\ q \in Requested
      /\ q.phase = "ended" /\ q.reply = "stream" /\ q.mode = req[r].mode
      /\ q.sent = req[r].sent /\ q.expired = req[r].expired /\ q.gone = req[r].gone
  BY <1>1, <1>2 DEF Sound, Requested, Phases, Replies
<1>5. Placed(q, "outside")
  BY <1>4 DEF Placed, Occupying, Queueing
<1>6. Streamed(q) /\ Caused(q)
  BY <1>2, <1>4 DEF Sound, Streamed, Caused, LastOf, LastSent
<1>7. OthersKept(r) /\ task'[r] = "outside" /\ LimiterInv' /\ gauge' = inFlight'
  BY <1>3, ReleaseKeeps, ReleaseInv DEF ServingInv, Release
<1> QED  BY <1>3, <1>4, <1>5, <1>6, <1>7, OneRequestSteps DEF Sound

\* Up to the first terminal event there are tokens only.
LEMMA TokensOnly ==
    ASSUME NEW q \in Requested, NEW place, Sound(q, place), q.sent = <<>> \/ LastOf(q) = "token"
    PROVE  /\ \A i \in DOMAIN q.sent : q.sent[i] = "token"
           /\ Len(q.sent) \in Nat
           /\ Len(q.sent) <= NumTokens
<1>1. q.sent \in Seq(Events)
  BY DEF Requested
<1>2. CASE q.sent = <<>>
  BY <1>2, ServingAssumption
<1>3. CASE q.sent # <<>> /\ LastOf(q) = "token"
  <2>1. \A i \in DOMAIN q.sent : q.sent[i] \in Terminal => i = Len(q.sent)
    BY DEF Sound, Streamed
  <2>2. \A i \in DOMAIN q.sent : q.sent[i] = "token"
    BY <1>1, <1>3, <2>1 DEF Terminal, Events, LastOf
  <2>3. Len(q.sent) \in Nat /\ Len(q.sent) <= NumTokens
    BY <1>1, <1>3, ServingAssumption DEF Sound, Streamed, Terminal
  <2> QED  BY <2>2, <2>3
<1> QED  BY <1>2, <1>3

-----------------------------------------------------------------------------
(* The handler's steps.                                                    *)

\* The request ends without a stream.
LEMMA AnsweredInv ==
    ASSUME ServingInv, NEW r \in Requests, NEW q, Go(r, q), gauge' = gauge, inFlight' = inFlight,
           OthersKept(r), task'[r] \in {"outside", "refused"}, LimiterInv',
           q \in Requested, q.phase = "ended", q.sent = <<>>, q.reply # "stream",
           q.reply = "queueTimeout" => q.expired
    PROVE  ServingInv'
<1>1. Placed(q, task'[r])
  BY DEF Placed, Occupying, Queueing
<1>2. Streamed(q) /\ Caused(q)
  BY ServingAssumption DEF Streamed, Caused
<1>3. gauge' = inFlight'
  BY DEF ServingInv
<1> QED  BY <1>1, <1>2, <1>3, OneRequestSteps DEF Sound

\* The request gets a slot and the response is returned.
LEMMA RespondingInv ==
    ASSUME ServingInv, NEW r \in Requests, NEW m, Responding(r, m),
           Move(r, "inside"), inFlight' = inFlight + 1, LimiterInv',
           m \in Requested, m.sent = <<>>, m.reply # "queueTimeout"
    PROVE  ServingInv'
<1>1. PICK q : q = [m EXCEPT !.phase = "responding"]
  OBVIOUS
<1>2. /\ q \in Requested
      /\ q.phase = "responding" /\ q.sent = <<>> /\ q.reply # "queueTimeout"
  BY <1>1 DEF Requested, Phases
<1>3. OthersKept(r) /\ task'[r] = "inside"
  BY MoveKeeps DEF ServingInv, Places
<1>4. Placed(q, "inside")
  BY <1>2 DEF Placed, Occupying, Queueing
<1>5. Streamed(q) /\ Caused(q)
  BY <1>2, ServingAssumption DEF Streamed, Caused
<1>6. Go(r, q) /\ gauge' = inFlight'
  BY <1>1 DEF Responding, ServingInv
<1> QED  BY <1>2, <1>3, <1>4, <1>5, <1>6, OneRequestSteps DEF Sound

LEMMA ArriveInv ==
    ASSUME ServingInv, NEW r \in Requests, NEW mode \in FailModes, Arrive(r, mode)
    PROVE  ServingInv'
<1>1. /\ Sound(req[r], task[r]) /\ req[r] \in Requested
      /\ req[r].phase = "new" /\ req[r].sent = <<>> /\ req[r].reply # "queueTimeout"
      /\ task[r] \in {"outside", "refused"}
  BY DEF ServingInv, Sound, Placed, Streamed, Arrive, In, Occupying, Queueing, Places,
         LimiterInv, LimiterTypeOK
<1>2. LimiterInv'
  BY LimiterStep, LimiterNextInv DEF ServingInv, ServingNext
<1>3. PICK m : m = [req[r] EXCEPT !.mode = mode]
  OBVIOUS
<1>4. m \in Requested /\ m.sent = <<>> /\ m.reply # "queueTimeout"
  BY <1>1, <1>3 DEF Requested
<1>5. UNCHANGED limiterVars => OthersKept(r) /\ task'[r] \in {"outside", "refused"} /\ inFlight' = inFlight
  BY <1>1 DEF limiterVars, OthersKept
<1>6. CASE Answered(r, "rateLimited") /\ UNCHANGED limiterVars
  <2>1. PICK q : q = [req[r] EXCEPT !.phase = "ended", !.reply = "rateLimited"]
    OBVIOUS
  <2>2. q \in Requested /\ q.phase = "ended" /\ q.sent = <<>> /\ q.reply = "rateLimited"
    BY <1>1, <2>1 DEF Requested, Phases, Replies
  <2>3. Go(r, q) /\ gauge' = gauge
    BY <1>6, <2>1 DEF Answered
  <2> QED  BY <1>2, <1>5, <1>6, <2>2, <2>3, AnsweredInv
<1>7. CASE /\ Go(r, [m EXCEPT !.phase = "ended", !.reply = "queueTimeout", !.expired = TRUE])
           /\ UNCHANGED <<limiterVars, gauge>>
  <2>1. PICK q : q = [m EXCEPT !.phase = "ended", !.reply = "queueTimeout", !.expired = TRUE]
    OBVIOUS
  <2>2. q \in Requested /\ q.phase = "ended" /\ q.sent = <<>> /\ q.reply = "queueTimeout"
    BY <1>4, <2>1 DEF Requested, Phases, Replies
  <2>3. q.expired
    BY <1>4, <2>1 DEF Requested
  <2>4. Go(r, q) /\ gauge' = gauge /\ UNCHANGED limiterVars
    BY <1>7, <2>1
  <2> QED  BY <1>2, <1>5, <2>2, <2>3, <2>4, AnsweredInv
<1>8. CASE Granted(r) /\ Responding(r, m)
  BY <1>2, <1>4, <1>8, RespondingInv DEF Granted
<1>9. CASE QueuedUp(r) /\ Go(r, [m EXCEPT !.phase = "queueing"]) /\ UNCHANGED gauge
  <2>1. PICK q : q = [m EXCEPT !.phase = "queueing"]
    OBVIOUS
  <2>2. q \in Requested /\ q.phase = "queueing" /\ q.sent = <<>> /\ q.reply # "queueTimeout"
    BY <1>4, <2>1 DEF Requested, Phases
  <2>3. OthersKept(r) /\ task'[r] = "waiting"
    BY <1>9, MoveKeeps DEF ServingInv, QueuedUp, Places
  <2>4. Placed(q, "waiting") /\ Streamed(q) /\ Caused(q)
    BY <2>2, ServingAssumption DEF Placed, Streamed, Caused, Occupying, Queueing
  <2>5. Go(r, q) /\ gauge' = inFlight'
    BY <1>9, <2>1 DEF QueuedUp, ServingInv
  <2> QED  BY <1>2, <2>2, <2>3, <2>4, <2>5, OneRequestSteps DEF Sound
<1>10. CASE Refused(r) /\ Answered(r, "busy")
  <2>1. PICK q : q = [req[r] EXCEPT !.phase = "ended", !.reply = "busy"]
    OBVIOUS
  <2>2. q \in Requested /\ q.phase = "ended" /\ q.sent = <<>> /\ q.reply = "busy"
    BY <1>1, <2>1 DEF Requested, Phases, Replies
  <2>3. Go(r, q) /\ gauge' = gauge /\ inFlight' = inFlight
    BY <1>10, <2>1 DEF Answered, Refused
  <2>4. OthersKept(r) /\ task'[r] \in {"outside", "refused"}
    BY <1>10, MoveKeeps DEF ServingInv, Refused, Places
  <2> QED  BY <1>2, <2>2, <2>3, <2>4, AnsweredInv
<1> QED  BY <1>3, <1>6, <1>7, <1>8, <1>9, <1>10 DEF Arrive

LEMMA LeaveQueueForSlotInv ==
    ASSUME ServingInv, NEW r \in Requests, LeaveQueueForSlot(r)
    PROVE  ServingInv'
<1>1. /\ Sound(req[r], task[r]) /\ req[r] \in Requested
      /\ req[r].phase = "queueing" /\ req[r].sent = <<>> /\ req[r].reply # "queueTimeout"
      /\ Wake(r)
  BY DEF ServingInv, Sound, Streamed, LeaveQueueForSlot, In
<1>2. LimiterInv'
  BY WakeInv DEF ServingInv, LeaveQueueForSlot
<1>3. CASE WakeToSlot(r)
  <2>1. Move(r, "inside") /\ inFlight' = inFlight + 1
    BY <1>3 DEF WakeToSlot
  <2>2. task'[r] = "inside"
    BY <2>1, MoveKeeps DEF ServingInv, Places
  <2>3. Responding(r, req[r])
    BY <2>2 DEF LeaveQueueForSlot
  <2> QED  BY <1>1, <1>2, <2>1, <2>3, RespondingInv
<1>4. CASE Move(r, "waiting") /\ UNCHANGED <<inFlight, queued>>
  <2>1. OthersKept(r) /\ task'[r] = "waiting"
    BY <1>4, MoveKeeps DEF ServingInv, Places
  <2>2. Placed(req[r], "waiting")
    BY <1>1 DEF Placed, Occupying, Queueing
  <2>3. Go(r, req[r]) /\ gauge' = inFlight'
    BY <1>4, <2>1 DEF LeaveQueueForSlot, Go, ServingInv
  <2> QED  BY <1>1, <1>2, <2>1, <2>2, <2>3, OneRequestSteps DEF Sound
<1> QED  BY <1>1, <1>3, <1>4 DEF Wake

LEMMA QueueTimeoutInv ==
    ASSUME ServingInv, NEW r \in Requests, QueueTimeout(r)
    PROVE  ServingInv'
<1>1. /\ Sound(req[r], task[r]) /\ req[r].phase = "queueing" /\ req[r].expired
      /\ Cancel(r) /\ UNCHANGED <<req, gauge>>
  BY DEF ServingInv, QueueTimeout, In
<1>2. LimiterInv' /\ gauge' = inFlight'
  BY <1>1, CancelInv DEF ServingInv, Cancel
<1>3. OthersKept(r) /\ task'[r] = "cancelled"
  BY <1>1, MoveKeeps DEF ServingInv, Cancel, Places
<1>4. Placed(req[r], "cancelled")
  BY <1>1 DEF Placed, Occupying, Queueing
<1>5. Go(r, req[r])
  BY <1>1 DEF Go, ServingInv
<1> QED  BY <1>1, <1>2, <1>3, <1>4, <1>5, OneRequestSteps DEF Sound

LEMMA LeaveQueueInv ==
    ASSUME ServingInv, NEW r \in Requests, LeaveQueue(r)
    PROVE  ServingInv'
<1>1. /\ Sound(req[r], task[r]) /\ req[r] \in Requested
      /\ req[r].phase = "queueing" /\ req[r].sent = <<>>
      /\ task[r] = "cancelled" /\ Unwind(r)
  BY DEF ServingInv, Sound, Streamed, LeaveQueue, Unwind, In
<1>2. PICK q : q = [req[r] EXCEPT !.phase = "ended", !.reply = "queueTimeout"]
  OBVIOUS
<1>3. /\ q \in Requested
      /\ q.phase = "ended" /\ q.sent = <<>> /\ q.reply = "queueTimeout" /\ q.expired = req[r].expired
  BY <1>1, <1>2 DEF Requested, Phases, Replies
<1>4. q.expired
  BY <1>1, <1>3 DEF Sound, Placed
<1>5. LimiterInv'
  BY <1>1, UnwindInv DEF ServingInv
<1>6. OthersKept(r) /\ task'[r] \in {"outside", "refused"} /\ inFlight' = inFlight
  BY <1>1, MoveKeeps DEF ServingInv, Unwind, Places
<1>7. Go(r, q) /\ gauge' = gauge
  BY <1>2 DEF LeaveQueue, Answered
<1> QED  BY <1>3, <1>4, <1>5, <1>6, <1>7, AnsweredInv

-----------------------------------------------------------------------------
(* The generator's steps.                                                  *)

\* The request has a slot and has sent tokens only.
Generating(r) ==
    /\ req[r].phase \in {"responding", "priming", "streaming", "sending"}
    /\ req[r].sent = <<>> \/ LastSent(r) = "token"

LEMMA GeneratingFacts ==
    ASSUME ServingInv, NEW r \in Requests, Generating(r)
    PROVE  /\ req[r] \in Requested /\ Sound(req[r], task[r])
           /\ \A i \in DOMAIN req[r].sent : req[r].sent[i] = "token"
           /\ Len(req[r].sent) \in Nat /\ Len(req[r].sent) <= NumTokens
<1>1. PICK q : q = req[r]
  OBVIOUS
<1>2. q \in Requested /\ Sound(q, task[r]) /\ (q.sent = <<>> \/ LastOf(q) = "token")
  BY <1>1 DEF ServingInv, Sound, Generating, LastSent, LastOf
<1> QED  BY <1>1, <1>2, TokensOnly

LEMMA TimedOutInv ==
    ASSUME ServingInv, NEW r \in Requests, TimedOut(r), Generating(r), req[r].expired
    PROVE  ServingInv'
<1>1. PICK m : m = [req[r] EXCEPT !.status = "timeout"]
  OBVIOUS
<1>2. /\ m \in Requested /\ m.sent = req[r].sent /\ m.mode = req[r].mode
      /\ m.reply = req[r].reply /\ m.expired = req[r].expired
  <2>1. req[r] \in Requested
    BY GeneratingFacts
  <2>2. "timeout" \in Statuses
    BY DEF Statuses
  <2> QED  BY ONLY <1>1, <2>1, <2>2 DEF Requested
<1>3. Emit(r, m, "TIMEOUT")
  BY <1>1 DEF TimedOut
<1>4. /\ \A i \in DOMAIN m.sent : m.sent[i] = "token"
      /\ Len(m.sent) <= NumTokens
  BY <1>2, GeneratingFacts
<1>5. m.expired
  BY <1>2
<1> QED  BY <1>2, <1>3, <1>4, <1>5, EmitInv DEF Generating, Events

LEMMA BackendFailedInv ==
    ASSUME ServingInv, NEW r \in Requests, BackendFailed(r), Generating(r),
           req[r].mode \in {"permanent", "mid_stream"}
    PROVE  ServingInv'
<1>1. PICK m : m = [req[r] EXCEPT !.status = "backend_error"]
  OBVIOUS
<1>2. /\ m \in Requested /\ m.sent = req[r].sent /\ m.mode = req[r].mode
      /\ m.reply = req[r].reply /\ m.expired = req[r].expired
  BY <1>1, GeneratingFacts DEF Requested, Statuses
<1>3. Emit(r, m, "BACKEND_ERROR")
  BY <1>1 DEF BackendFailed
<1>4. /\ \A i \in DOMAIN m.sent : m.sent[i] = "token"
      /\ Len(m.sent) <= NumTokens
  BY <1>2, GeneratingFacts
<1> QED  BY <1>2, <1>3, <1>4, EmitInv DEF Generating, Events

\* A token that is not one too many, or the end of a stream that has sent all.
LEMMA TokenOrDoneInv ==
    ASSUME ServingInv, NEW r \in Requests, NEW event \in {"token", "done"},
           Emit(r, req[r], event), Generating(r),
           event = "token" => Len(req[r].sent) < NumTokens,
           event = "done" => Len(req[r].sent) = NumTokens
    PROVE  ServingInv'
BY GeneratingFacts, EmitInv DEF Generating, Events

\* The generator awaits the model, and has room for its token.
LEMMA AwaitModelInv ==
    ASSUME ServingInv, NEW r \in Requests, NEW q, Await(r, q), Generating(r),
           q \in Requested, q.mode = req[r].mode, q.sent = req[r].sent,
           q.reply = req[r].reply,
           q.phase \in {"priming", "streaming"},
           q.phase = "priming" => q.sent = <<>>,
           q.phase = "streaming" => q.sent # <<>> /\ Len(q.sent) < NumTokens
    PROVE  ServingInv'
<1>1. /\ Sound(req[r], task[r]) /\ task[r] = "inside" /\ req[r].reply # "queueTimeout"
      /\ \A i \in DOMAIN q.sent : q.sent[i] = "token"
      /\ Len(q.sent) \in Nat /\ Len(q.sent) <= NumTokens /\ q.sent \in Seq(Events)
  BY GeneratingFacts DEF Generating, Sound, Placed, Streamed, Occupying, Requested
<1>2. q.sent # <<>> => LastOf(q) = "token"
  BY <1>1 DEF LastOf
<1>3. Placed(q, task[r])
  BY <1>1 DEF Placed, Occupying, Queueing
<1>4. Streamed(q)
  BY <1>1, <1>2, ServingAssumption DEF Streamed, Terminal
<1>5. Caused(q)
  BY <1>1, <1>2 DEF Caused
<1> QED  BY <1>3, <1>4, <1>5, AwaitInv DEF Sound

LEMMA StartInv == ASSUME ServingInv, NEW r \in Requests, Start(r) PROVE ServingInv'
<1>1. Generating(r) /\ req[r].sent = <<>> /\ req[r] \in Requested
  BY DEF ServingInv, Sound, Streamed, Start, In, Generating
<1>2. CASE req[r].expired /\ TimedOut(r)
  BY <1>1, <1>2, TimedOutInv
<1>3. CASE Await(r, [req[r] EXCEPT !.phase = "priming", !.attempt = 1])
  <2>1. PICK q : q = [req[r] EXCEPT !.phase = "priming", !.attempt = 1]
    OBVIOUS
  <2>2. /\ q \in Requested /\ q.mode = req[r].mode /\ q.sent = req[r].sent
        /\ q.reply = req[r].reply /\ q.phase = "priming"
    <3>1. 1 \in 0 .. MaxAttempts
      BY ServingAssumption
    <3> QED  BY <1>1, <2>1, <3>1 DEF Requested, Phases
  <2>3. Await(r, q)
    BY <1>3, <2>1
  <2> QED  BY <1>1, <2>2, <2>3, AwaitModelInv
<1> QED  BY <1>2, <1>3 DEF Start

LEMMA AttemptInv == ASSUME ServingInv, NEW r \in Requests, Attempt(r) PROVE ServingInv'
<1>1. /\ Generating(r) /\ req[r].sent = <<>> /\ req[r] \in Requested
      /\ req[r].attempt \in 0 .. MaxAttempts
  BY DEF ServingInv, Sound, Streamed, Attempt, In, Generating, Requested
<1>2. CASE Emit(r, req[r], "token")
  BY <1>1, <1>2, TokenOrDoneInv, ServingAssumption
<1>3. CASE Retrying(r) /\ Await(r, [req[r] EXCEPT !.attempt = req[r].attempt + 1])
  <2>1. PICK q : q = [req[r] EXCEPT !.attempt = req[r].attempt + 1]
    OBVIOUS
  <2>2. req[r].attempt + 1 \in 0 .. MaxAttempts
    BY <1>1, <1>3, ServingAssumption DEF Retrying
  <2>3. /\ q \in Requested /\ q.mode = req[r].mode /\ q.sent = req[r].sent
        /\ q.reply = req[r].reply /\ q.phase = "priming"
    BY <1>1, <2>1, <2>2 DEF Requested, Attempt, In
  <2>4. Await(r, q)
    BY <1>3, <2>1
  <2> QED  BY <1>1, <2>3, <2>4, AwaitModelInv
<1>4. CASE Failing(r) /\ ~Retrying(r) /\ BackendFailed(r)
  <2>1. req[r].mode = "permanent"
    BY <1>1, <1>4, ServingAssumption DEF Failing, Retrying
  <2> QED  BY <1>1, <1>4, <2>1, BackendFailedInv
<1> QED  BY <1>2, <1>3, <1>4 DEF Attempt

LEMMA TimerFiresInv == ASSUME ServingInv, NEW r \in Requests, TimerFires(r) PROVE ServingInv'
<1>1. Generating(r) /\ req[r].expired /\ TimedOut(r)
  BY DEF ServingInv, Sound, Streamed, TimerFires, In, Generating, LastSent, LastOf
<1> QED  BY <1>1, TimedOutInv

LEMMA ResumeInv ==
    ASSUME ServingInv, NEW r \in Requests, In(r, {"sending"}), Resume(r)
    PROVE  ServingInv'
<1>1. Generating(r) /\ req[r].sent # <<>> /\ req[r] \in Requested
  BY DEF ServingInv, Sound, Streamed, Resume, In, Generating
<1>2. CASE req[r].expired /\ TimedOut(r)
  BY <1>1, <1>2, TimedOutInv
<1>3. CASE Len(req[r].sent) = NumTokens /\ Emit(r, req[r], "done")
  BY <1>1, <1>3, TokenOrDoneInv
<1>4. CASE req[r].mode = "mid_stream" /\ BackendFailed(r)
  BY <1>1, <1>4, BackendFailedInv
<1>5. CASE Len(req[r].sent) # NumTokens /\ Await(r, [req[r] EXCEPT !.phase = "streaming"])
  <2>1. PICK q : q = [req[r] EXCEPT !.phase = "streaming"]
    OBVIOUS
  <2>2. /\ q \in Requested /\ q.mode = req[r].mode /\ q.sent = req[r].sent
        /\ q.reply = req[r].reply /\ q.phase = "streaming"
    BY <1>1, <2>1 DEF Requested, Phases
  <2>3. Len(q.sent) < NumTokens
    BY <1>1, <1>5, <2>2, GeneratingFacts, ServingAssumption
  <2>4. Await(r, q)
    BY <1>5, <2>1
  <2> QED  BY <1>1, <2>2, <2>3, <2>4, AwaitModelInv
<1> QED  BY <1>2, <1>3, <1>4, <1>5 DEF Resume

LEMMA SentInv == ASSUME ServingInv, NEW r \in Requests, Sent(r) PROVE ServingInv'
<1>1. CASE Resume(r)
  BY <1>1, ResumeInv DEF Sent
<1>2. CASE LastSent(r) \in Terminal /\ Finish(r, req[r].status)
  <2>1. req[r].status \in Statuses /\ req[r].sent # <<>>
    BY DEF ServingInv, Sound, Streamed, Requested, Sent, In
  <2> QED  BY <1>2, <2>1, FinishInv
<1> QED  BY <1>1, <1>2 DEF Sent

LEMMA NextTokenInv == ASSUME ServingInv, NEW r \in Requests, NextToken(r) PROVE ServingInv'
<1>1. Generating(r) /\ Len(req[r].sent) < NumTokens
  BY DEF ServingInv, Sound, Streamed, NextToken, In, Generating, LastSent, LastOf
<1>2. CASE req[r].gone /\ Finish(r, "cancelled")
  BY <1>2, FinishInv DEF Statuses
<1>3. CASE Emit(r, req[r], "token")
  BY <1>1, <1>3, TokenOrDoneInv
<1> QED  BY <1>2, <1>3 DEF NextToken

-----------------------------------------------------------------------------
(* The response's steps and the environment's.                             *)

LEMMA CancelOrCloseInv ==
    ASSUME ServingInv, NEW r \in Requests, CancelStream(r) \/ CloseStream(r)
    PROVE  ServingInv'
<1>1. Finish(r, req[r].status) /\ req[r].gone /\ req[r].status \in Statuses
  BY DEF ServingInv, Sound, Streamed, Requested, CancelStream, CloseStream, In
<1> QED  BY <1>1, FinishInv

\* A step that only sets a flag of the request, or abandons it at its yield.
LEMMA FlaggedInv ==
    ASSUME ServingInv, NEW r \in Requests, NEW q, Await(r, q), q \in Requested,
           q.mode = req[r].mode, q.sent = req[r].sent, q.reply = req[r].reply,
           req[r].expired => q.expired, req[r].gone => q.gone,
           q.phase = req[r].phase \/ q.phase = "abandoned",
           q.phase = "abandoned" => q.gone,
           q.phase # req[r].phase => req[r].phase = "sending"
    PROVE  ServingInv'
<1>1. Sound(req[r], task[r])
  BY DEF ServingInv
<1>2. Placed(q, task[r])
  BY <1>1 DEF Sound, Placed, Occupying, Queueing
<1>3. Streamed(q)
  BY <1>1 DEF Sound, Streamed, LastOf
<1>4. Caused(q)
  BY <1>1 DEF Sound, Caused, LastOf
<1> QED  BY <1>2, <1>3, <1>4, AwaitInv DEF Sound

LEMMA EnvironmentInv ==
    ASSUME ServingInv, NEW r \in Requests, AbandonStream(r) \/ ClientLeaves(r) \/ Expire(r)
    PROVE  ServingInv'
<1>1. req[r] \in Requested
  BY DEF ServingInv, Sound
<1>2. CASE AbandonStream(r)
  <2>1. PICK q : q = [req[r] EXCEPT !.phase = "abandoned"]
    OBVIOUS
  <2>2. /\ q \in Requested /\ q.mode = req[r].mode /\ q.sent = req[r].sent
        /\ q.reply = req[r].reply /\ q.phase = "abandoned"
        /\ q.expired = req[r].expired /\ q.gone = req[r].gone
    BY <1>1, <2>1 DEF Requested, Phases
  <2>3. q.gone /\ req[r].phase = "sending"
    BY <1>2, <2>2 DEF AbandonStream, In
  <2>4. Await(r, q)
    BY <1>2, <2>1 DEF AbandonStream
  <2>5. (req[r].expired => q.expired) /\ (req[r].gone => q.gone)
    BY <2>2
  <2> QED  BY <2>2, <2>3, <2>4, <2>5, FlaggedInv
<1>3. CASE ClientLeaves(r)
  <2>1. PICK q : q = [req[r] EXCEPT !.gone = TRUE]
    OBVIOUS
  <2>2. /\ q \in Requested /\ q.mode = req[r].mode /\ q.sent = req[r].sent
        /\ q.reply = req[r].reply /\ q.phase = req[r].phase
        /\ q.expired = req[r].expired
    BY <1>1, <2>1 DEF Requested
  <2>3. q.gone
    BY <1>1, <2>1 DEF Requested
  <2>4. Await(r, q)
    BY <1>3, <2>1 DEF ClientLeaves
  <2>5. req[r].expired => q.expired
    BY <2>2
  <2> QED  BY <2>2, <2>3, <2>4, <2>5, FlaggedInv
<1>4. CASE Expire(r)
  <2>1. PICK q : q = [req[r] EXCEPT !.expired = TRUE]
    OBVIOUS
  <2>2. /\ q \in Requested /\ q.mode = req[r].mode /\ q.sent = req[r].sent
        /\ q.reply = req[r].reply /\ q.phase = req[r].phase
        /\ q.gone = req[r].gone
    BY <1>1, <2>1 DEF Requested
  <2>3. q.expired
    BY <1>1, <2>1 DEF Requested
  <2>4. Await(r, q)
    BY <1>4, <2>1 DEF Expire
  <2>5. (req[r].gone => q.gone) /\ (q.phase = "abandoned" => q.gone)
    BY <2>2 DEF ServingInv, Sound, Streamed
  <2> QED  BY <2>2, <2>3, <2>4, <2>5, FlaggedInv
<1> QED  BY <1>2, <1>3, <1>4

-----------------------------------------------------------------------------
(* The theorems.                                                           *)

LEMMA ServingNextInv == ServingInv /\ [ServingNext]_servingVars => ServingInv'
<1> SUFFICES ASSUME ServingInv, [ServingNext]_servingVars PROVE ServingInv'
  OBVIOUS
<1>1. CASE UNCHANGED servingVars
  BY <1>1 DEF servingVars, ServingInv, LimiterInv, LimiterTypeOK, CountersExact, WithinBounds, Those
<1>2. ASSUME NEW r \in Requests, NEW mode \in FailModes, Arrive(r, mode) PROVE ServingInv'
  BY <1>2, ArriveInv
<1>3. ASSUME NEW r \in Requests, LoopStep(r) PROVE ServingInv'
  BY <1>3, LeaveQueueForSlotInv, QueueTimeoutInv, LeaveQueueInv, StartInv, TimerFiresInv,
     CancelOrCloseInv, EnvironmentInv DEF LoopStep
<1>4. ASSUME NEW r \in Requests, Attempt(r) \/ Sent(r) \/ NextToken(r) PROVE ServingInv'
  BY <1>4, AttemptInv, SentInv, NextTokenInv
<1>5. ASSUME NEW r \in Requests, ClientLeaves(r) \/ Expire(r)
      PROVE  ServingInv'
  BY <1>5, EnvironmentInv
<1> QED  BY <1>1, <1>2, <1>3, <1>4, <1>5 DEF ServingNext

LEMMA ServingInvariance == ServingSpec => []ServingInv
BY ServingInitInv, ServingNextInv, PTL DEF ServingSpec

\* What is recorded of a request, and the number of events it is sent
\* (streaming.py:69-137).
THEOREM ServingTypeCorrect == ServingSpec => []ServingTypeOK
<1>1. ServingInv => ServingTypeOK
  BY DEF ServingInv, Sound, Streamed, ServingTypeOK, LimiterInv, LimiterTypeOK
<1> QED  BY <1>1, ServingInvariance, PTL

\* Nothing is generated without a slot, no slot or place in the queue is held
\* by a request that has ended, and the gauge is the number of slots in use
\* (router.py:123-151).
THEOREM StreamsHoldSlots == ServingSpec => []SlotsMatchStreams
<1>1. ServingInv => SlotsMatchStreams
  <2> SUFFICES ASSUME ServingInv PROVE SlotsMatchStreams
    OBVIOUS
  <2>1. ASSUME NEW r \in Requests
        PROVE  /\ req[r].phase \in Occupying <=> task[r] = "inside"
               /\ req[r].phase = "queueing" <=> task[r] \in Queueing
    BY DEF ServingInv, Sound, Placed
  <2> QED  BY <2>1 DEF ServingInv, SlotsMatchStreams, In
<1> QED  BY <1>1, ServingInvariance, PTL

\* Whatever fails, times out or is cancelled, a client is sent at most one
\* terminal event, nothing after it, and one if it stays to the end
\* (streaming.py:62-66).
THEOREM StreamsEndOnce == ServingSpec => []OneTerminalEvent
<1>1. ServingInv => OneTerminalEvent
  BY DEF ServingInv, Sound, Streamed, OneTerminalEvent, In, LastSent, LastOf
<1> QED  BY <1>1, ServingInvariance, PTL

\* A failure that retries can outlast is not shown to the client, nobody is
\* timed out before the deadline, and a stream that says it is done is whole,
\* for any numbers of tokens and attempts (streaming.py:46-50, 72-137).
THEOREM EndsHaveCause == ServingSpec => []EndsForCause
<1>1. ServingInv => EndsForCause
  <2> SUFFICES ASSUME ServingInv PROVE EndsForCause
    OBVIOUS
  <2>1. ASSUME NEW r \in Requests PROVE Caused(req[r])
    BY DEF ServingInv, Sound
  <2> QED  BY <2>1 DEF Caused, EndsForCause, LastSent, LastOf
<1> QED  BY <1>1, ServingInvariance, PTL
=============================================================================
