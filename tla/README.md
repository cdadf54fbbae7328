# A verification project for AI Outcome Assurance (Retail)

TLA+ models of the backend in `src/backend/app`, the TLC configurations that
check them on small instances, and theorems about them that TLAPS checks for
every value of the constants. This file says what the system is made of, what is
modelled and how, what each run and each theorem shows, and what is left out.

## The system

A FastAPI service that runs a deterministic case pipeline for retail refunds and,
beside it, a slice that serves a (fake) model over SSE. One SQLite or PostgreSQL
database is behind both.

| Component | State it keeps | Operations | Interacts with |
|---|---|---|---|
| Model-release lifecycle: `model_release.py`, two tables of `orm_models.py` | `model_releases`, `model_release_audit_events`; `_ACTIVE_CACHE` in every process | register, gate, approve, activate, roll back, hydrate | its cache is read by the serving slice at every request; hydrated by the API at startup |
| Serving: `serving/concurrency.py`, `router.py`, `streaming.py`, `model_backend.py` | slots in flight, queue, one stream per request | acquire and release a slot, prime (with retries), stream, time out, disconnect | reads the release cache; called by HTTP clients |
| Rate limiter: `serving/rate_limit.py` | an LRU map of token buckets | `check` | called before the slot is acquired |
| Case pipeline: `services/*.py`, `state_machine.py`, `reconcile.py`, `authority_enforcement.py` | case status, evidence, claims, authority, review, outcome of one run | validate, resolve, authorise, transition | uses agents, guardrails and trace; its artifacts are persisted |
| Agents, tools, budget: `agents.py`, `tools.py`, `budget.py` | counters of a run, agent runs, steps, handoffs | delegate, retrieve, criticise, consume | called by the pipeline |
| Guardrails, retrieval: `guardrails.py`, `retrieval.py` | none | scan, redact, ground, score | called by the pipeline and the agents |
| Trace: `services/trace.py` | a hash chain of events | record, transition, verify | every stage of the pipeline |
| Persistence: `persistence.py`, `db.py` | the relational image of a case with its `state_version` | persist a run, replace it on replay | sessions of concurrent requests |
| Reviews: `reviews.py`, `api.py` | status and decision of a review task | decide | persistence replaces the task on a replay |
| Evaluation and release gate: `evaluation.py`, `release_gate.py` | evaluation runs, release records | evaluate, gate | runs the pipeline's rules over a data set |
| API and authentication: `api.py`, `auth.py` | none of their own | routes | all of the above |

What is hard in it, and what makes each part correct:

* **Model releases.** Every operation reads, decides and commits in separate
  database transactions, in as many processes as are deployed. Correct means: at
  most one release is ACTIVE; nothing is in service that was not gated and
  approved; a rollback happens once per idempotency key and every retry hears the
  same answer; the audit trail explains the statuses; each process serves the
  release that is ACTIVE, after a crash too.
* **Serving.** Coroutines on one event loop; timeouts that cancel a waiter at
  any `await`; clients that vanish. Correct means: slots and queue stay within
  their bounds, every slot comes back, a free slot is not left beside a sleeping
  waiter, every admitted request ends by its deadline, and only requests that
  emitted nothing are retried.
* **Rate limiter.** Boundaries: an empty bucket, a full map, a zero refill, an
  evicted caller that comes back. Correct means: no caller is granted more than
  its buckets and the refill allow, and one that obeys `Retry-After` is granted.
* **Persistence and reviews.** Requests on a thread pool, each with its own
  session: a read and the commit that depends on it are not one transaction.
  Correct means: what is stored of a case is one whole run, no writer silently
  replaces what it has not seen (`state_version` is there for that), a decision is one
  person's, and no query of a read meets half of a run.
* **Pipeline, agents, trace.** Sequential and deterministic; what is hard is the
  number of paths. Correct means: the transitions taken are allowed ones, no case
  is decided on evidence that was not admitted, a missing fact never settles a
  claim, an exhausted budget stops a run with its records, and a trace that was
  altered does not verify.
* **Evaluation and gate.** Thresholds, and four commits behind one GET. Correct
  means: a release record stands on an evaluation that is stored, a planted
  regression is caught, and a PASS is earned.

`PROJECT.json` lists every component with its status, and every hazard at its
line with the property that covers it or the reason none does.

## Modules

| Module | What it is |
|---|---|
| `ModelRelease` | the lifecycle: state, one action per step of each operation, the properties; `Spec` for callers that overlap, `SerialSpec` for callers that take turns |
| `ReleaseStack` | the abstract specification: releases in service are a stack, rollbacks pop it once per key |
| `ModelReleaseRefinement` | the mapping from the database to that stack, and the soundness of the `previous_release_id` chain |
| `ConcurrencyLimiter` | the slot limiter: its counters, the condition's list of waiters, where each task is |
| `BoundedSemaphore` | the abstract specification: a semaphore with a bounded waiting room |
| `Serving` | requests from the handler's first line to the release of the slot; extends `ConcurrencyLimiter`, whose actions its own actions call |
| `RateLimiter` | token buckets over discrete time, with eviction |
| `CaseStore` | the handlers that run, replay, decide and read cases over the case tables |
| `CaseRules` | the rules of the pipeline, as operators: validation, resolution, authority, groundedness |
| `TraceChain` | the trace's hash chain and its verification, as operators |
| `CasePipeline` | one run of the pipeline, stage by stage; extends `CaseRules` and `TraceChain`, whose operators its actions apply |
| `Evaluation` | evaluation runs, release gate and the handlers that store both; extends `CaseRules`, which decide each case |
| `MCModelRelease`, `MCLimiter`, `MCServing`, `MCRateLimiter`, `MCCaseStore`, `MCCasePipeline`, `MCEvaluation` | the instances TLC checks |
| `ModelReleaseProofs`, `ModelReleaseSerialProofs`, `ConcurrencyLimiterProofs`, `ServingProofs`, `RateLimiterProofs`, `CaseStoreProofs`, `CasePipelineProofs`, `EvaluationProofs` | the theorems and their lemmas |

### `ModelRelease`: how it corresponds to the code

| TLA+ | Code |
|---|---|
| `row[r]` | the row of `model_releases`: `status` (`"ABSENT"` before the INSERT), `previous_release_id`, `gate_passed` (`"unset"` for NULL), whether `approved_by` is set |
| `audit` | the ACTIVATED and ROLLED_BACK rows of the audit table in commit order, with `detail.rolled_back_from` and `idempotency_key` |
| `cache[p]` | `_ACTIVE_CACHE` of process `p` |
| `call[c]` | the call caller `c` is making: where it is, the objects and attribute values its session loaded, and how it ended |

A call is cut wherever another one can get in between. The granularity is that of
SQLAlchemy over SQLite as the repository configures them (`db.py`: default
`autoflush`-off sessions, one per request):

* a SELECT runs outside a write transaction, and sees what is committed then: it
  is a step of its own (`ActivateRead`, `RollbackFind`, `RollbackRead`,
  `RollbackLoad`);
* the first UPDATE or INSERT takes the database's write lock and the commit gives
  it back: demotion, flush, promotion, audit row and commit are one step
  (`ActivateCommit`, `RollbackCommit`). A unique index is looked at after each
  UPDATE, so the step looks at two tables: the one after the flush
  (`ActivationMidway`, `RollbackMidway`) and the final one. It fails as a whole if either
  has two ACTIVE rows, or if the key of the audit row is taken. A writer that finds the database locked waits, or fails with an
  error and no effect; the latter is not modelled, as nothing follows from it;
* a session keeps the attributes it has loaded: a later query that returns the
  same row returns the same object with the old values. So the checks of
  `activate_release` are on the values loaded when the caller fetched the
  release (`ActivateCheck`), and an attribute set to the value it was loaded
  with is not in the UPDATE (`Written`): a rollback that loaded `previous` as
  ACTIVE writes no status at all;
* the cache is written after the commit has returned (`SyncCache`), which is a
  step of its own;
* the gate prompts the model between loading the release and recording the
  verdict (`GateStart`, `GateRecord`); its verdict is either Boolean.

`Restart(p)` kills the calls of a process at whatever step they are and starts it
again, hydrating the cache as `lifespan` does. No HTTP endpoint activates or rolls
back: the callers are whatever operates the service (ADR-0007), in as many threads
and processes as it uses, each call with a session of its own.

Left out: the audit rows REGISTERED, GATE_RUN and APPROVED, actors, timestamps,
gate reason codes and the names of the checkpoint, none of which any decision
reads; `register_candidate` and `approve_release` do not look at what other calls
do beyond the row they write. Whether the database is SQLite or PostgreSQL matters
only for the granularity above: under PostgreSQL's READ COMMITTED two writers may
interleave further, and that is not modelled.

### `ReleaseStack` and the refinement

What an operator would say the lifecycle is: activating pushes a release that was
never used, rolling back pops the one in service for good, once per key, and the
bottom cannot be popped. `ModelReleaseRefinement` maps the chain of
`previous_release_id` from the ACTIVE row to the stack (`Stack`), the ROLLED_BACK
rows to the retired releases (`Retired`) and the audit events to the answers given
(`Answer`).

What implements it are operators that take turns: `SerialSpec` is `Spec` restricted
by `OneAtATime`, so that no activation or rollback starts before the last one has
returned or died with its process. Registrations, gates, approvals, retries that
find their key used, and restarts still come at any time, between any two steps. The
code has no lock that would enforce this; it is how one operator, or a
deployment script, uses it. Callers that overlap do not implement the stack: see the races below.

### `ConcurrencyLimiter`: how it corresponds to the code

| TLA+ | Code |
|---|---|
| `inFlight`, `queued` | `_in_flight`, `_queued` |
| `waiters` | the futures the `asyncio.Condition` holds, by the task that waits for each |
| `task[r]` | where task `r` is in `slot()`: outside, waiting for a future that is not done, resumed next with a result (`"notified"`) or with `CancelledError` (`"cancelled"`), inside, or refused |

The event loop runs one coroutine until it suspends. The condition's lock is never
held by a coroutine that is suspended elsewhere than in `wait()`, which gives the
lock back, so it is never contended and acquiring it does not suspend. What
is left is one suspension, in `wait_for`, and everything before and after it is
one step: `Enter`, `Wake`, `Unwind`, `Release`. `notify()` and the timer of
`asyncio.wait_for` do not run the waiter, they only make it ready; they are
steps of their own (`Notify`, as part of `Release`, and `Cancel`), and anything may
happen between them and the step of the waiter: another task enters, or the
timer cancels a task that has been notified. The last needs the release and the
timer in one iteration of the loop, which CPython allows. Version 3.12, which
the Dockerfile and CI use, does not pass such a notification on (3.13 does).

`BoundedSemaphore` knows only who is inside, waiting or refused. `Visit` maps the
three kinds of waiting to one.

### `Serving`: how it corresponds to the code

| TLA+ | Code |
|---|---|
| `req[r].phase` | where the request is suspended: in the queue, before the generator has run (`"responding"`), in `prime_generation`, in `gen.__anext__()` (`"streaming"`), at a `yield` while the response sends (`"sending"`), or left there (`"abandoned"`) |
| `.mode`, `.attempt` | `fail_mode` of its model; `attempt_counter` |
| `.sent` | the events yielded to the client, without their payload |
| `.status`, `.reply` | the label `REQUESTS_TOTAL` will be counted under; how the exchange ended |
| `.expired`, `.gone` | the clock has passed `deadline`; the client has disconnected |
| `gauge` | `IN_FLIGHT` |

One action per stretch between two suspensions: `Arrive` is the handler down to the
slot, the queue or an error; `LeaveQueueForSlot`, `QueueTimeout` and `LeaveQueue`
are how `wait_for(slot.__aenter__())` ends; `Start`, `Attempt`, `Resume`, `NextToken`
are the generator; `Finish` is both `finally` blocks. `TimerFires` is the timer
of `_await_within_deadline`; a model may be slow, so a timer may be beaten by
an answer even after the deadline. The deadline is in the past or not: `Expire`
may happen at any step, and an action that reads the clock looks at the flag.

External, and modelled from how the code uses it: the client (`ClientLeaves`), the
clock, and the response, `EventSourceResponse` of sse-starlette on uvicorn. It
iterates the generator, sends what it yields, and listens for the disconnect on the side;
then it is cancelled at the `await` where it is: in the model
(`CancelStream`) or while it sends (`AbandonStream`, after which the loop closes
the generator: `CloseStream`). It is assumed to have begun to iterate by then, which
holds because sending the response's head suspends only on a connection whose
buffer is full, and then the generator starts before the cancellation is delivered.
A server for which this were not so would lose a slot with every response it
cancels too early: a generator that never started runs no `finally`.

Left out: authentication; the rate limiter, which may refuse any request here
(`"rateLimited"`) and has a module of its own; the contents of tokens; which checkpoint answers; waiting
between retries.

### `RateLimiter`: how it corresponds to the code

| TLA+ | Code |
|---|---|
| `bucket[k]` | `_buckets[k]`: tokens, in parts of which `Unit` make one, and the time of the last call |
| `order` | the order of the `OrderedDict`, the caller checked longest ago first |
| `refillRate`, `now` | `refill_rate`, in parts per second; `time.monotonic()` in whole seconds |
| `given`, `spent`, `retryAt` | history: buckets made for a caller, requests granted, when it was told to come back |

`check` does not suspend: each call is one step, and there are three.
`Grant` takes a token and evicts the oldest bucket of a full map; `Refuse` puts the bucket
back, refilled, and evicts nothing; `RefuseFails` is the division by a refill rate of
zero, raised after the bucket has been popped. `Tick` is the clock. Parts make the refill of
a fraction of a token a whole number; the rounding of floating point is
left out.

### `CaseStore`: how it corresponds to the code

| TLA+ | Code |
|---|---|
| `cases[c]` | the case row: its `state_version`, and the number of the run that wrote it |
| `rows` | the rows of the child tables: table, primary key, case, and the run that wrote them |
| `reviews[c]` | the review task: status, decision, reviewer, and the key kept in its notes |
| `snapshots`, `agents` | the source snapshots stored; whether the agent registry is |
| `request[r]` | a handler: where it is, what its session loaded, what it answered |
| `runs` | history: the number of the last run persisted, of whatever case |

`persist_case_run` begins with an INSERT, which takes SQLite's write lock and keeps it
to the commit: `Save` is the whole transaction, with the deletes that cascade
(`Kept`), the handoffs deleted by the keys of the old agent runs, the rows of the new
run (`Written`) and the version. `SaveFails` is the primary key that is taken. What
precedes it is a step of its own: a replay loads the case row
first, and takes the version from the object in its session (`NextVersion`), stale or
not. A decision is loaded, checked and committed likewise (`StartDecision`,
`CommitDecision`), and its UPDATE finds the row by its id whatever became of it since. A retry is
recognised by looking for `idempotency_key=` followed by its key in the notes, where the first
decision left it: any key that the stored one starts with passes (`Within`; notes of a
reviewer that quote a key themselves are left out). Reads load
the case, then a table; agent runs are one query (`ReadAgentRuns`), and the steps of each
are a lazy one when its turn to be answered comes (`ReadAgentSteps`, `AgentRuns` times). Which sources a case cites and whether it ends in
a review are constants, as the pipeline is deterministic.

### `CaseRules`, `TraceChain` and `CasePipeline`: how they correspond to the code

`CaseRules` holds what changes no state: `ValidateEvidence`, `ResolveClaims`,
`AuthoriseCase`, `Ungrounded`, `MayRun` (`enforce_action`) and `Reconciled` are the
functions of those names, over sources reduced to what the rules look at. Of a
text that is whether there is an excerpt and which faults it speaks of; what the
injection scan and the TF-IDF score say of it is given with it.

`TraceChain` models SHA-256 by what is hashed, which makes it injective. `Chained` is
what `TraceRecorder.record` leaves, `Verified` is `verify_trace_chain`.

| TLA+ | Code |
|---|---|
| `stage` | the statement of `run_case_pipeline` the run is at |
| `status`, `trace` | `case_status`; the events of the recorder |
| `calls`, `agentRuns`, `handoffs` | the budget's counter and the investigation's records |
| `evidence` ... `outcome`, `termination` | the artifacts |
| `ran` | the actions `enforce_action` has let through |
| `stored`, `damage` | the rows of the trace in the database, and what happened to them |

One action per stage. Each goes through `Passes`, which records its events and then its
transitions, and is enabled only if the table allows them: an illegal
transition would be a run that never ends. `Blocked` is `InvestigationBudgetExceeded` as the
pipeline handles it. After the end a caller may propose actions (`Propose`),
observe an outcome (`Observe`) and store the trace (`Store`), to which one of six
accidents may happen (`Damage`).

### `Evaluation`: how it corresponds to the code

| TLA+ | Code |
|---|---|
| `data` | the dataset: its cases, what their authors expect, and the pool of sources |
| `evaluations`, `releases` | the rows of `evaluation_runs` and `release_records` |
| `handler[c]` | the call client `c` makes: where it is, its configuration, the rows it has stored |

`CaseResult`, `RunEvaluation` and `EvaluateRelease` are `_case_result`, `run_evaluation` and
`evaluate_release`; the rules of the pipeline decide each case, with the binding check
disabled in the regression fixture (`Refs`). `GET /api/releases/latest` commits
four times: `PersistEvaluation` and `PersistRelease` for the reference, then for the
fixture, and `BreakOff` may end it before any. The gate evaluates again
instead of reading what was stored (`Recorded`). Wilson bounds and relevance
means, which are reported and decide nothing, are left out.

## Runs

| Run | Instance | Shows |
|---|---|---|
| `release_concurrent` | 2 callers, each in its own process; 3 releases, 2 keys, 4 switches | what a call is about to write, it has loaded; one event and one answer per rollback key; nothing is served that was not approved and activated; every status is explained by the audit trail; a refused switch has met a third release that is ACTIVE, or its key taken, and never its own two rows, between its two UPDATEs either |
| `release_sequential` | 2 callers of one process that take turns; 3 releases, 2 keys | the audit trail can be replayed to the ACTIVE row; the cache follows the database through crashes; no caller meets a constraint; the chain of previous releases ends; `ReleaseStack` is implemented |
| `release_race_restore` | 2 callers in one process, 3 releases, 2 keys, 4 switches | violated: `RollbackRestores` |
| `limiter` | 5 tasks, 2 slots, 2 places | both counters are exact and within their bounds, and `BoundedSemaphore` is implemented |
| `limiter_lost_wakeup` | 3 tasks, 1 slot, 2 places | violated: `FreeSlotWakesSomeone` |
| `serving` | 3 requests, 1 slot, 1 place, 2 tokens, 3 attempts | slots, places and gauge are those of the requests at those points; one terminal event, last; ends have causes |
| `serving_liveness` | 2 requests, otherwise the same | every request ends if clients read or leave; the slot of a client that left comes back |
| `rate_limiter` | 3 callers, a map of 2, 5 seconds | nobody is granted more than the buckets held and the refill brought; the map keeps its bound; a caller that waits as told is granted |
| `case_store` | 2 overlapping requests on 2 cases that share a source, 4 runs | what is stored is one whole run; failures are collisions with another case; decisions are never mixed and never change by themselves; no query of a read meets half of a run, or an older one than the query before |
| `case_stale_write` | the same | violated: `StaleWriteRejected` |
| `case_pipeline` | 9 cases over 88 pools, with a budget and without | every run ends, and as its decision says; a denial has a sound source that speaks of a minor fault, and assessments that agree; advisory findings decide nothing; the fault is settled by admitted evidence; agents that made calls or took a handoff have records, in blocked runs too; no refund runs; a trace that verifies is what was recorded, up to a cut |
| `evaluation` | 2 clients, 8 datasets, 4 evaluations | release records stand on stored evaluations; the regression is caught; a PASS is earned |

**Bounds.** *Releases.* `MaxEvents` bounds the length of the audit trail at which a new
activation or rollback is still begun: calls under way finish beyond it. Four
switches with three releases let a release be activated, superseded, restored and
rolled back while another call holds stale reads of any of those states; two keys
are enough for a retry and for a rival rollback. The sequential run
needs depth instead: three releases activated and two of them rolled back, one
under each key, are every shape of a stack of three, and as a release is activated
once, its bound of six switches cuts nothing off. Keys and releases are symmetric, and so are the callers, together
with their processes when they have one each; no property tells them apart.

*Serving.* Five tasks for two slots and two places are the smallest instance of the limiter
in which one is refused while the others hold and wait for everything there is; two
waiters are needed for one to be notified and another to be asleep. Three requests
do the same for one slot and one place. Two tokens distinguish the first token, which
may be retried, from a later one; three attempts, with a model that recovers at
the third, are the code's own numbers (`RETRY_MAX_ATTEMPTS`, `attempt < 3`); a
model that fails in mid-stream does so after the first of the two tokens. A
request is served once, so a state in which all have ended is a legitimate end:
the serving runs do not check for deadlock, and `serving_liveness` shows that nothing
else stops. The liveness run uses two requests, one to hold the slot and one in
the queue, and no symmetry.

*Rate limiter.* Three callers over a map of two make every call of the third evict
somebody; two thirds of a token a second make a wait that is not a whole number of
seconds, and the other rate is zero. `MaxGiven` bounds how often a caller is forgotten and
comes back, `MaxTime` is where the clock stops, which is why this run does not check
for deadlock.

*Case store.* Two requests are one race. The two cases are CASE-RET-001 and
CASE-RET-003: the one ends in a review, the other does not, and both cite the
retailer's guarantee. Five keys give a first decision, one by another person whose key starts with the first,
one of a case without review, one by a person without the role and one
without a token. `MaxRuns` counts runs stored and under way: four are enough for a
replay to be overtaken and for a case to be stored after that. `AgentRuns` is three, as many
as an unblocked run of the pipeline records.

*Pipeline.* The pools hold the retailer's policy, which in eight of them mentions minor
faults, and two assessments of the fault: the first major or minor and sound, or with each single defect validation
looks for, or with each finding that must not matter, or of the last day
admitted; the second sound or tampered with, and declared by a third of the
cases. Orders are right, of another product, or unknown. A budget of
zero blocks the run at its only tool call. The accidents to a stored trace happen at the
second, third and fourteenth row, which are in the first stages and among
the claims. A run ends, so this run does not check for deadlock.

*Evaluation.* The datasets lie around each threshold: one critical case
missed of nineteen and of twenty, none at all, a required slice that is absent, cases that
declare the whole pool. Four evaluations are two GETs that overlap.

**Fairness.** `ModelRelease`, `RateLimiter`, `CaseStore` and `Evaluation` assume none: their
properties are safety properties, and their operations wait for nothing but the database.
`LoopFairness` is what the event
loop and the clock owe each request of `Serving`: a step that is ready is run
(`LoopStep`: a waiter that was notified or cancelled, a timer that is due, a
generator that starts, is cancelled or is garbage) and the deadline passes. The model
is owed nothing: `Attempt` and `NextToken` may never happen, as a stalled model's do
not. Nor are clients: `RequestsEnd` assumes of them, in its statement, that what is sent is
taken (`ClientsRead`). It cannot be left out, as the deadline does not bound the
time a generator spends at a `yield` while a client that stays does not read;
`DisconnectFreesSlot` holds without it. `PipeSpec` has weak fairness of `Step`: the
pipeline is straight-line code in one thread, and runs to its end unless it raises.

**What the violations are.** `PROJECT.json` quotes the line each contradicts.

1. *Restore* (`release_race_restore`). Two rollbacks under different keys read the same
   ACTIVE release. Both commit, and the second reverts nothing; worse, the slower
   one has loaded the release to restore as ACTIVE, so it writes no status for it, and if
   a third switch has demoted that release before it commits, the rollback is reported as
   done and no release is ACTIVE.
2. *Lost wakeup* (`limiter_lost_wakeup`). A slot is released and its notification goes
   to a waiter whose deadline fires before the loop resumes it. The waiter leaves
   without the slot and without passing the notification on; the next one sleeps
   beside a free slot until another release or its own timeout. A waiter that is
   cancelled but has not left yet could still pass it on, so `FreeSlotWakesSomeone`
   allows for it, and the trace ends when it has left.
3. *Stale write* (`case_stale_write`). A replay loads its case, is overtaken by a run or another
   replay of that case, and commits. `session.get` (`persistence.py:99`) returns the object it has
   loaded, so it takes its version from there, and nothing compares that with the stored
   one: it replaces the other run, a review decided meanwhile included, and
   stores the `state_version` that run had. `orm_models.py:5-8` says that such a write is
   rejected, `docs/architecture.md:45-47` and `persistence.py:5` that it can be detected.

### The races of the release lifecycle

Four more races of two callers follow from the steps of `ModelRelease`. They have
no run, because the properties they break are ones that `release_sequential` checks
of callers that take turns, or ones the code does nothing to keep.

* *Cache.* `_sync_cache` runs after the commit. Calls A and B of one process
  commit in the order A, B and write the cache in the order B, A: the process
  serves A until it restarts, though the comment on the cache says it is updated
  inside the transaction. (That processes other than the one that switched keep a
  stale cache is documented, in `docs/production_gap_register.md`.)
* *Activation.* Two sessions that load the same CANDIDATE both pass the checks.
  The second finds as current release the object it already holds, demotes and
  promotes it, and records it as its own predecessor.
* *Retry.* A retry overtaken by its twin between its key check and its read of
  the ACTIVE row is refused with `NoPreviousReleaseError`, or goes on to revert a further
  release and is stopped only by the unique key, although the rollback is done.
* *Gate.* A gate re-run that fails while an activation is between its checks and
  its commit does not stop it: the release is in service with `gate_passed` false.

### Other differences between the code and what is said of it

* A client that leaves while the model is awaited cancels the stream there, and
  its `status` is still the `"completed"` it was initialised with: it is counted so.
* A run or replay of a case replaces its review, decided or not, by a pending one
  under the same id, and two decisions made at once are both confirmed, while
  `reviews.py:3` says "A review can only be decided once". The frontend runs the hero case
  whenever it is loaded (`App.tsx:694`). `DecisionKept` says what does hold: a decision stands until
  the next run of its case, or until a request that saw the review pending commits.
* The primary key of evidence is made of the source alone (`EVID-<source>`,
  `validate.py:93`), and fixtures share sources (`SRC-KOGAN-GUARANTEE`). Once one of
  them is stored, every other that cites the same source fails with an `IntegrityError`, and
  nothing of it is stored, whereas `api.py:141` says that the requested fixture is persisted and
  `docs/demo_runbook.md:62` has the presenter run one after another. `FailureIsCollision` says that
  nothing else makes a run fail.
* A decision under a key that the key of the recorded one starts with is answered 200 as if it were a
  retry (`reviews.py:36-38`), whoever asks and whatever the verdict; the decision stored is
  the first.
* An answer of agent runs may mix two runs of its case: the ids of agent runs do not
  change from run to run, and a run may commit between any two of the lazy queries of
  `api.py:321-332`. `ReadWhole` says what holds: each query finds one run whole, and
  none an older one than the query before.
* `resolve.py:94-103` goes by words, not by the class of the source. A policy that mentions minor
  faults settles the fault as minor and leads to a denial, even beside a sound assessment of a
  major failure (only assessments are compared with each other), with the reason code `FAULT_ASSESSMENT_CONFIRMS_MINOR_FAULT`; `DenialIsSound`
  speaks of an assessment only where none but assessments have the word. An assessment
  that says "not a major failure", as the evaluation fixture `SRC-FAULT-CONTRA-B` does, is
  listed on both sides of a contradiction, against the comment at `resolve.py:98-101`;
  `FaultIsCited` says "whose text has the words".
* A run that exhausts its budget ends with `REQUIRE_HUMAN` and without a review for a
  human to decide (`workflow.py:195-225`; `tests/test_adversarial.py:194` asserts that there is
  none). `EndsProperly` distinguishes the two ends.
* `SERVING_RATE_LIMIT_CAPACITY` is not validated (`router.py:45`). With a capacity of 0 every
  caller is refused and its bucket stored, and a refusal evicts nobody: the map grows
  without bound, and no `Retry-After` is ever right. `SpendingBounded` holds all the same;
  the theorems of the other two properties assume a capacity of at least one.
* `verify_trace_chain` says it returns False if an event was removed. It does, unless the
  removed ones are the last: `VerifiedIsRecorded` says "a prefix".

**Mutants.** Each property of a passing run is paired in `PROJECT.json` with a
`Faulty...` definition, a bug this code could have (a flush that is missing, an
approval that is not checked, a queue counter not decremented, one retry too
few, a `finally` without the slot, an eviction one call late, rows out of the
cascade's reach, a record of a blocked agent dropped, evidence admitted for its
words alone, a transition missing from the table, a recall threshold lowered),
under which the run finds the property violated.

## Proofs

`ModelReleaseProofs` proves, for any sets of releases, keys, callers and
processes and from `ConstantsAssumption` alone (`None` and `Bootstrap` are no
release, `None` no key, every caller has a process):

| Theorem | Says |
|---|---|
| `TypeCorrect` | `Spec => []TypeOK` |
| `IdempotentRollback` | `Spec => []RollbackIdempotent` |
| `ApprovedIfServed` | `Spec => []ServedWasApproved` |
| `EvidenceOfStatus` | `Spec => []StatusHasEvidence` |
| `ConflictsAreReal` | `Spec => ConflictIsReal`, an action property |

*Type correctness.* The types alone (`Typed`) are not inductive: `ActivateCommit` appends an event
that names `call[c].release`, which they allow to be `None`.
`WellFormed` says what a call has loaded by the time it is at each step, and that
it has no outcome before it returns; `TypeOK` is both, and `NextTypeOK` checks it action by action.

*One ACTIVE release.* That no two rows are ACTIVE is the index itself and no property of the
callers, so no run checks it. The lemma `SingleActive` (`Spec => []SingleActiveIndex(row)`) is there because
other proofs need it.

*Idempotent rollback.* `OneEventPerKey` follows from `AuditSteps` (only the two
commits append, and the rollback's only under a free key). `AnswersAgree` needs
to know where an answer comes from: `AnswerSteps` shows that a call that
synchronises the cache, or ends well with a key, has just committed its event, was
synchronising already, or read an event with `AnswerTo`; events stay where they are (`EventsPersist`).

*Cleared releases.* Call a release cleared when it is approved and has an
ACTIVATED event. That every cached release is cleared cannot be shown by looking at
the cache alone: a cache is written from what a call holds, a call holds what it
found in a row, and a rollback restores what `previous_release_id` names. So
`ClearanceInv` says it of all four at once: `RowsCleared` (statuses, and the
predecessors they name), `CallsCleared` (what a call has read and is about to
restore or cache) and `CachesCleared`. It is inductive because approvals and events are
never taken back (`ApprovalPersists`, `ClearancePersists`), so a stale read that
was cleared when it was made still is when it is used. Both theorems follow from it.

*Conflicts.* What makes `ConflictIsReal` worth proving is that the demotion a
switch writes may be of a release it read as current long ago, and that the index looks
twice. `ActivatedActives` and `RolledBackActives` say which rows are ACTIVE after a commit in
terms of those before it, `DemotedActives` which are after the flush, and `DemotionAccepted` that
the index takes that table whenever it took the one before: so it is the final table that was
refused. `ConflictSteps` and `ReconcileSteps` conclude that two of its rows are ACTIVE at least,
so one besides the release put in service, and it was not the one demoted.

`ModelReleaseSerialProofs` proves what operators that take turns may rely on, for any
number of them and any finite set of releases (`RefinementAssumption`: what
the table ever holds is finite):

| Theorem | Says |
|---|---|
| `SerialInvariance` | `SerialSpec => [](SerialInv /\ OneAtATime)`, the inductive invariant of what follows |
| `AuditTrailReplays` | `SerialSpec => []AuditReplays` |
| `NobodyIsRefused` | `SerialSpec => []NoSpuriousFailure` |
| `CacheIsTheActiveRow` | `SerialSpec => []CacheMirrorsDatabase`, where all callers share a process (`OneServer`) |
| `LineageIsSound` | `SerialSpec => []LineageSound` |
| `ImplementsReleaseStack` | `SerialSpec => RefinesReleaseStack` |

*A stack in the table.* None of the properties says how the rows hang together, and
all of them depend on it. `SerialInv` says that there is a sequence of distinct releases
(`IsStack`) whose last is ACTIVE, whose others are the SUPERSEDED ones, and in which
each row names the one below it. An activation appends its release (`Pushes`), a rollback
removes the last (`Pops`), and every other step is `Quiet`: `Switches` sorts the steps
into these three. That a commit really does one of them needs what the call read
to hold still, which `Current` says of each step of a call: the candidate is still a
CANDIDATE, the release read as ACTIVE still is the only one, the one to restore
still is the one below it and was loaded as SUPERSEDED, the key is still free. Under `Spec` this is
false, and is what the races exploit; under `SerialSpec` it lasts because only
the steps of the caller whose turn it is disturb it, and it is why no constraint is ever met.

*The chain.* `Lineage` is a recursive function over `0..Cardinality(Releases)`, so
the prover only knows its equation if some function satisfies it, and its value
only if no other does. `ChainIsAbove` reads a solution off the stack, which is no longer than
there are releases (`StackFits`, by an injection), and `AboveIsUnique` shows that two
solutions agree at every index. That is an induction; `Induct` gives it in terms
of sets of numbers (a set that holds 0 and the successor of each member holds them
all, by the least number outside it), as the library's theorem takes an operator. So the mapped `Stack` is the
witness (`StackIsRead`), and `LineageSound` follows.

*Refinement.* `StackReading` and `AnswerReading` say what the mapping gives before a step and
after it. A quiet step is a stutter (`QuietRefines`), a push is `Activate` (`PushRefines`), and
a pop is `Rollback` under a key without an answer (`PopRefines`, with
`OneMoreAnswer`: the appended event answers its key and no other).

*Cache.* `CacheFollows` adds what the caches hold while a call is between its commit and
its synchronisation. With several processes the property is false, as
`docs/production_gap_register.md` documents: a process that did not switch keeps what it had.
Hence `OneServer`, a hypothesis of the theorem and of nothing else.

`ConcurrencyLimiterProofs` and `ServingProofs` assume that there are finitely many
requests and that the bounds are natural numbers, zero included (tokens and attempts
at least one, and the model recovers within the attempts):

| Theorem | Says |
|---|---|
| `LimiterTypeCorrect`, `CountersNeverDrift`, `BoundsKept` | `LimiterSpec` keeps `LimiterTypeOK`, `CountersExact`, `WithinBounds` |
| `LimiterIsSemaphore` | `LimiterSpec => ImplementsSemaphore` |
| `ServingWithinBounds` | `ServingSpec => [](WithinBounds /\ CountersExact)` |
| `ServingTypeCorrect`, `StreamsHoldSlots`, `StreamsEndOnce`, `EndsHaveCause` | `ServingSpec` keeps `ServingTypeOK`, `SlotsMatchStreams`, `OneTerminalEvent`, `EndsForCause` |

*Counters.* The three invariants are inductive together: a counter does not go
below zero because it counts tasks, and stays within its bound because it is
compared when it is exact. What needs an argument is the cardinality of a set of
tasks when one of them moves (`Moved`), and that a notification, which moves a
second task, leaves both sets as they are (`NotifyCounts`). The refinement uses the same
lemma: the semaphore's occupancy is a cardinality, the limiter's is a counter.

*Requests.* The actions of `Serving` call those of the limiter or leave its variables alone, so
that `ServingSpec` implies `LimiterSpec` holds by construction; it is a lemma
(`ServingUsesLimiter`), which carries what was proved of the limiter over to the service.
`ServingInv` says of each request, in one operator on its record and its place in
the limiter (`Sound`): the place is that of its phase (`Placed`), what it was sent
fits its phase (`Streamed`), and what it was sent last has its cause (`Caused`). A step
of one request may notify another (`OthersKept`), which changes nothing `Sound` sees
(`OneRequestSteps`); so each action needs only an argument about its own request.

The other four components have their invariants proved as well, from their own
assumptions: `RateAssumption` (parts and the bound of the map are at
least one, capacity and rates are natural numbers, zero included; the theorems about
`RetryAfterHonest` and `StoreBounded` assume in addition that the capacity is at least one,
`HoldsAToken`), `StoreAssumption` (cases cite
sources, keys ask for decisions, every key starts with itself), `PipeAssumption` (pools
hold finitely many sources, and `None` is no status, review or damage) and `EvaluationAssumption` (cases declare sources of the pool).

| Theorem | Says |
|---|---|
| `RateTypeCorrect`, `RateSpendingBounded`, `RateRetryAfterHonest`, `StoreAlwaysBounded` | `RateSpec` keeps `RateTypeOK`, `SpendingBounded`, `RetryAfterHonest`, `StoreBounded` |
| `StoreTypeCorrect`, `StoredRunsWhole`, `FailuresAreCollisions`, `DecisionsWhole`, `ReadsWhole` | `StoreSpec` keeps `StoreTypeOK`, `RunIsWhole`, `FailureIsCollision`, `DecisionWhole`, `ReadWhole` |
| `DecisionsKept` | `StoreSpec => DecisionKept`, an action property |
| `EndIsProperAlways`, `DenialIsSoundAlways`, `AdviceIsIgnoredAlways`, `FaultIsCitedAlways`, `AgentsAreAccountedForAlways`, `NoRefundEverRuns`, `VerifiedIsRecordedAlways` | `PipeSpec` keeps `EndsProperly`, `DenialIsSound`, `AdvisoryOnly`, `FaultIsCited`, `AgentsAccountedFor`, `NoRefundRuns`, `VerifiedIsRecorded` |
| `RecordsAlwaysBacked`, `RegressionAlwaysCaught`, `PassAlwaysEarned` | `EvalSpec` keeps `RecordsAreBacked`, `RegressionIsCaught`, `PassIsEarned` |

*Buckets.* `SpendingBounded` speaks of what a caller was granted, a bucket of what it has
left. `Solvent` joins them: spending and the tokens left are covered by the buckets
given and the refill up to the bucket's last call. `Promised` says that the bucket, refilled
to the announced time, holds a token. Both survive a refill in two halves
(`RefillSplits`) and the rounding of the header (`HeaderSuffices`). An evicted bucket
promises nothing, and its successor is full. `Listed` adds the order: taking a caller
out, putting it last and dropping the first keep it a list of the tracked callers, each
once (`TakenOut`, `PutLast`, `Dropped`), and a refusal need not evict because a
caller without a bucket is given a full one, which holds a token (`RefusedIsTracked`).

*Case store.* `StoreInv` has two halves. `DbInv` says of the database that the child
rows of a case are exactly what its last run writes (`RowsInv`), that what they refer to is
there (`Linked`), and that decisions are whole. `Fits`
says of each handler that what it holds agrees with the database, however old it is: of
a read, that each of its queries so far found one run, none an older one than before,
and none a newer one than the case is of now (`FoundUpTo`). It survives the steps of others
because a stored case stays stored and its run only gets newer (`Grows`, `FitsLasts`). `KeptRows` and `WrittenRows` are the heart of it:
deleting by the case and by the keys of its old agent runs leaves nothing of it,
and inserting gives one row per table and source; so a collision can only be
with another case (`CollisionIsBlamed`).

*Pipeline.* `PipeInv` says at each stage, in one operator (`AtCase` to `AtClose`, and
`AtBlocked`), what has been computed so far and from what: evidence is
`ValidateEvidence` of the candidates, claims are `ResolveClaims` of that evidence, and so on. There
is one lemma per action. What the properties say of decisions then follows from
lemmas about the rules alone: admitted evidence is sound (`AdmittedIsSound`),
disagreement is seen even among what is not admitted (`DisagreementIsSeen`), a denial
needs a fault settled as minor (`DecisionOf`, `StatusOfFault`), and findings that only
advise block nothing (`AdviceBlocksNothing`).

*Trace.* `TraceInv` says that an intact stored trace is the chain of the recorded
one (`Chained`), whatever stages recorded it. What remains is one argument per accident:
an edited row no longer has the hash it carries (`EditIsFound`), nor does one that was moved or
copied to another place, as the hash covers its sequence number (`MovedIsFound`), the row
after a removed one names a predecessor that is not there (`RemovedRow`), and what remains
after a cut is a prefix; `DamageIsFound` puts them together. Hashes
are compared as what they are made from, which is what taking SHA-256 to be
injective means.

*Evaluation.* `Holds` says that the evaluation a handler is about to name is stored, is of its
configuration, and is named by nobody else, now or later; with it `RecordsAreBacked` is
inductive. That the regression is caught and a PASS earned are facts about the gate on
any dataset (`Signalled`, `Earned`), which every record inherits.

*Only model-checked:* the liveness properties `RequestsEnd`, `DisconnectFreesSlot` and
`PipelineEnds`, as liveness under fairness and ENABLED are out of the prover's reach, and the
three violations, which are counterexamples. Every invariant, action property and refinement of
a passing run is a theorem. The library's induction theorems and
modules that reach a RECURSIVE operator cannot be used in these proofs: recursive
definitions are functions, and the one induction a proof needs is stated over
sets of numbers.

## Not modelled

* Redaction of personal data, the texts of the guardrails, TF-IDF scores and Wilson
  bounds: string and real arithmetic without state. What the scan and the score
  find is input to the pipeline.
* The step budget, which nothing in the code consumes, and the argument schemas
  of `tools.py`, which fixed arguments always meet.
* Metrics other than the in-flight gauge, and logging.
* Which checkpoint a request answers with: `Serving` has no checkpoint in its state.
  What a process may have cached is in `ModelRelease` (`ServedWasApproved`).
* SQLite's busy timeout: a writer that waits too long fails without effect.
* Finer interleavings of writers under PostgreSQL.
* Health checks, lists and serialisation; migrations, which run offline; the
  frontend, the load test and the scripts, which are clients.

## Further work

A composition of `Serving` with the cache of `ModelRelease`, which would say which
checkpoint a request answers with; an abstract specification of "one answer per
rollback key" implemented by any number of overlapping callers, as
`ReleaseStack` is by callers that take turns.
