---------------------------- MODULE ModelRelease ----------------------------
(***************************************************************************)
(* The model-release lifecycle of backend/app/model_release.py: a release  *)
(* is registered, gated, approved, activated and rolled back by callers    *)
(* that run concurrently, in several processes, over one database.         *)
(*                                                                         *)
(* A call is cut where another caller can get in between: at every SELECT  *)
(* (SQLite reads outside a write transaction see whatever is committed at  *)
(* that moment), before the write transaction (its first UPDATE or INSERT  *)
(* takes the write lock, which the commit or the rollback gives back, so   *)
(* the statements in between are one step), and before _sync_cache, which  *)
(* runs after the commit.  What a session read it keeps: a step decides on *)
(* the values its call loaded, not on those of the database.               *)
(*                                                                         *)
(* Definitions named Faulty... are bugs this code could have; each run is  *)
(* shown to notice them.                                                   *)
(***************************************************************************)
EXTENDS Naturals, Sequences, FiniteSets

CONSTANTS
    Releases,    \* release_id values
    Keys,        \* idempotency_key values of rollback requests
    Callers,     \* threads that call model_release, one session per call
    Processes,   \* operating-system processes, each with its _ACTIVE_CACHE
    ProcessOf,   \* the process a caller runs in
    None,        \* Python's None / SQL NULL
    Bootstrap,   \* the hard-coded ActiveModelInfo "RELEASE-BOOTSTRAP"
    MaxEvents    \* bound: no new switch of release once the audit is this long

ASSUME ConstantsAssumption ==
    /\ None \notin Releases \cup Keys
    /\ Bootstrap \notin Releases
    /\ ProcessOf \in [Callers -> Processes]
    /\ MaxEvents \in Nat

VARIABLES
    row,     \* the model_releases table, one row per release_id
    audit,   \* ACTIVATED and ROLLED_BACK rows of model_release_audit_events
    cache,   \* _ACTIVE_CACHE of each process
    call     \* what each caller is doing, and what its session has loaded

vars == <<row, audit, cache, call>>

-----------------------------------------------------------------------------
(* Data.                                                                   *)

\* ModelReleaseStatus; ABSENT stands for a row not inserted yet.
Statuses == {"ABSENT", "CANDIDATE", "ACTIVE", "SUPERSEDED", "ROLLED_BACK"}

\* gate_passed: NULL until the gate has run, then a Boolean.
GateResults == {"unset", "passed", "failed"}

Rows == [status : Statuses, previous : Releases \cup {None},
         gate : GateResults, approved : BOOLEAN]

Events == [type : {"ACTIVATED", "ROLLED_BACK"}, release : Releases,
           from : Releases \cup {None}, key : Keys \cup {None}]

Steps == {"idle", "gate", "approve", "activateRead", "activateCommit",
          "rollbackRead", "rollbackLoad", "rollbackCommit",
          "rollbackReconcile", "sync", "returned"}

\* _record_audit, for the two events that change the release in service.
ActivatedEvent(r) == [type |-> "ACTIVATED", release |-> r, from |-> None, key |-> None]

FaultyRolledBackEvent(r, rolledBackFrom, k) ==
    [type |-> "ROLLED_BACK", release |-> r, from |-> r, key |-> k]

RolledBackEvent(r, rolledBackFrom, k) ==
    [type |-> "ROLLED_BACK", release |-> r, from |-> rolledBackFrom, key |-> k]

\* How a call ended: its result, or the exception it raised.
Outcomes == {"pending", "ok", "refused", "conflict", "noActive", "noPrevious",
             "integrityError"}

\* release: the object the call works on; active: its current_active;
\* old: the value the session loaded for the attribute the call will set.
Calls == [step : Steps, release : Releases \cup {None},
          active : Releases \cup {None}, old : Statuses \cup GateResults \cup {None},
          key : Keys \cup {None}, outcome : Outcomes]

Idle == [step |-> "idle", release |-> None, active |-> None, old |-> None,
         key |-> None, outcome |-> "pending"]

ActiveIn(db) == {r \in Releases : db[r].status = "ACTIVE"}

\* The id of the ACTIVE row (one_or_none), or None.
GetActiveRow ==
    IF ActiveIn(row) = {} THEN None ELSE CHOOSE r \in Releases : r \in ActiveIn(row)

RollbackEvents(key) ==
    {i \in DOMAIN audit : audit[i].type = "ROLLED_BACK" /\ audit[i].key = key}

\* The release _find_rollback_event leads to, once the key has an event.
AnswerTo(key) == audit[CHOOSE i \in DOMAIN audit : i \in RollbackEvents(key)].release

\* SQLAlchemy leaves an attribute out of the UPDATE when the value set equals
\* the value loaded, whatever the row holds by then.
Written(old, new, stored) == IF new = old THEN stored ELSE new

\* uq_model_release_single_active, the partial unique index on ACTIVE rows.
SingleActiveIndex(db) == \A r, s \in ActiveIn(db) : r = s

\* uq_model_release_audit_events_idempotency_key; NULL keys are exempt.
IdempotencyKeyFree(key) == RollbackEvents(key) = {}

-----------------------------------------------------------------------------
Init ==
    /\ row = [r \in Releases |->
                [status |-> "ABSENT", previous |-> None, gate |-> "unset", approved |-> FALSE]]
    /\ audit = <<>>
    /\ cache = [p \in Processes |-> Bootstrap]
    /\ call = [c \in Callers |-> Idle]

Free(c) == call[c].step \in {"idle", "returned"}

At(c, step) == call[c].step = step

\* The call of c goes on as m.
Proceed(c, m) == call' = [call EXCEPT ![c] = m]

Reply(c, outcome) == Proceed(c, [call[c] EXCEPT !.step = "returned", !.outcome = outcome])

\* A call that returns before it has loaded anything else.
ReplyAtOnce(c, release, key, outcome) ==
    Proceed(c, [Idle EXCEPT !.step = "returned", !.release = release, !.key = key,
                            !.outcome = outcome])

-----------------------------------------------------------------------------
(* register_candidate, run_release_gate, approve_release.                  *)

RegisterCandidate(r) ==
    /\ row[r].status = "ABSENT"
    /\ row' = [row EXCEPT ![r].status = "CANDIDATE"]
    /\ UNCHANGED <<audit, cache, call>>

\* The gate prompts the backend between loading the release and writing the
\* verdict: it is suspended in between, and other calls run.
GateStart(c, r) ==
    /\ Free(c)
    /\ row[r].status # "ABSENT"
    /\ Proceed(c, [Idle EXCEPT !.step = "gate", !.release = r, !.old = row[r].gate])
    /\ UNCHANGED <<row, audit, cache>>

GateRecord(c, verdict) ==
    /\ At(c, "gate")
    /\ LET r == call[c].release IN
       row' = [row EXCEPT ![r].gate = Written(call[c].old, verdict, row[r].gate)]
    /\ Reply(c, "ok")
    /\ UNCHANGED <<audit, cache>>

ApproveCheck(c, r) ==
    /\ Free(c)
    /\ row[r].status # "ABSENT"
    /\ IF row[r].gate # "passed"
       THEN ReplyAtOnce(c, r, None, "refused")
       ELSE Proceed(c, [Idle EXCEPT !.step = "approve", !.release = r])
    /\ UNCHANGED <<row, audit, cache>>

ApproveRecord(c) ==
    /\ At(c, "approve")
    /\ row' = [row EXCEPT ![call[c].release].approved = TRUE]
    /\ Reply(c, "ok")
    /\ UNCHANGED <<audit, cache>>

-----------------------------------------------------------------------------
(* activate_release.                                                       *)

FaultyMayActivateUnapproved(r) == row[r].status = "CANDIDATE" /\ row[r].gate = "passed"

\* The three checks, on the attributes the session has loaded.
MayActivate(r) ==
    /\ row[r].status = "CANDIDATE"
    /\ row[r].gate = "passed"
    /\ row[r].approved

ActivateCheck(c, r) ==
    /\ Free(c)
    /\ row[r].status # "ABSENT"
    /\ Len(audit) < MaxEvents
    /\ IF MayActivate(r)
       THEN Proceed(c, [Idle EXCEPT !.step = "activateRead", !.release = r])
       ELSE ReplyAtOnce(c, r, None, "refused")
    /\ UNCHANGED <<row, audit, cache>>

ActivateRead(c) ==
    /\ At(c, "activateRead")
    /\ Proceed(c, [call[c] EXCEPT !.step = "activateCommit", !.active = GetActiveRow])
    /\ UNCHANGED <<row, audit, cache>>

FaultyActivatedNoPrevious(r, active) ==
    [s \in Releases |->
        [row[s] EXCEPT !.status = CASE s = r      -> "ACTIVE"
                                    [] s = active -> "SUPERSEDED"
                                    [] OTHER      -> row[s].status]]

\* The table once the release read as current has been demoted.
Demoted(active, status) ==
    [s \in Releases |-> IF s = active THEN [row[s] EXCEPT !.status = status] ELSE row[s]]

FaultyActivationMidway(r, active) == [row EXCEPT ![r].status = "ACTIVE"]

\* The table between the two UPDATEs of an activation: the flush sends the
\* demotion first.  The index looks at this table too.
ActivationMidway(r, active) == Demoted(active, "SUPERSEDED")

\* The table after demoting `active` and promoting r, whose row was loaded as
\* a CANDIDATE without a previous_release_id.
Activated(r, active) ==
    LET demoted == Demoted(active, "SUPERSEDED")
    IN  [demoted EXCEPT ![r] = [@ EXCEPT !.status = "ACTIVE",
                                         !.previous = Written(None, active, row[r].previous)]]

\* The two UPDATEs, the INSERT of the event and the commit: one transaction,
\* undone as a whole if the index rejects what one of the UPDATEs leaves.
ActivateCommit(c) ==
    /\ At(c, "activateCommit")
    /\ LET r  == call[c].release
           db == Activated(r, call[c].active)
           accepted == /\ SingleActiveIndex(ActivationMidway(r, call[c].active))
                       /\ SingleActiveIndex(db)
       IN \/ /\ accepted
             /\ row' = db
             /\ audit' = Append(audit, ActivatedEvent(r))
             /\ Proceed(c, [call[c] EXCEPT !.step = "sync"])
          \/ /\ ~accepted
             /\ Reply(c, "conflict")
             /\ UNCHANGED <<row, audit>>
    /\ UNCHANGED cache

-----------------------------------------------------------------------------
(* rollback_active_release.                                                *)

RollbackFind(c, k) ==
    /\ Free(c)
    /\ \/ /\ ~IdempotencyKeyFree(k)
          /\ ReplyAtOnce(c, AnswerTo(k), k, "ok")
       \/ /\ IdempotencyKeyFree(k)
          /\ Len(audit) < MaxEvents
          /\ Proceed(c, [Idle EXCEPT !.step = "rollbackRead", !.key = k])
    /\ UNCHANGED <<row, audit, cache>>

RollbackRead(c) ==
    /\ At(c, "rollbackRead")
    /\ \/ GetActiveRow = None /\ Reply(c, "noActive")
       \/ /\ GetActiveRow # None
          /\ row[GetActiveRow].previous = None
          /\ Reply(c, "noPrevious")
       \/ /\ GetActiveRow # None
          /\ row[GetActiveRow].previous # None
          /\ Proceed(c, [call[c] EXCEPT !.step = "rollbackLoad", !.active = GetActiveRow,
                                     !.release = row[GetActiveRow].previous])
    /\ UNCHANGED <<row, audit, cache>>

RollbackLoad(c) ==
    /\ At(c, "rollbackLoad")
    /\ Proceed(c, [call[c] EXCEPT !.step = "rollbackCommit",
                               !.old = row[call[c].release].status])
    /\ UNCHANGED <<row, audit, cache>>

FaultyRolledBackNoPromotion(active, previous, old) ==
    [row EXCEPT ![active].status = "ROLLED_BACK"]

FaultyRolledBackSuperseding(active, previous, old) ==
    [row EXCEPT ![active].status = "SUPERSEDED", ![previous].status = "ACTIVE"]

FaultyRollbackMidway(active, previous, old) ==
    [row EXCEPT ![previous].status = Written(old, "ACTIVE", row[previous].status)]

\* The table between the two UPDATEs of a rollback: again the flush sends the
\* demotion first.
RollbackMidway(active, previous, old) == Demoted(active, "ROLLED_BACK")

\* The table after demoting `active` and promoting `previous`, loaded with
\* status `old`; when both are one object its demotion has been flushed, so
\* the promotion is written whatever was loaded.
RolledBack(active, previous, old) ==
    LET demoted == Demoted(active, "ROLLED_BACK")
        loaded  == IF previous = active THEN "ROLLED_BACK" ELSE old
    IN  [demoted EXCEPT ![previous].status =
            Written(loaded, "ACTIVE", demoted[previous].status)]

RollbackCommit(c) ==
    /\ At(c, "rollbackCommit")
    /\ LET k  == call[c].key
           db == RolledBack(call[c].active, call[c].release, call[c].old)
           accepted ==
              /\ SingleActiveIndex(RollbackMidway(call[c].active, call[c].release, call[c].old))
              /\ SingleActiveIndex(db)
              /\ IdempotencyKeyFree(k)
       IN \/ /\ accepted
             /\ row' = db
             /\ audit' = Append(audit, RolledBackEvent(call[c].release, call[c].active, k))
             /\ Proceed(c, [call[c] EXCEPT !.step = "sync"])
          \/ /\ ~accepted
             /\ Proceed(c, [call[c] EXCEPT !.step = "rollbackReconcile"])
             /\ UNCHANGED <<row, audit>>
    /\ UNCHANGED cache

FaultyRollbackReconcile(c) ==
    /\ At(c, "rollbackReconcile")
    /\ Reply(c, "ok")
    /\ UNCHANGED <<row, audit, cache>>

\* The `except IntegrityError` branch: look for the event that won.
RollbackReconcile(c) ==
    /\ At(c, "rollbackReconcile")
    /\ IF IdempotencyKeyFree(call[c].key)
       THEN Reply(c, "integrityError")
       ELSE ReplyAtOnce(c, AnswerTo(call[c].key), call[c].key, "ok")
    /\ UNCHANGED <<row, audit, cache>>

-----------------------------------------------------------------------------
(* _sync_cache, and the restart of a process.                              *)

FaultySyncCache(c) ==
    /\ At(c, "sync")
    /\ cache' = [cache EXCEPT ![ProcessOf[c]] = call[c].active]
    /\ Reply(c, "ok")
    /\ UNCHANGED <<row, audit>>

SyncCache(c) ==
    /\ At(c, "sync")
    /\ cache' = [cache EXCEPT ![ProcessOf[c]] = call[c].release]
    /\ Reply(c, "ok")
    /\ UNCHANGED <<row, audit>>

FaultyRestart(p) ==
    /\ call' = [c \in Callers |-> IF ProcessOf[c] = p THEN Idle ELSE call[c]]
    /\ cache' = [cache EXCEPT ![p] = Bootstrap]
    /\ UNCHANGED <<row, audit>>

\* A process dies, its calls with it, and starts again: lifespan calls
\* hydrate_active_cache_from_db before the first request.
Restart(p) ==
    /\ call' = [c \in Callers |-> IF ProcessOf[c] = p THEN Idle ELSE call[c]]
    /\ cache' = [cache EXCEPT ![p] = IF GetActiveRow = None THEN Bootstrap ELSE GetActiveRow]
    /\ UNCHANGED <<row, audit>>

-----------------------------------------------------------------------------
Next ==
    \/ \E r \in Releases : RegisterCandidate(r)
    \/ \E c \in Callers, r \in Releases :
          GateStart(c, r) \/ ApproveCheck(c, r) \/ ActivateCheck(c, r)
    \/ \E c \in Callers, verdict \in {"passed", "failed"} : GateRecord(c, verdict)
    \/ \E c \in Callers, k \in Keys : RollbackFind(c, k)
    \/ \E c \in Callers :
          \/ ApproveRecord(c)
          \/ ActivateRead(c)
          \/ ActivateCommit(c)
          \/ RollbackRead(c)
          \/ RollbackLoad(c)
          \/ RollbackCommit(c)
          \/ RollbackReconcile(c)
          \/ SyncCache(c)
    \/ \E p \in Processes : Restart(p)

Spec == Init /\ [][Next]_vars

-----------------------------------------------------------------------------
(* Operators that take turns.                                              *)

\* A call that is about to change the release in service, or has just done so.
Switching(c) ==
    call[c].step \in {"activateRead", "activateCommit", "rollbackRead", "rollbackLoad",
                      "rollbackCommit", "rollbackReconcile", "sync"}

\* No activation or rollback starts before the last one has returned or died;
\* registrations, gates, approvals and restarts come whenever they like.
OneAtATime == \A c, d \in Callers : Switching(c) /\ Switching(d) => c = d

SerialSpec == Init /\ [][Next /\ OneAtATime']_vars

-----------------------------------------------------------------------------
(* Properties.                                                             *)

Typed ==
    /\ row \in [Releases -> Rows]
    /\ audit \in Seq(Events)
    /\ cache \in [Processes -> Releases \cup {Bootstrap}]
    /\ call \in [Callers -> Calls]

\* What a call m has by the time it is at a given step: the objects it works
\* on, the key it answers to, and no outcome until it returns.
WellFormed(m) ==
    /\ m.step \in {"gate", "approve", "activateRead", "activateCommit",
                   "rollbackLoad", "rollbackCommit", "sync"} => m.release \in Releases
    /\ m.step \in {"rollbackLoad", "rollbackCommit"} => m.active \in Releases
    /\ m.step \in {"rollbackRead", "rollbackLoad", "rollbackCommit", "rollbackReconcile"}
          => m.key \in Keys
    /\ m.step \in {"gate", "approve", "activateRead", "activateCommit"} => m.key = None
    /\ m.step # "returned" => m.outcome = "pending"

CallShape == \A c \in Callers : WellFormed(call[c])

\* Every variable stays in its type, and whatever row or key a call is about to
\* write with, it has loaded or been given before.
TypeOK == Typed /\ CallShape

\* Rollback is idempotent across racing retries: one audit event per key, and
\* every call that ends well with a key answers with the release of its event,
\* whether it wrote the event, found it, or lost the race (lines 311-324).
OneEventPerKey ==
    \A i, j \in DOMAIN audit :
        audit[i].type = "ROLLED_BACK" /\ audit[j].type = "ROLLED_BACK"
        /\ audit[i].key = audit[j].key => i = j

AnswersAgree ==
    \A c \in Callers :
        (At(c, "sync") \/ call[c].outcome = "ok") /\ call[c].key # None
        => \E i \in RollbackEvents(call[c].key) : audit[i].release = call[c].release

RollbackIdempotent == OneEventPerKey /\ AnswersAgree

\* What a process serves, other than the bootstrap checkpoint, is a release a
\* human approved and an audit event put into service, even when the cache is
\* stale (activate_release fails closed, lines 262-263).
ServedWasApproved ==
    \A p \in Processes : cache[p] # Bootstrap =>
        /\ row[cache[p]].approved
        /\ \E i \in DOMAIN audit : audit[i].release = cache[p]

\* The audit trail accounts for every status: a release that was in service
\* has an event that put it there, and is ROLLED_BACK only if a rollback names
\* it as the one reverted from (lines 264-266, orm_models.py:421-425).
StatusHasEvidence ==
    \A r \in Releases :
        /\ row[r].status \in {"ACTIVE", "SUPERSEDED", "ROLLED_BACK"} =>
              \E i \in DOMAIN audit : audit[i].release = r
        /\ row[r].status = "ROLLED_BACK" =>
              \E i \in DOMAIN audit : audit[i].type = "ROLLED_BACK" /\ audit[i].from = r

\* A switch of release fails at its commit only because another one got there
\* first, and never over its own two UPDATEs: some third release really is
\* ACTIVE, neither the one being promoted nor the one the call read as current,
\* or the key of the rollback has been used meanwhile (lines 96-104, 285-291,
\* 338-341).
AnotherIsActive(c) == \E r \in ActiveIn(row) : r \notin {call[c].release, call[c].active}

ConflictIsReal ==
    [][\A c \in Callers :
          /\ At(c, "activateCommit") /\ call'[c].outcome = "conflict" => AnotherIsActive(c)
          /\ At(c, "rollbackCommit") /\ call'[c].step = "rollbackReconcile"
                => AnotherIsActive(c) \/ ~IdempotencyKeyFree(call[c].key)]_vars

\* The audit trail can be replayed: each rollback reverts the release that the
\* event before it put in service, and the last event names the ACTIVE release.
AuditReplays ==
    /\ \A i \in DOMAIN audit :
          audit[i].type = "ROLLED_BACK" => i > 1 /\ audit[i].from = audit[i - 1].release
    /\ audit # <<>> => ActiveIn(row) = {audit[Len(audit)].release}

\* Once its call has synchronised, a process serves the ACTIVE release of the
\* database, or the bootstrap checkpoint while there is none (lines 146-152).
CacheMirrorsDatabase ==
    \A p \in Processes :
        (\A c \in Callers : ProcessOf[c] = p => ~At(c, "sync"))
        => cache[p] = IF GetActiveRow = None THEN Bootstrap ELSE GetActiveRow

\* Callers that take turns never meet the database's constraints: the flush of
\* the demotion keeps a call's own two ACTIVE rows apart, and what it read still
\* holds at its commit (lines 285-291, 338-341).
NoSpuriousFailure ==
    \A c \in Callers : call[c].outcome \notin {"conflict", "integrityError"}

\* A rollback that succeeds has put the release it answers with back in
\* service (lines 309-310 and 343: "previous.status = ACTIVE").
RollbackRestores ==
    [][\A c \in Callers :
          At(c, "rollbackCommit") /\ call'[c].step = "sync"
          => row'[call[c].release].status = "ACTIVE"]_vars
=============================================================================
