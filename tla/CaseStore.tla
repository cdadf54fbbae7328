----------------------------- MODULE CaseStore -----------------------------
(***************************************************************************)
(* The case tables, as the handlers of api.py and persistence.py use them. *)
(* A handler runs in a thread of its own with a session of its own, and    *)
(* requests overlap.  persist_case_run starts with an INSERT, which takes  *)
(* the write lock of SQLite and keeps it until the commit: the whole       *)
(* transaction is one step.  What a handler read before that is in its     *)
(* session's identity map, and may be stale.                               *)
(*                                                                         *)
(* Each run of the pipeline has a number, and each child row carries the   *)
(* number of the run that wrote it.  The pipeline is deterministic, so     *)
(* which sources a case has evidence from (Cites) and whether it ends in a *)
(* review (NeedReview) are given.                                          *)
(***************************************************************************)
EXTENDS Naturals, FiniteSets, Sequences

CONSTANTS
    Requests,
    Fixtures,      \* list_available_case_ids()
    Unlisted,      \* a case id that is not among them
    Sources,
    Cites,         \* the sources each case has evidence from
    NeedReview,    \* the cases whose authority decision is REQUIRE_HUMAN
    Callers,       \* the principals of _TOKEN_MAP
    Operators,     \* those with the role retail-operations
    Stranger,      \* a caller without a token of the map
    Keys,          \* idempotency keys of review decisions
    Asks,          \* the decision each key was made up for: case, who and verdict
    Within,        \* pairs of keys, the first a prefix of the second
    AgentRuns,     \* the agent runs of a case
    MaxRuns,       \* bound: runs persisted
    Nothing

VARIABLES
    cases,       \* state_version and run of each case row, or Nothing
    rows,        \* the child rows, the review aside
    reviews,     \* the review row of each case, or Nothing
    snapshots,   \* the source_snapshots that have a row
    agents,      \* whether agent_definitions holds the registry
    request,     \* the handlers: where each is, what it read, what it answered
    runs         \* history: number of the last run persisted

db == <<cases, rows, reviews, snapshots, agents>>
storeVars == <<db, request, runs>>

\* Tables Case has a cascading relationship to (agent steps through their run).
CascadeTables ==
    {"evidence", "claim", "authority", "outcome", "trace", "agent_run", "agent_step",
     "guardrail"}

Tables == CascadeTables \cup {"handoff"}

\* Primary keys: EVID-<source id> of evidence, and of the others a name made
\* of the case id.
Row == [table : Tables, key : Fixtures \cup Sources, case : Fixtures, run : Nat]

Review ==
    [run : Nat, status : {"PENDING", "DECIDED"}, by : Callers \cup {Nothing},
     verdict : {Asks[k].verdict : k \in Keys} \cup {Nothing}, key : Keys \cup {Nothing}]

ASSUME StoreAssumption ==
    /\ Cites \in [Fixtures -> (SUBSET Sources) \ {{}}]
    /\ NeedReview \subseteq Fixtures /\ Operators \subseteq Callers
    /\ Unlisted \notin Fixtures /\ Stranger \notin Callers
    /\ \A k \in Keys :
          /\ Asks[k].case \in Fixtures /\ Asks[k].who \in Callers \cup {Stranger}
          /\ Asks[k] = [case |-> Asks[k].case, who |-> Asks[k].who, verdict |-> Asks[k].verdict]
          /\ <<k, k>> \in Within
    /\ AgentRuns \in Nat \ {0} /\ MaxRuns \in Nat
    /\ Nothing \notin Nat \cup Fixtures \cup Callers \cup Keys \cup Tables
    /\ Nothing \notin [version : Nat, run : Nat] /\ Nothing \notin Review

Idle == [step |-> "idle", case |-> Nothing, who |-> Nothing, key |-> Nothing,
         table |-> Nothing, version |-> Nothing, found |-> <<>>, answer |-> Nothing]

StoreInit ==
    /\ cases = [c \in Fixtures |-> Nothing]
    /\ rows = {}
    /\ reviews = [c \in Fixtures |-> Nothing]
    /\ snapshots = {}
    /\ agents = FALSE
    /\ request = [r \in Requests |-> Idle]
    /\ runs = 0

Free(r) == request[r].step = "idle"

Answer(r, rec, code) == request' = [request EXCEPT ![r] = [rec EXCEPT !.step = "idle", !.answer = code]]

Goes(r, rec, step) == request' = [request EXCEPT ![r] = [rec EXCEPT !.step = step]]

\* Bound on the runs: those persisted and those under way.
MayRun == runs + Cardinality({q \in Requests : request[q].step = "running"}) < MaxRuns

\* require_auth.
Authenticated(who) == who \in Callers

\* POST /api/cases and POST /api/cases/{case_id}/run.
StartRun(r, who, c) ==
    LET rec == [Idle EXCEPT !.case = c, !.who = who] IN
    /\ Free(r)
    /\ \/ ~Authenticated(who) /\ Answer(r, rec, 401)
       \/ Authenticated(who) /\ c \notin Fixtures /\ Answer(r, rec, 404)
       \/ Authenticated(who) /\ c \in Fixtures /\ MayRun /\ Goes(r, rec, "running")
    /\ UNCHANGED <<db, runs>>

\* POST /api/cases/{case_id}/replay: the row it loads stays in the session.
StartReplay(r, who, c) ==
    LET rec == [Idle EXCEPT !.case = c, !.who = who] IN
    /\ Free(r)
    /\ \/ ~Authenticated(who) /\ Answer(r, rec, 401)
       \/ Authenticated(who) /\ cases[c] = Nothing /\ Answer(r, rec, 404)
       \/ /\ Authenticated(who) /\ cases[c] # Nothing /\ MayRun
          /\ Goes(r, [rec EXCEPT !.version = cases[c].version], "running")
    /\ UNCHANGED <<db, runs>>

FaultyKept(c) == {x \in rows : x.case # c \/ x.table \notin CascadeTables}

\* What is left when the prior run of c is deleted: the cascade, and the
\* handoffs of its agent runs.
Kept(c) ==
    LET oldRuns == {x \in rows : x.case = c /\ x.table = "agent_run"} IN
    {x \in rows : ~ \/ x.case = c /\ x.table \in CascadeTables
                    \/ x.table = "handoff" /\ \E run \in oldRuns : x.key = run.key}

FaultyWritten(c, n) ==
    {[table |-> t, key |-> c, case |-> c, run |-> n] :
        t \in Tables \ ({"evidence"} \cup (IF n > 1 THEN {"agent_step"} ELSE {}))}
    \cup {[table |-> "evidence", key |-> s, case |-> c, run |-> n] : s \in Cites[c]}

Written(c, n) ==
    {[table |-> t, key |-> c, case |-> c, run |-> n] : t \in Tables \ {"evidence"}}
    \cup {[table |-> "evidence", key |-> s, case |-> c, run |-> n] : s \in Cites[c]}

Collides(c) ==
    \E new \in Written(c, runs + 1), old \in Kept(c) : new.table = old.table /\ new.key = old.key

\* session.get finds the row a replay has loaded, whatever became of it since.
NextVersion(c, loaded) ==
    IF loaded # Nothing THEN loaded + 1
    ELSE IF cases[c] = Nothing THEN 1 ELSE cases[c].version + 1

Pending(n) == [run |-> n, status |-> "PENDING", by |-> Nothing, verdict |-> Nothing, key |-> Nothing]

\* INSERT ... ON CONFLICT DO NOTHING of the sources the case cites.
Upserted(c) == snapshots \cup Cites[c]

\* persist_case_run commits.
Save(r) ==
    LET c == request[r].case IN
    /\ request[r].step = "running"
    /\ ~Collides(c)
    /\ snapshots' = Upserted(c)
    /\ agents' = TRUE
    /\ rows' = Kept(c) \cup Written(c, runs + 1)
    /\ reviews' = [reviews EXCEPT ![c] = IF c \in NeedReview THEN Pending(runs + 1) ELSE Nothing]
    /\ cases' = [cases EXCEPT ![c] = [version |-> NextVersion(c, request[r].version), run |-> runs + 1]]
    /\ runs' = runs + 1
    /\ Goes(r, request[r], "saved")

\* IntegrityError: the session is closed, and everything is rolled back.
SaveFails(r) ==
    /\ request[r].step = "running"
    /\ Collides(request[r].case)
    /\ Answer(r, request[r], 500)
    /\ UNCHANGED <<db, runs>>

\* The commit expired the row: _case_to_dict loads it again.
AnswerRun(r) ==
    /\ request[r].step = "saved"
    /\ Answer(r, [request[r] EXCEPT !.version = cases[request[r].case].version], 200)
    /\ UNCHANGED <<db, runs>>

FaultyMayDecide(review) == TRUE

MayDecide(review) == review.status = "PENDING"

SameKey(review, k) == review.status = "DECIDED" /\ <<k, review.key>> \in Within

\* post_review_decision up to the commit: load, check the role, decide_review.
StartDecision(r, k) ==
    LET c == Asks[k].case
        who == Asks[k].who
        found == reviews[c]
        rec == [Idle EXCEPT !.case = c, !.who = who, !.key = k, !.found = <<found>>] IN
    /\ Free(r)
    /\ \/ ~Authenticated(who) /\ Answer(r, rec, 401)
       \/ Authenticated(who) /\ found = Nothing /\ Answer(r, rec, 404)
       \/ /\ Authenticated(who) /\ found # Nothing
          /\ \/ who \notin Operators /\ Answer(r, rec, 403)
             \/ who \in Operators /\ MayDecide(found) /\ Goes(r, rec, "deciding")
             \/ /\ who \in Operators /\ ~MayDecide(found)
                /\ IF SameKey(found, k) THEN Goes(r, rec, "decided") ELSE Answer(r, rec, 409)
    /\ UNCHANGED <<db, runs>>

FaultyDecided(review, who, k) ==
    [review EXCEPT !.status = "DECIDED", !.verdict = Asks[k].verdict, !.key = k,
                   !.by = IF review.by = Nothing THEN who ELSE review.by]

Decided(review, who, k) ==
    [review EXCEPT !.status = "DECIDED", !.by = who, !.verdict = Asks[k].verdict, !.key = k]

\* The UPDATE finds the row by its id, whatever became of it since the load.
CommitDecision(r) ==
    LET c == request[r].case IN
    /\ request[r].step = "deciding"
    /\ reviews' = [reviews EXCEPT ![c] = Decided(@, request[r].who, request[r].key)]
    /\ Goes(r, request[r], "decided")
    /\ UNCHANGED <<cases, rows, snapshots, agents, runs>>

\* _review_to_dict loads the row again.
AnswerDecision(r) ==
    /\ request[r].step = "decided"
    /\ Answer(r, [request[r] EXCEPT !.found = <<reviews[request[r].case]>>], 200)
    /\ UNCHANGED <<db, runs>>

\* The GET handlers of a case: the case is loaded, then a table of its rows.
StartRead(r, c, t) ==
    LET rec == [Idle EXCEPT !.case = c, !.table = t] IN
    /\ Free(r)
    /\ IF cases[c] = Nothing THEN Answer(r, rec, 404) ELSE Goes(r, rec, "reading")
    /\ UNCHANGED <<db, runs>>

RunsIn(t, c) == {x.run : x \in {y \in rows : y.table = t /\ y.case = c}}

FinishRead(r) ==
    LET rec == request[r] IN
    /\ rec.step = "reading" /\ rec.table # "agent_run"
    /\ Answer(r, [rec EXCEPT !.found = <<RunsIn(rec.table, rec.case)>>], 200)
    /\ UNCHANGED <<db, runs>>

\* Agent runs are read with one query, and the steps of each with a lazy one
\* of its own, when its turn to be answered comes.
ReadAgentRuns(r) ==
    LET rec == request[r] IN
    /\ rec.step = "reading" /\ rec.table = "agent_run"
    /\ Goes(r, [rec EXCEPT !.found = <<RunsIn("agent_run", rec.case)>>], "reading_steps")
    /\ UNCHANGED <<db, runs>>

ReadAgentSteps(r) ==
    LET rec == request[r]
        read == [rec EXCEPT !.found = Append(@, RunsIn("agent_step", rec.case))] IN
    /\ rec.step = "reading_steps"
    /\ IF Len(rec.found) = AgentRuns THEN Answer(r, read, 200) ELSE Goes(r, read, "reading_steps")
    /\ UNCHANGED <<db, runs>>

StoreNext ==
    \E r \in Requests :
        \/ \E who \in Callers \cup {Stranger} :
              \/ \E c \in Fixtures \cup {Unlisted} : StartRun(r, who, c)
              \/ \E c \in Fixtures : StartReplay(r, who, c)
        \/ \E k \in Keys : StartDecision(r, k)
        \/ \E c \in Fixtures, t \in Tables \ {"agent_step", "handoff"} : StartRead(r, c, t)
        \/ Save(r) \/ SaveFails(r) \/ AnswerRun(r)
        \/ CommitDecision(r) \/ AnswerDecision(r)
        \/ FinishRead(r) \/ ReadAgentRuns(r) \/ ReadAgentSteps(r)

StoreSpec == StoreInit /\ [][StoreNext]_storeVars

-----------------------------------------------------------------------------

StoreTypeOK ==
    /\ cases \in [Fixtures -> [version : Nat \ {0}, run : Nat] \cup {Nothing}]
    /\ rows \subseteq Row
    /\ reviews \in [Fixtures -> Review \cup {Nothing}]
    /\ snapshots \subseteq Sources
    /\ agents \in BOOLEAN
    /\ runs \in Nat

\* The stored case is one run, whole: in every table its rows are those of the
\* run the case row is of, none is missing, and what they refer to is there.
RunIsWhole ==
    \A c \in Fixtures :
        IF cases[c] = Nothing
        THEN reviews[c] = Nothing /\ \A x \in rows : x.case # c
        ELSE /\ \A t \in Tables : RunsIn(t, c) = {cases[c].run}
             /\ {x.key : x \in {y \in rows : y.table = "evidence" /\ y.case = c}} = Cites[c]
             /\ Cites[c] \subseteq snapshots /\ agents
             /\ IF c \in NeedReview THEN reviews[c] # Nothing /\ reviews[c].run = cases[c].run
                ELSE reviews[c] = Nothing

\* Nothing but evidence another case has of the same source makes a run fail:
\* in particular a case that is stored can be run again whatever overlaps.
FailureIsCollision ==
    \A r \in Requests :
        request[r].answer = 500 =>
            \E x \in rows :
                /\ x.table = "evidence" /\ x.key \in Cites[request[r].case]
                /\ x.case # request[r].case

\* A decided review is one request's decision, whole and by someone whose role
\* it is assigned to, however decisions and runs overlap.
DecisionWhole ==
    \A c \in Fixtures : reviews[c] # Nothing =>
        LET review == reviews[c] IN
        IF review.status = "PENDING"
        THEN review = Pending(review.run)
        ELSE /\ review.by \in Operators
             /\ Asks[review.key] = [case |-> c, who |-> review.by, verdict |-> review.verdict]

\* A decision stands until the case is run again, or a request that saw the
\* review pending commits.
DecisionKept ==
    [][\A c \in Fixtures :
          /\ reviews[c] # Nothing
          /\ reviews[c].status = "DECIDED"
          /\ cases'[c] = cases[c]
          /\ \A r \in Requests :
                request[r].step = "deciding" /\ request[r].case = c
                => request[r].found[1].status = "DECIDED"
          => reviews'[c] = reviews[c]]_storeVars

OneRunEach(found) == \A i \in 1 .. Len(found) : Cardinality(found[i]) = 1

NeverOlder(found) ==
    \A i, j \in 1 .. Len(found) : i < j => \A m \in found[i], n \in found[j] : m <= n

\* No query of a read finds a part of a stored case missing, or two runs in
\* one table, whatever is persisted between the queries; and none goes back to
\* an older run than the one before it.  The queries of one answer may find
\* different runs: an answer of agent runs may mix them (api.py).
ReadWhole ==
    \A r \in Requests :
        request[r].table # Nothing /\ request[r].answer = 200 =>
            OneRunEach(request[r].found) /\ NeverOlder(request[r].found)

\* A replay that saves has loaded the version the row still has: "a write with
\* a stale version is rejected rather than silently overwritten" (orm_models.py).
StaleWriteRejected ==
    [][\A r \in Requests :
          request[r].step = "running" /\ request'[r].step = "saved" /\ request[r].version # Nothing
          => request[r].version = cases[request[r].case].version]_storeVars
=============================================================================
