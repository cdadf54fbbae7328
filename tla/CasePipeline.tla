---------------------------- MODULE CasePipeline ----------------------------
(***************************************************************************)
(* One run of the pipeline (services/workflow.py) over a case and a pool   *)
(* of sources, stage by stage, with its agents (agents.py), its budget     *)
(* (budget.py), its status (state_machine.py) and its trace; and what may  *)
(* become of the trace once it is stored.                                  *)
(***************************************************************************)
EXTENDS CaseRules, TraceChain, SequencesExt

CONSTANTS
    CaseInputs,      \* case and pool of a run
    Budgets,         \* max_tool_calls
    Actions,         \* actions a caller proposes once a run has ended
    Spots,           \* bound: the rows of a stored trace that are tampered with
    None

\* The codes a decision gives for its reasons.
DecisionCodes ==
    {"WRONG_ORDER_BINDING", "WRONG_SELLER_BINDING", "WRONG_PRODUCT_BINDING", "ESCALATION_PATH_AVAILABLE",
     "FAULT_STATUS_UNKNOWN", "REFUND_REQUIRES_REVIEW", "MAJOR_FAILURE_CONFIRMED",
     "MAJOR_FAILURE_NOT_ESTABLISHED"}

\* None is neither how a run ends, nor a review, nor the state of a stored trace.
ASSUME PipeAssumption ==
    /\ MaxAge \in Int /\ Budgets \subseteq Nat
    /\ \A given \in CaseInputs :
          /\ IsFiniteSet(DOMAIN given.pool)
          /\ \A s \in DOMAIN given.pool : given.pool[s] \in Source
    /\ None \notin {"CONTROL_BLOCKED", "NEEDS_REVIEW", "COMPLETED", "intact"}
    /\ None \notin [status : {"PENDING"}, reasons : SUBSET DecisionCodes]

VARIABLES
    input,        \* the case, and its sources in order
    maxCalls,
    stage,        \* the statement of run_case_pipeline the run is at
    status,       \* case_status
    trace,        \* the events TraceRecorder holds
    calls,        \* RunBudget._tool_calls
    agentRuns, handoffs,
    evidence, claims, ungrounded, authority, review, outcome,
    termination,
    ran,          \* the actions enforce_action let run
    stored,       \* the rows of the trace in the database
    damage        \* what has been done to them

investigation == <<calls, agentRuns, handoffs>>
results == <<evidence, claims, ungrounded, authority, review, outcome>>
after == <<ran, stored, damage>>
pipeVars == <<input, maxCalls, stage, status, trace, termination, investigation, results, after>>

case == input.case

\* RetrievalAgent: the sources the case refers to.
Candidates == [s \in {t \in DOMAIN input.pool : t \in case.refs} |-> input.pool[s]]

PipeInit ==
    /\ input \in CaseInputs
    /\ maxCalls \in Budgets
    /\ stage = "CASE"
    /\ status = "CREATED"
    /\ trace = <<>>
    /\ calls = 0
    /\ agentRuns = {} /\ handoffs = {}
    /\ evidence = None /\ claims = None /\ ungrounded = None
    /\ authority = None /\ review = None /\ outcome = None
    /\ termination = None
    /\ ran = {}
    /\ stored = <<>> /\ damage = None

Event(at, type, tool, ids, arguments) ==
    [stage |-> at, type |-> type, tool |-> tool, ids |-> ids, arguments |-> arguments]

Plain(at, type, ids) == Event(at, type, None, ids, None)

Search(type, ids, arguments) ==
    Event("INVESTIGATE", type, "fixture_lexical_search", ids, arguments)

Changed(from, to) ==
    Event("STATE", "STATE_TRANSITION", None, {}, [from |-> from, to |-> to])

Numbered(events) ==
    [i \in DOMAIN events |->
        [sequence |-> Len(trace) + i, stage |-> events[i].stage, type |-> events[i].type,
         tool |-> events[i].tool, ids |-> events[i].ids, arguments |-> events[i].arguments]]

Record(events) == trace' = trace \o Numbered(events)

FaultyAllowed(from, to) ==
    \/ from = "CREATED" /\ to = "INVESTIGATING"
    \/ from = "INVESTIGATING" /\ to = "EVIDENCE_VALIDATED"
    \/ from = "EVIDENCE_VALIDATED" /\ to = "CLAIMS_RESOLVED"
    \/ from = "CLAIMS_RESOLVED" /\ to = "AUTHORITY_EVALUATED"
    \/ from = "AUTHORITY_EVALUATED" /\ to = "NEEDS_REVIEW"
    \/ from = "NEEDS_REVIEW" /\ to = "READY_TO_RECONCILE"
    \/ from = "READY_TO_RECONCILE" /\ to = "COMPLETED"

\* ALLOWED_TRANSITIONS.
Allowed(from, to) ==
    \/ from = "CREATED" /\ to = "INVESTIGATING"
    \/ from = "INVESTIGATING" /\ to = "EVIDENCE_VALIDATED"
    \/ from = "EVIDENCE_VALIDATED" /\ to = "CLAIMS_RESOLVED"
    \/ from = "CLAIMS_RESOLVED" /\ to = "AUTHORITY_EVALUATED"
    \/ from = "AUTHORITY_EVALUATED" /\ to \in {"NEEDS_REVIEW", "READY_TO_RECONCILE"}
    \/ from = "NEEDS_REVIEW" /\ to = "READY_TO_RECONCILE"
    \/ from = "READY_TO_RECONCILE" /\ to = "COMPLETED"

\* A stage records its events, then those of its transitions; an illegal
\* transition raises, and the run leaves nothing behind.
Passes(at, events, path, next) ==
    LET moves == [i \in 1 .. Len(path) - 1 |-> Changed(path[i], path[i + 1])] IN
    /\ stage = at
    /\ \A i \in 1 .. Len(path) - 1 : Allowed(path[i], path[i + 1])
    /\ Record(events \o moves)
    /\ status' = path[Len(path)]
    /\ stage' = next
    /\ UNCHANGED <<input, maxCalls, after>>

CreateCase ==
    /\ Passes("CASE", <<Plain("CASE", "CASE_CREATED", {})>>, <<status, "INVESTIGATING">>, "INVESTIGATE")
    /\ UNCHANGED <<termination, investigation, results>>

AgentRun(agent, used, steps, end) ==
    [agent |-> agent, parent |-> IF agent = "SUPERVISOR" THEN None ELSE "SUPERVISOR",
     calls |-> used, steps |-> steps, end |-> end]

\* consume_tool_call counts the call first.
OverBudget == calls + 1 > maxCalls

FaultyPartialRuns == {AgentRun("SUPERVISOR", 0, 0, "CONTROL_BLOCKED")}

\* What InvestigationBudgetExceeded carries.
PartialRuns ==
    {AgentRun("SUPERVISOR", 0, 0, "CONTROL_BLOCKED"),
     AgentRun("RETRIEVAL", calls + 1, 0, "CONTROL_BLOCKED")}

\* The budget is exhausted: the artifacts of a blocked run, with the agent
\* runs there are.
Blocked ==
    /\ OverBudget
    /\ Passes("INVESTIGATE", <<Search("BUDGET_EXCEEDED", {}, None)>>, <<status>>, "ENDED")
    /\ calls' = calls + 1
    /\ agentRuns' = PartialRuns
    /\ evidence' = [s \in {} |-> None]
    /\ claims' = [t \in {} |-> None]
    /\ authority' = Verdict("REQUIRE_HUMAN", "NONE", {"BUDGET_EXCEEDED", "TOOL_CALLS"})
    /\ outcome' = [intended |-> "NONE", observed |-> "BUDGET_EXCEEDED", status |-> "NOT_ATTEMPTED"]
    /\ termination' = "CONTROL_BLOCKED"
    /\ UNCHANGED <<handoffs, ungrounded, review>>

Handoff(child) == [parent |-> "SUPERVISOR", child |-> child]

\* SupervisorPlanner.run: the retrieval agent, then the critic, which flags no
\* candidate the retrieval agent let through.
Investigate ==
    /\ ~OverBudget
    /\ Passes("INVESTIGATE",
              <<Search("CANDIDATE_SEARCH_STARTED", {}, [query |-> None]),
                Search("CANDIDATES_RETURNED", DOMAIN Candidates, None),
                Plain("INVESTIGATE", "CANDIDATE_BINDING_REVIEWED", DOMAIN Candidates \ case.refs),
                Plain("INVESTIGATE", "AGENT_HANDOFF_RETRIEVAL", {}),
                Plain("INVESTIGATE", "AGENT_HANDOFF_CRITIC", {})>>,
              <<status>>, "VALIDATE")
    /\ calls' = calls + 1
    /\ agentRuns' = {AgentRun("SUPERVISOR", calls + 1, 2, "COMPLETED"),
                     AgentRun("RETRIEVAL", calls + 1, 1, "COMPLETED"),
                     AgentRun("CRITIC", 0, 1, "COMPLETED")}
    /\ handoffs' = {Handoff("RETRIEVAL"), Handoff("CRITIC")}
    /\ UNCHANGED <<termination, results>>

\* The event of each candidate is recorded before contradictions are looked for.
Judged(s) ==
    Plain("VALIDATE",
          IF ReasonsOf(case, s, input.pool[s]) = {} THEN "EVIDENCE_VALIDATED" ELSE "EVIDENCE_REJECTED",
          {s})

Validate ==
    LET order == SetToSeq(DOMAIN Candidates) IN
    /\ Passes("VALIDATE", [i \in DOMAIN order |-> Judged(order[i])],
              <<status, "EVIDENCE_VALIDATED">>, "RESOLVE")
    /\ evidence' = ValidateEvidence(case, Candidates)
    /\ UNCHANGED <<termination, investigation, claims, ungrounded, authority, review, outcome>>

Resolve ==
    LET resolved == ResolveClaims(case, evidence)
        cited(t) == resolved[t].evidence \cup resolved[t].counter IN
    /\ Passes("RESOLVE",
              [i \in DOMAIN ClaimTypes |-> Plain("RESOLVE", "CLAIM_RESOLVED", cited(ClaimTypes[i]))],
              <<status, "CLAIMS_RESOLVED">>, "GUARDRAILS")
    /\ claims' = resolved
    /\ UNCHANGED <<termination, investigation, evidence, ungrounded, authority, review, outcome>>

\* run_guardrails: it reports, and nothing after it reads the report.
Guard ==
    LET flagged == {s \in DOMAIN evidence : "PROMPT_INJECTION_CONTENT" \in evidence[s].reasons}
        verdict == IF Ungrounded(claims, evidence) = {} THEN "GROUNDEDNESS_CHECK_PASSED"
                   ELSE "GROUNDEDNESS_VIOLATION_BLOCKED" IN
    /\ Passes("GUARDRAILS",
              <<Plain("GUARDRAILS", "INPUT_SCAN_COMPLETED", flagged),
                Plain("GUARDRAILS", "CASE_SUMMARY_GENERATED", DOMAIN evidence),
                Plain("GUARDRAILS", verdict, {})>>,
              <<status>>, "AUTHORISE")
    /\ ungrounded' = Ungrounded(claims, evidence)
    /\ UNCHANGED <<termination, investigation, evidence, claims, authority, review, outcome>>

Authorise ==
    /\ Passes("AUTHORISE", <<Plain("AUTHORISE", "AUTHORITY_DECIDED", {})>>,
              <<status, "AUTHORITY_EVALUATED">>, "REVIEW")
    /\ authority' = AuthoriseCase(claims)
    /\ UNCHANGED <<termination, investigation, evidence, claims, ungrounded, review, outcome>>

FaultyNeedsReview == authority.decision = "REQUIRE_HUMAN" /\ "FAULT_STATUS_UNKNOWN" \in authority.reasons

NeedsReview == authority.decision = "REQUIRE_HUMAN"

\* _create_review_task and _reconcile.
Reconcile ==
    /\ Passes("REVIEW",
              <<Plain("AUTHORISE", IF NeedsReview THEN "REVIEW_TASK_CREATED" ELSE "REVIEW_NOT_REQUIRED", {}),
                Plain("RECONCILE", "OUTCOME_RECORDED", {})>>,
              <<status>>, "TERMINATE")
    /\ review' = IF NeedsReview THEN [status |-> "PENDING", reasons |-> authority.reasons] ELSE None
    /\ outcome' = [intended |-> authority.action, observed |-> "PENDING_HUMAN_REVIEW", status |-> "PENDING"]
    /\ UNCHANGED <<termination, investigation, evidence, claims, ungrounded, authority>>

\* The last transitions come before the last event.
Terminate(path, end) ==
    /\ Passes("TERMINATE", <<>>, path, "CLOSE")
    /\ termination' = end
    /\ UNCHANGED <<investigation, results>>

SendToReview == review # None /\ Terminate(<<status, "NEEDS_REVIEW">>, "NEEDS_REVIEW")

Complete == review = None /\ Terminate(<<status, "READY_TO_RECONCILE", "COMPLETED">>, "COMPLETED")

Close ==
    /\ Passes("CLOSE", <<Plain("RECONCILE", "CASE_TERMINATED", {})>>, <<status>>, "ENDED")
    /\ UNCHANGED <<termination, investigation, results>>

\* A caller proposes an action: it runs if enforce_action does not raise.
Propose(action) ==
    /\ stage = "ENDED" /\ damage = None
    /\ MayRun(authority, action)
    /\ ran' = ran \cup {action}
    /\ UNCHANGED <<input, maxCalls, stage, status, trace, termination, investigation, results, stored, damage>>

\* What happened is compared with what was intended.
Observe(observed) ==
    /\ stage = "ENDED" /\ damage = None
    /\ outcome' = Reconciled(outcome, observed)
    /\ UNCHANGED <<input, maxCalls, stage, status, trace, termination, investigation,
                   evidence, claims, ungrounded, authority, review, after>>

\* The trace is stored.
Store ==
    /\ stage = "ENDED" /\ damage = None
    /\ stored' = Chained(case.id, trace)
    /\ damage' = "intact"
    /\ UNCHANGED <<input, maxCalls, stage, status, trace, termination, investigation, results, ran>>

Renumbered(row, n) == [row EXCEPT !.event.sequence = n]

\* One accident to the stored rows, at row i; rows are read in the order of
\* their sequence numbers.
Damaged(kind, i) ==
    CASE kind = "edited"   -> [stored EXCEPT ![i].event.ids = {"other"}]
      [] kind = "argument" -> [stored EXCEPT ![i].event.arguments = [query |-> "other"]]
      [] kind = "removed"  -> RemoveAt(stored, i)
      [] kind = "swapped"  -> [stored EXCEPT ![i] = Renumbered(stored[i + 1], i),
                                            ![i + 1] = Renumbered(stored[i], i + 1)]
      [] kind = "copied"   -> Append(stored, Renumbered(stored[i], Len(stored) + 1))
      [] kind = "cut"      -> SubSeq(stored, 1, i - 1)

Damage(kind, i) ==
    /\ damage = "intact"
    /\ i \in DOMAIN stored /\ (kind = "swapped" => i < Len(stored))
    /\ stored' = Damaged(kind, i)
    /\ damage' = kind
    /\ UNCHANGED <<input, maxCalls, stage, status, trace, termination, investigation, results, ran>>

Step ==
    \/ CreateCase \/ Blocked \/ Investigate \/ Validate \/ Resolve \/ Guard \/ Authorise
    \/ Reconcile \/ SendToReview \/ Complete \/ Close

PipeNext ==
    \/ Step
    \/ Store
    \/ \E action \in Actions : Propose(action) \/ Observe(action)
    \/ \E i \in Spots, kind \in {"edited", "argument", "removed", "swapped", "copied", "cut"} :
          Damage(kind, i)

PipeSpec == PipeInit /\ [][PipeNext]_pipeVars /\ WF_pipeVars(Step)

-----------------------------------------------------------------------------

\* However the run goes, its status, its termination, its decision and its
\* review agree.  A decision that requires a human ends with a pending review;
\* all but that of a run the budget blocked, which ends with none, and with
\* neither evidence nor claims (workflow.py).
EndsProperly ==
    stage = "ENDED" =>
        \/ /\ termination = "CONTROL_BLOCKED" /\ status = "INVESTIGATING"
           /\ authority.decision = "REQUIRE_HUMAN" /\ DOMAIN claims = {} /\ evidence = claims
           /\ review = None
        \/ /\ termination = "NEEDS_REVIEW" /\ status = "NEEDS_REVIEW"
           /\ authority.decision = "REQUIRE_HUMAN" /\ review.status = "PENDING"
        \/ /\ termination = "COMPLETED" /\ status = "COMPLETED"
           /\ authority.decision = "DENY" /\ review = None

\* Only assessments that find a fault minor have the word in their text.
OnlyFindingsSayMinor ==
    \A s \in DOMAIN Candidates :
        "minor" \in Candidates[s].words =>
            Candidates[s].class = "fault_assessment" /\ Candidates[s].conclusion = "minor"

\* A refund is denied without a human only if the order is one of the
\* registry's, a sound source speaks of a minor fault, and no two assessments
\* among the sources disagree, sound or not.  resolve.py goes by words: that
\* source may be of any class, a policy that mentions minor faults included.
\* Where only findings have the word it is an assessment that finds the fault
\* minor.
DenialIsSound ==
    authority # None /\ authority.decision = "DENY" =>
        /\ <<case.order, case.seller, case.product>> \in ValidBindings
        /\ \E s \in DOMAIN Candidates :
              LET source == Candidates[s] IN
              /\ "minor" \in source.words
              /\ OnlyFindingsSayMinor =>
                    source.class = "fault_assessment" /\ source.conclusion = "minor"
              /\ source.allowed /\ source.excerpt /\ source.locator /\ ~source.tampered
              /\ source.age <= MaxAge
              /\ s \in DOMAIN case.expected => case.expected[s] = source.version
        /\ \A s, t \in DOMAIN Candidates :
              LET said == {Candidates[s].conclusion, Candidates[t].conclusion} IN
              Candidates[s].class = "fault_assessment" /\ Candidates[t].class = "fault_assessment"
              => said # {"major", "minor"}

\* What the injection scan and the relevance score find never changes the
\* decision: the sources without the findings lead to the same one.
AdvisoryOnly ==
    authority # None /\ DOMAIN claims # {} =>
        LET plain == [s \in DOMAIN Candidates |->
                        [Candidates[s] EXCEPT !.injection = FALSE, !.relevant = TRUE]] IN
        authority = AuthoriseCase(ResolveClaims(case, ValidateEvidence(case, plain)))

\* A claim about the fault that is settled cites evidence without a blocking
\* reason; one that is contradicted cites every candidate whose text has the
\* words of a major failure, and counters with every one whose text has those
\* of a minor fault; and the summary is grounded in both cases (resolve.py,
\* guardrails.py).  The words do not tell the sides apart: an assessment that
\* says "not a major failure" stands on both.
FaultIsCited ==
    claims # None /\ DOMAIN claims # {} =>
        LET major == claims["MAJOR_FAILURE_ESTABLISHED"]
            speaking(word) == {s \in DOMAIN Candidates : word \in Candidates[s].words} IN
        /\ major.status # "UNKNOWN" =>
              /\ major.evidence # {}
              /\ \A s \in major.evidence : evidence[s].reasons \subseteq NonBlocking
        /\ ungrounded \in {None, {}}
        /\ (\E s, t \in DOMAIN Candidates :
               /\ Candidates[s].class = "fault_assessment" /\ Candidates[s].conclusion = "major"
               /\ Candidates[t].class = "fault_assessment" /\ Candidates[t].conclusion = "minor") =>
              /\ major.status = "UNKNOWN"
              /\ major.evidence = speaking("major") /\ major.counter = speaking("minor")

\* A run is there to be audited, a blocked one too: the supervisor that started
\* has a record, the agent that made the tool calls one that counts them as the
\* budget does, and so has the child of every handoff; each record says how the
\* run ended, and its parent is recorded.
AgentsAccountedFor ==
    stage \notin {"CASE", "INVESTIGATE"} =>
        /\ \A run \in agentRuns :
              /\ run.parent = None \/ \E up \in agentRuns : up.agent = run.parent
              /\ (run.end = "CONTROL_BLOCKED") = (termination = "CONTROL_BLOCKED")
              /\ run.end = "COMPLETED" => run.calls <= maxCalls
        /\ \A h \in handoffs : \E run \in agentRuns : run.agent = h.child /\ run.parent = h.parent
        /\ \E run \in agentRuns : run.agent = "SUPERVISOR"
        /\ \E run \in agentRuns : run.agent = "RETRIEVAL" /\ run.calls = calls

\* ADR-0003: nothing irreversible runs on the word of the pipeline, which
\* never decides ALLOW.
NoRefundRuns == ran \cap Irreversible = {}

\* The trace as recorded verifies; and a stored trace that verifies tells what
\* was recorded, up to where it was cut.
VerifiedIsRecorded ==
    /\ damage = "intact" => Verified(case.id, stored)
    /\ damage # None /\ Verified(case.id, stored) => IsPrefix(EventsOf(stored), trace)

\* Every run ends: no stage asks for a transition the table does not have.
PipelineEnds == <>(stage = "ENDED")
=============================================================================
