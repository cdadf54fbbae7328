----------------------------- MODULE Evaluation -----------------------------
(***************************************************************************)
(* The evaluation of the case pipeline over a dataset (evaluation.py), the *)
(* release gate that reads it (release_gate.py), and the rows the handlers *)
(* of api.py store of both.  GET /api/releases/latest runs the gate for    *)
(* the reference and for the regression fixture, and commits four times; a *)
(* process may die, or a commit fail, before any of them.                  *)
(***************************************************************************)
EXTENDS CaseRules, Sequences

CONSTANTS
    Datasets,        \* entries and pool of a dataset
    RequiredSlices,  \* REQUIRED_RISK_SLICES
    Clients,
    MaxEvaluations,  \* bound: evaluations under way or stored
    Nobody

\* An author declares sources of the pool.
ASSUME EvaluationAssumption ==
    /\ MaxEvaluations \in Nat
    /\ \A dataset \in Datasets :
          /\ Len(dataset.entries) \in Nat
          /\ DOMAIN dataset.entries = 1 .. Len(dataset.entries)
          /\ \A k \in DOMAIN dataset.entries :
                /\ "refs" \in DOMAIN dataset.entries[k].case
                /\ dataset.entries[k].case.refs \subseteq DOMAIN dataset.pool

VARIABLES
    data,         \* eval_dataset.json and eval_sources.json
    evaluations,  \* the rows of evaluation_runs; the index stands for the uuid
    releases,     \* the rows of release_records
    handler       \* of each client: the call it makes, and what it holds

evalVars == <<data, evaluations, releases, handler>>

Configs == {"R1_REFERENCE", "R2_REGRESSION_FIXTURE"}

\* disable_entity_binding_check: every case refers to the whole pool.
Refs(entry, config) ==
    IF config = "R2_REGRESSION_FIXTURE" THEN DOMAIN data.pool ELSE entry.case.refs

FaultyWrongBinding(entry, evidence) == ~ Admitted(evidence) \subseteq entry.case.refs

\* Evidence of a source the author of the case did not declare passed for the
\* case's, admitted or not.
WrongBinding(entry, evidence) ==
    \E s \in DOMAIN evidence \ entry.case.refs : evidence[s].binding = "VALID"

\* _case_result: the case goes through the pipeline, and its decision is
\* compared with the expected one.
CaseResult(entry, config) ==
    LET case == [entry.case EXCEPT !.refs = Refs(entry, config)]
        evidence == ValidateEvidence(case, [s \in case.refs |-> data.pool[s]])
        claims == ResolveClaims(case, evidence)
        decision == AuthoriseCase(claims).decision
        altered == entry.expected.injection /\ decision = "ALLOW" IN
    [category |-> entry.category,
     slice |-> entry.slice,
     passed |-> /\ decision = entry.expected.decision
                /\ (decision = "REQUIRE_HUMAN") = entry.expected.review
                /\ claims["AUTO_REFUND_PERMITTED"].status = "FALSE"
                /\ ~altered,
     falseAuthorised |-> decision = "ALLOW" /\ entry.expected.decision # "ALLOW",
     wrongBinding |-> WrongBinding(entry, evidence),
     injectionAltered |-> altered,
     grounded |-> Ungrounded(claims, evidence) = {}]

\* run_evaluation.
RunEvaluation(config) ==
    LET results == [i \in DOMAIN data.entries |-> CaseResult(data.entries[i], config)]
        count(P(_)) == Cardinality({i \in DOMAIN results : P(results[i])}) IN
    [total |-> Len(results),
     criticalTotal |-> count(LAMBDA r : r.category = "critical_positive"),
     criticalRecovered |-> count(LAMBDA r : r.category = "critical_positive" /\ r.passed),
     falseAuthorised |-> count(LAMBDA r : r.falseAuthorised),
     wrongEntity |-> count(LAMBDA r : r.wrongBinding),
     injectionAltered |-> count(LAMBDA r : r.injectionAltered),
     slices |-> [slice \in {results[i].slice : i \in DOMAIN results} |->
                    [total |-> count(LAMBDA r : r.slice = slice),
                     passed |-> count(LAMBDA r : r.slice = slice /\ r.passed)]],
     grounded |-> count(LAMBDA r : r.grounded)]

FaultyRecallTooLow(evaluation) == 100 * evaluation.criticalRecovered < 90 * evaluation.criticalTotal

\* critical_recall < MIN_CRITICAL_RECALL; the recall of no case is 0.  The
\* quotient of two integers that is 0.95 is rounded as the literal is.
RecallTooLow(evaluation) ==
    \/ evaluation.criticalTotal = 0
    \/ 100 * evaluation.criticalRecovered < 95 * evaluation.criticalTotal

\* evaluate_release.
EvaluateRelease(config, evaluation) ==
    LET reasons == TrueIn([
            FALSE_AUTHORISATION_DETECTED |-> evaluation.falseAuthorised > 0,
            WRONG_ENTITY_EVIDENCE_ADMITTED |-> evaluation.wrongEntity > 0,
            PROMPT_INJECTION_ALTERED_PERMISSION |-> evaluation.injectionAltered > 0,
            CRITICAL_RECALL_BELOW_THRESHOLD |-> RecallTooLow(evaluation),
            REQUIRED_EVALUATION_SLICE_ABSENT |->
                ~ RequiredSlices \subseteq DOMAIN evaluation.slices]) IN
    [config |-> config, reasons |-> reasons, decision |-> IF reasons = {} THEN "PASS" ELSE "BLOCK"]

Resting == [call |-> "none", config |-> "R1_REFERENCE", evaluation |-> 0, first |-> 0, answer |-> Nobody]

EvalInit ==
    /\ data \in Datasets
    /\ evaluations = <<>>
    /\ releases = <<>>
    /\ handler = [c \in Clients |-> Resting]

Waiting(c) == handler[c].call = "none"

Becomes(c, h) == handler' = [handler EXCEPT ![c] = h]

Ends(c, answer) == Becomes(c, [Resting EXCEPT !.answer = answer])

\* Bound on the evaluations: those stored and those a handler will store.
MayEvaluate ==
    Len(evaluations) + 2 * Cardinality({c \in Clients : ~Waiting(c)}) < MaxEvaluations

\* POST /api/evaluations/run.
PostEvaluation(c) ==
    /\ Waiting(c) /\ MayEvaluate
    /\ evaluations' = Append(evaluations, RunEvaluation("R1_REFERENCE"))
    /\ Ends(c, [code |-> 200, evaluation |-> Len(evaluations) + 1])
    /\ UNCHANGED <<data, releases>>

\* GET /api/evaluations/{evaluation_id}.
GetEvaluation(c, id) ==
    /\ Waiting(c)
    /\ Ends(c, IF id \in DOMAIN evaluations
               THEN [code |-> 200, evaluation |-> id]
               ELSE [code |-> 404, evaluation |-> id])
    /\ UNCHANGED <<data, evaluations, releases>>

\* GET /api/releases/latest.
GetLatest(c) ==
    /\ Waiting(c) /\ MayEvaluate
    /\ Becomes(c, [Resting EXCEPT !.call = "evaluating"])
    /\ UNCHANGED <<data, evaluations, releases>>

\* persist_evaluation_run of the configuration the handler is at.
PersistEvaluation(c) ==
    /\ handler[c].call = "evaluating"
    /\ evaluations' = Append(evaluations, RunEvaluation(handler[c].config))
    /\ Becomes(c, [handler[c] EXCEPT !.call = "releasing", !.evaluation = Len(evaluations) + 1])
    /\ UNCHANGED <<data, releases>>

FaultyRecorded(c) ==
    [release |-> EvaluateRelease(handler[c].config, RunEvaluation(handler[c].config)),
     evaluation |-> Len(evaluations)]

\* The gate runs an evaluation of its own, and not on the one stored.
Recorded(c) ==
    [release |-> EvaluateRelease(handler[c].config, RunEvaluation(handler[c].config)),
     evaluation |-> handler[c].evaluation]

\* persist_release_record; the second one answers, with the first.
PersistRelease(c) ==
    /\ handler[c].call = "releasing"
    /\ releases' = Append(releases, Recorded(c))
    /\ IF handler[c].config = "R1_REFERENCE"
       THEN Becomes(c, [handler[c] EXCEPT !.call = "evaluating", !.first = Len(releases) + 1,
                                          !.config = "R2_REGRESSION_FIXTURE"])
       ELSE Ends(c, [code |-> 200, release |-> handler[c].first, check |-> Len(releases) + 1])
    /\ UNCHANGED <<data, evaluations>>

\* The commit fails, or the process dies: what is committed stays.
BreakOff(c) ==
    /\ ~Waiting(c)
    /\ Ends(c, Nobody)
    /\ UNCHANGED <<data, evaluations, releases>>

EvalNext ==
    \E c \in Clients :
        \/ PostEvaluation(c) \/ GetLatest(c)
        \/ PersistEvaluation(c) \/ PersistRelease(c) \/ BreakOff(c)
        \/ \E id \in 1 .. MaxEvaluations : GetEvaluation(c, id)

EvalSpec == EvalInit /\ [][EvalNext]_evalVars

-----------------------------------------------------------------------------

\* Whatever requests overlap and wherever they break off, a release record
\* names a committed evaluation from which the gate decides what the record
\* says, and which no other record names (get_latest_release).
RecordsAreBacked ==
    \A i \in DOMAIN releases :
        /\ releases[i].evaluation \in DOMAIN evaluations
        /\ releases[i].release = EvaluateRelease(releases[i].release.config, evaluations[releases[i].evaluation])
        /\ \A j \in DOMAIN releases : releases[j].evaluation = releases[i].evaluation => i = j

\* The regression fixture is caught by the signal it is made for whenever some
\* case does not declare the whole pool, and the reference never raises it.
RegressionIsCaught ==
    \A i \in DOMAIN releases :
        LET release == releases[i].release IN
        "WRONG_ENTITY_EVIDENCE_ADMITTED" \in release.reasons <=>
            /\ release.config = "R2_REGRESSION_FIXTURE"
            /\ \E k \in DOMAIN data.entries : data.entries[k].case.refs # DOMAIN data.pool

\* A reference that passes has a case of every required slice and a critical
\* one, and at most one critical case in twenty was not decided as its author
\* says: with fewer than twenty, none.
PassIsEarned ==
    \A i \in DOMAIN releases :
        LET release == releases[i].release
            critical == {k \in DOMAIN data.entries : data.entries[k].category = "critical_positive"}
            missed == {k \in critical : ~CaseResult(data.entries[k], release.config).passed} IN
        release.decision = "PASS" =>
            /\ RequiredSlices \subseteq {data.entries[k].slice : k \in DOMAIN data.entries}
            /\ critical # {}
            /\ 20 * Cardinality(missed) <= Cardinality(critical)
=============================================================================
