----------------------------- MODULE CaseRules -----------------------------
(***************************************************************************)
(* The rules of the case pipeline, which change no state: VALIDATE         *)
(* (services/validate.py), RESOLVE (resolve.py), AUTHORISE (authorise.py)  *)
(* and the groundedness check of guardrails.py.                            *)
(*                                                                         *)
(* A pool maps source ids to sources.  Of a source's text only matters     *)
(* whether there is one and which faults it speaks of; of its date, its    *)
(* age in days when the case is judged; what the injection scan and the    *)
(* TF-IDF score say of it is given with it.  An undated source has age 0.  *)
(***************************************************************************)
EXTENDS Integers, FiniteSets

CONSTANTS
    ValidBindings,     \* the order, seller and product triples of the registry
    EscalationSource,  \* SRC-KOGAN-GUARANTEE
    MaxAge             \* STALE_SOURCE_MAX_AGE_DAYS

Source ==
    [class : {"retailer_policy", "accc_guidance", "internal_note", "fault_assessment"},
     allowed : BOOLEAN, version : STRING, age : Int, tampered : BOOLEAN,
     excerpt : BOOLEAN, locator : BOOLEAN, words : SUBSET {"major", "minor"},
     conclusion : {"major", "minor", "none"}, injection : BOOLEAN, relevant : BOOLEAN]

NonBlocking == {"PROMPT_INJECTION_CONTENT", "LOW_RELEVANCE_RETRIEVAL"}

TrueIn(flags) == {name \in DOMAIN flags : flags[name]}

\* The reasons one candidate is given.
ReasonsOf(case, s, source) ==
    TrueIn([SOURCE_NOT_ALLOWED |-> ~source.allowed,
            WRONG_CASE_BINDING |-> s \notin case.refs,
            SOURCE_VERSION_MISMATCH |->
                s \in DOMAIN case.expected /\ case.expected[s] # source.version,
            SOURCE_STALE_OR_OUT_OF_TIME |-> source.age > MaxAge,
            HASH_MISMATCH |-> source.tampered,
            LOCATOR_NOT_FOUND |-> ~source.excerpt \/ ~source.locator,
            PROMPT_INJECTION_CONTENT |-> source.injection,
            LOW_RELEVANCE_RETRIEVAL |-> ~source.relevant])

Conclusions(pool) ==
    {pool[s].conclusion : s \in {t \in DOMAIN pool : pool[t].class = "fault_assessment"}}
    \ {"none"}

\* validate_evidence over the candidates.  Fault assessments that disagree are
\* all marked, the inadmissible ones included.
ValidateEvidence(case, pool) ==
    [s \in DOMAIN pool |->
        [authority |-> IF pool[s].allowed THEN "VALID" ELSE "INVALID",
         binding   |-> IF s \in case.refs THEN "VALID" ELSE "INVALID",
         support   |-> IF pool[s].excerpt /\ pool[s].locator THEN "SUPPORTED" ELSE "UNSUPPORTED",
         words     |-> pool[s].words,
         reasons   |-> ReasonsOf(case, s, pool[s]) \cup
             (IF pool[s].class = "fault_assessment" /\ Cardinality(Conclusions(pool)) > 1
              THEN {"CONTRADICTION_PRESENT"} ELSE {})]]

FaultyAdmitted(evidence) ==
    {s \in DOMAIN evidence :
        evidence[s].authority = "VALID" /\ evidence[s].binding = "VALID"
        /\ evidence[s].support = "SUPPORTED" /\ evidence[s].reasons = {}}

Admitted(evidence) ==
    {s \in DOMAIN evidence :
        /\ evidence[s].authority = "VALID"
        /\ evidence[s].binding = "VALID"
        /\ evidence[s].support = "SUPPORTED"
        /\ evidence[s].reasons \subseteq NonBlocking}

BindingMatches(case) == <<case.order, case.seller, case.product>> \in ValidBindings

BindingReasons(case) ==
    LET found == TrueIn([
            WRONG_ORDER_BINDING   |-> \A b \in ValidBindings : b[1] # case.order,
            WRONG_SELLER_BINDING  |-> \A b \in ValidBindings : b[2] # case.seller,
            WRONG_PRODUCT_BINDING |-> \A b \in ValidBindings : b[3] # case.product]) IN
    IF found = {} THEN {"WRONG_ORDER_BINDING"} ELSE found

Claim(status, reasons, cited, countered) ==
    [status |-> status, reasons |-> reasons, evidence |-> cited, counter |-> countered]

Known(condition) == IF condition THEN "TRUE" ELSE "UNKNOWN"

Contradictory(evidence) ==
    \E s \in DOMAIN evidence : "CONTRADICTION_PRESENT" \in evidence[s].reasons

FaultyFaultPool(evidence) == DOMAIN evidence

\* Where the fault is looked for: admitted evidence only, unless assessments
\* contradict each other, which must show which of them do.
FaultPool(evidence) ==
    IF Contradictory(evidence) THEN DOMAIN evidence ELSE Admitted(evidence)

Speaking(evidence, word) == {s \in FaultPool(evidence) : word \in evidence[s].words}

FaultyMajorFailure(evidence) ==
    LET major == Speaking(evidence, "major")
        minor == Speaking(evidence, "minor") IN
    IF minor # {} THEN Claim("FALSE", {"FAULT_ASSESSMENT_CONFIRMS_MINOR_FAULT"}, minor, {})
    ELSE IF major # {} THEN Claim("TRUE", {"FAULT_ASSESSMENT_CONFIRMS_MAJOR_FAILURE"}, major, {})
    ELSE Claim("UNKNOWN", {"FAULT_ASSESSMENT_UNAVAILABLE"}, {}, {})

MajorFailure(evidence) ==
    LET major == Speaking(evidence, "major")
        minor == Speaking(evidence, "minor") IN
    IF Contradictory(evidence) THEN Claim("UNKNOWN", {"CONTRADICTION_PRESENT"}, major, minor)
    ELSE IF minor # {} THEN Claim("FALSE", {"FAULT_ASSESSMENT_CONFIRMS_MINOR_FAULT"}, minor, {})
    ELSE IF major # {} THEN Claim("TRUE", {"FAULT_ASSESSMENT_CONFIRMS_MAJOR_FAILURE"}, major, {})
    ELSE Claim("UNKNOWN", {"FAULT_ASSESSMENT_UNAVAILABLE"}, {}, {})

ClaimTypes == <<"ORDER_AND_SELLER_VERIFIED", "PUBLIC_SOURCE_VALID", "SELLER_RESPONSE_RECORDED",
    "MARKETPLACE_ESCALATION_PATH_SUPPORTED", "FAULT_ASSESSMENT_AVAILABLE",
    "MAJOR_FAILURE_ESTABLISHED", "AUTO_REFUND_PERMITTED", "HUMAN_REVIEW_REQUIRED">>

\* resolve_claims: one claim of each type.
ResolveClaims(case, evidence) ==
    LET admitted == Admitted(evidence)
        escalation == admitted \cap {EscalationSource}
        fault == Speaking(evidence, "major") \cup Speaking(evidence, "minor")
        assessed == fault # {} /\ ~Contradictory(evidence)
        major == MajorFailure(evidence) IN
    [ORDER_AND_SELLER_VERIFIED |->
        IF BindingMatches(case) THEN Claim("TRUE", {"ORDER_SELLER_PRODUCT_MATCH_REGISTRY"}, {}, {})
        ELSE Claim("FALSE", BindingReasons(case), {}, {}),
     PUBLIC_SOURCE_VALID |->
        Claim(Known(admitted # {}),
              {IF admitted # {} THEN "SOURCE_ADMITTED" ELSE "NO_ADMITTED_SOURCE"}, admitted, {}),
     SELLER_RESPONSE_RECORDED |->
        Claim(Known(case.sellerResponded), {"SELLER_RESPONSE_PRESENT"}, {}, {}),
     MARKETPLACE_ESCALATION_PATH_SUPPORTED |->
        Claim(Known(escalation # {}),
              {IF escalation # {} THEN "RETAILER_POLICY_ADMITTED" ELSE "ESCALATION_SOURCE_MISSING"},
              escalation, {}),
     FAULT_ASSESSMENT_AVAILABLE |->
        IF assessed THEN Claim("TRUE", {"FAULT_ASSESSMENT_ADMITTED"}, fault, {})
        ELSE Claim("FALSE", {"NO_FAULT_ASSESSMENT_EVIDENCE"}, fault, {}),
     MAJOR_FAILURE_ESTABLISHED |-> major,
     AUTO_REFUND_PERMITTED |->
        Claim("FALSE", {"REFUND_NOT_AUTO_APPROVABLE_BY_POLICY"}, {}, {}),
     HUMAN_REVIEW_REQUIRED |->
        IF major.status # "FALSE"
        THEN Claim("TRUE", {"FAULT_STATUS_UNKNOWN_OR_MAJOR", "REFUND_REQUESTED"}, {}, {})
        ELSE Claim("FALSE", {"FAULT_RESOLVED_AS_MINOR"}, {}, {})]

Verdict(decision, action, reasons) == [decision |-> decision, action |-> action, reasons |-> reasons]

FaultyAllow(claims) ==
    IF claims["MAJOR_FAILURE_ESTABLISHED"].status = "TRUE"
    THEN Verdict("ALLOW", "ESCALATE_FOR_REFUND", {"MAJOR_FAILURE_CONFIRMED"})
    ELSE Verdict("DENY", "DENY_REFUND", {"MAJOR_FAILURE_NOT_ESTABLISHED"})

\* authorise_case: reads claims and nothing else.
AuthoriseCase(claims) ==
    LET order == claims["ORDER_AND_SELLER_VERIFIED"]
        major == claims["MAJOR_FAILURE_ESTABLISHED"].status
        \* The escalation claim is never FALSE.
        human(action, reasons) ==
            Verdict("REQUIRE_HUMAN", action, reasons \cup {"ESCALATION_PATH_AVAILABLE"}) IN
    IF order.status = "FALSE" THEN human("ESCALATE_BINDING_MISMATCH", order.reasons)
    ELSE IF major = "UNKNOWN" THEN human("REQUEST_FAULT_EVIDENCE_AND_ESCALATE",
                                         {"FAULT_STATUS_UNKNOWN", "REFUND_REQUIRES_REVIEW"})
    ELSE IF major = "TRUE" THEN human("ESCALATE_FOR_REFUND",
                                      {"MAJOR_FAILURE_CONFIRMED", "REFUND_REQUIRES_REVIEW"})
    ELSE Verdict("DENY", "DENY_REFUND", {"MAJOR_FAILURE_NOT_ESTABLISHED"})

\* generate_case_summary: a sentence for each claim, citing what it cites.
Summary(claims) == [t \in DOMAIN claims |-> claims[t].evidence]

\* check_groundedness: the sentences that cite evidence the case does not have.
Ungrounded(claims, evidence) ==
    {t \in DOMAIN claims : ~ Summary(claims)[t] \subseteq DOMAIN evidence}

\* enforce_action of authority_enforcement.py.
Irreversible == {"AUTO_REFUND", "ISSUE_REFUND"}

MayRun(verdict, action) == action \notin Irreversible \/ verdict.decision = "ALLOW"

\* reconcile_observed_result of reconcile.py.
Reconciled(outcome, observed) ==
    [outcome EXCEPT !.observed = observed,
                    !.status = IF observed = outcome.intended THEN "MATCHED" ELSE "MISMATCH"]
=============================================================================
