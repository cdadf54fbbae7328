------------------------ MODULE CasePipelineProofs ------------------------
(***************************************************************************)
(* Theorems about CasePipeline, for any cases, any pools of sources and    *)
(* any budgets: what a run decides, what its decision rests on, that its   *)
(* status, review and records agree with it, and what verifying its stored *)
(* trace tells.                                                            *)
(***************************************************************************)
EXTENDS CasePipeline, FiniteSetTheorems, SequenceTheorems, TLAPS

-----------------------------------------------------------------------------
(* The rules.                                                              *)

\* The record validation makes of one candidate.
LEMMA EvidenceOf ==
    ASSUME NEW c, NEW pool, NEW s \in DOMAIN pool
    PROVE  LET e == ValidateEvidence(c, pool)[s] IN
           /\ e.authority = IF pool[s].allowed THEN "VALID" ELSE "INVALID"
           /\ e.binding = IF s \in c.refs THEN "VALID" ELSE "INVALID"
           /\ e.support = IF pool[s].excerpt /\ pool[s].locator THEN "SUPPORTED" ELSE "UNSUPPORTED"
           /\ e.words = pool[s].words
           /\ e.reasons = ReasonsOf(c, s, pool[s]) \cup
                (IF pool[s].class = "fault_assessment" /\ Cardinality(Conclusions(pool)) > 1
                 THEN {"CONTRADICTION_PRESENT"} ELSE {})
BY DEF ValidateEvidence

LEMMA EvidenceDomain ==
    ASSUME NEW c, NEW pool
    PROVE  DOMAIN ValidateEvidence(c, pool) = DOMAIN pool
BY DEF ValidateEvidence

\* What the blocking reasons that are absent say of a source.
LEMMA ReasonsAbsent ==
    ASSUME NEW c, NEW s, NEW source \in Source, MaxAge \in Int,
           ReasonsOf(c, s, source) \subseteq NonBlocking
    PROVE  /\ source.allowed /\ ~source.tampered /\ source.excerpt /\ source.locator
           /\ source.age <= MaxAge
           /\ s \in DOMAIN c.expected => c.expected[s] = source.version
<1>1. /\ "SOURCE_NOT_ALLOWED" \notin ReasonsOf(c, s, source)
      /\ "HASH_MISMATCH" \notin ReasonsOf(c, s, source)
      /\ "LOCATOR_NOT_FOUND" \notin ReasonsOf(c, s, source)
      /\ "SOURCE_STALE_OR_OUT_OF_TIME" \notin ReasonsOf(c, s, source)
      /\ "SOURCE_VERSION_MISMATCH" \notin ReasonsOf(c, s, source)
  BY DEF NonBlocking
<1>2. source.allowed /\ ~source.tampered
  BY <1>1 DEF ReasonsOf, TrueIn
<1>3. source.excerpt /\ source.locator
  BY <1>1 DEF ReasonsOf, TrueIn
<1>4. ~(source.age > MaxAge)
  BY <1>1 DEF ReasonsOf, TrueIn
<1>5. source.age \in Int
  BY DEF Source
<1>6. s \in DOMAIN c.expected => c.expected[s] = source.version
  BY <1>1 DEF ReasonsOf, TrueIn
<1> QED  BY <1>2, <1>3, <1>4, <1>5, <1>6

LEMMA AdmittedIsSound ==
    ASSUME NEW c, NEW pool, MaxAge \in Int, \A t \in DOMAIN pool : pool[t] \in Source,
           NEW s \in Admitted(ValidateEvidence(c, pool))
    PROVE  /\ s \in DOMAIN pool /\ s \in c.refs
           /\ ValidateEvidence(c, pool)[s].words = pool[s].words
           /\ pool[s].allowed /\ ~pool[s].tampered /\ pool[s].excerpt /\ pool[s].locator
           /\ pool[s].age <= MaxAge
           /\ s \in DOMAIN c.expected => c.expected[s] = pool[s].version
<1> PICK found : found = ValidateEvidence(c, pool)
  OBVIOUS
<1>1. s \in DOMAIN pool /\ found[s].binding = "VALID" /\ found[s].reasons \subseteq NonBlocking
  BY EvidenceDomain DEF Admitted
<1>2. s \in c.refs
  BY <1>1, EvidenceOf
<1>3. ReasonsOf(c, s, pool[s]) \subseteq found[s].reasons
  BY <1>1, EvidenceOf
<1>4. ReasonsOf(c, s, pool[s]) \subseteq NonBlocking
  BY <1>1, <1>3
<1>5. found[s].words = pool[s].words
  BY <1>1, EvidenceOf
<1> QED  BY <1>1, <1>2, <1>4, <1>5, ReasonsAbsent

\* Two assessments that disagree are always noticed.
LEMMA DisagreementIsSeen ==
    ASSUME NEW c, NEW pool, \A u \in DOMAIN pool : pool[u] \in Source,
           NEW s \in DOMAIN pool, NEW t \in DOMAIN pool,
           pool[s].class = "fault_assessment", pool[s].conclusion = "major",
           pool[t].class = "fault_assessment", pool[t].conclusion = "minor"
    PROVE  Contradictory(ValidateEvidence(c, pool))
<1>1. Conclusions(pool) = {"major", "minor"}
  <2>1. Conclusions(pool) \subseteq {"major", "minor"}
    BY DEF Conclusions, Source
  <2>2. "major" \in Conclusions(pool) /\ "minor" \in Conclusions(pool)
    BY DEF Conclusions
  <2> QED  BY <2>1, <2>2
<1>2. Cardinality(Conclusions(pool)) = 2
  <2>1. Cardinality({"major"}) = 1 /\ IsFiniteSet({"major"})
    BY FS_Singleton
  <2>2. "minor" \notin {"major"} /\ {"major"} \cup {"minor"} = {"major", "minor"}
    OBVIOUS
  <2>3. Cardinality({"major"} \cup {"minor"}) = Cardinality({"major"}) + 1
    BY <2>1, <2>2, FS_AddElement
  <2> QED  BY <1>1, <2>1, <2>2, <2>3
<1>3. "CONTRADICTION_PRESENT" \in ValidateEvidence(c, pool)[s].reasons
  BY <1>2, EvidenceOf
<1> QED  BY <1>3, EvidenceDomain DEF Contradictory

LEMMA StatusOfFault ==
    ASSUME NEW found
    PROVE  /\ MajorFailure(found).status \in {"TRUE", "FALSE", "UNKNOWN"}
           /\ MajorFailure(found).status = "FALSE" =>
                 ~Contradictory(found) /\ \E s \in Admitted(found) : "minor" \in found[s].words
           /\ Contradictory(found) => MajorFailure(found).status = "UNKNOWN"
<1>1. MajorFailure(found).status \in {"TRUE", "FALSE", "UNKNOWN"}
  BY DEF MajorFailure, Claim
<1>2. Contradictory(found) => MajorFailure(found).status = "UNKNOWN"
  BY DEF MajorFailure, Claim
<1>3. ASSUME MajorFailure(found).status = "FALSE"
      PROVE  \E s \in Admitted(found) : "minor" \in found[s].words
  <2>1. ~Contradictory(found)
    BY <1>2, <1>3
  <2>2. Speaking(found, "minor") # {}
    BY <1>3, <2>1 DEF MajorFailure, Claim
  <2> QED  BY <2>1, <2>2 DEF Speaking, FaultPool
<1> QED  BY <1>1, <1>2, <1>3

LEMMA DecisionOf ==
    ASSUME NEW c, NEW found
    PROVE  LET verdict == AuthoriseCase(ResolveClaims(c, found)) IN
           /\ verdict.decision \in {"REQUIRE_HUMAN", "DENY"}
           /\ verdict.decision = "DENY" =>
                 BindingMatches(c) /\ MajorFailure(found).status = "FALSE"
           /\ verdict.reasons \subseteq DecisionCodes
<1> PICK claims0 : claims0 = ResolveClaims(c, found)
  OBVIOUS
<1> PICK order : order = claims0["ORDER_AND_SELLER_VERIFIED"]
  OBVIOUS
<1> PICK major : major = MajorFailure(found).status
  OBVIOUS
<1>1. claims0["MAJOR_FAILURE_ESTABLISHED"] = MajorFailure(found)
  BY DEF ResolveClaims
<1>2. /\ BindingMatches(c) => order.status = "TRUE"
      /\ ~BindingMatches(c) => order.status = "FALSE" /\ order.reasons \subseteq DecisionCodes
  <2>1. BindingReasons(c) \subseteq DecisionCodes
    BY DEF BindingReasons, TrueIn, DecisionCodes
  <2> QED  BY <2>1 DEF ResolveClaims, Claim
<1>3. major \in {"TRUE", "FALSE", "UNKNOWN"}
  BY StatusOfFault
<1> PICK verdict : verdict = AuthoriseCase(claims0)
  OBVIOUS
<1>4. CASE order.status = "FALSE"
  <2>1. verdict.decision = "REQUIRE_HUMAN"
    BY <1>4 DEF AuthoriseCase, Verdict
  <2>2. verdict.reasons = order.reasons \cup {"ESCALATION_PATH_AVAILABLE"}
    BY <1>4 DEF AuthoriseCase, Verdict
  <2>3. verdict.reasons \subseteq DecisionCodes
    BY <1>2, <1>4, <2>2 DEF DecisionCodes
  <2> QED  BY <2>1, <2>3
<1>5. CASE order.status # "FALSE" /\ major = "UNKNOWN"
  <2>1. verdict.decision = "REQUIRE_HUMAN"
    BY <1>1, <1>5 DEF AuthoriseCase, Verdict
  <2>2. verdict.reasons = {"FAULT_STATUS_UNKNOWN", "REFUND_REQUIRES_REVIEW"} \cup {"ESCALATION_PATH_AVAILABLE"}
    BY <1>1, <1>5 DEF AuthoriseCase, Verdict
  <2> QED  BY <2>1, <2>2 DEF DecisionCodes
<1>6. CASE order.status # "FALSE" /\ major = "TRUE"
  <2>1. verdict.decision = "REQUIRE_HUMAN"
    BY <1>1, <1>6 DEF AuthoriseCase, Verdict
  <2>2. verdict.reasons = {"MAJOR_FAILURE_CONFIRMED", "REFUND_REQUIRES_REVIEW"} \cup {"ESCALATION_PATH_AVAILABLE"}
    BY <1>1, <1>6 DEF AuthoriseCase, Verdict
  <2> QED  BY <2>1, <2>2 DEF DecisionCodes
<1>7. CASE order.status # "FALSE" /\ major = "FALSE"
  <2>1. verdict.decision = "DENY"
    BY <1>1, <1>7 DEF AuthoriseCase, Verdict
  <2>2. verdict.reasons = {"MAJOR_FAILURE_NOT_ESTABLISHED"}
    BY <1>1, <1>7 DEF AuthoriseCase, Verdict
  <2> QED  BY <1>2, <1>7, <2>1, <2>2 DEF DecisionCodes
<1> QED  BY <1>3, <1>4, <1>5, <1>6, <1>7

\* The decision reads nothing of the evidence but the status of the fault.
LEMMA DecisionReadsFault ==
    ASSUME NEW c, NEW one, NEW other, MajorFailure(one) = MajorFailure(other)
    PROVE  AuthoriseCase(ResolveClaims(c, one)) = AuthoriseCase(ResolveClaims(c, other))
<1> PICK a : a = ResolveClaims(c, one)
  OBVIOUS
<1> PICK b : b = ResolveClaims(c, other)
  OBVIOUS
<1>1. a["MAJOR_FAILURE_ESTABLISHED"] = b["MAJOR_FAILURE_ESTABLISHED"]
  BY DEF ResolveClaims
<1>2. a["ORDER_AND_SELLER_VERIFIED"] = b["ORDER_AND_SELLER_VERIFIED"]
  BY DEF ResolveClaims
<1> QED  BY <1>1, <1>2 DEF AuthoriseCase

\* A source without what the scan and the score found in it.
Unadvised(pool) == [s \in DOMAIN pool |-> [pool[s] EXCEPT !.injection = FALSE, !.relevant = TRUE]]

LEMMA AdviceBlocksNothing ==
    ASSUME NEW c, NEW pool, \A t \in DOMAIN pool : pool[t] \in Source
    PROVE  MajorFailure(ValidateEvidence(c, pool)) = MajorFailure(ValidateEvidence(c, Unadvised(pool)))
<1> PICK plain : plain = Unadvised(pool)
  OBVIOUS
<1> PICK one : one = ValidateEvidence(c, pool)
  OBVIOUS
<1> PICK other : other = ValidateEvidence(c, plain)
  OBVIOUS
<1>1. DOMAIN plain = DOMAIN pool
  BY DEF Unadvised
<1>2. ASSUME NEW s \in DOMAIN pool
      PROVE  /\ plain[s].allowed = pool[s].allowed /\ plain[s].version = pool[s].version
             /\ plain[s].age = pool[s].age /\ plain[s].tampered = pool[s].tampered
             /\ plain[s].excerpt = pool[s].excerpt /\ plain[s].locator = pool[s].locator
             /\ plain[s].words = pool[s].words /\ plain[s].class = pool[s].class
             /\ plain[s].conclusion = pool[s].conclusion
  <2>1. plain[s] = [pool[s] EXCEPT !.injection = FALSE, !.relevant = TRUE]
    BY DEF Unadvised
  <2>2. pool[s] \in Source
    OBVIOUS
  <2> QED  BY <2>1, <2>2 DEF Source
<1>3. Conclusions(plain) = Conclusions(pool)
  BY <1>1, <1>2 DEF Conclusions
<1>4. ASSUME NEW s \in DOMAIN pool
      PROVE  ReasonsOf(c, s, plain[s]) \ NonBlocking = ReasonsOf(c, s, pool[s]) \ NonBlocking
  BY <1>2 DEF ReasonsOf, TrueIn, NonBlocking
<1>5. ASSUME NEW s \in DOMAIN pool
      PROVE  /\ one[s].authority = other[s].authority /\ one[s].binding = other[s].binding
             /\ one[s].support = other[s].support /\ one[s].words = other[s].words
             /\ one[s].reasons \ NonBlocking = other[s].reasons \ NonBlocking
  <2>1. /\ one[s].authority = other[s].authority /\ one[s].binding = other[s].binding
        /\ one[s].support = other[s].support /\ one[s].words = other[s].words
    BY <1>1, <1>2, EvidenceOf
  <2>2. one[s].reasons \ NonBlocking = other[s].reasons \ NonBlocking
    BY <1>1, <1>2, <1>3, <1>4, EvidenceOf
  <2> QED  BY <2>1, <2>2
<1>6. DOMAIN one = DOMAIN pool /\ DOMAIN other = DOMAIN pool
  BY <1>1, EvidenceDomain
<1>7. Admitted(one) = Admitted(other)
  BY <1>5, <1>6 DEF Admitted
<1>8. Contradictory(one) <=> Contradictory(other)
  <2>1. "CONTRADICTION_PRESENT" \notin NonBlocking
    BY DEF NonBlocking
  <2>2. \A s \in DOMAIN pool : ("CONTRADICTION_PRESENT" \in one[s].reasons)
                                <=> ("CONTRADICTION_PRESENT" \in other[s].reasons)
    BY <1>5, <2>1
  <2> QED  BY <1>6, <2>2 DEF Contradictory
<1>9. FaultPool(one) = FaultPool(other) /\ FaultPool(one) \subseteq DOMAIN pool
  BY <1>6, <1>7, <1>8 DEF FaultPool, Admitted
<1>10. /\ Speaking(one, "major") = Speaking(other, "major")
       /\ Speaking(one, "minor") = Speaking(other, "minor")
  BY <1>5, <1>9 DEF Speaking
<1> QED  BY <1>8, <1>10 DEF MajorFailure

\* Every sentence of the summary cites evidence the case has.
LEMMA SummaryIsGrounded ==
    ASSUME NEW c, NEW found
    PROVE  Ungrounded(ResolveClaims(c, found), found) = {}
<1> PICK resolved : resolved = ResolveClaims(c, found)
  OBVIOUS
<1>1. Admitted(found) \subseteq DOMAIN found
  BY DEF Admitted
<1>2. FaultPool(found) \subseteq DOMAIN found
  BY <1>1 DEF FaultPool
<1>3. /\ Speaking(found, "major") \subseteq DOMAIN found
      /\ Speaking(found, "minor") \subseteq DOMAIN found
  BY <1>2 DEF Speaking
<1>4. MajorFailure(found).evidence \subseteq DOMAIN found
  BY <1>3 DEF MajorFailure, Claim
<1>5. DOMAIN resolved = {"ORDER_AND_SELLER_VERIFIED", "PUBLIC_SOURCE_VALID",
        "SELLER_RESPONSE_RECORDED", "MARKETPLACE_ESCALATION_PATH_SUPPORTED",
        "FAULT_ASSESSMENT_AVAILABLE", "MAJOR_FAILURE_ESTABLISHED",
        "AUTO_REFUND_PERMITTED", "HUMAN_REVIEW_REQUIRED"}
  BY DEF ResolveClaims
<1>6. /\ resolved["ORDER_AND_SELLER_VERIFIED"].evidence = {}
      /\ resolved["SELLER_RESPONSE_RECORDED"].evidence = {}
      /\ resolved["AUTO_REFUND_PERMITTED"].evidence = {}
      /\ resolved["HUMAN_REVIEW_REQUIRED"].evidence = {}
  <2>1. resolved["ORDER_AND_SELLER_VERIFIED"].evidence = {}
    BY DEF ResolveClaims, Claim
  <2>2. resolved["SELLER_RESPONSE_RECORDED"].evidence = {}
    BY DEF ResolveClaims, Claim
  <2>3. resolved["AUTO_REFUND_PERMITTED"].evidence = {}
    BY DEF ResolveClaims, Claim
  <2>4. resolved["HUMAN_REVIEW_REQUIRED"].evidence = {}
    BY DEF ResolveClaims, Claim
  <2> QED  BY <2>1, <2>2, <2>3, <2>4
<1>7. resolved["PUBLIC_SOURCE_VALID"].evidence = Admitted(found)
  BY DEF ResolveClaims, Claim
<1>8. resolved["MARKETPLACE_ESCALATION_PATH_SUPPORTED"].evidence
        = Admitted(found) \cap {EscalationSource}
  BY DEF ResolveClaims, Claim
<1>9. resolved["FAULT_ASSESSMENT_AVAILABLE"].evidence
        = Speaking(found, "major") \cup Speaking(found, "minor")
  BY DEF ResolveClaims, Claim
<1>10. resolved["MAJOR_FAILURE_ESTABLISHED"] = MajorFailure(found)
  BY DEF ResolveClaims
<1>11. ASSUME NEW t \in DOMAIN resolved
       PROVE  resolved[t].evidence \subseteq DOMAIN found
  BY <1>1, <1>3, <1>4, <1>5, <1>6, <1>7, <1>8, <1>9, <1>10
<1> QED  BY <1>11 DEF Ungrounded, Summary

-----------------------------------------------------------------------------
(* The run: what holds at each of its stages.                              *)

Unstarted == calls = 0 /\ handoffs = {}

Investigated ==
    /\ calls <= maxCalls
    /\ agentRuns = {AgentRun("SUPERVISOR", calls, 2, "COMPLETED"),
                    AgentRun("RETRIEVAL", calls, 1, "COMPLETED"),
                    AgentRun("CRITIC", 0, 1, "COMPLETED")}
    /\ handoffs = {Handoff("RETRIEVAL"), Handoff("CRITIC")}

Undecided == authority = None /\ review = None /\ termination = None

HasEvidence == Investigated /\ evidence = ValidateEvidence(case, Candidates)

HasClaims == HasEvidence /\ claims = ResolveClaims(case, evidence)

Decided == HasClaims /\ ungrounded = {} /\ authority = AuthoriseCase(claims)

Reviewed ==
    /\ Decided
    /\ NeedsReview => review = [status |-> "PENDING", reasons |-> authority.reasons]
    /\ ~NeedsReview => review = None

AtCase ==
    stage = "CASE" /\ status = "CREATED" /\ claims = None /\ ungrounded = None /\ Undecided /\ Unstarted

AtInvestigate ==
    stage = "INVESTIGATE" /\ status = "INVESTIGATING" /\ claims = None /\ ungrounded = None /\ Undecided /\ Unstarted

AtValidate ==
    stage = "VALIDATE" /\ status = "INVESTIGATING" /\ claims = None /\ ungrounded = None /\ Undecided /\ Investigated

AtResolve ==
    stage = "RESOLVE" /\ status = "EVIDENCE_VALIDATED" /\ claims = None /\ ungrounded = None /\ Undecided /\ HasEvidence

AtGuard ==
    stage = "GUARDRAILS" /\ status = "CLAIMS_RESOLVED" /\ ungrounded = None /\ Undecided /\ HasClaims

AtAuthorise ==
    stage = "AUTHORISE" /\ status = "CLAIMS_RESOLVED" /\ ungrounded = {} /\ Undecided /\ HasClaims

AtReview ==
    stage = "REVIEW" /\ status = "AUTHORITY_EVALUATED" /\ review = None /\ termination = None /\ Decided

AtTerminate ==
    stage = "TERMINATE" /\ status = "AUTHORITY_EVALUATED" /\ termination = None /\ Reviewed

AtClose ==
    /\ stage \in {"CLOSE", "ENDED"}
    /\ Reviewed
    /\ \/ NeedsReview /\ status = "NEEDS_REVIEW" /\ termination = "NEEDS_REVIEW"
       \/ ~NeedsReview /\ status = "COMPLETED" /\ termination = "COMPLETED"

AtBlocked ==
    /\ stage = "ENDED" /\ status = "INVESTIGATING" /\ termination = "CONTROL_BLOCKED"
    /\ evidence = [s \in {} |-> None] /\ claims = [t \in {} |-> None] /\ review = None
    /\ authority = Verdict("REQUIRE_HUMAN", "NONE", {"BUDGET_EXCEEDED", "TOOL_CALLS"})
    /\ agentRuns = {AgentRun("SUPERVISOR", 0, 0, "CONTROL_BLOCKED"),
                    AgentRun("RETRIEVAL", calls, 0, "CONTROL_BLOCKED")}
    /\ handoffs = {}

Control ==
    \/ AtCase \/ AtInvestigate \/ AtValidate \/ AtResolve \/ AtGuard \/ AtAuthorise
    \/ AtReview \/ AtTerminate \/ AtClose \/ AtBlocked

PipeInv ==
    /\ input \in CaseInputs /\ maxCalls \in Nat /\ calls \in Nat
    /\ ran \cap Irreversible = {}
    /\ Control

\* The case and the candidates stay what they are.
LEMMA SameCase ==
    ASSUME UNCHANGED input
    PROVE  case' = case /\ Candidates' = Candidates
BY DEF case, Candidates

\* A decision of the rules is never ALLOW, and is a review's when it is not a denial.
LEMMA DecisionMade ==
    ASSUME Decided
    PROVE  /\ authority.decision \in {"REQUIRE_HUMAN", "DENY"}
           /\ authority.reasons \subseteq DecisionCodes
           /\ ~NeedsReview => authority.decision = "DENY"
BY DecisionOf DEF Decided, HasClaims, NeedsReview

LEMMA ReviewIsThere ==
    ASSUME Reviewed
    PROVE  /\ NeedsReview => review # None
           /\ ~NeedsReview => review = None
<1>1. ASSUME NeedsReview
      PROVE  review # None
  <2>1. authority.reasons \in SUBSET DecisionCodes
    BY DecisionMade DEF Reviewed
  <2>2. review \in [status : {"PENDING"}, reasons : SUBSET DecisionCodes]
    BY <1>1, <2>1 DEF Reviewed
  <2> QED  BY <2>2, PipeAssumption
<1> QED  BY <1>1 DEF Reviewed

\* What no step after the stage at hand disturbs.
LEMMA KeepsEvidence ==
    ASSUME HasEvidence, UNCHANGED <<input, maxCalls, investigation, evidence>>
    PROVE  HasEvidence'
BY SameCase DEF HasEvidence, Investigated, investigation

LEMMA KeepsClaims ==
    ASSUME HasClaims, UNCHANGED <<input, maxCalls, investigation, evidence, claims>>
    PROVE  HasClaims'
BY SameCase, KeepsEvidence DEF HasClaims

LEMMA KeepsDecision ==
    ASSUME Decided, UNCHANGED <<input, maxCalls, investigation, evidence, claims, ungrounded, authority>>
    PROVE  Decided' /\ (NeedsReview' <=> NeedsReview)
BY KeepsClaims DEF Decided, NeedsReview

LEMMA KeepsReview ==
    ASSUME Reviewed,
           UNCHANGED <<input, maxCalls, investigation, evidence, claims, ungrounded, authority, review>>
    PROVE  Reviewed' /\ (NeedsReview' <=> NeedsReview)
BY KeepsDecision DEF Reviewed, NeedsReview

-----------------------------------------------------------------------------
(* What each stage leaves for the next.                                    *)

LEMMA CreateCaseMoves ==
    ASSUME AtCase, CreateCase
    PROVE  AtInvestigate'
BY DEF AtCase, CreateCase, Passes, AtInvestigate, Undecided, Unstarted, investigation, results

LEMMA BlockedMoves ==
    ASSUME AtInvestigate, Blocked
    PROVE  AtBlocked'
<1>1. stage' = "ENDED" /\ status' = status
  BY DEF Blocked, Passes
<1>2. /\ evidence' = [s \in {} |-> None] /\ claims' = [t \in {} |-> None]
      /\ authority' = Verdict("REQUIRE_HUMAN", "NONE", {"BUDGET_EXCEEDED", "TOOL_CALLS"})
      /\ termination' = "CONTROL_BLOCKED" /\ handoffs' = handoffs /\ review' = review
  BY DEF Blocked
<1>3. agentRuns' = {AgentRun("SUPERVISOR", 0, 0, "CONTROL_BLOCKED"),
                    AgentRun("RETRIEVAL", calls', 0, "CONTROL_BLOCKED")}
  BY DEF Blocked, PartialRuns
<1> QED  BY <1>1, <1>2, <1>3 DEF AtInvestigate, AtBlocked, Unstarted, Undecided

LEMMA InvestigateMoves ==
    ASSUME AtInvestigate, Investigate, maxCalls \in Nat, calls \in Nat
    PROVE  AtValidate'
<1>1. stage' = "VALIDATE" /\ status' = status /\ maxCalls' = maxCalls
  BY DEF Investigate, Passes
<1>2. /\ calls' = calls + 1
      /\ agentRuns' = {AgentRun("SUPERVISOR", calls + 1, 2, "COMPLETED"),
                        AgentRun("RETRIEVAL", calls + 1, 1, "COMPLETED"),
                        AgentRun("CRITIC", 0, 1, "COMPLETED")}
      /\ handoffs' = {Handoff("RETRIEVAL"), Handoff("CRITIC")}
  BY DEF Investigate
<1>3. calls + 1 <= maxCalls
  BY DEF Investigate, OverBudget
<1>4. Investigated'
  BY <1>1, <1>2, <1>3 DEF Investigated
<1>5. claims' = None /\ ungrounded' = None /\ Undecided'
  BY DEF Investigate, results, AtInvestigate, Undecided
<1> QED  BY <1>1, <1>4, <1>5 DEF AtInvestigate, AtValidate

LEMMA ValidateMoves ==
    ASSUME AtValidate, Validate
    PROVE  AtResolve'
<1>1. stage' = "RESOLVE" /\ status' = "EVIDENCE_VALIDATED" /\ UNCHANGED <<input, maxCalls>>
  BY DEF Validate, Passes
<1>2. /\ evidence' = ValidateEvidence(case, Candidates)
      /\ UNCHANGED <<termination, investigation, claims, ungrounded, authority, review>>
  BY DEF Validate
<1>3. Investigated'
  BY <1>1, <1>2 DEF AtValidate, Investigated, investigation
<1>4. HasEvidence'
  BY <1>1, <1>2, <1>3, SameCase DEF HasEvidence
<1> QED  BY <1>1, <1>2, <1>4 DEF AtValidate, AtResolve, Undecided

LEMMA ResolveMoves ==
    ASSUME AtResolve, Resolve
    PROVE  AtGuard'
<1>1. stage' = "GUARDRAILS" /\ status' = "CLAIMS_RESOLVED" /\ UNCHANGED <<input, maxCalls>>
  BY DEF Resolve, Passes
<1>2. /\ claims' = ResolveClaims(case, evidence)
      /\ UNCHANGED <<termination, investigation, evidence, ungrounded, authority, review>>
  BY DEF Resolve
<1>3. HasEvidence'
  BY <1>1, <1>2, KeepsEvidence DEF AtResolve
<1>4. HasClaims'
  BY <1>1, <1>2, <1>3, SameCase DEF HasClaims
<1> QED  BY <1>1, <1>2, <1>4 DEF AtResolve, AtGuard, Undecided

LEMMA GuardMoves ==
    ASSUME AtGuard, Guard
    PROVE  AtAuthorise'
<1>1. stage' = "AUTHORISE" /\ status' = status /\ UNCHANGED <<input, maxCalls>>
  BY DEF Guard, Passes
<1>2. /\ ungrounded' = Ungrounded(claims, evidence)
      /\ UNCHANGED <<termination, investigation, evidence, claims, authority, review>>
  BY DEF Guard
<1>3. HasClaims'
  BY <1>1, <1>2, KeepsClaims DEF AtGuard
<1>4. ungrounded' = {}
  BY <1>2, SummaryIsGrounded DEF AtGuard, HasClaims
<1> QED  BY <1>1, <1>2, <1>3, <1>4 DEF AtGuard, AtAuthorise, Undecided

LEMMA AuthoriseMoves ==
    ASSUME AtAuthorise, Authorise
    PROVE  AtReview'
<1>1. stage' = "REVIEW" /\ status' = "AUTHORITY_EVALUATED" /\ UNCHANGED <<input, maxCalls>>
  BY DEF Authorise, Passes
<1>2. /\ authority' = AuthoriseCase(claims)
      /\ UNCHANGED <<termination, investigation, evidence, claims, ungrounded, review>>
  BY DEF Authorise
<1>3. HasClaims'
  BY <1>1, <1>2, KeepsClaims DEF AtAuthorise
<1>4. Decided'
  BY <1>2, <1>3 DEF AtAuthorise, Decided
<1> QED  BY <1>1, <1>2, <1>4 DEF AtAuthorise, AtReview, Undecided

LEMMA ReconcileMoves ==
    ASSUME AtReview, Reconcile
    PROVE  AtTerminate'
<1>1. stage' = "TERMINATE" /\ status' = status /\ UNCHANGED <<input, maxCalls>>
  BY DEF Reconcile, Passes
<1>2. UNCHANGED <<termination, investigation, evidence, claims, ungrounded, authority>>
  BY DEF Reconcile
<1>3. /\ NeedsReview => review' = [status |-> "PENDING", reasons |-> authority.reasons]
      /\ ~NeedsReview => review' = None
  BY DEF Reconcile
<1>4. Decided' /\ (NeedsReview' <=> NeedsReview)
  BY <1>1, <1>2, KeepsDecision DEF AtReview
<1>5. Reviewed'
  BY <1>2, <1>3, <1>4 DEF Reviewed
<1> QED  BY <1>1, <1>2, <1>5 DEF AtReview, AtTerminate

LEMMA TerminateMoves ==
    ASSUME AtTerminate, SendToReview \/ Complete
    PROVE  AtClose'
<1>1. stage' = "CLOSE" /\ UNCHANGED <<input, maxCalls, investigation, results>>
  BY DEF SendToReview, Complete, Terminate, Passes
<1>2. Reviewed' /\ (NeedsReview' <=> NeedsReview)
  BY <1>1, KeepsReview DEF AtTerminate, results
<1>3. CASE SendToReview
  <2>1. status' = "NEEDS_REVIEW" /\ termination' = "NEEDS_REVIEW"
    BY <1>3 DEF SendToReview, Terminate, Passes
  <2>2. NeedsReview
    BY <1>3, ReviewIsThere DEF SendToReview, AtTerminate
  <2> QED  BY <1>1, <1>2, <2>1, <2>2 DEF AtClose
<1>4. CASE Complete
  <2>1. status' = "COMPLETED" /\ termination' = "COMPLETED"
    BY <1>4 DEF Complete, Terminate, Passes
  <2>2. ~NeedsReview
    BY <1>4, ReviewIsThere DEF Complete, AtTerminate
  <2> QED  BY <1>1, <1>2, <2>1, <2>2 DEF AtClose
<1> QED  BY <1>3, <1>4

LEMMA CloseMoves ==
    ASSUME AtClose, Close
    PROVE  AtClose'
<1>1. stage' = "ENDED" /\ status' = status /\ UNCHANGED <<input, maxCalls>>
  BY DEF Close, Passes
<1>2. UNCHANGED <<termination, investigation, results>>
  BY DEF Close
<1>3. Reviewed' /\ (NeedsReview' <=> NeedsReview)
  BY <1>1, <1>2, KeepsReview DEF AtClose, results
<1> QED  BY <1>1, <1>2, <1>3 DEF AtClose

\* Nothing that happens after the end of a run changes how it ended.
LEMMA EndKept ==
    ASSUME AtClose \/ AtBlocked,
           UNCHANGED <<input, maxCalls, stage, status, termination, investigation,
                       evidence, claims, ungrounded, authority, review>>
    PROVE  (AtClose \/ AtBlocked)'
<1>1. CASE AtClose
  <2>1. Reviewed' /\ (NeedsReview' <=> NeedsReview)
    BY <1>1, KeepsReview DEF AtClose
  <2> QED  BY <1>1, <2>1 DEF AtClose
<1>2. CASE AtBlocked
  BY <1>2 DEF AtBlocked, investigation
<1> QED  BY <1>1, <1>2

\* The conditions of the stages read nothing of what is stored or run later.
LEMMA AlwaysKept ==
    ASSUME Control,
           UNCHANGED <<input, maxCalls, stage, status, termination, calls, agentRuns, handoffs,
                       evidence, claims, ungrounded, authority, review>>
    PROVE  Control'
<1>1. case' = case /\ Candidates' = Candidates
  BY SameCase
<1> QED
  BY <1>1 DEF Control, AtCase, AtInvestigate, AtValidate, AtResolve, AtGuard, AtAuthorise, AtReview,
     AtTerminate, AtClose, AtBlocked, Reviewed, NeedsReview, Decided, HasClaims, HasEvidence,
     Investigated, Undecided, Unstarted

\* Only one of the stages' conditions holds at a stage.
LEMMA StageTells ==
    ASSUME Control
    PROVE  /\ stage = "CASE" => AtCase
           /\ stage = "INVESTIGATE" => AtInvestigate
           /\ stage = "VALIDATE" => AtValidate
           /\ stage = "RESOLVE" => AtResolve
           /\ stage = "GUARDRAILS" => AtGuard
           /\ stage = "AUTHORISE" => AtAuthorise
           /\ stage = "REVIEW" => AtReview
           /\ stage = "TERMINATE" => AtTerminate
           /\ stage = "CLOSE" => AtClose
           /\ stage = "ENDED" => AtClose \/ AtBlocked
BY DEF Control, AtCase, AtInvestigate, AtValidate, AtResolve, AtGuard, AtAuthorise, AtReview,
       AtTerminate, AtClose, AtBlocked

\* No decision of the pipeline is ALLOW.
LEMMA NeverAllowed ==
    ASSUME AtClose \/ AtBlocked
    PROVE  authority.decision \in {"REQUIRE_HUMAN", "DENY"}
<1>1. CASE AtClose
  BY <1>1, DecisionMade DEF AtClose, Reviewed
<1>2. CASE AtBlocked
  BY <1>2 DEF AtBlocked, Verdict
<1> QED  BY <1>1, <1>2

LEMMA StepControls ==
    ASSUME PipeInv, Step
    PROVE  Control'
<1>1. CASE CreateCase
  BY <1>1, StageTells, CreateCaseMoves DEF PipeInv, CreateCase, Passes, Control
<1>2. CASE Blocked
  BY <1>2, StageTells, BlockedMoves DEF PipeInv, Blocked, Passes, Control
<1>3. CASE Investigate
  BY <1>3, StageTells, InvestigateMoves DEF PipeInv, Investigate, Passes, Control
<1>4. CASE Validate
  BY <1>4, StageTells, ValidateMoves DEF PipeInv, Validate, Passes, Control
<1>5. CASE Resolve
  BY <1>5, StageTells, ResolveMoves DEF PipeInv, Resolve, Passes, Control
<1>6. CASE Guard
  BY <1>6, StageTells, GuardMoves DEF PipeInv, Guard, Passes, Control
<1>7. CASE Authorise
  BY <1>7, StageTells, AuthoriseMoves DEF PipeInv, Authorise, Passes, Control
<1>8. CASE Reconcile
  BY <1>8, StageTells, ReconcileMoves DEF PipeInv, Reconcile, Passes, Control
<1>9. CASE SendToReview \/ Complete
  <2>1. stage = "TERMINATE"
    BY <1>9 DEF SendToReview, Complete, Terminate, Passes
  <2> QED  BY <1>9, <2>1, StageTells, TerminateMoves DEF PipeInv, Control
<1>10. CASE Close
  BY <1>10, StageTells, CloseMoves DEF PipeInv, Close, Passes, Control
<1> QED  BY <1>1, <1>2, <1>3, <1>4, <1>5, <1>6, <1>7, <1>8, <1>9, <1>10 DEF Step

\* A stage counts calls up, and leaves the input, the budget and what runs
\* after the end alone.
LEMMA StepBounds ==
    ASSUME Step, calls \in Nat
    PROVE  calls' \in Nat /\ UNCHANGED <<input, maxCalls, after>>
<1>1. UNCHANGED <<input, maxCalls, after>>
  BY DEF Step, CreateCase, Blocked, Investigate, Validate, Resolve, Guard, Authorise, Reconcile,
         SendToReview, Complete, Terminate, Close, Passes
<1>2. calls' = calls \/ calls' = calls + 1
  BY DEF Step, CreateCase, Blocked, Investigate, Validate, Resolve, Guard, Authorise, Reconcile,
         SendToReview, Complete, Terminate, Close, investigation
<1> QED  BY <1>1, <1>2

LEMMA PipeInitial == PipeInit => PipeInv
<1> SUFFICES ASSUME PipeInit  PROVE PipeInv
  OBVIOUS
<1>1. AtCase
  BY DEF PipeInit, AtCase, Undecided, Unstarted
<1> QED  BY <1>1, PipeAssumption DEF PipeInit, PipeInv, Control

LEMMA PipeSteps == PipeInv /\ [PipeNext]_pipeVars => PipeInv'
<1> SUFFICES ASSUME PipeInv, [PipeNext]_pipeVars
             PROVE  PipeInv'
  OBVIOUS
<1>1. CASE Step
  <2>1. Control'
    BY <1>1, StepControls
  <2>2. calls' \in Nat /\ UNCHANGED <<input, maxCalls, ran>>
    BY <1>1, StepBounds DEF PipeInv, after
  <2> QED  BY <2>1, <2>2 DEF PipeInv
<1>2. ASSUME NEW action \in Actions, Propose(action)
      PROVE  PipeInv'
  <2>1. stage = "ENDED" /\ MayRun(authority, action) /\ ran' = ran \cup {action}
    BY <1>2 DEF Propose
  <2>2. UNCHANGED <<input, maxCalls, stage, status, termination, investigation,
                    evidence, claims, ungrounded, authority, review>>
    BY <1>2 DEF Propose, results
  <2>3. AtClose \/ AtBlocked
    BY <2>1, StageTells DEF PipeInv
  <2>4. action \notin Irreversible
    BY <2>1, <2>3, NeverAllowed DEF MayRun
  <2>5. (AtClose \/ AtBlocked)'
    BY <2>2, <2>3, EndKept
  <2> QED  BY <2>1, <2>2, <2>4, <2>5 DEF PipeInv, Control, investigation
<1>3. ASSUME NEW action \in Actions, Observe(action)
      PROVE  PipeInv'
  <2>1. stage = "ENDED"
    BY <1>3 DEF Observe
  <2>2. UNCHANGED <<input, maxCalls, stage, status, termination, investigation,
                    evidence, claims, ungrounded, authority, review, ran>>
    BY <1>3 DEF Observe, after
  <2>3. (AtClose \/ AtBlocked)'
    BY <2>1, <2>2, EndKept, StageTells DEF PipeInv
  <2> QED  BY <2>2, <2>3 DEF PipeInv, Control, investigation
<1>4. CASE Store \/ \E i \in Spots, kind \in {"edited", "argument", "removed", "swapped", "copied", "cut"} :
                 Damage(kind, i)
  <2>1. UNCHANGED <<input, maxCalls, stage, status, termination, investigation, results, ran>>
    BY <1>4 DEF Store, Damage
  <2>2. Control'
    <3>1. UNCHANGED <<calls, agentRuns, handoffs, evidence, claims, ungrounded, authority, review>>
      BY <2>1 DEF investigation, results
    <3> QED  BY <2>1, <3>1, AlwaysKept DEF PipeInv
  <2> QED  BY <2>1, <2>2 DEF PipeInv, investigation
<1>5. CASE UNCHANGED pipeVars
  <2>1. UNCHANGED <<input, maxCalls, stage, status, termination, investigation, results, ran>>
    BY <1>5 DEF pipeVars, after
  <2>2. Control'
    <3>1. UNCHANGED <<calls, agentRuns, handoffs, evidence, claims, ungrounded, authority, review>>
      BY <2>1 DEF investigation, results
    <3> QED  BY <2>1, <3>1, AlwaysKept DEF PipeInv
  <2> QED  BY <2>1, <2>2 DEF PipeInv, investigation
<1> QED  BY <1>1, <1>2, <1>3, <1>4, <1>5 DEF PipeNext

LEMMA PipeInvariant == PipeSpec => []PipeInv
BY PipeInitial, PipeSteps, PTL DEF PipeSpec

-----------------------------------------------------------------------------
(* What a run promises.                                                    *)

\* The candidates are sources the case refers to, as the pool has them.
LEMMA CandidatesOf ==
    ASSUME PipeInv
    PROVE  /\ DOMAIN Candidates = case.refs \cap DOMAIN input.pool
           /\ \A s \in DOMAIN Candidates : Candidates[s] = input.pool[s] /\ Candidates[s] \in Source
<1>1. \A s \in DOMAIN input.pool : input.pool[s] \in Source
  BY PipeAssumption DEF PipeInv
<1> QED  BY <1>1 DEF Candidates

\* A decision of the rules was made on the claims of the candidates.
LEMMA DecisionIsOfTheRules ==
    ASSUME PipeInv, authority # None
    PROVE  \/ AtBlocked
           \/ Decided
BY DEF PipeInv, Control, AtCase, AtInvestigate, AtValidate, AtResolve, AtGuard, AtAuthorise,
       AtReview, AtTerminate, AtClose, Undecided, Reviewed

\* The decision of a run is the rules' over the candidates.
LEMMA DecidedBy ==
    ASSUME Decided
    PROVE  authority = AuthoriseCase(ResolveClaims(case, ValidateEvidence(case, Candidates)))
BY DEF Decided, HasClaims, HasEvidence

LEMMA DenialSound ==
    ASSUME PipeInv
    PROVE  DenialIsSound
<1> DEFINE Speaks(s) ==
             /\ "minor" \in Candidates[s].words
             /\ OnlyFindingsSayMinor =>
                   Candidates[s].class = "fault_assessment" /\ Candidates[s].conclusion = "minor"
             /\ Candidates[s].allowed /\ Candidates[s].excerpt
             /\ Candidates[s].locator /\ ~Candidates[s].tampered
             /\ Candidates[s].age <= MaxAge
             /\ s \in DOMAIN case.expected => case.expected[s] = Candidates[s].version
<1> SUFFICES ASSUME authority # None, authority.decision = "DENY"
             PROVE  /\ <<case.order, case.seller, case.product>> \in ValidBindings
                    /\ \E s \in DOMAIN Candidates : Speaks(s)
                    /\ \A s, t \in DOMAIN Candidates :
                          /\ Candidates[s].class = "fault_assessment"
                          /\ Candidates[t].class = "fault_assessment"
                          => {Candidates[s].conclusion, Candidates[t].conclusion} # {"major", "minor"}
  BY DEF DenialIsSound
<1>1. Decided
  <2>1. ~AtBlocked
    BY DEF AtBlocked, Verdict
  <2> QED  BY <2>1, DecisionIsOfTheRules
<1> PICK found : found = ValidateEvidence(case, Candidates)
  OBVIOUS
<1>2. BindingMatches(case) /\ MajorFailure(found).status = "FALSE"
  BY <1>1, DecidedBy, DecisionOf
<1>3. ~Contradictory(found) /\ \E s \in Admitted(found) : "minor" \in found[s].words
  BY <1>2, StatusOfFault
<1>4. /\ DOMAIN Candidates = case.refs \cap DOMAIN input.pool
      /\ \A s \in DOMAIN Candidates : Candidates[s] = input.pool[s] /\ Candidates[s] \in Source
  BY CandidatesOf
<1>5. \E s \in DOMAIN Candidates : Speaks(s)
  <2> PICK s \in Admitted(found) : "minor" \in found[s].words
    BY <1>3
  <2>1. /\ s \in DOMAIN Candidates /\ found[s].words = Candidates[s].words
        /\ Candidates[s].allowed /\ ~Candidates[s].tampered
        /\ Candidates[s].excerpt /\ Candidates[s].locator
        /\ Candidates[s].age <= MaxAge
        /\ s \in DOMAIN case.expected => case.expected[s] = Candidates[s].version
    BY <1>4, AdmittedIsSound, PipeAssumption
  <2> QED  BY <2>1 DEF OnlyFindingsSayMinor
<1>6. ASSUME NEW s \in DOMAIN Candidates, NEW t \in DOMAIN Candidates,
             Candidates[s].class = "fault_assessment", Candidates[t].class = "fault_assessment",
             {Candidates[s].conclusion, Candidates[t].conclusion} = {"major", "minor"}
      PROVE  FALSE
  <2>1. \/ Candidates[s].conclusion = "major" /\ Candidates[t].conclusion = "minor"
        \/ Candidates[t].conclusion = "major" /\ Candidates[s].conclusion = "minor"
    BY <1>6
  <2>2. Contradictory(ValidateEvidence(case, Candidates))
    BY <1>4, <1>6, <2>1, DisagreementIsSeen
  <2> QED  BY <1>3, <2>2
<1>7. <<case.order, case.seller, case.product>> \in ValidBindings
  BY <1>2 DEF BindingMatches
<1> QED  BY <1>5, <1>6, <1>7

LEMMA AdviceIgnored ==
    ASSUME PipeInv
    PROVE  AdvisoryOnly
<1> SUFFICES ASSUME authority # None, DOMAIN claims # {}
             PROVE  authority = AuthoriseCase(ResolveClaims(case,
                                  ValidateEvidence(case, Unadvised(Candidates))))
  BY DEF AdvisoryOnly, Unadvised
<1>1. Decided
  <2>1. ~AtBlocked
    BY DEF AtBlocked
  <2> QED  BY <2>1, DecisionIsOfTheRules
<1>2. MajorFailure(ValidateEvidence(case, Candidates))
        = MajorFailure(ValidateEvidence(case, Unadvised(Candidates)))
  BY CandidatesOf, AdviceBlocksNothing
<1> QED  BY <1>1, <1>2, DecidedBy, DecisionReadsFault

\* What a claim about the fault cites.
LEMMA FaultCited ==
    ASSUME NEW found
    PROVE  LET major == MajorFailure(found) IN
           /\ major.status # "UNKNOWN" =>
                 /\ major.evidence # {}
                 /\ \A s \in major.evidence : found[s].reasons \subseteq NonBlocking
           /\ Contradictory(found) =>
                 /\ major.evidence = Speaking(found, "major")
                 /\ major.counter = Speaking(found, "minor")
<1> PICK major : major = MajorFailure(found)
  OBVIOUS
<1>1. ASSUME major.status # "UNKNOWN"
      PROVE  /\ major.evidence # {}
             /\ \A s \in major.evidence : found[s].reasons \subseteq NonBlocking
  <2>1. ~Contradictory(found)
    BY <1>1 DEF MajorFailure, Claim
  <2>2. \/ major.evidence = Speaking(found, "minor") /\ Speaking(found, "minor") # {}
        \/ major.evidence = Speaking(found, "major") /\ Speaking(found, "major") # {}
    BY <1>1, <2>1 DEF MajorFailure, Claim
  <2>3. \A s \in major.evidence : s \in Admitted(found)
    BY <2>1, <2>2 DEF Speaking, FaultPool
  <2> QED  BY <2>2, <2>3 DEF Admitted
<1>2. ASSUME Contradictory(found)
      PROVE  major.evidence = Speaking(found, "major") /\ major.counter = Speaking(found, "minor")
  BY <1>2 DEF MajorFailure, Claim
<1> QED  BY <1>1, <1>2

LEMMA FaultCitedHere ==
    ASSUME PipeInv
    PROVE  FaultIsCited
<1> PICK major : major = claims["MAJOR_FAILURE_ESTABLISHED"]
  OBVIOUS
<1> SUFFICES ASSUME claims # None, DOMAIN claims # {}
             PROVE  /\ major.status # "UNKNOWN" =>
                          /\ major.evidence # {}
                          /\ \A s \in major.evidence : evidence[s].reasons \subseteq NonBlocking
                    /\ ungrounded \in {None, {}}
                    /\ (\E s, t \in DOMAIN Candidates :
                           /\ Candidates[s].class = "fault_assessment" /\ Candidates[s].conclusion = "major"
                           /\ Candidates[t].class = "fault_assessment" /\ Candidates[t].conclusion = "minor") =>
                          /\ major.status = "UNKNOWN"
                          /\ major.evidence = {s \in DOMAIN Candidates : "major" \in Candidates[s].words}
                          /\ major.counter = {s \in DOMAIN Candidates : "minor" \in Candidates[s].words}
  BY DEF FaultIsCited
<1>1. HasClaims /\ ungrounded \in {None, {}}
  <2>1. ~AtBlocked
    BY DEF AtBlocked
  <2> QED  BY <2>1 DEF PipeInv, Control, AtCase, AtInvestigate, AtValidate, AtResolve, AtGuard,
              AtAuthorise, AtReview, AtTerminate, AtClose, Reviewed, Decided
<1>2. evidence = ValidateEvidence(case, Candidates)
  BY <1>1 DEF HasClaims, HasEvidence
<1>3. major = MajorFailure(evidence)
  BY <1>1 DEF HasClaims, ResolveClaims
<1>4. ASSUME NEW s \in DOMAIN Candidates, NEW t \in DOMAIN Candidates,
             Candidates[s].class = "fault_assessment", Candidates[s].conclusion = "major",
             Candidates[t].class = "fault_assessment", Candidates[t].conclusion = "minor"
      PROVE  /\ major.status = "UNKNOWN"
             /\ major.evidence = {u \in DOMAIN Candidates : "major" \in Candidates[u].words}
             /\ major.counter = {u \in DOMAIN Candidates : "minor" \in Candidates[u].words}
  <2>1. Contradictory(evidence)
    BY <1>2, <1>4, CandidatesOf, DisagreementIsSeen
  <2>2. major.status = "UNKNOWN"
    BY <1>3, <2>1, StatusOfFault
  <2>3. major.evidence = Speaking(evidence, "major") /\ major.counter = Speaking(evidence, "minor")
    BY <1>3, <2>1, FaultCited
  <2>4. DOMAIN evidence = DOMAIN Candidates
        /\ \A u \in DOMAIN Candidates : evidence[u].words = Candidates[u].words
    BY <1>2, EvidenceDomain, EvidenceOf
  <2> QED  BY <2>1, <2>2, <2>3, <2>4 DEF Speaking, FaultPool
<1>5. major.status # "UNKNOWN" =>
        /\ major.evidence # {}
        /\ \A s \in major.evidence : evidence[s].reasons \subseteq NonBlocking
  BY <1>3, FaultCited
<1> QED  BY <1>1, <1>4, <1>5

LEMMA EndIsProper ==
    ASSUME PipeInv
    PROVE  EndsProperly
<1> SUFFICES ASSUME stage = "ENDED"  PROVE EndsProperly
  BY DEF EndsProperly
<1>1. AtClose \/ AtBlocked
  BY StageTells DEF PipeInv
<1>2. CASE AtBlocked
  <2>1. authority.decision = "REQUIRE_HUMAN"
    BY <1>2 DEF AtBlocked, Verdict
  <2> QED  BY <1>2, <2>1 DEF AtBlocked, EndsProperly
<1>3. CASE AtClose /\ NeedsReview
  <2>1. review.status = "PENDING" /\ authority.decision = "REQUIRE_HUMAN"
    BY <1>3 DEF AtClose, Reviewed, NeedsReview
  <2> QED  BY <1>3, <2>1 DEF AtClose, EndsProperly
<1>4. CASE AtClose /\ ~NeedsReview
  <2>1. review = None /\ authority.decision = "DENY"
    BY <1>4, DecisionMade DEF AtClose, Reviewed
  <2> QED  BY <1>4, <2>1 DEF AtClose, EndsProperly
<1> QED  BY <1>1, <1>2, <1>3, <1>4

LEMMA AgentsAreAccountedFor ==
    ASSUME PipeInv
    PROVE  AgentsAccountedFor
<1> SUFFICES ASSUME stage \notin {"CASE", "INVESTIGATE"}  PROVE AgentsAccountedFor
  BY DEF AgentsAccountedFor
<1>1. AtBlocked \/ (Investigated /\ termination # "CONTROL_BLOCKED")
  BY PipeAssumption DEF PipeInv, Control, AtCase, AtInvestigate, AtValidate, AtResolve, AtGuard,
     AtAuthorise, AtReview, AtTerminate, AtClose, Reviewed, Decided, HasClaims, HasEvidence, Undecided
<1>2. CASE AtBlocked
  <2>1. termination = "CONTROL_BLOCKED" /\ handoffs = {}
        /\ agentRuns = {AgentRun("SUPERVISOR", 0, 0, "CONTROL_BLOCKED"),
                        AgentRun("RETRIEVAL", calls, 0, "CONTROL_BLOCKED")}
    BY <1>2 DEF AtBlocked
  <2> QED  BY <2>1 DEF AgentRun, AgentsAccountedFor
<1>3. CASE Investigated /\ termination # "CONTROL_BLOCKED"
  <2>1. /\ \A run \in agentRuns : run.end = "COMPLETED" /\ run.calls <= maxCalls
        /\ \A run \in agentRuns : run.parent = None \/ run.parent = "SUPERVISOR"
        /\ \E run \in agentRuns : run.agent = "SUPERVISOR"
        /\ \E run \in agentRuns : run.agent = "RETRIEVAL" /\ run.calls = calls
    BY <1>3 DEF Investigated, AgentRun, PipeInv
  <2>2. \A h \in handoffs : \E run \in agentRuns : run.agent = h.child /\ run.parent = h.parent
    BY <1>3 DEF Investigated, AgentRun, Handoff
  <2> QED  BY <1>3, <2>1, <2>2 DEF AgentsAccountedFor
<1> QED  BY <1>1, <1>2, <1>3

-----------------------------------------------------------------------------
(* The chain of hashes.                                                    *)

\* The rows of a recorded chain are those events, and verify.
LEMMA ChainedVerifies ==
    ASSUME NEW seed, NEW S, NEW events \in Seq(S), NEW rows, rows = Chained(seed, events)
    PROVE  EventsOf(rows) = events /\ Verified(seed, rows)
<1>1. /\ DOMAIN rows = DOMAIN events
      /\ \A i \in DOMAIN events :
            /\ rows[i].event = events[i] /\ rows[i].result = Content(events[i])
            /\ rows[i].before = <<seed, FoldedTo(events, i - 1)>>
            /\ rows[i].after = <<seed, FoldedTo(events, i)>>
  BY DEF Chained
<1>2. EventsOf(rows) = events
  <2>1. events = [i \in DOMAIN events |-> events[i]]
    OBVIOUS
  <2>2. EventsOf(rows) = [i \in DOMAIN events |-> events[i]]
    BY <1>1 DEF EventsOf
  <2> QED
    BY <2>1, <2>2
<1> QED
  BY <1>1, <1>2 DEF Verified

\* Rows whose events are the first ones recorded.
LEMMA FirstEvents ==
    ASSUME NEW S, NEW events \in Seq(S), NEW rows, NEW m \in Nat, m <= Len(events),
           DOMAIN rows = 1..m, \A j \in 1..m : rows[j].event = events[j]
    PROVE  IsPrefix(EventsOf(rows), events)
<1> PICK told : told = EventsOf(rows)
  OBVIOUS
<1>1. told = [j \in 1..m |-> events[j]]
  BY DEF EventsOf
<1>2. \A j \in 1..m : events[j] \in S
  OBVIOUS
<1>3. told \in Seq(S) /\ Len(told) = m /\ told = SubSeq(events, 1, m)
  BY <1>1, <1>2
<1>4. SubSeq(told, 1, m) = told
  BY <1>3
<1> QED
  BY <1>3, <1>4 DEF IsPrefix

-----------------------------------------------------------------------------
(* What is recorded.                                                       *)

\* The trace is a sequence of events, each with the number of its place.
IsTrace(t) ==
    /\ \E S : t \in Seq(S)
    /\ \A i \in 1..Len(t) :
          t[i] = [sequence |-> i, stage |-> t[i].stage, type |-> t[i].type,
                  tool |-> t[i].tool, ids |-> t[i].ids, arguments |-> t[i].arguments]

\* A function on the first numbers is a sequence of its values.
LEMMA Listed ==
    ASSUME NEW n \in Nat, NEW f, f = [i \in 1..n |-> f[i]], NEW S, \A i \in 1..n : f[i] \in S
    PROVE  f \in Seq(S) /\ Len(f) = n
OBVIOUS

LEMMA RecordsTrace ==
    ASSUME IsTrace(trace), NEW S, NEW events \in Seq(S), Record(events)
    PROVE  IsTrace(trace')
<1> PICK T : trace \in Seq(T)
  BY DEF IsTrace
<1> PICK n \in Nat : n = Len(trace)
  OBVIOUS
<1> PICK m \in Nat : m = Len(events)
  OBVIOUS
<1> PICK more : more = Numbered(events)
  OBVIOUS
<1>1. /\ more = [i \in 1..m |-> more[i]]
      /\ \A i \in 1..m :
           more[i] = [sequence |-> n + i, stage |-> events[i].stage, type |-> events[i].type,
                      tool |-> events[i].tool, ids |-> events[i].ids,
                      arguments |-> events[i].arguments]
  BY DEF Numbered
<1> PICK U : U = T \cup {more[i] : i \in 1..m}
  OBVIOUS
<1>2. more \in Seq(U) /\ Len(more) = m
  <2>1. \A i \in 1..m : more[i] \in U
    OBVIOUS
  <2> QED
    BY <1>1, <2>1, Listed
<1>3. trace \in Seq(U)
  BY SeqMonotonic
<1> PICK t : t = trace \o more
  OBVIOUS
<1>4. /\ t \in Seq(U) /\ Len(t) = n + m
      /\ \A i \in 1..(n + m) : t[i] = IF i <= n THEN trace[i] ELSE more[i - n]
  <2>1. /\ trace \o more \in Seq(U) /\ Len(trace \o more) = Len(trace) + Len(more)
        /\ \A i \in 1..Len(trace) + Len(more) :
             (trace \o more)[i] = IF i <= Len(trace) THEN trace[i] ELSE more[i - Len(trace)]
    BY <1>2, <1>3, ConcatProperties, Zenon
  <2> QED
    BY <1>2, <2>1
<1>5. ASSUME NEW i \in 1..Len(t)
      PROVE  t[i] = [sequence |-> i, stage |-> t[i].stage, type |-> t[i].type,
                     tool |-> t[i].tool, ids |-> t[i].ids, arguments |-> t[i].arguments]
  <2>1. CASE i <= n
    <3>1. t[i] = trace[i] /\ i \in 1..n
      BY <1>4, <2>1
    <3> QED
      BY <3>1 DEF IsTrace
  <2>2. CASE ~(i <= n)
    <3>1. i - n \in 1..m /\ n + (i - n) = i
      BY <1>4, <2>2
    <3>2. t[i] = more[i - n]
      BY <1>4, <2>2
    <3> PICK k \in 1..m : k = i - n
      BY <3>1
    <3>3. t[i] = [sequence |-> i, stage |-> events[k].stage, type |-> events[k].type,
                  tool |-> events[k].tool, ids |-> events[k].ids,
                  arguments |-> events[k].arguments]
      BY <1>1, <3>1, <3>2
    <3> QED
      BY <3>3
  <2> QED
    BY <2>1, <2>2
<1>6. trace' = t
  BY DEF Record
<1> QED
  BY <1>4, <1>5, <1>6 DEF IsTrace

LEMMA PassesTrace ==
    ASSUME IsTrace(trace), NEW S, NEW events \in Seq(S), NEW at, NEW next,
           NEW P, NEW path \in Seq(P), path # <<>>, Passes(at, events, path, next)
    PROVE  IsTrace(trace')
<1> PICK m \in Nat : m = Len(path) - 1
  OBVIOUS
<1> PICK moves : moves = [i \in 1 .. Len(path) - 1 |-> Changed(path[i], path[i + 1])]
  OBVIOUS
<1> PICK U : U = S \cup {moves[i] : i \in 1..m}
  OBVIOUS
<1>1. moves \in Seq(U)
  <2>1. moves = [i \in 1..m |-> moves[i]]
    OBVIOUS
  <2>2. \A i \in 1..m : moves[i] \in U
    OBVIOUS
  <2> QED
    BY <2>1, <2>2, Listed
<1>2. events \in Seq(U)
  BY SeqMonotonic
<1> PICK all : all = events \o moves
  OBVIOUS
<1>3. all \in Seq(U)
  BY <1>1, <1>2, ConcatProperties
<1>4. Record(all)
  BY DEF Passes
<1> QED
  BY <1>3, <1>4, RecordsTrace

\* The candidates are recorded one after the other, in some order.
LEMMA CandidatesInOrder ==
    ASSUME input \in CaseInputs
    PROVE  \E n \in Nat : DOMAIN SetToSeq(DOMAIN Candidates) = 1..n
<1> PICK D : D = DOMAIN Candidates
  OBVIOUS
<1>1. IsFiniteSet(D)
  <2>1. D \subseteq DOMAIN input.pool /\ IsFiniteSet(DOMAIN input.pool)
    BY PipeAssumption DEF PipeAssumption, Candidates
  <2> QED
    BY <2>1, FS_Subset
<1>2. Cardinality(D) \in Nat /\ ExistsBijection(1..Cardinality(D), D)
  BY <1>1, FS_CardinalityType
<1>3. \E f \in [1..Cardinality(D) -> D] : IsInjective(f)
  BY <1>2 DEF ExistsBijection, Bijection, Injection
<1>4. SetToSeq(D) \in [1..Cardinality(D) -> D]
  BY <1>3 DEF SetToSeq
<1> QED
  BY <1>2, <1>4

\* Most stages record one event, two, three or five.
LEMMA ShortPassTrace ==
    ASSUME IsTrace(trace), NEW at, NEW next, NEW path, \E P : path \in Seq(P), path # <<>>,
           \E x, y, z, u, v, events :
              /\ events \in {<<x>>, <<x, y>>, <<x, y, z>>, <<x, y, z, u, v>>}
              /\ Passes(at, events, path, next)
    PROVE  IsTrace(trace')
<1> PICK x, y, z, u, v, events :
           /\ events \in {<<x>>, <<x, y>>, <<x, y, z>>, <<x, y, z, u, v>>}
           /\ Passes(at, events, path, next)
  OBVIOUS
<1> PICK S : S = {x, y, z, u, v}
  OBVIOUS
<1>1. /\ <<x>> \in Seq(S) /\ <<x, y>> \in Seq(S) /\ <<x, y, z>> \in Seq(S)
      /\ <<x, y, z, u, v>> \in Seq(S)
  OBVIOUS
<1>2. events \in Seq(S)
  BY <1>1
<1> QED
  BY <1>2, PassesTrace

LEMMA StepTrace ==
    ASSUME IsTrace(trace), input \in CaseInputs, Step
    PROVE  IsTrace(trace')
<1>0. \A a, b : /\ <<status>> \in Seq({status}) /\ <<status>> # <<>>
                 /\ <<status, a>> \in Seq({status, a}) /\ <<status, a>> # <<>>
                 /\ <<status, a, b>> \in Seq({status, a, b}) /\ <<status, a, b>> # <<>>
  OBVIOUS
<1> DEFINE Short(at, path, next) ==
             \E x, y, z, u, v, events :
                /\ events \in {<<x>>, <<x, y>>, <<x, y, z>>, <<x, y, z, u, v>>}
                /\ Passes(at, events, path, next)
<1>a. ASSUME NEW at, NEW next, NEW path, \E P : path \in Seq(P), path # <<>>,
             Short(at, path, next)
      PROVE  IsTrace(trace')
  BY <1>a, ShortPassTrace
<1>1. CASE CreateCase
  <2>1. Short("CASE", <<status, "INVESTIGATING">>, "INVESTIGATE")
    BY <1>1 DEF CreateCase
  <2> QED
    BY <1>0, <1>a, <2>1
<1>2. CASE Blocked
  <2>1. Short("INVESTIGATE", <<status>>, "ENDED")
    BY <1>2 DEF Blocked
  <2> QED
    BY <1>0, <1>a, <2>1
<1>3. CASE Investigate
  <2>1. Short("INVESTIGATE", <<status>>, "VALIDATE")
    BY <1>3 DEF Investigate
  <2> QED
    BY <1>0, <1>a, <2>1
<1>4. CASE Validate
  <2> PICK order : order = SetToSeq(DOMAIN Candidates)
    OBVIOUS
  <2> PICK n \in Nat : DOMAIN order = 1..n
    BY CandidatesInOrder
  <2> PICK events : events = [i \in DOMAIN order |-> Judged(order[i])]
    OBVIOUS
  <2> PICK S : S = {events[i] : i \in 1..n}
    OBVIOUS
  <2>1. events = [i \in 1..n |-> events[i]] /\ \A i \in 1..n : events[i] \in S
    OBVIOUS
  <2>2. events \in Seq(S)
    BY ONLY n \in Nat, <2>1, Listed
  <2>3. Passes("VALIDATE", events, <<status, "EVIDENCE_VALIDATED">>, "RESOLVE")
    BY <1>4 DEF Validate
  <2> QED
    BY <1>0, <2>2, <2>3, PassesTrace
<1>5. CASE Resolve
  <2> PICK events : \E F : /\ events = [i \in DOMAIN ClaimTypes |-> F[i]]
                           /\ Passes("RESOLVE", events, <<status, "CLAIMS_RESOLVED">>, "GUARDRAILS")
    <3> DEFINE resolved == ResolveClaims(case, evidence)
               cited(t) == resolved[t].evidence \cup resolved[t].counter
               F == [i \in DOMAIN ClaimTypes |-> Plain("RESOLVE", "CLAIM_RESOLVED", cited(ClaimTypes[i]))]
    <3>1. Passes("RESOLVE", F, <<status, "CLAIMS_RESOLVED">>, "GUARDRAILS")
      BY <1>5 DEF Resolve
    <3>2. F = [i \in DOMAIN ClaimTypes |-> F[i]]
      OBVIOUS
    <3> HIDE DEF F
    <3> QED
      BY <3>1, <3>2
  <2> PICK n \in Nat : DOMAIN ClaimTypes = 1..n
    BY DEF ClaimTypes
  <2> PICK S : S = {events[i] : i \in 1..n}
    OBVIOUS
  <2>1. events = [i \in 1..n |-> events[i]] /\ \A i \in 1..n : events[i] \in S
    OBVIOUS
  <2>2. events \in Seq(S)
    BY ONLY n \in Nat, <2>1, Listed
  <2> QED
    BY <1>0, <2>2, PassesTrace
<1>6. CASE Guard
  <2>1. Short("GUARDRAILS", <<status>>, "AUTHORISE")
    BY <1>6 DEF Guard
  <2> QED
    BY <1>0, <1>a, <2>1
<1>7. CASE Authorise
  <2>1. Short("AUTHORISE", <<status, "AUTHORITY_EVALUATED">>, "REVIEW")
    BY <1>7 DEF Authorise
  <2> QED
    BY <1>0, <1>a, <2>1
<1>8. CASE Reconcile
  <2>1. Short("REVIEW", <<status>>, "TERMINATE")
    BY <1>8 DEF Reconcile
  <2> QED
    BY <1>0, <1>a, <2>1
<1>9. CASE SendToReview \/ Complete
  <2>1. <<>> \in Seq({})
    OBVIOUS
  <2> QED
    BY <1>0, <1>9, <2>1, PassesTrace DEF SendToReview, Complete, Terminate
<1>10. CASE Close
  <2>1. Short("CLOSE", <<status>>, "ENDED")
    BY <1>10 DEF Close
  <2> QED
    BY <1>0, <1>a, <2>1
<1> QED
  BY <1>1, <1>2, <1>3, <1>4, <1>5, <1>6, <1>7, <1>8, <1>9, <1>10 DEF Step

-----------------------------------------------------------------------------
(* What verification tells of a stored trace.                              *)

\* The rows as they were stored, before any accident.
Recorded(seed, n) ==
    /\ stored = [j \in 1..n |-> stored[j]]
    /\ \A j \in 1..n :
          stored[j] = [event |-> trace[j], result |-> Content(trace[j]),
                       before |-> <<seed, FoldedTo(trace, j - 1)>>,
                       after |-> <<seed, FoldedTo(trace, j)>>]

LEMMA StoredIsRecorded ==
    ASSUME IsTrace(trace), NEW seed, stored = Chained(seed, trace)
    PROVE  Recorded(seed, Len(trace))
<1>1. DOMAIN trace = 1..Len(trace)
  BY DEF IsTrace
<1> QED
  BY <1>1 DEF Recorded, Chained

\* Row i tells of the event e instead; nothing else changed.
LEMMA EditIsFound ==
    ASSUME IsTrace(trace), NEW seed, NEW n \in Nat, n = Len(trace), Recorded(seed, n),
           NEW i \in 1..n, NEW e, NEW rows,
           rows = [stored EXCEPT ![i] = [stored[i] EXCEPT !.event = e]],
           Content(trace[i]) = Content(e) /\ trace[i].arguments = e.arguments => e = trace[i],
           Verified(seed, rows)
    PROVE  IsPrefix(EventsOf(rows), trace)
<1>1. /\ DOMAIN rows = 1..n /\ rows[i].event = e /\ rows[i].result = Content(trace[i])
      /\ rows[i].after = <<seed, FoldedTo(trace, i)>>
      /\ \A j \in 1..n : j # i => rows[j].event = trace[j]
  <2>1. /\ DOMAIN stored = 1..n
        /\ \A j \in 1..n :
              stored[j] = [event |-> trace[j], result |-> Content(trace[j]),
                           before |-> <<seed, FoldedTo(trace, j - 1)>>,
                           after |-> <<seed, FoldedTo(trace, j)>>]
    BY DEF Recorded
  <2>2. /\ DOMAIN rows = 1..n /\ rows[i] = [stored[i] EXCEPT !.event = e]
        /\ \A j \in 1..n : j # i => rows[j] = stored[j]
    BY <2>1
  <2>3. \A j \in 1..n : stored[j].event = trace[j]
    BY <2>1
  <2>4. /\ rows[i].event = e /\ rows[i].result = stored[i].result
        /\ rows[i].after = stored[i].after
    <3> PICK told, result, before, later :
             stored[i] = [event |-> told, result |-> result, before |-> before, after |-> later]
      BY <2>1
    <3> QED
      BY <2>2
  <2>5. stored[i].result = Content(trace[i]) /\ stored[i].after = <<seed, FoldedTo(trace, i)>>
    BY <2>1
  <2> QED
    BY <2>2, <2>3, <2>4, <2>5
<1>2. Content(trace[i]) = Content(e)
  BY <1>1 DEF Verified
<1>3. trace[i].arguments = e.arguments
  <2> PICK told : told = EventsOf(rows)
    OBVIOUS
  <2> PICK f, g : f = FoldedTo(trace, i) /\ g = FoldedTo(told, i)
    OBVIOUS
  <2>1. f = g
    <3>1. rows[i].after = <<seed, g>>
      BY <1>1 DEF Verified
    <3>2. rows[i].after = <<seed, f>>
      BY <1>1
    <3> QED
      BY <3>1, <3>2
  <2>2. told[i] = e /\ i \in 1..i
    BY <1>1 DEF EventsOf
  <2>3. f[i] = <<Content(trace[i]), trace[i].arguments>>
    BY <2>2 DEF FoldedTo
  <2>4. g[i] = <<Content(told[i]), told[i].arguments>>
    BY <2>2 DEF FoldedTo
  <2> QED
    BY <2>1, <2>2, <2>3, <2>4
<1>4. \A j \in 1..n : rows[j].event = trace[j]
  BY <1>1, <1>2, <1>3
<1> PICK S : trace \in Seq(S)
  BY DEF IsTrace
<1>5. n <= Len(trace) /\ DOMAIN rows = 1..n
  BY <1>1
<1> QED
  BY <1>4, <1>5, FirstEvents

LEMMA EditedRow ==
    ASSUME IsTrace(trace), NEW seed, NEW n \in Nat, n = Len(trace), Recorded(seed, n),
           NEW i \in 1..n, Verified(seed, stored'),
           stored' \in {[stored EXCEPT ![i].event.ids = {"other"}],
                        [stored EXCEPT ![i].event.arguments = [query |-> "other"]]}
    PROVE  IsPrefix(EventsOf(stored'), trace)
<1> PICK old : old = trace[i]
  OBVIOUS
<1>1. /\ stored[i].event = old
      /\ old = [sequence |-> i, stage |-> old.stage, type |-> old.type,
                tool |-> old.tool, ids |-> old.ids, arguments |-> old.arguments]
  BY DEF Recorded, IsTrace
<1>2. CASE stored' = [stored EXCEPT ![i].event.ids = {"other"}]
  <2> PICK other : other = {"other"}
    OBVIOUS
  <2> PICK e : e = [old EXCEPT !.ids = other]
    OBVIOUS
  <2>1. e.ids = other
    BY <1>1
  <2>2. Content(old) = Content(e) => e = old
    <3>1. Content(old)[5] = old.ids /\ Content(e)[5] = e.ids
      BY DEF Content
    <3>2. other = old.ids => e = old
      BY <1>1
    <3> QED
      BY <2>1, <3>1, <3>2
  <2>3. stored' = [stored EXCEPT ![i] = [stored[i] EXCEPT !.event = e]]
    BY <1>1, <1>2
  <2> QED
    BY <2>2, <2>3, EditIsFound
<1>3. CASE stored' = [stored EXCEPT ![i].event.arguments = [query |-> "other"]]
  <2> PICK other : other = [query |-> "other"]
    OBVIOUS
  <2> PICK e : e = [old EXCEPT !.arguments = other]
    OBVIOUS
  <2>1. e = [sequence |-> i, stage |-> old.stage, type |-> old.type,
             tool |-> old.tool, ids |-> old.ids, arguments |-> other]
    BY <1>1
  <2>2. old.arguments = e.arguments => e = old
    BY <1>1, <2>1
  <2>3. stored' = [stored EXCEPT ![i] = [stored[i] EXCEPT !.event = e]]
    BY <1>1, <1>3
  <2> QED
    BY <2>2, <2>3, EditIsFound
<1> QED
  BY <1>2, <1>3

\* A row that was recorded at place i and is found at place k.
LEMMA MovedIsFound ==
    ASSUME IsTrace(trace), NEW seed, NEW n \in Nat, n = Len(trace), Recorded(seed, n),
           NEW i \in 1..n, NEW k \in Nat, k # i, NEW rows, k \in DOMAIN rows,
           rows[k] = Renumbered(stored[i], k), Verified(seed, rows)
    PROVE  FALSE
<1> PICK old : old = trace[i]
  OBVIOUS
<1>1. /\ stored[i].event = old /\ stored[i].result = Content(old)
      /\ old = [sequence |-> i, stage |-> old.stage, type |-> old.type,
                tool |-> old.tool, ids |-> old.ids, arguments |-> old.arguments]
      /\ stored[i] = [event |-> old, result |-> Content(old),
                      before |-> stored[i].before, after |-> stored[i].after]
  BY DEF Recorded, IsTrace
<1> PICK e : e = [old EXCEPT !.sequence = k]
  OBVIOUS
<1>2. e.sequence = k /\ old.sequence = i
  BY <1>1
<1>3. rows[k].event = e /\ rows[k].result = Content(old)
  <2>1. rows[k] = [stored[i] EXCEPT !.event = [stored[i].event EXCEPT !.sequence = k]]
    BY DEF Renumbered
  <2>2. rows[k] = [stored[i] EXCEPT !.event = e]
    BY <1>1, <2>1
  <2> QED
    BY <1>1, <2>2
<1>4. Content(old) = Content(e)
  BY <1>3 DEF Verified
<1>5. Content(old)[1] = i /\ Content(e)[1] = k
  BY <1>2 DEF Content
<1> QED
  BY <1>4, <1>5

\* The rows above one that is gone no longer follow on each other.
LEMMA RemovedRow ==
    ASSUME IsTrace(trace), NEW seed, NEW n \in Nat, n = Len(trace), Recorded(seed, n),
           NEW i \in 1..n, NEW rows, rows = RemoveAt(stored, i), Verified(seed, rows)
    PROVE  IsPrefix(EventsOf(rows), trace)
<1> PICK S : trace \in Seq(S)
  BY DEF IsTrace
<1> PICK T : T = {stored[j] : j \in 1..n}
  OBVIOUS
<1> PICK low, high : low = SubSeq(stored, 1, i - 1) /\ high = SubSeq(stored, i + 1, n)
  OBVIOUS
<1>1. Len(stored) = n
  BY DEF Recorded
<1>2. low \in Seq(T) /\ Len(low) = i - 1 /\ \A j \in 1..(i - 1) : low[j] = stored[j]
  <2>1. i - 1 \in Nat /\ \A j \in 1..(i - 1) : j \in 1..n
    OBVIOUS
  <2>2. \A j \in 1..(i - 1) : stored[j] \in T
    BY <2>1
  <2> QED
    BY <2>1, <2>2, SubSeqProperties
<1>3. high \in Seq(T) /\ Len(high) = n - i /\ \A j \in 1..(n - i) : high[j] = stored[i + j]
  <2>1. \A j \in (i + 1)..n : stored[j] \in T
    OBVIOUS
  <2>2. /\ high \in Seq(T) /\ Len(high) = IF i + 1 <= n THEN n - (i + 1) + 1 ELSE 0
        /\ \A j \in 1..(n - (i + 1) + 1) : high[j] = stored[(i + 1) + j - 1]
    BY <2>1, SubSeqProperties
  <2>3. n - (i + 1) + 1 = n - i /\ \A j \in 1..(n - i) : (i + 1) + j - 1 = i + j
    OBVIOUS
  <2> QED
    BY <2>2, <2>3
<1>4. /\ Len(rows) = n - 1 /\ rows \in Seq(T)
      /\ \A j \in 1..(n - 1) : rows[j] = IF j <= i - 1 THEN low[j] ELSE high[j - (i - 1)]
  <2>1. /\ low \o high \in Seq(T) /\ Len(low \o high) = Len(low) + Len(high)
        /\ \A j \in 1..Len(low) + Len(high) :
              (low \o high)[j] = IF j <= Len(low) THEN low[j] ELSE high[j - Len(low)]
    <3>1. low \in Seq(T) /\ high \in Seq(T)
      BY <1>2, <1>3
    <3> QED
      BY ONLY <3>1, ConcatProperties, Zenon
  <2>2. rows = low \o high
    BY <1>1 DEF RemoveAt
  <2>3. (i - 1) + (n - i) = n - 1
    OBVIOUS
  <2>4. Len(low) + Len(high) = n - 1 /\ Len(low) = i - 1
    BY <1>2, <1>3, <2>3
  <2> QED
    BY <2>1, <2>2, <2>4
<1>5. CASE i = n
  <2>1. DOMAIN rows = 1..(n - 1) /\ n - 1 \in Nat /\ n - 1 <= Len(trace)
    BY <1>4
  <2>2. ASSUME NEW j \in 1..(n - 1) PROVE rows[j].event = trace[j]
    <3>1. j <= i - 1 /\ j \in 1..(i - 1) /\ j \in 1..n
      BY <1>5
    <3>2. rows[j] = stored[j]
      BY <1>2, <1>4, <3>1
    <3>3. stored[j].event = trace[j]
      BY <3>1 DEF Recorded
    <3> QED
      BY <3>2, <3>3
  <2> QED
    BY <2>1, <2>2, FirstEvents
<1>6. CASE i # n
  <2>1. i \in 1..(n - 1) /\ 1 \in 1..(n - i) /\ i - (i - 1) = 1 /\ ~(i <= i - 1)
    BY <1>6
  <2>2. rows[i] = stored[i + 1] /\ i \in DOMAIN rows /\ i + 1 \in 1..n
    <3>1. rows[i] = high[i - (i - 1)]
      BY <1>4, <2>1
    <3>2. high[1] = stored[i + 1]
      BY <1>3, <2>1
    <3>3. i \in DOMAIN rows
      BY <1>4, <2>1
    <3>4. i + 1 \in 1..n
      BY <2>1
    <3> QED
      BY <2>1, <3>1, <3>2, <3>3, <3>4
  <2> PICK told : told = EventsOf(rows)
    OBVIOUS
  <2> PICK f, g : f = FoldedTo(trace, i) /\ g = FoldedTo(told, i - 1)
    OBVIOUS
  <2>3. rows[i].before = <<seed, f>>
    <3>1. stored[i + 1].before = <<seed, FoldedTo(trace, (i + 1) - 1)>> /\ (i + 1) - 1 = i
      BY <2>2 DEF Recorded
    <3> QED
      BY <2>2, <3>1
  <2>4. rows[i].before = <<seed, g>>
    BY <2>2 DEF Verified
  <2>5. f = g
    BY <2>3, <2>4
  <2>6. DOMAIN f = 1..i /\ DOMAIN g = 1..(i - 1)
    BY DEF FoldedTo
  <2>7. i \in 1..i /\ i \notin 1..(i - 1)
    OBVIOUS
  <2> QED
    BY <2>5, <2>6, <2>7
<1> QED
  BY <1>5, <1>6

LEMMA DamageIsFound ==
    ASSUME IsTrace(trace), NEW seed, NEW n \in Nat, n = Len(trace), Recorded(seed, n),
           NEW i \in 1..n,
           NEW kind \in {"edited", "argument", "removed", "swapped", "copied", "cut"},
           kind = "swapped" => i < n,
           stored' = Damaged(kind, i), Verified(seed, stored')
    PROVE  IsPrefix(EventsOf(stored'), trace)
<1> PICK S : trace \in Seq(S)
  BY DEF IsTrace
<1>0. DOMAIN stored = 1..n /\ Len(stored) = n
  BY DEF Recorded
<1>1. CASE kind \in {"edited", "argument"}
  <2>1. stored' \in {[stored EXCEPT ![i].event.ids = {"other"}],
                     [stored EXCEPT ![i].event.arguments = [query |-> "other"]]}
    BY <1>1 DEF Damaged
  <2> QED
    BY <2>1, EditedRow
<1>2. CASE kind = "removed"
  BY <1>2, RemovedRow DEF Damaged
<1>3. CASE kind = "swapped"
  <2> PICK low, high : low = Renumbered(stored[i + 1], i) /\ high = Renumbered(stored[i], i + 1)
    OBVIOUS
  <2>1. stored' = [stored EXCEPT ![i] = low, ![i + 1] = high]
    BY <1>3 DEF Damaged
  <2>2. i + 1 \in 1..n /\ i + 1 # i /\ i \in Nat
    BY <1>3
  <2>3. stored'[i] = low /\ i \in DOMAIN stored'
    BY <1>0, <2>1, <2>2
  <2> QED
    BY <2>2, <2>3, MovedIsFound
<1>4. CASE kind = "copied"
  <2> PICK k \in Nat : k = n + 1
    OBVIOUS
  <2> PICK more : more = Renumbered(stored[i], k)
    OBVIOUS
  <2>1. stored' = Append(stored, more)
    BY <1>0, <1>4 DEF Damaged
  <2>2. stored'[k] = more /\ k \in DOMAIN stored' /\ k # i
    <3> PICK T : T = {stored[j] : j \in 1..n} \cup {more}
      OBVIOUS
    <3>1. stored \in Seq(T)
      <4>1. \A j \in 1..n : stored[j] \in T
        OBVIOUS
      <4>2. stored = [j \in 1..n |-> stored[j]]
        BY DEF Recorded
      <4> QED
        BY <4>1, <4>2, Listed
    <3> QED
      BY <1>0, <2>1, <3>1
  <2> QED
    BY <2>2, MovedIsFound
<1>5. CASE kind = "cut"
  <2> PICK T : T = {stored[j] : j \in 1..n}
    OBVIOUS
  <2> PICK m \in Nat : m = i - 1
    OBVIOUS
  <2>1. stored' = SubSeq(stored, 1, m)
    BY <1>5 DEF Damaged
  <2>2. m <= n /\ \A j \in 1..m : j \in 1..n /\ stored[j] \in T
    OBVIOUS
  <2>3. DOMAIN stored' = 1..m /\ \A j \in 1..m : stored'[j] = stored[j]
    BY <2>1, <2>2, SubSeqProperties
  <2>4. ASSUME NEW j \in 1..m PROVE stored'[j].event = trace[j]
    <3>1. stored'[j] = stored[j] /\ j \in 1..n
      BY <2>2, <2>3
    <3>2. stored[j].event = trace[j]
      BY <3>1 DEF Recorded
    <3> QED
      BY <3>1, <3>2
  <2> QED
    BY <2>2, <2>3, <2>4, FirstEvents
<1> QED
  BY <1>1, <1>2, <1>3, <1>4, <1>5

TraceInv ==
    /\ input \in CaseInputs
    /\ IsTrace(trace)
    /\ damage # None => stage = "ENDED"
    /\ damage = "intact" => stored = Chained(case.id, trace)
    /\ VerifiedIsRecorded

LEMMA TraceInitial == PipeInit => TraceInv
<1> SUFFICES ASSUME PipeInit PROVE TraceInv
  OBVIOUS
<1>1. /\ input \in CaseInputs /\ damage = None /\ None # "intact"
  BY PipeAssumption DEF PipeInit, PipeAssumption
<1>2. <<>> \in Seq({}) /\ Len(<<>>) = 0 /\ trace = <<>>
  BY DEF PipeInit
<1>3. IsTrace(trace)
  BY <1>2 DEF IsTrace
<1> QED
  BY <1>1, <1>3 DEF TraceInv, VerifiedIsRecorded

LEMMA TraceKept ==
    ASSUME TraceInv, UNCHANGED <<input, stage, trace, stored, damage>>
    PROVE  TraceInv'
BY DEF TraceInv, VerifiedIsRecorded, case

LEMMA TraceSteps == TraceInv /\ [PipeNext]_pipeVars => TraceInv'
<1> SUFFICES ASSUME TraceInv, [PipeNext]_pipeVars
             PROVE  TraceInv'
  OBVIOUS
<1> PICK id : id = case.id
  OBVIOUS
<1>0. /\ input \in CaseInputs /\ IsTrace(trace)
      /\ damage # None => stage = "ENDED"
      /\ damage = "intact" => stored = Chained(id, trace)
  BY DEF TraceInv
<1> PICK S : trace \in Seq(S)
  BY <1>0 DEF IsTrace
<1> PICK n \in Nat : n = Len(trace)
  OBVIOUS
<1>1. CASE Step
  <2>1. UNCHANGED <<input, damage, stored>>
    BY <1>1 DEF Step, CreateCase, Blocked, Investigate, Validate, Resolve, Guard, Authorise,
       Reconcile, SendToReview, Complete, Terminate, Close, Passes, after
  <2>2. stage # "ENDED"
    BY <1>1 DEF Step, CreateCase, Blocked, Investigate, Validate, Resolve, Guard, Authorise,
       Reconcile, SendToReview, Complete, Terminate, Close, Passes
  <2>3. damage = None /\ None # "intact"
    BY <1>0, <2>2, PipeAssumption DEF PipeAssumption
  <2>4. IsTrace(trace')
    BY <1>0, <1>1, StepTrace
  <2> QED
    BY <1>0, <2>1, <2>3, <2>4 DEF TraceInv, VerifiedIsRecorded
<1>2. ASSUME NEW action \in Actions, Propose(action) \/ Observe(action)
      PROVE  TraceInv'
  BY <1>2, TraceKept DEF Propose, Observe, after
<1>3. CASE Store
  <2> PICK rows : rows = Chained(id, trace)
    OBVIOUS
  <2>1. /\ stored' = rows /\ damage' = "intact" /\ stage' = "ENDED"
        /\ input' = input /\ trace' = trace /\ case' = case
    BY <1>3 DEF Store, case
  <2>2. EventsOf(rows) = trace /\ Verified(id, rows)
    BY ChainedVerifies
  <2>3. IsPrefix(trace, trace)
    BY DEF IsPrefix
  <2>4. VerifiedIsRecorded'
    BY <2>1, <2>2, <2>3 DEF VerifiedIsRecorded
  <2> QED
    BY <1>0, <2>1, <2>4 DEF TraceInv
<1>4. ASSUME NEW i \in Spots,
             NEW kind \in {"edited", "argument", "removed", "swapped", "copied", "cut"},
             Damage(kind, i)
      PROVE  TraceInv'
  <2>1. /\ stored' = Damaged(kind, i) /\ damage' = kind /\ stage' = stage /\ damage = "intact"
        /\ input' = input /\ trace' = trace /\ case' = case
    BY <1>4 DEF Damage, case
  <2>2. damage # None /\ stored = Chained(id, trace)
    BY <1>0, <2>1, PipeAssumption DEF PipeAssumption
  <2>3. Recorded(id, n)
    BY <1>0, <2>2, StoredIsRecorded
  <2>4. i \in 1..n /\ (kind = "swapped" => i < n)
    BY <1>4, <2>3 DEF Damage, Recorded
  <2>5. Verified(id, stored') => IsPrefix(EventsOf(stored'), trace)
    BY <1>0, <2>1, <2>3, <2>4, DamageIsFound
  <2>6. kind # "intact"
    OBVIOUS
  <2>7. VerifiedIsRecorded'
    BY <2>1, <2>5, <2>6 DEF VerifiedIsRecorded
  <2> QED
    BY <1>0, <2>1, <2>2, <2>6, <2>7 DEF TraceInv
<1>5. CASE UNCHANGED pipeVars
  BY <1>5, TraceKept DEF pipeVars, after
<1> QED
  BY <1>1, <1>2, <1>3, <1>4, <1>5 DEF PipeNext

-----------------------------------------------------------------------------
(* The theorems.                                                           *)

\* However a run goes, its status, its termination, its decision and its
\* review agree: a decision that requires a human has a pending review, unless
\* the budget blocked the run (workflow.py, state_machine.py).
THEOREM EndIsProperAlways == PipeSpec => []EndsProperly
BY PipeInvariant, EndIsProper, PTL

\* A denial without a human rests on a registered order, on a sound source that
\* speaks of a minor fault, and on assessments that do not contradict each
\* other (authorise.py, resolve.py, validate.py).
THEOREM DenialIsSoundAlways == PipeSpec => []DenialIsSound
BY PipeInvariant, DenialSound, PTL

\* The findings of the injection scan and the relevance score never change a
\* decision (guardrails.py, retrieval_scoring.py, resolve.py).
THEOREM AdviceIsIgnoredAlways == PipeSpec => []AdvisoryOnly
BY PipeInvariant, AdviceIgnored, PTL

\* A settled claim about the fault cites admitted evidence, a contradicted one
\* the candidates by the words of their texts, and the summary is grounded
\* (resolve.py, guardrails.py).
THEOREM FaultIsCitedAlways == PipeSpec => []FaultIsCited
BY PipeInvariant, FaultCitedHere, PTL

\* A run has records of its supervisor, of the agent whose calls the budget
\* counts and of the child of every handoff, blocked or not (agents.py, budget.py).
THEOREM AgentsAreAccountedForAlways == PipeSpec => []AgentsAccountedFor
BY PipeInvariant, AgentsAreAccountedFor, PTL

\* Nothing irreversible ever runs on the word of the pipeline
\* (authority_enforcement.py).
THEOREM NoRefundEverRuns == PipeSpec => []NoRefundRuns
<1>1. PipeInv => NoRefundRuns
  BY DEF PipeInv, NoRefundRuns
<1> QED  BY <1>1, PipeInvariant, PTL

\* A trace verifies as it was recorded; and whatever single accident befalls
\* its rows, wherever, what still verifies is what was recorded up to where
\* it was cut (trace.py:89-114).
THEOREM VerifiedIsRecordedAlways == PipeSpec => []VerifiedIsRecorded
<1>1. TraceInv => VerifiedIsRecorded
  BY DEF TraceInv
<1> QED
  BY <1>1, TraceInitial, TraceSteps, PTL DEF PipeSpec
===========================================================================
