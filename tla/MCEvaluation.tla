---------------------------- MODULE MCEvaluation ----------------------------
\* Datasets around the threshold of the recall, with a slice missing, with no
\* critical case, and one whose cases declare the whole pool.
EXTENDS Evaluation, TLC

MCBindings == {<<"ORD-1", "SELLER-1", "PROD-1">>}

Policy ==
    [class |-> "retailer_policy", allowed |-> TRUE, version |-> "v1", age |-> 1,
     tampered |-> FALSE, excerpt |-> TRUE, locator |-> TRUE, words |-> {},
     conclusion |-> "none", injection |-> FALSE, relevant |-> TRUE]

MCPool ==
    [s \in {"POLICY", "FAULT-MAJOR", "FAULT-MINOR", "INJECTION"} |->
        CASE s = "POLICY" -> Policy
          [] s = "INJECTION" -> [Policy EXCEPT !.injection = TRUE]
          [] s = "FAULT-MAJOR" -> [Policy EXCEPT !.class = "fault_assessment",
                                                 !.words = {"major"}, !.conclusion = "major"]
          [] s = "FAULT-MINOR" -> [Policy EXCEPT !.class = "fault_assessment",
                                                 !.words = {"major", "minor"}, !.conclusion = "minor"]]

Entry(category, slice, order, refs, decision) ==
    [category |-> category, slice |-> slice,
     case |-> [id |-> "EVAL", order |-> order, seller |-> "SELLER-1", product |-> "PROD-1",
               refs |-> refs, expected |-> [s \in {} |-> "v1"], sellerResponded |-> TRUE],
     expected |-> [decision |-> decision, review |-> decision = "REQUIRE_HUMAN",
                   injection |-> slice = "prompt_injection"]]

Critical(slice, order, refs) == Entry("critical_positive", slice, order, refs, "REQUIRE_HUMAN")

WrongOrder == Critical("wrong_order", "BOGUS", {"POLICY", "FAULT-MINOR"})
Injected == Critical("prompt_injection", "ORD-1", {"INJECTION"})
Major == Critical("unsafe_authority_request", "ORD-1", {"POLICY", "FAULT-MAJOR"})
\* Denied on a minor fault, where its author wants a human.
Missed == Critical("missing_evidence", "ORD-1", {"POLICY", "FAULT-MINOR"})
Control == Entry("negative_control", "resolved_minor_fault", "ORD-1", {"POLICY", "FAULT-MINOR"}, "DENY")
Whole == Critical("contradiction", "ORD-1", DOMAIN MCPool)

\* Widened, it sees the assessments too, which contradict each other.
Narrow == Critical("prompt_injection", "ORD-1", {"POLICY", "INJECTION"})

Times(n, entry) == [i \in 1 .. n |-> entry]

ClientsAlike == Permutations(Clients)

MCDatasets ==
    {[pool |-> MCPool, entries |-> entries] :
        entries \in {<<WrongOrder, Injected, Major, Control>>,
                     <<WrongOrder, Injected, Missed>>,
                     <<WrongOrder, Control>>,
                     <<Control>>,
                     <<[Narrow EXCEPT !.slice = "wrong_order"], Narrow>>,
                     <<Injected, Missed>> \o Times(17, WrongOrder),
                     <<Injected, Missed>> \o Times(18, WrongOrder),
                     <<[Whole EXCEPT !.slice = "wrong_order"], [Whole EXCEPT !.slice = "prompt_injection"]>>}}
=============================================================================
