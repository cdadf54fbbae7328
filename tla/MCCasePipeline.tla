--------------------------- MODULE MCCasePipeline ---------------------------
\* Cases over the retailer's policy and two fault assessments: one with every
\* single defect validation looks for, one sound, inadmissible or absent.  A
\* policy may mention minor faults.
EXTENDS CasePipeline

MCBindings == {<<"ORD-1", "SELLER-1", "PROD-1">>, <<"ORD-2", "SELLER-2", "PROD-2">>}

Policy ==
    [class |-> "retailer_policy", allowed |-> TRUE, version |-> "v1", age |-> 1,
     tampered |-> FALSE, excerpt |-> TRUE, locator |-> TRUE, words |-> {},
     conclusion |-> "none", injection |-> FALSE, relevant |-> TRUE]

\* The texts that find a fault minor say it is "not a major failure".
Assessment(conclusion) ==
    [Policy EXCEPT !.class = "fault_assessment", !.conclusion = conclusion,
                   !.words = IF conclusion = "major" THEN {"major"} ELSE {"major", "minor"}]

Defective(source) ==
    {[source EXCEPT !.allowed = FALSE], [source EXCEPT !.version = "v0"],
     [source EXCEPT !.age = 366], [source EXCEPT !.tampered = TRUE],
     [source EXCEPT !.locator = FALSE], [source EXCEPT !.excerpt = FALSE, !.words = {}]}

Advised(source) ==
    {[source EXCEPT !.injection = TRUE], [source EXCEPT !.relevant = FALSE],
     [source EXCEPT !.age = 365]}

Sound == {Assessment("major"), Assessment("minor")}

FirstAssessments == UNION {{a} \cup Defective(a) \cup Advised(a) : a \in Sound}

SecondAssessments == UNION {{a, [a EXCEPT !.tampered = TRUE]} : a \in Sound}

MCCase(order, seller, product, refs) ==
    [id |-> "CASE", order |-> order, seller |-> seller, product |-> product, refs |-> refs,
     expected |-> [s \in {"FAULT-A"} |-> "v1"], sellerResponded |-> TRUE]

MCCases ==
    {MCCase(order, "SELLER-1", "PROD-1", refs) :
        order \in {"ORD-1", "ORD-2", "BOGUS"},
        refs \in {{"POLICY", "FAULT-A"}, {"POLICY", "FAULT-A", "FAULT-B"}, {"FAULT-A"}}}

Pool(p, a, b) ==
    [s \in {"POLICY", "FAULT-A", "FAULT-B"} |->
        CASE s = "POLICY" -> p [] s = "FAULT-A" -> a [] s = "FAULT-B" -> b]

MCPools ==
    {Pool(Policy, a, b) : a \in FirstAssessments, b \in SecondAssessments}
    \cup {Pool([Policy EXCEPT !.words = {"minor"}], a, b) : a \in SecondAssessments, b \in Sound}

MCInputs == {[case |-> c, pool |-> p] : c \in MCCases, p \in MCPools}
=============================================================================
