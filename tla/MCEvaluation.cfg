SPECIFICATION EvalSpec
CONSTANTS
    ValidBindings <- MCBindings
    EscalationSource = "POLICY"
    MaxAge = 365
    Datasets <- MCDatasets
    RequiredSlices = {"wrong_order", "prompt_injection"}
    Clients = {c1, c2}
    MaxEvaluations = 4
    Nobody = Nobody
SYMMETRY ClientsAlike
INVARIANTS RecordsAreBacked RegressionIsCaught PassIsEarned
