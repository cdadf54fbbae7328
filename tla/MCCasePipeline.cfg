SPECIFICATION PipeSpec
CONSTANTS
    ValidBindings <- MCBindings
    EscalationSource = "POLICY"
    MaxAge = 365
    CaseInputs <- MCInputs
    Budgets = {0, 10}
    Actions = {"AUTO_REFUND", "ESCALATE_FOR_REFUND"}
    Spots = {2, 3, 14}
    None = None
INVARIANTS EndsProperly DenialIsSound AdvisoryOnly FaultIsCited
    AgentsAccountedFor NoRefundRuns VerifiedIsRecorded
PROPERTY PipelineEnds
CHECK_DEADLOCK FALSE
