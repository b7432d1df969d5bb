SPECIFICATION Spec
CONSTANTS
    w1 = w1
    w2 = w2
    Worker = {w1}
    Profile = {"startup_default", "strict"}
    Risk = {"low", "high"}
    NumApprovers = 2
    Offered = {"build_result", "jira_ticket", "security_scan", "rollback_plan"}
    MaxSubmissions = 2
    MaxExceptions = 1
INVARIANTS
    ApprovedHadEvidence
    ApprovalQuorum
    RejectionBlocks
    TrailGapIsKnown
