SPECIFICATION Spec
CONSTANTS
    w1 = w1
    w2 = w2
    Worker = {w1, w2}
    Profile = {"startup_default"}
    Risk = {"high"}
    NumApprovers = 1
    Offered = {"build_result", "jira_ticket"}
    MaxSubmissions = 2
    MaxExceptions = 0
INVARIANTS
    ApprovedHadEvidence
