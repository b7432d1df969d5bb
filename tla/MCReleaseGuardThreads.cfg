SPECIFICATION Spec
CONSTANTS
    w1 = w1
    w2 = w2
    Worker = {w1, w2}
    Profile = {"startup_default", "regulated_default"}
    Risk = {"medium", "high"}
    NumApprovers = 1
    Offered = {"build_result", "jira_ticket", "security_scan"}
    MaxSubmissions = 2
    MaxExceptions = 1
INVARIANTS
    ApprovedByAPerson
    
