SPECIFICATION Spec
CONSTANTS
    ExceptionId = {"x1", "x2"}
    MaxTime = 2
    MaxDecisions = 2
    ActionType = {"exception_request"}
    BlockedAction = {}
    RequiredOrigins <- MCNoRequiredOrigins
    Submission = {}
    MaxSubmitted = 3
INVARIANTS
    ApprovalsReviewed
    InForceIsReviewed
CHECK_DEADLOCK FALSE
