SPECIFICATION Spec
CONSTANTS
    c1 = c1
    c2 = c2
    o1 = o1
    ObjectId = {o1}
    Client = {c1, c2}
    Plane = {"risk", "compliance"}
    ObjectType = {"risk_control", "asset"}
    MaxVersion = 3
    ActionType = {"delete_all", "production_release", "state_transition"}
    BlockedAction = {"delete_all"}
    RequiredOrigins <- MCRequiredOrigins
    Submission <- MCSubmission
    MaxSubmitted = 2
INVARIANTS
    DispatchesLogged
    BilledOncePerRelease
    VersionsLinear
    IndicesFindObjects
CHECK_DEADLOCK FALSE
