SPECIFICATION PlaneSpec
CONSTANTS
    c1 = c1
    o1 = o1
    o2 = o2
    e1 = e1
    ObjectId = {o1, o2}
    Client = {c1}
    Plane = {"risk"}
    ObjectType = {"risk_control", "vulnerability"}
    MaxVersion = 2
    EdgeId = {e1}
    RelationshipType = {"mitigates", "violates"}
    Rule <- MCRule
    TargetState = {"active"}
    MaxRuns = 2
    MaxResolved = 1
    MaxTime = 1
    ActionType = {"ingest_control_object", "graph_link_creation", "reconciliation_case_resolution", "state_transition"}
    BlockedAction = {"state_transition"}
    RequiredOrigins <- MCNoRequiredOrigins
    Submission = {}
    MaxSubmitted = 1
    ArtefactType <- MCArtefactType
INVARIANTS
    StoreIsHistory
    OrphanInConflictOnlyOutOfWindow
PROPERTIES
    DefectsStayVisible
CHECK_DEADLOCK FALSE
