SPECIFICATION Spec
CONSTANTS
    Jobs <- MCJobs
    Blockers = {"customer_access", "third_party_dependency"}
    MaxBlockers = 2
INVARIANTS HealthyMeansSettled EnginesAgree
PROPERTY SettlingOnlyUncovers
CHECK_DEADLOCK FALSE
