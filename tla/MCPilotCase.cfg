SPECIFICATION Spec
CONSTANTS
    Case = {c1}
    MaxTimeline = 9
    MaxDecisions = 1
INVARIANTS
    DecidedAfterValidation
    DecisionsAccounted
    ReportShowsGravest
