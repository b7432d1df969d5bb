SPECIFICATION Spec
CONSTANT Requests <- MCRequests
INVARIANTS CasesWhole ReadinessMonotone EscalationMonotone EnginesAgainstValidators MarginVerdictSound 
CHECK_DEADLOCK FALSE
