SPECIFICATION Spec
CONSTANTS
    SourceObject <- MCSource
    TargetObject <- MCTarget
    Kind <- MCKind
    Domain <- MCDomain
    Key <- MCKey
    Ref <- MCRef
    LinkType <- MCLinkType
    Graph <- MCGraph
    Edit <- MCEdit
    Request <- MCRequest
    MaxRuns = 2
INVARIANTS
    ObjectsAccounted
    ContradictedNotMatched
    AmbiguityReported
\* a behaviour ends when its runs are used up
CHECK_DEADLOCK FALSE
