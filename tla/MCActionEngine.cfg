SPECIFICATION Spec
CONSTANTS
    o1 = o1
    o2 = o2
    p1 = p1
    w1 = w1
    w2 = w2
    NoObject = NoObject
    NoProposal = NoProposal
    ObjectId = {o1, o2}
    ProposalId = {p1}
    Worker = {w1, w2}
    Plane <- MCPlane
    PlaneOf <- MCPlaneOf
    TypeOf <- MCTypeOf
    LinkType <- MCLinkType
    RegistryForbids <- MCRegistryForbids
    Confident <- MCConfident
    MaxEvidenced = 2
    MaxLinks = 1
    MaxReleases = 2
SYMMETRY MCSymmetry
INVARIANTS
    ReleaseJustified
    AuditGapIsKnown
 
