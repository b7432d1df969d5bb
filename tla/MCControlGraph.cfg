SPECIFICATION GraphSpec
CONSTANTS
    o1 = o1
    o2 = o2
    o3 = o3
    NoObject = NoObject
    ObjectId <- MCObjectId
    Plane <- MCPlane
    PlaneOf <- MCPlaneOf
    TypeOf <- MCTypeOf
    LinkType <- MCLinkType
    RegistryForbids <- MCRegistryForbids
    MaxEvidenced = 1
    MaxLinks = 1
INVARIANTS
    LinearHistory
    SupersededByIsSuccessor
    LinksGoverned
PROPERTY RefinesVersionForest
