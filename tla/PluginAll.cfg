SPECIFICATION Spec
CONSTANTS
    a = a
    b = b
    Agents <- Agents2
    Keys = {"k"}
    Values = {v1}
    SoulScope = SoulScope
    Absent = Absent
    None = None
    Entities <- FourInstances
    Default <- Root
    Identities <- ThreeIdentities
    Counts = {0, 2}
    Cap = 1
    SessionIds = {s1}
    Requests = {r1}
    Processes = {p1}
    Watchable <- FewWishes
    Missable <- NoRow
INVARIANTS
    TypeOK
    SubscribedAsAsked
    ListingIsBetween
    IInv
PROPERTIES
    ToolsActForTheirSession
    OnlyToolsResolve
    BatchWithinCount
