SPECIFICATION FairSpec
CONSTANTS
    Ids = {i1, i2}
    Identities = {a, b}
    Missing = Missing
    Requests = {r1, r2}
    Workers = {w1, w2, w3}
    Nothing = Nothing
    Hazards = {"idle", "restart"}
INVARIANTS
    LiveSessionsAreKnown
    OneWorkerPerId
    RequestsKeepTheirWorker
PROPERTIES
    IdentityIsPinned
    ImplementsTable
    DeadHandlesGo
