SPECIFICATION Spec
CONSTANTS
    Ids = {i1}
    Identities = {a}
    Missing = Missing
    Requests = {r1, r2, r3}
    Workers = {w1, w2, w3}
    Nothing = Nothing
    Hazards = {"overlap", "close", "cancel", "fail", "idle", "restart"}
INVARIANTS
    TypeOK
    EveryEntryHasAnOwner
    IInv
SYMMETRY Symmetry
