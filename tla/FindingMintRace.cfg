SPECIFICATION Spec
CONSTANTS
    Ids = {i1, i2}
    Identities = {a}
    Missing = Missing
    Requests = {r1, r2}
    Workers = {w1, w2, w3}
    Nothing = Nothing
    Hazards = {"overlap", "restart"}
INVARIANTS
    PostsAreServed
