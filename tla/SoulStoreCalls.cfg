SPECIFICATION Spec
CONSTANTS
    Agents = {1}
    Keys = {1, 2}
    Values = {v1}
    Subscribers = {s1, s2}
    Readers = {s1}
    Conns = {c1, c2}
    Limits = {1, 2}
    Mortal = {c1, c2}
    Watchable <- FewRows
    SoulScope = SoulScope
    NoReader = NoReader
    Absent = Absent
INVARIANTS
    TypeOK
    NoLossOutsideWindows
    NoPhantomNotification
    ClaimsAreExclusive
    BatchWithinLimit
    DeadlocksNeedTwoKeysOfOneSoul
    ClaimsLoseNothing
    IInv
PROPERTIES
    RemainingNeverUndercounts
    ImplementsCalls
SYMMETRY ConnSymmetry
