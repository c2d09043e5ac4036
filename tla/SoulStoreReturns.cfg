SPECIFICATION FairSpec
CONSTANTS
    Agents = {1}
    Keys = {1, 2}
    Values = {v1}
    Subscribers = {s1, s2}
    Readers = {s1, NoReader}
    Conns = {c1, c2}
    Limits = {1}
    Mortal = {}
    Watchable <- SoulRows
    SoulScope = SoulScope
    NoReader = NoReader
    Absent = Absent
PROPERTIES
    EveryCallReturns
    ImplementsBoard
