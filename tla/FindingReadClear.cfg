SPECIFICATION FairSpec
CONSTANTS
    Agents = {1}
    Keys = {1}
    Values = {v1}
    Subscribers = {s1}
    Readers = {s1}
    Conns = {c1, c2}
    Limits = {}
    Mortal = {}
    Watchable <- EveryRow
    SoulScope = SoulScope
    NoReader = NoReader
    Absent = Absent
PROPERTIES
    ResolvedMeansInformed
