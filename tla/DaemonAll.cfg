SPECIFICATION Spec
CONSTANTS
    Commands = {c1}
    Daemons = {d1, d2}
    Launchers = {l1}
    Statements <- Migration
    Nobody = Nobody
INVARIANTS
    TypeOK
    ConnectedFindsTheSchema
    OneServer
    AnnouncedServes
    IInv
PROPERTIES
    LaunchersAreAnswered
    ImplementsService
CHECK_DEADLOCK FALSE
