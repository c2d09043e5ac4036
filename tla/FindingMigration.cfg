SPECIFICATION Spec
CONSTANTS
    Commands = {c1}
    Daemons = {d1}
    Launchers = {l1}
    Statements <- Migration
    Nobody = Nobody
INVARIANT ConnectsIfReachable
CHECK_DEADLOCK FALSE
