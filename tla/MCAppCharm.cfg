SPECIFICATION DeployedSpec
CONSTANTS
    Hosts = {h1}
    Rests = {r1, r2}
    Confs = {c1, c2}
    Empty = empty
    App = app
    MaxEvents = 3
INVARIANTS
    TypeOK
    SettledIsCurrent
PROPERTIES
    RedeploysAsTheScalerAssumes
    HooksEnd
CHECK_DEADLOCK FALSE
