SPECIFICATION Spec
CONSTANTS
    mesos = mesos
    restcomm = restcomm
    app1 = app1
    app2 = app2
    s1 = s1
    s2 = s2
    Handlers = {mesos, restcomm}
    Apps = {app1}
    Slots = {s1}
    Loads = {5, 90}
    ScaleUp = 60
    ScaleDown = 10
    ScaleDelay = 1
    IgnoreList = {}
    Redeployed = {app1}
    MaxInstances = 3
    Crashes = TRUE
    MarathonFaults = TRUE
    RedisFaults = FALSE
SYMMETRY HandlerSymmetry
INVARIANTS
    TypeOK
    SettledAppRuns
    OncePerDelay
