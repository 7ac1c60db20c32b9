SPECIFICATION Spec
CONSTANTS
    mesos = mesos
    restcomm = restcomm
    app1 = app1
    app2 = app2
    s1 = s1
    s2 = s2
    Handlers = {mesos}
    Apps = {app1, app2}
    Slots = {s1, s2}
    Loads = {30, 90}
    ScaleUp = 60
    ScaleDown = 50
    ScaleDelay = 1
    IgnoreList = {app2}
    Redeployed = {}
    MaxInstances = 3
    Crashes = TRUE
    MarathonFaults = TRUE
    RedisFaults = TRUE
SYMMETRY SlotSymmetry
INVARIANTS
    VerdictBacked
PROPERTIES PutIsOneStep
