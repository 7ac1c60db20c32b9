SPECIFICATION FairSpec
CONSTANTS
    c1 = c1
    c2 = c2
    w1 = w1
    w2 = w2
    Containers = {c1, c2}
    Labelled = {c1}
    Workers = {w1, w2}
    Interval = 2
    MaxRuns = 2
    MaxStats = 2
    MaxEvents = 1
    DockerFaults = TRUE
CHECK_DEADLOCK FALSE
INVARIANTS
    TypeOK
    OneMonitorPerContainer
PROPERTIES
    FirstRunsReported
