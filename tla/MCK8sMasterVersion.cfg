SPECIFICATION Spec
CONSTANTS
    Releases = {v1, v2}
    Etcds = {e1}
    None = none
    MaxEvents = 2
INVARIANTS
    RunsConfiguredVersion
CHECK_DEADLOCK FALSE
