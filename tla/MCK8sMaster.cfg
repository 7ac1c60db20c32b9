SPECIFICATION FairSpec
CONSTANTS
    Releases = {v1, v2}
    Etcds = {e1, e2}
    None = none
    MaxEvents = 3
INVARIANTS
    TypeOK
    InstalledIsConfigured
    ServedIsRendered
PROPERTIES
    HooksEnd
CHECK_DEADLOCK FALSE
