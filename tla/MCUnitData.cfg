SPECIFICATION Spec
CONSTANTS
    k1 = k1
    k2 = k2
    v1 = v1
    v2 = v2
    Keys = {k1, k2}
    Values = {v1, v2}
    Ranged = {k1}
    EnvKey = k2
    Absent = Absent
    Deleted = Deleted
    Pattern = Pattern
    MaxHooks = 2
SYMMETRY Symmetry
CHECK_DEADLOCK FALSE
INVARIANTS
    TypeOK
    HistoryTellsStore
PROPERTIES
    OldVersionsStand
    AbstractSpec
