SPECIFICATION FairSpec
CONSTANTS
    Units = {u1, u2}
    Loads = {20, 90}
    ScaleUp = 70
    ScaleDown = 30
INVARIANTS
    TypeOK
    KeepsAUnit
    OneAtATime
    FreshEvidence
PROPERTIES
    OverloadIsAnswered
