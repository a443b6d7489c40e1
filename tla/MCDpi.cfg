CONSTANTS
    Rules = {r1, r2, r3}
    Groups = {g1, g2}
    Members = {m1}
    OldConfigs <- MCOldConfigs
    MaxKills = 1
    MaxWritten = 1
SYMMETRY MCSymmetry
SPECIFICATION Spec
INVARIANTS
    TypeOK
    EvaluatedAsListed
    GroupsExist
    ManagedEmitted
PROPERTIES
    OrderKept
    ExemptionsShield
CHECK_DEADLOCK FALSE
