CONSTANTS
    Parts = {p1, p2}
    Files = {f1}
    Chains = {c1}
    Nothing = Nothing
    ExportDies = FALSE
    MaxVersion = 2
    MaxFaults = 1
SYMMETRY PartSymmetry
SPECIFICATION Spec
INVARIANTS
    AppliedAsSent
PROPERTIES
    ImplementsReplica
