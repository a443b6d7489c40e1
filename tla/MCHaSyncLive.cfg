CONSTANTS
    Parts = {p1}
    Files = {f1}
    Chains = {c1}
    Nothing = Nothing
    ExportDies = TRUE
    MaxVersion = 2
    MaxFaults = 1
SPECIFICATION FairSpec
PROPERTIES
    Converges
