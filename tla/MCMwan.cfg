CONSTANTS
    Ifaces = {w1, w2}
    Weights = {1}
    Policies = {p1, p2}
    Rules = {default, r1}
    DefaultRule = default
    NoPolicy = NoPolicy
    MaxMetric = 3
    MaxList = 2
SYMMETRY MCSymmetry
SPECIFICATION Spec
INVARIANTS
    MembersExist
    RulesHavePolicy
    DistinctMetrics
    CleanedUp
CHECK_DEADLOCK FALSE
