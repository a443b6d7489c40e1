CONSTANTS
    HostSets = {h1, h2}
    Leaves = {l1}
    Addresses = {a1, a2}
    Rules = {rule1}
    Redirects = {redirect1, redirect2}
    NoObject = NoObject
    MaxContent = 2
SYMMETRY MCSymmetry
SPECIFICATION Spec
INVARIANTS
    Acyclic
    NoDangling
    FirewallFresh
PROPERTIES
    NeverOpened
CHECK_DEADLOCK FALSE
